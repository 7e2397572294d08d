--------------------------- MODULE DeviceWork_proofs ---------------------------
(***************************************************************************)
(* What DeviceWork promises of the parts of a device, for every value of   *)
(* their constants: one invariant for each part, kept by its steps and     *)
(* left alone by the steps of the others.                                  *)
(***************************************************************************)
EXTENDS DeviceWork, Sequences, NumberFacts, TLAPS

\* A step of the device is a step of one part, or leaves that part alone.
LEMMA StepOfAPart ==
  ASSUME [DeviceNext]_deviceVars
  PROVE  /\ [Restore!Next]_restoreVars /\ [Deletion!Next]_deletionVars
         /\ [Email!Next]_emailVars /\ [Bridge!Next]_bridgeVars /\ [Cloud!Next]_cloudVars
         /\ [Access!Next]_accessVars /\ [Expenses!Next]_expenseVars /\ [Order!Next]_orderVars
BY DEF DeviceNext, deviceVars

-----------------------------------------------------------------------------
(* AgentBridge.                                                            *)

BridgeStates == {"none", "queued", "over", "checked", "works", "asks", "denied", "done"}
BridgeMessages ==
  [r : Bridge!Commands, conn : {0} \union Bridge!Conns, says : {"do", "done", "denied"}]

\* The values of the bridge's variables that its invariants tell apart.
BridgeTypeOK ==
  /\ clients \subseteq Bridge!Conns
  /\ chosen \in {0} \union Bridge!Conns
  /\ waiting \in [Bridge!Commands -> {0} \union Bridge!Conns]
  /\ link \in [Bridge!Conns -> [tab : Tabs \union {"none"}, alive : BOOLEAN,
                                proof : {"none", "asked", "checked", "done", "late"}]]
  /\ wire \subseteq BridgeMessages
  /\ socket \in [Tabs -> {0} \union Bridge!Conns]
  /\ asked \in [Tabs -> {0} \union Bridge!Commands]
  /\ run \in [Bridge!Commands -> [at : BridgeStates, conn : {0} \union Bridge!Conns]]
  /\ approved \subseteq Bridge!Commands

\* The command that a question to the user is about is open, or it was sensitive.
OnlyApprovedWork ==
  \A r \in Sensitive : run[r].at \in {"works", "done"} => r \in approved

\* The chosen connection has a session, or was taken in when it was gone; and if none
\* is chosen, none has a session.
ChosenHasSession ==
  /\ chosen # 0 => (chosen \in clients /\ Bridge!Proved(chosen)) \/ chosen \in Bridge!Late
  /\ chosen = 0 => \A c \in clients : ~Bridge!Proved(c)

\* A connection whose socket lives is known to the bridge, and one that was taken in
\* when it was gone is not.
LiveIsKnown ==
  /\ \A c \in Bridge!Conns : link[c].alive => c \in clients
  /\ \A c \in Bridge!Conns : link[c].proof = "late" => c \notin clients
  /\ \A c \in Bridge!Conns \ Bridge!Made : link[c].proof = "none"

\* A command is waited for where it can be answered or seen to fail.
WaitedWhereKnown == \A r \in Bridge!Commands : waiting[r] # 0 => waiting[r] \in clients

BridgeInv ==
  BridgeTypeOK /\ OnlyApprovedWork /\ ChosenHasSession /\ LiveIsKnown /\ WaitedWhereKnown

\* The first of the connections with a session.
LEMMA ElectedIsFirst ==
  ASSUME NEW cs \in SUBSET Bridge!Conns
  PROVE  /\ Bridge!Elected(cs) # 0 => Bridge!Elected(cs) \in cs /\ Bridge!Proved(Bridge!Elected(cs))
         /\ Bridge!Elected(cs) = 0 => \A c \in cs : ~Bridge!Proved(c)
<1> DEFINE able == {c \in cs : Bridge!Proved(c)}
<1>1. CASE able = {}
  BY <1>1 DEF Bridge!Elected
<1>2. CASE able # {}
  <2>1. able \in SUBSET Nat /\ 0 \notin able
    <3>1. \A c \in Bridge!Conns : c \in Nat /\ c # 0
      BY BridgeAssumption DEF Bridge!Conns, Bridge!ConstantsAssumption
    <3> QED BY <3>1
  <2>2. Bridge!Elected(cs) = Min(able)
    BY <1>2 DEF Bridge!Elected, Bridge!Min, Min
  <2>3. Min(able) \in able
    BY <1>2, <2>1, NaturalMin
  <2> QED
    BY <2>1, <2>2, <2>3
<1> QED
  BY <1>1, <1>2

\* Initially nothing is connected and no command was given.
LEMMA BridgeInitially ==
  ASSUME Bridge!Init PROVE BridgeInv
BY BridgeAssumption DEF Bridge!Init, BridgeInv, BridgeTypeOK, OnlyApprovedWork, ChosenHasSession, Bridge!Late,
  LiveIsKnown, WaitedWhereKnown, BridgeStates, Bridge!Made, Bridge!Proved, Bridge!ConstantsAssumption,
  Bridge!Commands


\* A connection is made.
LEMMA BridgeConnects ==
  ASSUME BridgeInv, NEW t \in Tabs, NEW proof \in {"asked", "done"}, Bridge!Connects(t, proof),
         UNCHANGED <<waiting, answers, wire, queue, busy, asked, run, approved>>
  PROVE  BridgeInv'
<1>1. PICK c \in Bridge!Conns \ Bridge!Made :
        /\ socket' = [socket EXCEPT ![t] = c]
        /\ link' = [link EXCEPT ![c] = [tab |-> t, alive |-> TRUE, proof |-> proof]]
        /\ clients' = clients \union {c}
        /\ chosen' = IF chosen = 0 /\ proof = "done" THEN c ELSE chosen
  BY DEF Bridge!Connects
<1>2. BridgeTypeOK'
  BY <1>1 DEF BridgeInv, BridgeTypeOK
<1>3. OnlyApprovedWork'
  BY DEF BridgeInv, OnlyApprovedWork
<1>4. \A d \in Bridge!Conns : link'[d] = IF d = c THEN [tab |-> t, alive |-> TRUE, proof |-> proof]
                                         ELSE link[d]
  BY <1>1 DEF BridgeInv, BridgeTypeOK
<1>5. c # 0
  BY <1>1, BridgeAssumption DEF Bridge!Conns, Bridge!ConstantsAssumption
<1>6. ChosenHasSession'
  BY <1>1, <1>4, <1>5 DEF BridgeInv, BridgeTypeOK, ChosenHasSession, Bridge!Late, LiveIsKnown, Bridge!Proved, Bridge!Made
<1>7. LiveIsKnown'
  BY <1>1, <1>4, BridgeAssumption DEF BridgeInv, LiveIsKnown, Bridge!Made, Bridge!ConstantsAssumption
<1>8. WaitedWhereKnown'
  BY <1>1 DEF BridgeInv, WaitedWhereKnown
<1> QED
  BY <1>2, <1>3, <1>6, <1>7, <1>8 DEF BridgeInv

\* What a step that leaves the connections alone has to show.
LEMMA CommandsMove ==
  ASSUME BridgeInv, UNCHANGED <<clients, chosen, link, socket>>,
         BridgeTypeOK', OnlyApprovedWork', WaitedWhereKnown'
  PROVE  BridgeInv'
BY DEF BridgeInv, ChosenHasSession, Bridge!Late, LiveIsKnown, Bridge!Proved, Bridge!Made

\* The state of one command in its tab changes.
LEMMA RunMoves ==
  ASSUME BridgeTypeOK, NEW r, NEW at \in BridgeStates, run' = [run EXCEPT ![r].at = at]
  PROVE  /\ run' \in [Bridge!Commands -> [at : BridgeStates, conn : {0} \union Bridge!Conns]]
         /\ \A s \in Bridge!Commands : run'[s].at = IF s = r THEN at ELSE run[s].at
BY DEF BridgeTypeOK

\* A question that is withdrawn starts no command.
LEMMA WithdrawnStartsNone ==
  ASSUME BridgeInv, NEW t
  PROVE  /\ Bridge!Withdrawn(t) \in
              [Bridge!Commands -> [at : BridgeStates, conn : {0} \union Bridge!Conns]]
         /\ \A s \in Bridge!Commands :
              Bridge!Withdrawn(t)[s].at = run[s].at \/ Bridge!Withdrawn(t)[s].at = "denied"
BY DEF Bridge!Withdrawn, BridgeInv, BridgeTypeOK, BridgeStates

\* The commands of the bridge are those of the assumption on the sensitive ones.
LEMMA SensitiveCommands == Sensitive \subseteq Bridge!Commands
BY BridgeAssumption DEF Bridge!ConstantsAssumption, Bridge!Commands

\* A socket closes: with a proof under verification it does not.
LEMMA SocketDies ==
  ASSUME BridgeInv, NEW c \in Bridge!Conns, Bridge!Dies(c), UNCHANGED <<clients, chosen>>
  PROVE  /\ link' \in [Bridge!Conns -> [tab : Tabs \union {"none"}, alive : BOOLEAN,
                                        proof : {"none", "asked", "checked", "done", "late"}]]
         /\ wire' \subseteq BridgeMessages
         /\ ChosenHasSession' /\ LiveIsKnown'
<1>1. \A d \in Bridge!Conns :
        /\ link'[d].tab = link[d].tab /\ link'[d].proof = link[d].proof
        /\ link'[d].alive = (link[d].alive /\ d # c)
  BY DEF Bridge!Dies, BridgeInv, BridgeTypeOK
<1>3. link' \in [Bridge!Conns -> [tab : Tabs \union {"none"}, alive : BOOLEAN,
                                  proof : {"none", "asked", "checked", "done", "late"}]]
  BY DEF Bridge!Dies, BridgeInv, BridgeTypeOK
<1>4. wire' \subseteq BridgeMessages
  BY DEF Bridge!Dies, BridgeInv, BridgeTypeOK
<1>5. ChosenHasSession'
  BY <1>1 DEF BridgeInv, BridgeTypeOK, ChosenHasSession, Bridge!Late, Bridge!Proved, Bridge!Made
<1>6. LiveIsKnown'
  BY <1>1 DEF BridgeInv, LiveIsKnown, Bridge!Made
<1> QED
  BY <1>3, <1>4, <1>5, <1>6

\* The steps of the connections.
LEMMA BridgeConnectionStep ==
  ASSUME BridgeInv,
         \/ \E t \in Tabs : \/ Bridge!Pair(t) \/ Bridge!Resume(t) \/ Bridge!Reconnect(t)
                            \/ Bridge!Closed(t) \/ Bridge!Leave(t)
         \/ \E c \in Bridge!Made : \/ Bridge!Prove(c) \/ Bridge!Verified(c)
                                   \/ Bridge!Drop(c) \/ Bridge!Disconnected(c)
         \/ Bridge!RevokeAll
  PROVE  BridgeInv'
<1>1. CASE \E t \in Tabs : Bridge!Pair(t) \/ Bridge!Resume(t) \/ Bridge!Reconnect(t)
  BY <1>1, BridgeConnects DEF Bridge!Pair, Bridge!Resume, Bridge!Reconnect, Bridge!tabVars
<1>2. ASSUME NEW t \in Tabs, Bridge!Closed(t) PROVE BridgeInv'
  <2>1. /\ UNCHANGED <<clients, chosen, waiting, link, wire, approved>>
        /\ socket' = [socket EXCEPT ![t] = 0] /\ asked' = [asked EXCEPT ![t] = 0]
        /\ run' = Bridge!Withdrawn(t)
    BY <1>2 DEF Bridge!Closed, Bridge!bridgeVars
  <2>2. BridgeTypeOK'
    BY <2>1, WithdrawnStartsNone DEF BridgeInv, BridgeTypeOK
  <2>3. OnlyApprovedWork'
    BY <2>1, WithdrawnStartsNone, SensitiveCommands DEF BridgeInv, OnlyApprovedWork
  <2> QED
    BY <2>1, <2>2, <2>3 DEF BridgeInv, ChosenHasSession, Bridge!Late, LiveIsKnown, WaitedWhereKnown,
      Bridge!Proved, Bridge!Made
<1>3. ASSUME NEW t \in Tabs, Bridge!Leave(t) PROVE BridgeInv'
  <2>1. /\ UNCHANGED <<clients, chosen, waiting, approved>>
        /\ socket' = [socket EXCEPT ![t] = 0] /\ asked' = [asked EXCEPT ![t] = 0]
        /\ run' = Bridge!Withdrawn(t) /\ Bridge!Dies(socket[t]) /\ socket[t] \in Bridge!Conns
    BY <1>3 DEF Bridge!Leave, BridgeInv, BridgeTypeOK
  <2>2. BridgeTypeOK'
    BY <2>1, WithdrawnStartsNone, SocketDies DEF BridgeInv, BridgeTypeOK
  <2>3. OnlyApprovedWork'
    BY <2>1, WithdrawnStartsNone, SensitiveCommands DEF BridgeInv, OnlyApprovedWork
  <2> QED
    BY <2>1, <2>2, <2>3, SocketDies DEF BridgeInv, WaitedWhereKnown
<1>4. ASSUME NEW c \in Bridge!Made, Bridge!Prove(c) PROVE BridgeInv'
  <2>1. /\ UNCHANGED <<clients, chosen, waiting, wire, socket, asked, run, approved>>
        /\ c \in clients /\ link[c].alive /\ link[c].proof = "asked"
    BY <1>4 DEF Bridge!Prove, Bridge!bridgeVars, Bridge!tabVars
  <2>2. \A d \in Bridge!Conns :
          /\ link'[d].tab = link[d].tab
          /\ link'[d].alive => link[d].alive
          /\ link'[d].proof = "late" <=> link[d].proof = "late"
          /\ link'[d].proof = "done" <=> link[d].proof = "done"
          /\ d \notin Bridge!Made => link'[d].proof = link[d].proof
    BY <1>4, <2>1 DEF Bridge!Prove, BridgeInv, BridgeTypeOK, LiveIsKnown
  <2>3. BridgeTypeOK'
    BY <1>4, <2>1 DEF Bridge!Prove, BridgeInv, BridgeTypeOK
  <2>4. ChosenHasSession' /\ LiveIsKnown'
    BY <2>1, <2>2 DEF BridgeInv, BridgeTypeOK, ChosenHasSession, Bridge!Late, LiveIsKnown, Bridge!Proved,
      Bridge!Made
  <2> QED
    BY <2>1, <2>3, <2>4 DEF BridgeInv, OnlyApprovedWork, WaitedWhereKnown
<1>5. ASSUME NEW c \in Bridge!Made, Bridge!Verified(c) PROVE BridgeInv'
  <2>1. /\ UNCHANGED <<clients, waiting, wire, socket, asked, run, approved>>
        /\ c # 0 /\ c \in Bridge!Made
        /\ chosen' = IF chosen = 0 THEN c ELSE chosen
    BY <1>5, BridgeAssumption DEF Bridge!Verified, Bridge!tabVars, Bridge!Made,
      Bridge!ConstantsAssumption, Bridge!Conns
  <2>2. \A d \in Bridge!Conns : /\ link'[d].tab = link[d].tab
                                /\ link'[d].alive = link[d].alive
                                /\ link'[d].proof =
                                     IF d # c THEN link[d].proof
                                     ELSE IF c \in clients THEN "done" ELSE "late"
    BY <1>5 DEF Bridge!Verified, BridgeInv, BridgeTypeOK
  <2>3. BridgeTypeOK'
    BY <1>5, <2>1 DEF Bridge!Verified, BridgeInv, BridgeTypeOK, Bridge!Made
  <2>4. ChosenHasSession' /\ LiveIsKnown'
    BY <2>1, <2>2 DEF BridgeInv, BridgeTypeOK, ChosenHasSession, Bridge!Late, LiveIsKnown, Bridge!Proved,
      Bridge!Made
  <2> QED
    BY <2>1, <2>3, <2>4 DEF BridgeInv, OnlyApprovedWork, WaitedWhereKnown
<1>6. ASSUME NEW c \in Bridge!Made, Bridge!Drop(c) PROVE BridgeInv'
  <2>1. /\ UNCHANGED <<clients, chosen, waiting, socket, asked, run, approved>>
        /\ Bridge!Dies(c) /\ c \in Bridge!Conns
    BY <1>6 DEF Bridge!Drop, Bridge!bridgeVars, Bridge!tabVars, Bridge!Made
  <2>2. BridgeTypeOK'
    BY <2>1, SocketDies DEF BridgeInv, BridgeTypeOK
  <2> QED
    BY <2>1, <2>2, SocketDies DEF BridgeInv, OnlyApprovedWork, WaitedWhereKnown
<1>7. ASSUME NEW c \in Bridge!Made, Bridge!Disconnected(c) PROVE BridgeInv'
  <2>1. /\ UNCHANGED <<link, wire, socket, asked, run, approved>>
        /\ ~link[c].alive /\ clients' = clients \ {c}
        /\ chosen' = IF chosen = c THEN Bridge!Elected(clients') ELSE chosen
        /\ waiting' = [r \in Bridge!Commands |-> IF waiting[r] = c THEN 0 ELSE waiting[r]]
    BY <1>7 DEF Bridge!Disconnected, Bridge!tabVars
  <2>2. clients' \in SUBSET Bridge!Conns
    BY <2>1 DEF BridgeInv, BridgeTypeOK
  <2>3. /\ Bridge!Elected(clients') # 0 =>
             Bridge!Elected(clients') \in clients' /\ Bridge!Proved(Bridge!Elected(clients'))
        /\ Bridge!Elected(clients') = 0 => \A d \in clients' : ~Bridge!Proved(d)
    BY <2>2, ElectedIsFirst
  <2>4. ChosenHasSession'
    BY <2>1, <2>3 DEF BridgeInv, ChosenHasSession, Bridge!Late, Bridge!Proved, Bridge!Made
  <2>5. BridgeTypeOK'
    BY <2>1, <2>2, <2>3 DEF BridgeInv, BridgeTypeOK
  <2>6. LiveIsKnown'
    BY <2>1 DEF BridgeInv, LiveIsKnown, Bridge!Made
  <2> QED
    BY <2>1, <2>4, <2>5, <2>6 DEF BridgeInv, BridgeTypeOK, OnlyApprovedWork, WaitedWhereKnown
<1>8. ASSUME Bridge!RevokeAll PROVE BridgeInv'
  <2>1. /\ UNCHANGED <<clients, chosen, socket, asked, run, approved>>
        /\ waiting' = [r \in Bridge!Commands |-> 0] /\ wire' = {}
        /\ link' = [c \in Bridge!Conns |-> [link[c] EXCEPT !.alive = FALSE]]
    BY <1>8 DEF Bridge!RevokeAll, Bridge!tabVars
  <2>2. BridgeTypeOK'
    BY <2>1 DEF BridgeInv, BridgeTypeOK
  <2>3. \A c \in Bridge!Conns : /\ link'[c].tab = link[c].tab /\ link'[c].proof = link[c].proof
                                /\ ~link'[c].alive
    BY <2>1 DEF BridgeInv, BridgeTypeOK
  <2> QED
    BY <2>1, <2>2, <2>3 DEF BridgeInv, BridgeTypeOK, ChosenHasSession, Bridge!Late, LiveIsKnown,
      OnlyApprovedWork, WaitedWhereKnown, Bridge!Proved, Bridge!Made
<1> QED
  BY <1>1, <1>2, <1>3, <1>4, <1>5, <1>6, <1>7, <1>8

\* The steps of the commands.
LEMMA BridgeCommandStep ==
  ASSUME BridgeInv,
         \/ \E r \in Bridge!Commands : \/ Bridge!Dispatch(r) \/ Bridge!TimeOut(r)
                                       \/ Bridge!Vouch(r) \/ Bridge!Ask(r) \/ Bridge!Finish(r)
         \/ \E m \in wire : Bridge!Receive(m) \/ Bridge!Answer(m)
         \/ \E t \in Tabs : \/ Bridge!Start(t) \/ Bridge!Slow(t)
                            \/ \E yes \in BOOLEAN : Bridge!Decide(t, yes)
  PROVE  BridgeInv'
<1>1. ASSUME NEW r \in Bridge!Commands, Bridge!Dispatch(r) PROVE BridgeInv'
  <2>1. /\ UNCHANGED <<clients, chosen, link, socket, asked, run, approved>>
        /\ wire' \subseteq wire \union {[r |-> r, conn |-> chosen, says |-> "do"]}
        /\ \/ waiting' = waiting
           \/ chosen \in clients /\ waiting' = [waiting EXCEPT ![r] = chosen]
    BY <1>1 DEF Bridge!Dispatch, Bridge!tabVars
  <2>2. [r |-> r, conn |-> chosen, says |-> "do"] \in BridgeMessages
    BY DEF BridgeInv, BridgeTypeOK, BridgeMessages
  <2>3. BridgeTypeOK'
    BY <2>1, <2>2 DEF BridgeInv, BridgeTypeOK
  <2>4. WaitedWhereKnown'
    BY <2>1 DEF BridgeInv, BridgeTypeOK, WaitedWhereKnown
  <2> QED
    BY <2>1, <2>3, <2>4, CommandsMove DEF BridgeInv, OnlyApprovedWork
<1>2. ASSUME NEW r \in Bridge!Commands, Bridge!TimeOut(r) PROVE BridgeInv'
  <2>1. /\ UNCHANGED <<clients, chosen, link, wire, socket, asked, run, approved>>
        /\ waiting' = [waiting EXCEPT ![r] = 0]
    BY <1>2 DEF Bridge!TimeOut, Bridge!tabVars
  <2>2. BridgeTypeOK'
    BY <2>1 DEF BridgeInv, BridgeTypeOK
  <2>3. WaitedWhereKnown'
    BY <2>1 DEF BridgeInv, BridgeTypeOK, WaitedWhereKnown
  <2> QED
    BY <2>1, <2>2, <2>3, CommandsMove DEF BridgeInv, OnlyApprovedWork
<1>3. ASSUME NEW r \in Bridge!Commands, Bridge!Vouch(r) PROVE BridgeInv'
  <2>1. /\ UNCHANGED <<clients, chosen, waiting, link, wire, socket, asked>>
        /\ run' = [run EXCEPT ![r].at = "works"] /\ approved' = approved \union {r}
    BY <1>3 DEF Bridge!Vouch, Bridge!bridgeVars
  <2>2. /\ run' \in [Bridge!Commands -> [at : BridgeStates, conn : {0} \union Bridge!Conns]]
        /\ \A s \in Bridge!Commands : run'[s].at = IF s = r THEN "works" ELSE run[s].at
    BY <2>1, RunMoves DEF BridgeInv, BridgeStates
  <2>3. BridgeTypeOK'
    BY <2>1, <2>2 DEF BridgeInv, BridgeTypeOK
  <2>4. OnlyApprovedWork'
    BY <2>1, <2>2, SensitiveCommands DEF BridgeInv, OnlyApprovedWork
  <2> QED
    BY <2>1, <2>3, <2>4, CommandsMove DEF BridgeInv, WaitedWhereKnown
<1>4. ASSUME NEW r \in Bridge!Commands, Bridge!Ask(r) PROVE BridgeInv'
  <2> DEFINE t == Bridge!TabOf(r)
  <2>1. /\ UNCHANGED <<clients, chosen, waiting, link, wire, socket, approved>>
        /\ run' = [Bridge!Withdrawn(t) EXCEPT ![r].at = "asks"]
        /\ asked' = [asked EXCEPT ![t] = r]
    BY <1>4 DEF Bridge!Ask, Bridge!bridgeVars
  <2> HIDE DEF t
  <2>2. run' \in [Bridge!Commands -> [at : BridgeStates, conn : {0} \union Bridge!Conns]]
    BY <2>1, WithdrawnStartsNone DEF BridgeStates
  <2>3. \A s \in Bridge!Commands :
          run'[s].at \in {"works", "done"} => run[s].at \in {"works", "done"}
    BY <2>1, WithdrawnStartsNone
  <2>4. BridgeTypeOK'
    BY <2>1, <2>2 DEF BridgeInv, BridgeTypeOK
  <2>5. OnlyApprovedWork'
    BY <2>1, <2>3, SensitiveCommands DEF BridgeInv, OnlyApprovedWork
  <2> QED
    BY <2>1, <2>4, <2>5, CommandsMove DEF BridgeInv, WaitedWhereKnown
<1>5. ASSUME NEW r \in Bridge!Commands, Bridge!Finish(r) PROVE BridgeInv'
  <2> DEFINE at == IF run[r].at = "works" THEN "done" ELSE "over"
             sent == [r |-> r, conn |-> run[r].conn,
                      says |-> IF run[r].at = "works" THEN "done" ELSE "denied"]
  <2>1. /\ UNCHANGED <<clients, chosen, waiting, link, socket, asked, approved>>
        /\ run[r].at \in {"works", "denied"}
        /\ run' = [run EXCEPT ![r].at = at]
        /\ wire' \subseteq wire \union {sent}
    BY <1>5 DEF Bridge!Finish, Bridge!bridgeVars
  <2>2. at \in BridgeStates
    BY DEF BridgeStates
  <2>3. sent \in BridgeMessages
    BY DEF BridgeInv, BridgeTypeOK, BridgeMessages
  <2>4. at = "done" => run[r].at = "works"
    OBVIOUS
  <2> HIDE DEF at, sent
  <2>5. /\ run' \in [Bridge!Commands -> [at : BridgeStates, conn : {0} \union Bridge!Conns]]
        /\ \A s \in Bridge!Commands : run'[s].at = IF s = r THEN at ELSE run[s].at
    BY <2>1, <2>2, RunMoves DEF BridgeInv
  <2>6. BridgeTypeOK'
    BY <2>1, <2>3, <2>5 DEF BridgeInv, BridgeTypeOK
  <2>7. at # "works"
    BY DEF at
  <2>8. OnlyApprovedWork'
    BY <2>1, <2>4, <2>5, <2>7, SensitiveCommands DEF BridgeInv, OnlyApprovedWork
  <2> QED
    BY <2>1, <2>6, <2>8, CommandsMove DEF BridgeInv, WaitedWhereKnown
<1>6. ASSUME NEW m \in wire, Bridge!Receive(m) PROVE BridgeInv'
  <2>1. /\ UNCHANGED <<clients, chosen, waiting, link, socket, asked, approved>>
        /\ run' = [run EXCEPT ![m.r] = [at |-> "queued", conn |-> m.conn]]
        /\ wire' \subseteq wire
    BY <1>6 DEF Bridge!Receive, Bridge!bridgeVars
  <2>2. [at |-> "queued", conn |-> m.conn] \in [at : BridgeStates, conn : {0} \union Bridge!Conns]
    BY DEF BridgeInv, BridgeTypeOK, BridgeMessages, BridgeStates
  <2>3. BridgeTypeOK'
    BY <2>1, <2>2 DEF BridgeInv, BridgeTypeOK
  <2>4. OnlyApprovedWork'
    BY <2>1, SensitiveCommands DEF BridgeInv, BridgeTypeOK, OnlyApprovedWork
  <2> QED
    BY <2>1, <2>3, <2>4, CommandsMove DEF BridgeInv, WaitedWhereKnown
<1>7. ASSUME NEW m \in wire, Bridge!Answer(m) PROVE BridgeInv'
  <2>1. /\ UNCHANGED <<clients, chosen, link, socket, asked, run, approved>>
        /\ wire' \subseteq wire
        /\ waiting' = waiting \/ waiting' = [waiting EXCEPT ![m.r] = 0]
    BY <1>7 DEF Bridge!Answer, Bridge!tabVars
  <2>2. BridgeTypeOK'
    BY <2>1 DEF BridgeInv, BridgeTypeOK
  <2>3. WaitedWhereKnown'
    BY <2>1 DEF BridgeInv, BridgeTypeOK, WaitedWhereKnown
  <2> QED
    BY <2>1, <2>2, <2>3, CommandsMove DEF BridgeInv, OnlyApprovedWork
<1>8. ASSUME NEW t \in Tabs, Bridge!Start(t) PROVE BridgeInv'
  <2> DEFINE r == Head(queue[t])
             starts == socket[t] = run[r].conn /\ link[socket[t]].alive
             at == IF ~starts THEN "over" ELSE IF r \in Sensitive THEN "checked" ELSE "works"
  <2>1. /\ at \in {"over", "checked", "works"}
        /\ r \in Sensitive => at # "works"
        /\ run' = [run EXCEPT ![r].at = at]
    BY <1>8 DEF Bridge!Start
  <2> HIDE DEF r, at
  <2>2. UNCHANGED <<clients, chosen, waiting, link, wire, socket, asked, approved>>
    BY <1>8 DEF Bridge!Start, Bridge!bridgeVars
  <2>3. /\ run' \in [Bridge!Commands -> [at : BridgeStates, conn : {0} \union Bridge!Conns]]
        /\ \A s \in Bridge!Commands : run'[s].at = IF s = r THEN at ELSE run[s].at
    <3>1. at \in BridgeStates
      BY <2>1 DEF BridgeStates
    <3> QED
      BY <2>1, <3>1, RunMoves DEF BridgeInv
  <2>4. BridgeTypeOK'
    BY <2>2, <2>3 DEF BridgeInv, BridgeTypeOK
  <2>5. OnlyApprovedWork'
    BY <2>1, <2>2, <2>3, SensitiveCommands DEF BridgeInv, OnlyApprovedWork
  <2> QED
    BY <2>2, <2>4, <2>5, CommandsMove DEF BridgeInv, WaitedWhereKnown
<1>9. ASSUME NEW t \in Tabs, Bridge!Slow(t) PROVE BridgeInv'
  <2>1. UNCHANGED <<clients, chosen, waiting, link, wire, socket, asked, run, approved>>
    BY <1>9 DEF Bridge!Slow, Bridge!bridgeVars
  <2> QED
    BY <2>1, CommandsMove DEF BridgeInv, BridgeTypeOK, OnlyApprovedWork, WaitedWhereKnown
<1>10. ASSUME NEW t \in Tabs, NEW yes \in BOOLEAN, Bridge!Decide(t, yes) PROVE BridgeInv'
  <2> DEFINE at == IF yes THEN "works" ELSE "denied"
  <2>1. /\ UNCHANGED <<clients, chosen, waiting, link, wire, socket>>
        /\ asked[t] # 0 /\ asked' = [asked EXCEPT ![t] = 0]
        /\ approved' = IF yes THEN approved \union {asked[t]} ELSE approved
        /\ run' = [r \in Bridge!Commands |-> IF r = asked[t] THEN [run[r] EXCEPT !.at = at]
                                             ELSE run[r]]
    BY <1>10, Zenon DEF Bridge!Decide, Bridge!bridgeVars, Bridge!Asking
  <2>2. at \in BridgeStates /\ (at = "works" => yes) /\ at # "done"
    BY DEF BridgeStates
  <2> HIDE DEF at
  <2>3. /\ run' \in [Bridge!Commands -> [at : BridgeStates, conn : {0} \union Bridge!Conns]]
        /\ \A s \in Bridge!Commands : run'[s].at = IF s = asked[t] THEN at ELSE run[s].at
    BY <2>1, <2>2 DEF BridgeInv, BridgeTypeOK
  <2>4. BridgeTypeOK'
    BY <2>1, <2>3 DEF BridgeInv, BridgeTypeOK
  <2>5. OnlyApprovedWork'
    BY <2>1, <2>2, <2>3, SensitiveCommands DEF BridgeInv, OnlyApprovedWork
  <2> QED
    BY <2>1, <2>4, <2>5, CommandsMove DEF BridgeInv, WaitedWhereKnown
<1> QED
  BY <1>1, <1>2, <1>3, <1>4, <1>5, <1>6, <1>7, <1>8, <1>9, <1>10

\* The invariant of the bridge holds, whatever part of the device moves.
LEMMA BridgeAlways == DeviceSpec => []BridgeInv
<1>1. DeviceInit => BridgeInv
  BY BridgeInitially DEF DeviceInit
<1>2. BridgeInv /\ [DeviceNext]_deviceVars => BridgeInv'
  <2> SUFFICES ASSUME BridgeInv, [DeviceNext]_deviceVars PROVE BridgeInv'
    OBVIOUS
  <2>1. CASE Bridge!Next
    BY <2>1, BridgeConnectionStep, BridgeCommandStep DEF Bridge!Next
  <2>2. CASE UNCHANGED bridgeVars
    BY <2>2 DEF bridgeVars, BridgeInv, BridgeTypeOK, OnlyApprovedWork, ChosenHasSession, Bridge!Late,
      LiveIsKnown, WaitedWhereKnown, Bridge!Proved, Bridge!Made
  <2> QED
    BY <2>1, <2>2, StepOfAPart
<1> QED
  BY <1>1, <1>2, PTL DEF DeviceSpec

\* AgentBridge.OnlyApprovedIsDone, for every number of tabs, connections and commands.
THEOREM ApprovalSafety == DeviceSpec => []OnlyApprovedIsDone
<1>1. BridgeInv => OnlyApprovedIsDone
  BY DEF BridgeInv, OnlyApprovedWork, OnlyApprovedIsDone, Bridge!OnlyApprovedIsDone
<1> QED
  BY <1>1, BridgeAlways, PTL

\* AgentBridge.CommandsFindATab, for every number of tabs, connections and commands.
THEOREM CommandsSafety == DeviceSpec => []CommandsFindATab
<1>1. BridgeInv => CommandsFindATab
  BY DEF BridgeInv, ChosenHasSession, Bridge!Late, WaitedWhereKnown, CommandsFindATab, Bridge!CommandsFindATab
<1> QED
  BY <1>1, BridgeAlways, PTL

-----------------------------------------------------------------------------
(* CloudConnection.                                                        *)

CloudKeys == Keys \union {None}
CloudTries ==
  [key : CloudKeys, at : {"none", "connecting", "on", "off", "refused"}, retry : BOOLEAN]
CloudRecoveries ==
  [key : CloudKeys, count : Nat, timer : BOOLEAN, late : BOOLEAN, run : Nat, woke : BOOLEAN]
CloudApps ==
  [attempt : {0} \union Cloud!Tries, provider : {0} \union Cloud!Tries, connected : BOOLEAN,
   connecting : BOOLEAN, blocked : CloudKeys, last : CloudKeys, rec : CloudRecoveries,
   cut : BOOLEAN]

\* The values of the connection's variables.
CloudTypeOK ==
  /\ wanted \in CloudKeys /\ view \in CloudKeys /\ eligible \in BOOLEAN
  /\ try \in [Cloud!Tries -> CloudTries]
  /\ app \in CloudApps /\ app.rec.run # Cloud!Now

\* The connection that counts is under way, with the store's provider unless a logout
\* has cut it off; without one the provider has come to its end, and is on if the
\* tab says so, unless it was cut off.
AttemptIsProvider ==
  /\ app.connecting => app.attempt # 0
  /\ app.attempt # 0 => /\ \/ app.provider = app.attempt /\ app.connecting
                           \/ app.provider = 0 /\ app.cut
                        /\ try[app.attempt].at \in {"connecting", "refused"}
                        /\ try[app.attempt].key # None
  /\ app.attempt = 0 /\ app.provider # 0 =>
       try[app.provider].at \notin {"connecting", "refused"}
  /\ app.attempt = 0 /\ app.connected /\ ~app.cut =>
       app.provider # 0 /\ try[app.provider].at = "on"

\* It is for the selection that the effect last ran for, if that is not blocked.
AttemptIsViewed ==
  app.attempt # 0 => view = try[app.attempt].key \/ view = app.blocked

\* A retry that counts is the one the recovery waits for, without a timer.
RetryIsAlone ==
  app.attempt # 0 /\ try[app.attempt].retry /\ app.rec.key = try[app.attempt].key
    => app.rec.run = app.attempt /\ ~app.rec.timer

CloudInv ==
  CloudTypeOK /\ AttemptIsProvider /\ AttemptIsViewed /\ RetryIsAlone

\* The numbers of the connections are those below that of a retry just started.
LEMMA CloudNumbers ==
  /\ Recoveries \in Nat /\ MaxTries \in Nat /\ None \notin Keys
  /\ Cloud!Tries = 1..MaxTries /\ Cloud!Now = MaxTries + 1
BY CloudAssumption DEF Cloud!ConstantsAssumption, Cloud!Tries, Cloud!Now

\* What the functions of a recovery leave alone.
LEMMA ScheduledKeeps ==
  ASSUME NEW r \in CloudRecoveries
  PROVE  /\ Cloud!Scheduled(r) \in CloudRecoveries
         /\ Cloud!Scheduled(r).key = r.key /\ Cloud!Scheduled(r).run = r.run
         /\ Cloud!Scheduled(r).timer => r.timer \/ r.run = 0
BY DEF Cloud!Scheduled, CloudRecoveries

\* A recovery stays well-formed when what it runs for ends.
LEMMA RunEndsKeeps ==
  ASSUME NEW r \in CloudRecoveries, NEW n
  PROVE  /\ Cloud!RunEnds(r, n) \in CloudRecoveries
         /\ Cloud!RunEnds(r, n).key = r.key
         /\ r.run # n => Cloud!RunEnds(r, n) = r
         /\ r.run = n => Cloud!RunEnds(r, n).run = 0
<1>1. CASE r.run = n
  <2> DEFINE q == [r EXCEPT !.run = 0]
  <2>1. q \in CloudRecoveries /\ q.key = r.key /\ q.run = 0
    BY DEF CloudRecoveries
  <2>2. Cloud!RunEnds(r, n) = Cloud!Scheduled(q)
    BY <1>1 DEF Cloud!RunEnds
  <2> HIDE DEF q
  <2> QED
    BY <1>1, <2>1, <2>2, ScheduledKeeps
<1>2. CASE r.run # n
  BY <1>2 DEF Cloud!RunEnds
<1> QED
  BY <1>1, <1>2

\* Without a recovery nothing is to be retried.
LEMMA NoRecoveryKeeps ==
  /\ Cloud!NoRecovery \in CloudRecoveries
  /\ Cloud!NoRecovery.key = None /\ Cloud!NoRecovery.run = 0 /\ ~Cloud!NoRecovery.timer
BY DEF Cloud!NoRecovery, CloudRecoveries, CloudKeys

\* Initially nothing is connected.
LEMMA CloudInitially == ASSUME Cloud!Init PROVE CloudInv
<1>1. /\ app.attempt = 0 /\ app.provider = 0
      /\ app.connected = FALSE /\ app.connecting = FALSE
      /\ app.rec = Cloud!NoRecovery /\ app \in CloudApps
  BY NoRecoveryKeeps DEF Cloud!Init, CloudApps, CloudKeys
<1>2. app.rec.run # Cloud!Now
  BY <1>1, CloudNumbers, NoRecoveryKeeps
<1>3. /\ \A n \in Cloud!Tries : try[n].at = "none"
      /\ try \in [Cloud!Tries -> CloudTries]
      /\ wanted \in CloudKeys /\ view \in CloudKeys /\ eligible \in BOOLEAN
  BY DEF Cloud!Init, CloudTries, CloudKeys
<1>4. CloudTypeOK
  BY <1>1, <1>2, <1>3 DEF CloudTypeOK
<1>5. AttemptIsProvider /\ AttemptIsViewed /\ RetryIsAlone
  BY <1>1 DEF AttemptIsProvider, AttemptIsViewed, RetryIsAlone
<1> QED
  BY <1>4, <1>5 DEF CloudInv

\* A connection that is dropped is one that was on.
LEMMA DroppedIsOff ==
  ASSUME CloudTypeOK, NEW p
  PROVE  /\ Cloud!Dropped(try, p) \in [Cloud!Tries -> CloudTries]
         /\ \A n \in Cloud!Tries :
              /\ Cloud!Dropped(try, p)[n].key = try[n].key
              /\ Cloud!Dropped(try, p)[n].retry = try[n].retry
              /\ \/ Cloud!Dropped(try, p)[n].at = try[n].at
                 \/ n = p /\ try[n].at = "on" /\ Cloud!Dropped(try, p)[n].at = "off"
BY DEF Cloud!Dropped, CloudTypeOK, CloudTries

\* The effect or a retry connects to what it sees, with the recovery r.
LEMMA CloudConnects ==
  ASSUME CloudInv, NEW k \in CloudKeys, NEW r \in CloudRecoveries, Cloud!Connects(k, r),
         view' = k, wanted' \in CloudKeys, eligible' \in BOOLEAN,
         r.key = app.rec.key, ~r.timer,
         \/ r.run = app.rec.run
         \/ /\ r.run = Cloud!Now
            /\ app.attempt # 0 /\ try[app.attempt].retry => r.key # try[app.attempt].key
  PROVE  CloudInv'
<1>1. CASE Cloud!Settles(k)
  <2>1. k # None /\ Cloud!Runs(k) /\ try' = try
    BY <1>1 DEF Cloud!Settles
  <2>2. app.attempt = 0 /\ app.provider # 0 /\ try[app.provider].at = "on"
    BY <2>1 DEF Cloud!Runs, CloudInv, AttemptIsProvider
  <2>3. /\ app'.attempt = 0 /\ app'.provider = app.provider /\ app'.connecting = app.connecting
        /\ app'.rec = Cloud!NoRecovery /\ app' \in CloudApps /\ app'.cut = app.cut
    BY <1>1, <2>2, NoRecoveryKeeps DEF Cloud!Settles, CloudInv, CloudTypeOK, CloudApps, CloudKeys
  <2> QED
    <3>1. CloudTypeOK'
      BY <2>1, <2>3, NoRecoveryKeeps, CloudNumbers DEF CloudInv, CloudTypeOK
    <3>2. AttemptIsProvider' /\ AttemptIsViewed' /\ RetryIsAlone'
      BY <2>1, <2>2, <2>3 DEF CloudInv, AttemptIsProvider, AttemptIsViewed, RetryIsAlone
    <3> QED
      BY <3>1, <3>2 DEF CloudInv
<1>2. CASE Cloud!SignsOff(k)
  <2>1. k = None /\ try' = Cloud!Dropped(try, app.provider)
    BY <1>2 DEF Cloud!SignsOff
  <2>2. /\ app'.attempt = 0 /\ app'.provider = 0 /\ app'.connecting = FALSE
        /\ app'.connected = FALSE /\ app'.rec = Cloud!NoRecovery /\ app' \in CloudApps
    BY <1>2, NoRecoveryKeeps DEF Cloud!SignsOff, CloudInv, CloudTypeOK, CloudApps, CloudKeys
  <2> QED
    <3>1. CloudTypeOK'
      BY <2>1, <2>2, NoRecoveryKeeps, CloudNumbers, DroppedIsOff DEF CloudInv, CloudTypeOK
    <3>2. AttemptIsProvider' /\ AttemptIsViewed' /\ RetryIsAlone'
      BY <2>1, <2>2 DEF AttemptIsProvider, AttemptIsViewed, RetryIsAlone
    <3> QED
      BY <3>1, <3>2 DEF CloudInv
<1>3. CASE Cloud!Waits(k, r)
  <2> DEFINE q == Cloud!Kept(k, r)
             s == Cloud!Scheduled(q)
             e == Cloud!RunEnds(s, Cloud!Now)
  <2>1. q \in CloudRecoveries /\ (q = r \/ q = Cloud!NoRecovery)
    BY NoRecoveryKeeps DEF Cloud!Kept
  <2>2. /\ s \in CloudRecoveries /\ s.key = q.key /\ s.run = q.run
        /\ s.timer => q.timer \/ q.run = 0
    BY <2>1, ScheduledKeeps
  <2>3. /\ e \in CloudRecoveries /\ e.key = q.key
        /\ q.run # Cloud!Now => e = s
        /\ q.run = Cloud!Now => e.run = 0
    BY <2>2, RunEndsKeeps
  <2>4. e.run # Cloud!Now
    BY <2>2, <2>3, CloudNumbers
  <2>5. /\ k # None /\ (app.blocked = k \/ Cloud!UnderWay(k)) /\ try' = try
        /\ app' = [app EXCEPT !.rec = e, !.last = k]
    BY <1>3 DEF Cloud!Waits
  <2> HIDE DEF e
  <2>6. /\ app'.attempt = app.attempt /\ app'.provider = app.provider
        /\ app'.connecting = app.connecting /\ app'.connected = app.connected
        /\ app'.blocked = app.blocked /\ app'.rec = e /\ app' \in CloudApps
        /\ app'.cut = app.cut
    BY <2>3, <2>5 DEF CloudInv, CloudTypeOK, CloudApps
  <2>7. CloudTypeOK'
    BY <2>4, <2>5, <2>6 DEF CloudInv, CloudTypeOK
  <2>8. AttemptIsProvider' /\ AttemptIsViewed'
    BY <2>5, <2>6 DEF CloudInv, AttemptIsProvider, AttemptIsViewed, Cloud!UnderWay
  <2>9. RetryIsAlone'
    <3> SUFFICES ASSUME app.attempt # 0, try[app.attempt].retry, e.key = try[app.attempt].key
                 PROVE  e.run = app.attempt /\ ~e.timer
      BY <2>5, <2>6 DEF RetryIsAlone
    <3>1. q = r
      BY <2>1, <2>3, NoRecoveryKeeps DEF CloudInv, AttemptIsProvider
    <3>2. r.run = app.rec.run /\ app.rec.run = app.attempt
      BY <2>3, <3>1 DEF CloudInv, RetryIsAlone
    <3>3. e = s /\ ~s.timer
      BY <2>2, <2>3, <3>1, <3>2 DEF CloudInv, CloudTypeOK
    <3> QED
      BY <2>2, <3>1, <3>2, <3>3
  <2> QED
    BY <2>7, <2>8, <2>9 DEF CloudInv
<1>4. ASSUME NEW n \in Cloud!Tries, Cloud!Begins(k, r, n) PROVE CloudInv'
  <2> DEFINE w == [r EXCEPT !.run = IF @ = Cloud!Now THEN n ELSE @]
             q == Cloud!Kept(k, w)
             s == Cloud!Scheduled(q)
             d == Cloud!Dropped(try, app.provider)
  <2>1. /\ k # None /\ app.blocked # k /\ ~Cloud!UnderWay(k) /\ Cloud!IsNext(n)
        /\ app' = [app EXCEPT !.attempt = n, !.provider = n, !.last = k, !.connecting = TRUE,
                              !.cut = FALSE, !.rec = s]
        /\ try' = [d EXCEPT ![n] = [key |-> k, at |-> "connecting", retry |-> r.run = Cloud!Now]]
    BY <1>4 DEF Cloud!Begins
  <2>2. /\ w \in CloudRecoveries /\ w.key = r.key /\ w.timer = r.timer
        /\ w.run = IF r.run = Cloud!Now THEN n ELSE r.run
    BY CloudNumbers DEF CloudRecoveries
  <2> HIDE DEF w
  <2>3. q \in CloudRecoveries /\ (q = w \/ q = Cloud!NoRecovery)
    BY <2>2, NoRecoveryKeeps DEF Cloud!Kept
  <2>4. /\ s \in CloudRecoveries /\ s.key = q.key /\ s.run = q.run
        /\ s.timer => q.timer \/ q.run = 0
    BY <2>3, ScheduledKeeps
  <2> HIDE DEF q, s, d
  <2>5. s.run # Cloud!Now
    BY <2>2, <2>3, <2>4, NoRecoveryKeeps, CloudNumbers DEF CloudInv, CloudTypeOK
  <2>6. /\ app'.attempt = n /\ app'.provider = n /\ app'.connecting
        /\ app'.connected = app.connected /\ app'.rec = s /\ app' \in CloudApps
    BY <2>1, <2>4 DEF CloudInv, CloudTypeOK, CloudApps
  <2>7. /\ try' \in [Cloud!Tries -> CloudTries]
        /\ try'[n] = [key |-> k, at |-> "connecting", retry |-> r.run = Cloud!Now]
        /\ \A m \in Cloud!Tries \ {n} : try'[m].at = try[m].at \/ try'[m].at = "off"
    <3>1. [key |-> k, at |-> "connecting", retry |-> r.run = Cloud!Now] \in CloudTries
      BY DEF CloudTries
    <3>2. /\ d \in [Cloud!Tries -> CloudTries]
          /\ \A m \in Cloud!Tries : d[m].at = try[m].at \/ d[m].at = "off"
      BY DroppedIsOff DEF d, CloudInv
    <3> QED
      BY <2>1, <3>1, <3>2
  <2>9. n # 0
    BY CloudNumbers
  <2>10. CloudTypeOK'
    BY <2>5, <2>6, <2>7 DEF CloudTypeOK
  <2>11. AttemptIsProvider' /\ AttemptIsViewed'
    BY <2>1, <2>6, <2>7, <2>9 DEF AttemptIsProvider, AttemptIsViewed
  <2>12. RetryIsAlone'
    <3>0. try'[n].retry = (r.run = Cloud!Now) /\ try'[n].key = k
      BY <2>7
    <3> SUFFICES ASSUME r.run = Cloud!Now, s.key = k PROVE s.run = n /\ ~s.timer
      BY <2>6, <3>0 DEF RetryIsAlone
    <3>1. q = w
      BY <2>1, <2>3, <2>4, NoRecoveryKeeps
    <3> QED
      BY <2>2, <2>4, <2>9, <3>1
  <2> QED
    BY <2>10, <2>11, <2>12 DEF CloudInv
<1> QED
  BY <1>1, <1>2, <1>3, <1>4 DEF Cloud!Connects

\* A recovery between two steps waits for no retry that has just started.
CloudRests(r) == r \in CloudRecoveries /\ r.run # Cloud!Now

\* What the steps make of a recovery waits for no retry that has just started, either.
LEMMA RecoveryRests ==
  ASSUME NEW r, CloudRests(r), NEW n \in Cloud!Tries, NEW k \in CloudKeys, NEW late \in BOOLEAN
  PROVE  /\ CloudRests(Cloud!Ended(r, n))
         /\ Cloud!Ended(r, n).key = r.key /\ (r.run # n => Cloud!Ended(r, n) = r)
         /\ CloudRests(Cloud!ClearedFor(r, k)) /\ CloudRests(Cloud!Pending(r, k, late))
         /\ CloudRests(Cloud!NoRecovery)
<1>1. CloudRests(Cloud!NoRecovery)
  BY NoRecoveryKeeps, CloudNumbers DEF CloudRests
<1>2. /\ CloudRests(Cloud!Ended(r, n))
      /\ Cloud!Ended(r, n).key = r.key /\ (r.run # n => Cloud!Ended(r, n) = r)
  <2>1. /\ Cloud!RunEnds(r, n) \in CloudRecoveries
        /\ Cloud!RunEnds(r, n).key = r.key
        /\ r.run # n => Cloud!RunEnds(r, n) = r
        /\ r.run = n => Cloud!RunEnds(r, n).run = 0
    BY RunEndsKeeps DEF CloudRests
  <2> QED
    BY <2>1, CloudNumbers DEF CloudRests, Cloud!Ended
<1>3. CloudRests(Cloud!ClearedFor(r, k))
  BY <1>1 DEF Cloud!ClearedFor
<1>4. CloudRests(Cloud!Pending(r, k, late))
  <2> DEFINE b == IF r.key = k THEN r ELSE [Cloud!NoRecovery EXCEPT !.key = k]
             q == [b EXCEPT !.late = late]
  <2>1. CloudRests(b)
    BY <1>1 DEF CloudRests, CloudRecoveries
  <2> HIDE DEF b
  <2>2. CloudRests(q)
    BY <2>1 DEF CloudRests, CloudRecoveries
  <2>3. Cloud!Pending(r, k, late) = Cloud!Scheduled(q)
    BY DEF Cloud!Pending, b
  <2> HIDE DEF q
  <2> QED
    BY <2>2, <2>3, ScheduledKeeps DEF CloudRests
<1> QED
  BY <1>1, <1>2, <1>3, <1>4

\* A connection ends: as the one that counts, or without notice.
LEMMA CloudEnds ==
  ASSUME CloudInv, NEW n \in Cloud!Tries, try[n].at = "connecting", NEW at \in {"on", "off"},
         try' = [try EXCEPT ![n].at = at],
         UNCHANGED <<wanted, view, eligible>>,
         \/ /\ app.attempt = n /\ app' \in CloudApps /\ CloudRests(app'.rec)
            /\ app'.attempt = 0 /\ app'.connecting = FALSE /\ app'.provider = app.provider
            /\ (app'.connected => at = "on") /\ app'.cut = app.cut
         \/ app.attempt # n /\ app' = [app EXCEPT !.rec = Cloud!Ended(app.rec, n)]
  PROVE  CloudInv'
<1>1. /\ try' \in [Cloud!Tries -> CloudTries]
      /\ try'[n].at = at
      /\ \A m \in Cloud!Tries : /\ try'[m].key = try[m].key /\ try'[m].retry = try[m].retry
                                /\ m # n => try'[m] = try[m]
  BY DEF CloudInv, CloudTypeOK, CloudTries
<1>2. n # 0
  BY CloudNumbers
<1>3. CASE /\ app.attempt = n /\ app' \in CloudApps /\ CloudRests(app'.rec)
           /\ app'.attempt = 0 /\ app'.connecting = FALSE /\ app'.provider = app.provider
           /\ (app'.connected => at = "on") /\ app'.cut = app.cut
  <2>2. app.provider = n \/ (app.provider = 0 /\ app.cut)
    BY <1>2, <1>3 DEF CloudInv, AttemptIsProvider
  <2>3. CloudTypeOK'
    BY <1>1, <1>3 DEF CloudInv, CloudTypeOK, CloudRests
  <2> QED
    BY <1>1, <1>2, <1>3, <2>2, <2>3 DEF CloudInv, AttemptIsProvider, AttemptIsViewed,
      RetryIsAlone
<1>4. CASE app.attempt # n /\ app' = [app EXCEPT !.rec = Cloud!Ended(app.rec, n)]
  <2> DEFINE e == Cloud!Ended(app.rec, n)
  <2>1. /\ CloudRests(e) /\ e.key = app.rec.key /\ (app.rec.run # n => e = app.rec)
    <3>1. CloudRests(app.rec)
      BY DEF CloudInv, CloudTypeOK, CloudRests, CloudApps
    <3> QED
      BY <3>1, RecoveryRests DEF CloudKeys
  <2> HIDE DEF e
  <2>2. /\ app'.attempt = app.attempt /\ app'.provider = app.provider
        /\ app'.connecting = app.connecting /\ app'.connected = app.connected
        /\ app'.blocked = app.blocked /\ app'.rec = e /\ app' \in CloudApps
        /\ app'.cut = app.cut
    BY <1>4, <2>1 DEF e, CloudInv, CloudTypeOK, CloudApps, CloudRests
  <2>3. CloudTypeOK'
    BY <1>1, <2>1, <2>2 DEF CloudInv, CloudTypeOK, CloudRests
  <2>4. app.provider # n
    BY <1>2, <1>4 DEF CloudInv, AttemptIsProvider
  <2>5. app.attempt # 0 => app.attempt \in Cloud!Tries
    BY DEF CloudInv, CloudTypeOK, CloudApps
  <2>6. app.provider # 0 => app.provider \in Cloud!Tries
    BY DEF CloudInv, CloudTypeOK, CloudApps
  <2>7. AttemptIsProvider' /\ AttemptIsViewed'
    BY <1>1, <1>4, <2>2, <2>4, <2>5, <2>6 DEF CloudInv, AttemptIsProvider, AttemptIsViewed
  <2>9. RetryIsAlone'
    BY <1>1, <1>4, <2>1, <2>2, <2>5 DEF CloudInv, RetryIsAlone
  <2> QED
    BY <2>3, <2>7, <2>9 DEF CloudInv
<1> QED
  BY <1>3, <1>4

\* Stands, Fails, Moved and Refused as such an end, Refused otherwise as no end yet.
LEMMA CloudEndStep ==
  ASSUME CloudInv, NEW n \in Cloud!Tries, NEW late \in BOOLEAN,
         Cloud!Stands(n) \/ Cloud!Fails(n, late) \/ Cloud!Moved(n) \/ Cloud!Refused(n)
  PROVE  CloudInv'
<1> DEFINE k == try[n].key
<1>1. CloudRests(app.rec) /\ k \in CloudKeys
  BY DEF CloudInv, CloudTypeOK, CloudRests, CloudApps, CloudTries
<1>2. /\ CloudRests(Cloud!ClearedFor(app.rec, k)) /\ CloudRests(Cloud!Pending(app.rec, k, late))
  BY <1>1, RecoveryRests
<1>3. /\ CloudRests(Cloud!Ended(Cloud!ClearedFor(app.rec, k), n))
      /\ CloudRests(Cloud!Ended(Cloud!Pending(app.rec, k, late), n))
  BY <1>1, <1>2, RecoveryRests
<1> DEFINE c == Cloud!Ended(Cloud!ClearedFor(app.rec, k), n)
           p == Cloud!Ended(Cloud!Pending(app.rec, k, late), n)
<1>4. CASE Cloud!Stands(n)
  <2>1. CASE app.attempt = n
    <3>1. app' = Cloud!Over([app EXCEPT !.rec = c, !.blocked = None, !.connected = TRUE])
      BY <1>4, <2>1 DEF Cloud!Stands, Cloud!IsCurrent
    <3> HIDE DEF c
    <3>2. /\ app' \in CloudApps /\ app'.rec = c /\ app'.attempt = 0 /\ app'.connecting = FALSE
          /\ app'.provider = app.provider /\ app'.cut = app.cut
      BY <3>1, <1>3 DEF c, Cloud!Over, CloudInv, CloudTypeOK, CloudApps, CloudRests, CloudKeys
    <3> QED
      BY <1>3, <1>4, <2>1, <3>2, CloudEnds DEF Cloud!Stands, c
  <2>2. CASE app.attempt # n
    BY <1>4, <2>2, CloudEnds DEF Cloud!Stands, Cloud!IsCurrent
  <2> QED
    BY <2>1, <2>2
<1>5. CASE Cloud!Fails(n, late)
  <2>1. CASE app.attempt = n
    <3>1. app' = Cloud!Over([app EXCEPT !.rec = p, !.connected = FALSE])
      BY <1>5, <2>1 DEF Cloud!Fails, Cloud!IsCurrent
    <3> HIDE DEF p
    <3>2. /\ app' \in CloudApps /\ app'.rec = p /\ app'.attempt = 0 /\ app'.connecting = FALSE
          /\ app'.provider = app.provider /\ app'.connected = FALSE /\ app'.cut = app.cut
      BY <3>1, <1>3 DEF p, Cloud!Over, CloudInv, CloudTypeOK, CloudApps, CloudRests, CloudKeys
    <3> QED
      BY <1>3, <1>5, <2>1, <3>2, CloudEnds DEF Cloud!Fails, p
  <2>2. CASE app.attempt # n
    BY <1>5, <2>2, CloudEnds DEF Cloud!Fails, Cloud!IsCurrent
  <2> QED
    BY <2>1, <2>2
<1>6. CASE Cloud!Moved(n)
  <2>1. CASE app.attempt = n
    <3>1. app' = Cloud!Over([app EXCEPT !.rec = c, !.blocked = k, !.connected = FALSE])
      BY <1>6, <2>1 DEF Cloud!Moved, Cloud!IsCurrent
    <3> HIDE DEF c, k
    <3>2. /\ app' \in CloudApps /\ app'.rec = c /\ app'.attempt = 0 /\ app'.connecting = FALSE
          /\ app'.provider = app.provider /\ app'.connected = FALSE /\ app'.cut = app.cut
      BY <3>1, <1>1, <1>3 DEF c, Cloud!Over, CloudInv, CloudTypeOK, CloudApps, CloudRests
    <3> QED
      BY <1>3, <1>6, <2>1, <3>2, CloudEnds DEF Cloud!Moved, c
  <2>2. CASE app.attempt # n
    BY <1>6, <2>2, CloudEnds DEF Cloud!Moved, Cloud!IsCurrent
  <2> QED
    BY <2>1, <2>2
<1>7. CASE Cloud!Refused(n)
  <2>1. CASE app.attempt = n
    <3>1. /\ try' = [try EXCEPT ![n].at = "refused"] /\ app' = app
          /\ UNCHANGED <<view, eligible>> /\ (wanted' = wanted \/ wanted' = None)
      BY <1>7, <2>1 DEF Cloud!Refused, Cloud!IsCurrent
    <3>2. /\ try' \in [Cloud!Tries -> CloudTries] /\ try'[n].at = "refused"
          /\ \A m \in Cloud!Tries : /\ try'[m].key = try[m].key /\ try'[m].retry = try[m].retry
                                    /\ m # n => try'[m] = try[m]
      BY <3>1 DEF CloudInv, CloudTypeOK, CloudTries
    <3>3. n # 0
      BY CloudNumbers
    <3>4. CloudTypeOK'
      BY <3>1, <3>2 DEF CloudInv, CloudTypeOK, CloudKeys
    <3> QED
      BY <2>1, <3>1, <3>2, <3>3, <3>4 DEF CloudInv, AttemptIsProvider, AttemptIsViewed,
        RetryIsAlone
  <2>2. CASE app.attempt # n
    BY <1>7, <2>2, CloudEnds DEF Cloud!Refused, Cloud!IsCurrent
  <2> QED
    BY <2>1, <2>2
<1> QED
  BY <1>4, <1>5, <1>6, <1>7

\* The refused session is cleared, and the store is disconnected from whatever it is
\* connected to by then.
LEMMA CloudLogsOut ==
  ASSUME CloudInv, NEW n \in Cloud!Tries, Cloud!LoggedOut(n)
  PROVE  CloudInv'
<1> DEFINE k == try[n].key
           b == Cloud!ClearedFor(app.rec, k)
           c == Cloud!Ended(b, n)
           cut == app.cut \/ app.provider \notin {0, n}
           a == [app EXCEPT !.provider = 0, !.connected = FALSE, !.connecting = FALSE,
                            !.cut = cut, !.rec = c]
           d == Cloud!Dropped(try, app.provider)
<1>1. CloudRests(app.rec) /\ k \in CloudKeys
  BY DEF CloudInv, CloudTypeOK, CloudRests, CloudApps, CloudTries
<1>2. CloudRests(c) /\ c.key = b.key /\ (b.run # n => c = b)
  <2>1. CloudRests(b)
    BY <1>1, RecoveryRests
  <2> HIDE DEF b
  <2> QED
    BY <2>1, <1>1, RecoveryRests
<1>3. /\ try[n].at = "refused" /\ try' = [d EXCEPT ![n].at = "off"]
      /\ app' = IF app.attempt = n THEN Cloud!Over(a) ELSE a
      /\ UNCHANGED <<wanted, view, eligible>>
  BY DEF Cloud!LoggedOut, Cloud!IsCurrent
<1>4. b = app.rec \/ (b = Cloud!NoRecovery /\ b.key = None /\ ~b.timer)
  BY NoRecoveryKeeps DEF Cloud!ClearedFor
<1> HIDE DEF b, c
<1>5. cut \in BOOLEAN
  OBVIOUS
<1> HIDE DEF cut
<1>6. /\ app' \in CloudApps /\ app'.rec = c /\ app'.provider = 0 /\ app'.cut = cut
      /\ app'.attempt = (IF app.attempt = n THEN 0 ELSE app.attempt)
      /\ app'.blocked = app.blocked /\ app'.connecting = FALSE /\ app'.connected = FALSE
  BY <1>2, <1>3, <1>5 DEF Cloud!Over, CloudInv, CloudTypeOK, CloudApps, CloudRests
<1>7. /\ try' \in [Cloud!Tries -> CloudTries]
      /\ \A m \in Cloud!Tries \ {n} :
           /\ try'[m].key = try[m].key /\ try'[m].retry = try[m].retry
           /\ try[m].at \in {"connecting", "refused"} => try'[m].at = try[m].at
  <2>1. /\ d \in [Cloud!Tries -> CloudTries]
        /\ \A m \in Cloud!Tries : /\ d[m].key = try[m].key /\ d[m].retry = try[m].retry
                                  /\ d[m].at = try[m].at \/ try[m].at = "on"
    BY DroppedIsOff DEF CloudInv
  <2> HIDE DEF d
  <2> QED
    BY <1>3, <2>1 DEF CloudTries
<1>8. CloudTypeOK'
  BY <1>2, <1>3, <1>6, <1>7 DEF CloudInv, CloudTypeOK, CloudRests
<1>9. app.attempt # 0 => app.attempt \in Cloud!Tries
  BY DEF CloudInv, CloudTypeOK, CloudApps
<1>10. AttemptIsProvider'
  <2>1. CASE app.attempt \in {0, n}
    BY <1>6, <2>1 DEF AttemptIsProvider
  <2>2. CASE app.attempt \notin {0, n}
    <3>1. /\ app.attempt \in Cloud!Tries \ {n} /\ app'.attempt = app.attempt
          /\ try[app.attempt].at \in {"connecting", "refused"} /\ try[app.attempt].key # None
          /\ app.provider = app.attempt \/ (app.provider = 0 /\ app.cut)
      BY <1>6, <1>9, <2>2 DEF CloudInv, AttemptIsProvider
    <3>2. app'.cut
      BY <1>6, <2>2, <3>1 DEF cut
    <3> QED
      BY <1>6, <1>7, <2>2, <3>1, <3>2 DEF AttemptIsProvider
  <2> QED
    BY <2>1, <2>2
<1>11. AttemptIsViewed' /\ RetryIsAlone'
  <2>1. CASE app.attempt \in {0, n}
    BY <1>6, <2>1 DEF AttemptIsViewed, RetryIsAlone
  <2>2. CASE app.attempt \notin {0, n}
    <3>1. /\ app.attempt \in Cloud!Tries \ {n} /\ app'.attempt = app.attempt
          /\ try'[app.attempt].key = try[app.attempt].key /\ try[app.attempt].key # None
          /\ try'[app.attempt].retry = try[app.attempt].retry
      BY <1>6, <1>7, <1>9, <2>2 DEF CloudInv, AttemptIsProvider
    <3>2. AttemptIsViewed'
      BY <1>3, <1>6, <2>2, <3>1 DEF CloudInv, AttemptIsViewed
    <3>3. RetryIsAlone'
      <4> SUFFICES ASSUME try[app.attempt].retry, c.key = try[app.attempt].key
                   PROVE  c.run = app.attempt /\ ~c.timer
        BY <1>6, <3>1 DEF RetryIsAlone
      <4>1. b = app.rec
        BY <1>2, <1>4, <3>1
      <4>2. b.run = app.attempt /\ ~b.timer
        BY <1>2, <2>2, <4>1 DEF CloudInv, RetryIsAlone
      <4> QED
        BY <1>2, <2>2, <4>2
    <3> QED
      BY <3>2, <3>3
  <2> QED
    BY <2>1, <2>2
<1> QED
  BY <1>8, <1>10, <1>11 DEF CloudInv

\* The recovery changes, and its connection stays its connection.
LEMMA CloudRecovers ==
  ASSUME CloudInv, NEW r, CloudRests(r), app' = [app EXCEPT !.rec = r],
         r.key = app.rec.key, r.run = app.rec.run,
         r.timer => app.rec.timer \/ r.run = 0,
         UNCHANGED <<wanted, view, try>>, eligible' \in BOOLEAN
  PROVE  CloudInv'
<1>1. /\ app'.attempt = app.attempt /\ app'.provider = app.provider
      /\ app'.connecting = app.connecting /\ app'.connected = app.connected
      /\ app'.blocked = app.blocked /\ app'.rec = r /\ app' \in CloudApps
      /\ app'.cut = app.cut
  BY DEF CloudInv, CloudTypeOK, CloudApps, CloudRests
<1>2. CloudTypeOK'
  BY <1>1 DEF CloudInv, CloudTypeOK, CloudRests
<1>3. RetryIsAlone'
  BY <1>1 DEF CloudInv, RetryIsAlone
<1> QED
  BY <1>1, <1>2, <1>3 DEF CloudInv, AttemptIsProvider, AttemptIsViewed

\* A retry that starts is counted, and runs.
LEMMA RetryStarts ==
  ASSUME NEW r \in CloudRecoveries
  PROVE  LET w == [r EXCEPT !.run = Cloud!Now, !.count = @ + 1]
         IN  /\ w \in CloudRecoveries /\ w.key = r.key /\ w.run = Cloud!Now
             /\ w.timer = r.timer
<1>1. ASSUME NEW n \in Nat, NEW m \in Nat
      PROVE  LET w == [r EXCEPT !.run = n, !.count = m]
             IN  /\ w \in CloudRecoveries /\ w.key = r.key /\ w.run = n
                 /\ w.timer = r.timer
  BY DEF CloudRecoveries
<1>2. r.count + 1 \in Nat /\ Cloud!Now \in Nat
  BY CloudNumbers DEF CloudRecoveries
<1> QED
  BY <1>1, <1>2

\* The timer of the recovery fires.
LEMMA CloudTimer ==
  ASSUME CloudInv, Cloud!TimerFires PROVE CloudInv'
<1> DEFINE r == [app.rec EXCEPT !.timer = FALSE]
           w == [r EXCEPT !.run = Cloud!Now, !.count = @ + 1]
<1>1. CloudRests(app.rec) /\ app.rec.timer /\ UNCHANGED <<wanted, view, eligible>>
  BY DEF CloudInv, CloudTypeOK, CloudRests, CloudApps, Cloud!TimerFires
<1>2. /\ CloudRests(r) /\ r.key = app.rec.key /\ r.run = app.rec.run /\ r.timer = FALSE
  BY <1>1 DEF CloudRests, CloudRecoveries
<1>4. \/ app' = [app EXCEPT !.rec = r] /\ UNCHANGED try
      \/ app' = [app EXCEPT !.rec = Cloud!Scheduled(r)] /\ UNCHANGED try
      \/ Cloud!Connects(view, w)
  BY DEF Cloud!TimerFires
<1> HIDE DEF r
<1>3. /\ w \in CloudRecoveries /\ w.key = app.rec.key /\ w.run = Cloud!Now /\ w.timer = FALSE
  BY <1>2, RetryStarts DEF CloudRests
<1> HIDE DEF w
<1>5. CASE app' = [app EXCEPT !.rec = r] /\ UNCHANGED try
  BY <1>1, <1>2, <1>5, CloudRecovers DEF CloudInv, CloudTypeOK
<1>6. CASE app' = [app EXCEPT !.rec = Cloud!Scheduled(r)] /\ UNCHANGED try
  <2>1. /\ CloudRests(Cloud!Scheduled(r))
        /\ Cloud!Scheduled(r).key = r.key /\ Cloud!Scheduled(r).run = r.run
        /\ Cloud!Scheduled(r).timer => r.run = 0
    BY <1>2, ScheduledKeeps DEF CloudRests
  <2> QED
    BY <1>1, <1>2, <1>6, <2>1, CloudRecovers DEF CloudInv, CloudTypeOK
<1>7. CASE Cloud!Connects(view, w)
  BY <1>1, <1>3, <1>7, CloudConnects DEF CloudInv, CloudTypeOK, RetryIsAlone
<1> QED
  BY <1>4, <1>5, <1>6, <1>7

\* The effects run.
LEMMA CloudEffect ==
  ASSUME CloudInv, Cloud!Effect PROVE CloudInv'
<1> DEFINE r == [app.rec EXCEPT !.timer = FALSE]
<1>1. /\ UNCHANGED <<wanted, eligible>> /\ view' = wanted /\ Cloud!Connects(wanted, r)
  BY DEF Cloud!Effect
<1>2. /\ r \in CloudRecoveries /\ r.key = app.rec.key /\ r.run = app.rec.run /\ r.timer = FALSE
  BY DEF CloudInv, CloudTypeOK, CloudApps, CloudRecoveries
<1> HIDE DEF r
<1> QED
  BY <1>1, <1>2, CloudConnects DEF CloudInv, CloudTypeOK

\* What wakes the recovery, and the time it forgets.
LEMMA CloudWakes ==
  ASSUME CloudInv, Cloud!Turns \/ Cloud!TimePasses PROVE CloudInv'
<1>1. CloudRests(app.rec) /\ UNCHANGED <<wanted, view, try>> /\ eligible' \in BOOLEAN
  BY DEF CloudInv, CloudTypeOK, CloudRests, CloudApps, Cloud!Turns, Cloud!TimePasses
<1>2. CASE app' = app
  BY <1>1, <1>2 DEF CloudInv, CloudTypeOK, AttemptIsProvider, AttemptIsViewed,
    RetryIsAlone
<1>3. CASE Cloud!Turns /\ eligible'
  <2> DEFINE r == Cloud!Woken(app.rec)
  <2>1. /\ CloudRests(r) /\ r.key = app.rec.key /\ r.run = app.rec.run
        /\ r.timer => app.rec.timer \/ r.run = 0
    BY <1>1 DEF Cloud!Woken, CloudRests, CloudRecoveries
  <2>2. app' = [app EXCEPT !.rec = r]
    BY <1>3 DEF Cloud!Turns
  <2> HIDE DEF r
  <2> QED
    BY <1>1, <2>1, <2>2, CloudRecovers
<1>4. CASE Cloud!TimePasses
  <2> DEFINE r == [app.rec EXCEPT !.late = FALSE, !.woke = FALSE]
  <2>1. /\ CloudRests(r) /\ r.key = app.rec.key /\ r.run = app.rec.run
        /\ r.timer = app.rec.timer
    BY <1>1 DEF CloudRests, CloudRecoveries
  <2>2. app' = [app EXCEPT !.rec = r]
    BY <1>4 DEF Cloud!TimePasses, CloudInv, CloudTypeOK, CloudApps, CloudRecoveries
  <2> HIDE DEF r
  <2> QED
    BY <1>1, <2>1, <2>2, CloudRecovers
<1> QED
  BY <1>2, <1>3, <1>4 DEF Cloud!Turns

\* The invariant of the connection holds, whatever part of the device moves.
LEMMA CloudAlways == DeviceSpec => []CloudInv
<1>1. DeviceInit => CloudInv
  BY CloudInitially DEF DeviceInit
<1>2. CloudInv /\ [DeviceNext]_deviceVars => CloudInv'
  <2> SUFFICES ASSUME CloudInv, [DeviceNext]_deviceVars PROVE CloudInv'
    OBVIOUS
  <2>1. ASSUME NEW k \in Keys \union {None}, Cloud!Select(k) PROVE CloudInv'
    BY <2>1 DEF Cloud!Select, CloudInv, CloudTypeOK, AttemptIsProvider, AttemptIsViewed,
      RetryIsAlone, CloudKeys
  <2>2. CASE Cloud!Next
    BY <2>1, <2>2, CloudEffect, CloudEndStep, CloudLogsOut, CloudTimer, CloudWakes DEF Cloud!Next
  <2>3. CASE UNCHANGED cloudVars
    BY <2>3 DEF cloudVars, CloudInv, CloudTypeOK, AttemptIsProvider, AttemptIsViewed,
      RetryIsAlone
  <2> QED
    BY <2>2, <2>3, StepOfAPart
<1> QED
  BY <1>1, <1>2, PTL DEF DeviceSpec

\* CloudConnection.ShownIsReal, for every number of providers, connections and retries.
THEOREM ConnectionSafety == DeviceSpec => []ShownIsReal
<1>1. CloudInv => ShownIsReal
  BY DEF CloudInv, AttemptIsProvider, RetryIsAlone, ShownIsReal, Cloud!ShownIsReal
<1> QED
  BY <1>1, CloudAlways, PTL

-----------------------------------------------------------------------------
(* BillingAccess.                                                          *)

AccessLives == Lives \union {None}
AccessLicenses == [life : AccessLives, exp : Nat]
AccessRuns ==
  [pc : {"cache", "cached", "ask", "write", "publish"}, life : AccessLives, cur : BOOLEAN,
   got : AccessLicenses]

AccessRetries == [on : BOOLEAN, count : 0..Refreshes]

\* The values of the hook's variables.  The connection is only there with an account.
AccessTypeOK ==
  /\ account \in AccessLives /\ linked \in BOOLEAN /\ (linked => account # None)
  /\ effects \subseteq {"life", "ready"}
  /\ granted \in AccessLicenses /\ binding \in AccessLicenses
  /\ hydrated \in BOOLEAN
  /\ retry \in AccessRetries
  /\ inFlight \subseteq AccessRuns
  /\ now \in Nat /\ heard \in BOOLEAN /\ barred \in BOOLEAN
  /\ reading \in {"quiet", "overtaken", "missed"}

ReadsCache(x) == x.pc \in {"cache", "cached"}

\* One function belongs to the current epoch, and to the account once the effects
\* have run.
OneIsCurrent ==
  /\ \A x, y \in inFlight : x.cur /\ y.cur => x = y
  /\ "life" \notin effects => \A x \in inFlight : x.cur => x.life = account

\* Unless a refresh overtakes it, the cache is read before anything is asked, granted
\* or tried again.
CacheIsFirst ==
  /\ account # None /\ "life" \notin effects /\ ~hydrated =>
       reading # "quiet" \/ \E x \in inFlight : x.cur /\ ReadsCache(x)
  /\ "life" \notin effects /\ (retry.on \/ granted # Access!NoLicense) =>
       hydrated \/ reading # "quiet"

\* What is granted lasts.
GrantLasts == granted # Access!NoLicense => now <= granted.exp

\* After a refusal nothing is granted, and no cached license is under way.
RefusalHolds ==
  barred => granted = Access!NoLicense /\ \A x \in inFlight : ~(x.cur /\ ReadsCache(x))

\* The service has answered, or somebody is about to ask it, or nobody tries again.
AskedOrHeard ==
  linked /\ effects = {} /\ ~heard /\ ~retry.on =>
    \/ retry.count = Refreshes \/ reading = "missed"
    \/ \E x \in inFlight : x.cur /\ x.life = account

AccessInv ==
  /\ AccessTypeOK /\ OneIsCurrent /\ CacheIsFirst /\ GrantLasts /\ RefusalHolds
  /\ AskedOrHeard

\* No license has no account and no end.
LEMMA NoLicenseType == Access!NoLicense \in AccessLicenses
BY DEF Access!NoLicense, AccessLicenses, AccessLives

\* No retry, one retry more, and one that is called off.
LEMMA RetryTypes ==
  /\ Refreshes \in Nat /\ Access!NoRetry \in AccessRetries /\ Access!NoRetry.on = FALSE
  /\ \A r \in AccessRetries :
       /\ [r EXCEPT !.on = FALSE] \in AccessRetries /\ [r EXCEPT !.on = FALSE].on = FALSE
       /\ [r EXCEPT !.count = 0] \in AccessRetries /\ [r EXCEPT !.count = 0].on = r.on
       /\ r.count < Refreshes => [on |-> TRUE, count |-> r.count + 1] \in AccessRetries
<1>1. Refreshes \in Nat
  BY AccessAssumption DEF Access!ConstantsAssumption
<1> DEFINE counts == 0..Refreshes
<1>2. Access!NoRetry \in AccessRetries /\ Access!NoRetry.on = FALSE
  <2>1. 0 \in counts
    BY <1>1
  <2> HIDE DEF counts
  <2>2. [on |-> FALSE, count |-> 0] \in [on : BOOLEAN, count : counts]
    BY <2>1
  <2> QED
    BY <2>2 DEF Access!NoRetry, AccessRetries, counts
<1>3. ASSUME NEW r \in AccessRetries
      PROVE  /\ r.count \in 0..Refreshes
             /\ [r EXCEPT !.on = FALSE] \in AccessRetries /\ [r EXCEPT !.on = FALSE].on = FALSE
             /\ [r EXCEPT !.count = 0] \in AccessRetries /\ [r EXCEPT !.count = 0].on = r.on
  <2>1. 0 \in counts
    BY <1>1
  <2> HIDE DEF counts
  <2>2. r \in [on : BOOLEAN, count : counts]
    BY <1>3 DEF AccessRetries, counts
  <2>3. /\ r.count \in counts
        /\ [r EXCEPT !.on = FALSE] \in [on : BOOLEAN, count : counts]
        /\ [r EXCEPT !.on = FALSE].on = FALSE
        /\ [r EXCEPT !.count = 0] \in [on : BOOLEAN, count : counts]
        /\ [r EXCEPT !.count = 0].on = r.on
    BY <2>1, <2>2
  <2> QED
    BY <2>3 DEF AccessRetries, counts
<1>4. ASSUME NEW r \in AccessRetries, r.count < Refreshes
      PROVE  [on |-> TRUE, count |-> r.count + 1] \in AccessRetries
  <2>0. r.count \in 0..Refreshes
    BY <1>3, <1>4
  <2>1. r.count + 1 \in 0..Refreshes
    BY <1>1, <1>4, <2>0
  <2> HIDE DEF counts
  <2>2. [on |-> TRUE, count |-> r.count + 1] \in [on : BOOLEAN, count : counts]
    BY <2>1 DEF counts
  <2> QED
    BY <2>2 DEF AccessRetries, counts
<1> QED
  BY <1>1, <1>2, <1>3, <1>4

\* Initially nothing is granted and nothing is under way.
LEMMA AccessInitially == ASSUME Access!Init PROVE AccessInv
<1>1. AccessTypeOK
  <2>1. binding \in AccessLicenses
    BY DEF Access!Init, AccessLives, AccessLicenses
  <2>2. retry \in AccessRetries
    BY RetryTypes DEF Access!Init
  <2> QED
    BY <2>1, <2>2, NoLicenseType DEF Access!Init, AccessTypeOK, AccessLives
<1>2. /\ account = None /\ inFlight = {} /\ granted = Access!NoLicense /\ retry.on = FALSE
      /\ linked = FALSE /\ barred = FALSE
  BY DEF Access!Init, Access!NoRetry
<1> QED
  BY <1>1, <1>2 DEF AccessInv, OneIsCurrent, CacheIsFirst, GrantLasts, RefusalHolds, AskedOrHeard

\* What begins belongs to the epoch.
LEMMA BegunRuns ==
  ASSUME AccessInv, NEW step \in {"cache", "ask"}
  PROVE  /\ Access!Begun(step) \in AccessRuns /\ Access!Begun(step).pc = step
         /\ Access!Begun(step).cur = TRUE /\ Access!Begun(step).life = account
BY NoLicenseType DEF AccessInv, AccessTypeOK, Access!Begun, AccessRuns

\* A new epoch: nothing that runs belongs to it.
LEMMA AgedRuns ==
  ASSUME NEW rs \in SUBSET AccessRuns
  PROVE  Access!Aged(rs) \subseteq AccessRuns /\ \A x \in Access!Aged(rs) : x.cur = FALSE
<1>1. ASSUME NEW x \in AccessRuns
      PROVE  [x EXCEPT !.cur = FALSE] \in AccessRuns /\ [x EXCEPT !.cur = FALSE].cur = FALSE
  BY DEF AccessRuns
<1> QED
  BY <1>1 DEF Access!Aged

\* A refresh: with a connection the one that asks is the one of the epoch.
LEMMA RefreshedRuns ==
  ASSUME AccessInv, NEW rs \in SUBSET inFlight, linked
  PROVE  /\ Access!Refreshed(rs) \subseteq AccessRuns
         /\ \E y \in Access!Refreshed(rs) :
              /\ y.cur /\ y.life = account /\ y.pc = "ask"
              /\ \A x \in Access!Refreshed(rs) : x.cur => x = y
<1> DEFINE y == Access!Begun("ask")
<1>1. Access!Refreshed(rs) = Access!Aged(rs) \union {y}
  BY DEF Access!Refreshed, AccessInv, AccessTypeOK
<1>2. y \in AccessRuns /\ y.pc = "ask" /\ y.cur = TRUE /\ y.life = account
  BY BegunRuns
<1>3. rs \in SUBSET AccessRuns
  BY DEF AccessInv, AccessTypeOK
<1>4. Access!Aged(rs) \subseteq AccessRuns /\ \A x \in Access!Aged(rs) : x.cur = FALSE
  BY <1>3, AgedRuns
<1> HIDE DEF y
<1> QED
  BY <1>1, <1>2, <1>4

\* Without a connection nobody asks.
LEMMA NotRefreshed == ASSUME ~linked, NEW rs PROVE Access!Refreshed(rs) = rs
BY DEF Access!Refreshed

\* Somebody asks: after the cache was read, or before the account's effect has run.
LEMMA AccessAsks ==
  ASSUME AccessInv, NEW rs \in SUBSET inFlight, inFlight' = Access!Refreshed(rs),
         UNCHANGED <<account, linked, now, heard, barred>>,
         "life" \in effects \/ hydrated' \/ reading' # "quiet",
         reading' \in {"quiet", "overtaken", "missed"},
         effects' = effects \/ (effects' = {} /\ "life" \notin effects),
         granted' \in AccessLicenses, binding' \in AccessLicenses, hydrated' \in BOOLEAN,
         retry' \in AccessRetries, retry'.on => retry.on /\ ~linked,
         granted' # Access!NoLicense => now <= granted'.exp,
         barred => granted' = Access!NoLicense
  PROVE  AccessInv'
<1>1. "life" \in effects' <=> "life" \in effects
  OBVIOUS
<1>2. CASE linked
  <2>1. /\ inFlight' \subseteq AccessRuns
        /\ \E y \in inFlight' : /\ y.cur /\ y.life = account /\ y.pc = "ask"
                                /\ \A x \in inFlight' : x.cur => x = y
    BY <1>2, RefreshedRuns
  <2>2. AccessTypeOK'
    BY <2>1 DEF AccessInv, AccessTypeOK
  <2>3. OneIsCurrent' /\ CacheIsFirst' /\ GrantLasts' /\ RefusalHolds' /\ AskedOrHeard'
    BY <1>1, <2>1 DEF AccessInv, OneIsCurrent, CacheIsFirst, GrantLasts, RefusalHolds,
      AskedOrHeard, ReadsCache, Access!NoLicense
  <2> QED
    BY <2>2, <2>3 DEF AccessInv
<1>3. CASE ~linked
  <2>1. inFlight' = rs
    BY <1>3, NotRefreshed
  <2>2. AccessTypeOK'
    BY <2>1 DEF AccessInv, AccessTypeOK
  <2>3. OneIsCurrent' /\ CacheIsFirst' /\ GrantLasts' /\ RefusalHolds' /\ AskedOrHeard'
    BY <1>1, <1>3, <2>1 DEF AccessInv, OneIsCurrent, CacheIsFirst, GrantLasts, RefusalHolds,
      AskedOrHeard, ReadsCache, Access!NoLicense
  <2> QED
    BY <2>2, <2>3 DEF AccessInv
<1> QED
  BY <1>2, <1>3

\* A function in flight goes on, and nothing else changes.
LEMMA AccessRunGoes ==
  ASSUME AccessInv, NEW x \in inFlight, NEW y \in AccessRuns, y.cur = x.cur, y.life = x.life,
         ReadsCache(y) = ReadsCache(x), inFlight' = (inFlight \ {x}) \union {y},
         UNCHANGED <<account, linked, effects, granted, hydrated, retry, now, heard, barred, reading>>,
         binding' \in AccessLicenses
  PROVE  AccessInv'
<1>1. AccessTypeOK'
  BY DEF AccessInv, AccessTypeOK
<1>2. OneIsCurrent'
  BY DEF AccessInv, OneIsCurrent
<1>3. CacheIsFirst' /\ RefusalHolds'
  BY DEF AccessInv, CacheIsFirst, RefusalHolds, ReadsCache, Access!NoLicense
<1>4. GrantLasts' /\ AskedOrHeard'
  BY DEF AccessInv, GrantLasts, AskedOrHeard, Access!NoLicense
<1> QED
  BY <1>1, <1>2, <1>3, <1>4 DEF AccessInv

\* A function in flight ends; if it was the one of the epoch, what it found out is
\* granted or refused, or the retry is set.
LEMMA AccessRunEnds ==
  ASSUME AccessInv, NEW x \in inFlight, inFlight' = inFlight \ {x}, ~(x.cur /\ ReadsCache(x)),
         UNCHANGED <<account, linked, effects, hydrated, now, reading>>,
         binding' \in AccessLicenses, granted' \in AccessLicenses,
         retry' \in AccessRetries, heard' \in BOOLEAN, barred' \in BOOLEAN,
         \/ ~Access!IsCurrent(x) /\ UNCHANGED <<granted, retry, heard, barred>>
         \/ /\ Access!IsCurrent(x)
            /\ \/ retry'.on /\ UNCHANGED <<granted, heard, barred>>
               \/ retry.count = Refreshes /\ UNCHANGED <<granted, retry, heard, barred>>
               \/ heard' /\ granted' = Access!NoLicense /\ UNCHANGED retry
               \/ heard' /\ ~barred' /\ now <= granted'.exp /\ retry'.on = retry.on
  PROVE  AccessInv'
<1>1. AccessTypeOK'
  BY DEF AccessInv, AccessTypeOK
<1>2. OneIsCurrent'
  BY DEF AccessInv, OneIsCurrent
<1>3. Access!IsCurrent(x) /\ "life" \notin effects => hydrated \/ reading # "quiet"
  BY DEF AccessInv, AccessTypeOK, OneIsCurrent, CacheIsFirst, Access!IsCurrent, ReadsCache
<1>4. CacheIsFirst'
  BY <1>3 DEF AccessInv, CacheIsFirst, ReadsCache, Access!NoLicense
<1>5. GrantLasts'
  BY DEF AccessInv, GrantLasts, Access!NoLicense
<1>6. RefusalHolds'
  <2>1. Access!IsCurrent(x) => \A y \in inFlight \ {x} : ~y.cur
    BY DEF AccessInv, OneIsCurrent, Access!IsCurrent
  <2> QED
    BY <2>1 DEF AccessInv, RefusalHolds, ReadsCache, Access!NoLicense
<1>7. AskedOrHeard'
  BY DEF AccessInv, AskedOrHeard, Access!IsCurrent
<1> QED
  BY <1>1, <1>2, <1>4, <1>5, <1>6, <1>7 DEF AccessInv

\* A request that failed.
LEMMA AccessFails ==
  ASSUME AccessInv, NEW x \in inFlight, ~ReadsCache(x), NEW transient \in BOOLEAN,
         Access!Fails(x, transient)
  PROVE  AccessInv'
<1>1. /\ inFlight' = inFlight \ {x}
      /\ UNCHANGED <<account, linked, effects, hydrated, binding, now, reading>>
  BY DEF Access!Fails, Access!Ends, Access!told
<1>2. CASE ~Access!IsCurrent(x)
  BY <1>1, <1>2, AccessRunEnds DEF Access!Fails, AccessInv, AccessTypeOK, Access!told
<1>3. CASE Access!IsCurrent(x) /\ transient
  <2>1. /\ UNCHANGED <<granted, heard, barred>>
        /\ \/ retry.count < Refreshes /\ retry' = [on |-> TRUE, count |-> retry.count + 1]
           \/ ~(retry.count < Refreshes) /\ retry' = retry
    BY <1>3 DEF Access!Fails, Access!told
  <2>2. retry \in AccessRetries /\ retry.count \in 0..Refreshes /\ Refreshes \in Nat
    BY RetryTypes DEF AccessInv, AccessTypeOK, AccessRetries
  <2>3. \/ retry' \in AccessRetries /\ retry'.on
        \/ retry.count = Refreshes /\ retry' = retry
    <3>1. CASE retry.count < Refreshes /\ retry' = [on |-> TRUE, count |-> retry.count + 1]
      BY <2>2, <3>1, RetryTypes
    <3>2. CASE ~(retry.count < Refreshes) /\ retry' = retry
      BY <2>2, <3>2
    <3> QED
      BY <2>1, <3>1, <3>2
  <2> QED
    BY <1>1, <1>3, <2>1, <2>2, <2>3, AccessRunEnds DEF AccessInv, AccessTypeOK
<1>4. CASE Access!IsCurrent(x) /\ ~transient
  <2>1. granted' = Access!NoLicense /\ heard' = TRUE /\ barred' = TRUE /\ retry' = retry
    BY <1>4 DEF Access!Fails
  <2> QED
    BY <1>1, <1>4, <2>1, NoLicenseType, AccessRunEnds DEF AccessInv, AccessTypeOK
<1> QED
  BY <1>2, <1>3, <1>4

\* The steps of what is in flight.
LEMMA AccessRunStep ==
  ASSUME AccessInv, NEW x \in inFlight, NEW exp \in Nat, NEW transient \in BOOLEAN,
         \/ Access!ReadCache(x) \/ Access!Hydrated(x) \/ Access!Write(x) \/ Access!Publish(x)
         \/ Access!Answer(x, exp) \/ Access!RequestFails(x, transient)
  PROVE  AccessInv'
<1>1. x \in AccessRuns
  BY DEF AccessInv, AccessTypeOK
<1>2. ASSUME NEW step \in {"cached", "write", "publish"}, NEW got \in AccessLicenses
      PROVE  LET y == [x EXCEPT !.pc = step, !.got = got]
             IN  y \in AccessRuns /\ y.cur = x.cur /\ y.life = x.life /\ y.pc = step
  BY <1>1 DEF AccessRuns
<1>3. CASE Access!ReadCache(x)
  <2>1. CASE x.cur
    <3> DEFINE got == IF binding.life = x.life THEN binding ELSE Access!NoLicense
               y == [x EXCEPT !.pc = "cached", !.got = got]
    <3>1. got \in AccessLicenses
      BY NoLicenseType DEF AccessInv, AccessTypeOK
    <3>2. inFlight' = (inFlight \ {x}) \union {y}
      BY <1>3, <2>1 DEF Access!ReadCache, Access!Goes
    <3>3. y \in AccessRuns /\ y.cur = x.cur /\ y.life = x.life /\ y.pc = "cached"
      BY <1>2, <3>1
    <3> HIDE DEF y
    <3>4. ReadsCache(y) = ReadsCache(x)
      BY <1>3, <3>3 DEF ReadsCache, Access!ReadCache
    <3> QED
      BY <1>3, <3>2, <3>3, <3>4, AccessRunGoes DEF Access!ReadCache, Access!told, AccessInv,
        AccessTypeOK
  <2>2. CASE ~x.cur
    BY <1>3, <2>2, AccessRunEnds DEF Access!ReadCache, Access!Ends, Access!told, AccessInv,
      AccessTypeOK, Access!IsCurrent
  <2> QED
    BY <2>1, <2>2
<1>4. CASE Access!Hydrated(x)
  <2>1. /\ x.pc = "cached"
        /\ UNCHANGED <<account, linked, effects, binding, now, heard, barred, reading>>
    BY <1>4 DEF Access!Hydrated, Access!told
  <2>2. CASE x.cur
    <3>1. /\ granted' = Access!Restored(x) /\ hydrated' = (x.life = account)
          /\ inFlight' = Access!Refreshed(inFlight \ {x})
          /\ retry' = IF linked THEN [retry EXCEPT !.on = FALSE] ELSE retry
      BY <1>4, <2>2 DEF Access!Hydrated
    <3>2. ~barred
      BY <2>1, <2>2 DEF AccessInv, RefusalHolds, ReadsCache
    <3>3. granted' \in AccessLicenses /\ (granted' # Access!NoLicense => now <= granted'.exp)
      BY <1>1, <3>1 DEF Access!Restored, AccessInv, AccessTypeOK, GrantLasts, AccessRuns,
        AccessLicenses
    <3>4. "life" \in effects \/ hydrated'
      BY <2>2, <3>1 DEF AccessInv, OneIsCurrent
    <3>5. retry' \in AccessRetries /\ (retry'.on => retry.on /\ ~linked)
      BY <3>1, RetryTypes DEF AccessInv, AccessTypeOK
    <3> DEFINE rs == inFlight \ {x}
    <3>6. /\ rs \in SUBSET inFlight /\ inFlight' = Access!Refreshed(rs)
          /\ hydrated' \in BOOLEAN /\ binding' \in AccessLicenses
      BY <2>1, <3>1 DEF AccessInv, AccessTypeOK
    <3> HIDE DEF rs
    <3>7. barred => granted' = Access!NoLicense
      BY <3>2
    <3> QED
      BY <2>1, <3>3, <3>4, <3>5, <3>6, <3>7, AccessAsks DEF AccessInv, AccessTypeOK
  <2>3. CASE ~x.cur
    BY <1>4, <2>1, <2>3, AccessRunEnds DEF Access!Hydrated, Access!Ends, AccessInv, AccessTypeOK,
      Access!IsCurrent
  <2> QED
    BY <2>2, <2>3
<1>5. CASE Access!Answer(x, exp)
  <2>1. /\ x.pc = "ask"
        /\ UNCHANGED <<account, linked, effects, granted, hydrated, retry, binding, now, heard,
                       barred, reading>>
    BY <1>5 DEF Access!Answer, Access!told
  <2>2. CASE Access!IsCurrent(x)
    <3> DEFINE got == [life |-> x.life, exp |-> exp]
               y == [x EXCEPT !.pc = "write", !.got = got]
    <3>1. got \in AccessLicenses
      BY <1>1 DEF AccessRuns, AccessLicenses
    <3>2. inFlight' = (inFlight \ {x}) \union {y}
      BY <1>5, <2>2 DEF Access!Answer, Access!Goes
    <3>3. y \in AccessRuns /\ y.cur = x.cur /\ y.life = x.life /\ y.pc = "write"
      BY <1>2, <3>1
    <3> HIDE DEF y
    <3>4. ReadsCache(y) = ReadsCache(x)
      BY <2>1, <3>3 DEF ReadsCache
    <3> QED
      BY <2>1, <3>2, <3>3, <3>4, AccessRunGoes DEF AccessInv, AccessTypeOK
  <2>3. CASE ~Access!IsCurrent(x)
    BY <1>5, <2>1, <2>3, AccessRunEnds DEF Access!Answer, Access!Ends, AccessInv, AccessTypeOK,
      ReadsCache
  <2> QED
    BY <2>2, <2>3
<1>6. CASE Access!Write(x)
  <2> DEFINE y == [x EXCEPT !.pc = "publish", !.got = x.got]
  <2>1. /\ x.pc = "write" /\ inFlight' = (inFlight \ {x}) \union {y}
        /\ UNCHANGED <<account, linked, effects, granted, hydrated, retry, now, heard, barred, reading>>
    BY <1>6 DEF Access!Write, Access!Goes, Access!told
  <2>2. x.got \in AccessLicenses /\ binding' \in AccessLicenses
    BY <1>1, <1>6 DEF Access!Write, AccessRuns, AccessInv, AccessTypeOK
  <2>3. y \in AccessRuns /\ y.cur = x.cur /\ y.life = x.life /\ y.pc = "publish"
    BY <1>2, <2>2
  <2> HIDE DEF y
  <2>4. ReadsCache(y) = ReadsCache(x)
    BY <2>1, <2>3 DEF ReadsCache
  <2> QED
    BY <2>1, <2>2, <2>3, <2>4, AccessRunGoes
<1>7. CASE Access!Publish(x)
  <2>1. x.pc = "publish" /\ ~ReadsCache(x)
    BY <1>7 DEF Access!Publish, ReadsCache
  <2>2. CASE Access!Fails(x, FALSE)
    BY <2>1, <2>2, AccessFails
  <2>3. CASE Access!IsCurrent(x) /\ x.got.exp > now /\ Access!Grants(x)
    <3>1. /\ granted' = x.got /\ inFlight' = inFlight \ {x} /\ heard' = TRUE
          /\ retry' = [retry EXCEPT !.count = 0] /\ barred' = (barred /\ ~x.cur)
          /\ UNCHANGED <<account, linked, effects, hydrated, binding, now, reading>>
      BY <2>3 DEF Access!Grants, Access!Ends
    <3>2. retry' \in AccessRetries /\ retry'.on = retry.on
      BY <3>1, RetryTypes DEF AccessInv, AccessTypeOK
    <3>3. granted' \in AccessLicenses /\ now <= granted'.exp
      BY <1>1, <2>3, <3>1 DEF AccessRuns, AccessLicenses, AccessInv, AccessTypeOK
    <3>4. barred' = FALSE
      BY <1>1, <2>3, <3>1 DEF Access!IsCurrent, AccessRuns
    <3> QED
      BY <2>1, <2>3, <3>1, <3>2, <3>3, <3>4, AccessRunEnds DEF AccessInv, AccessTypeOK
  <2> QED
    BY <1>7, <2>2, <2>3 DEF Access!Publish
<1>8. CASE Access!RequestFails(x, transient)
  BY <1>8, AccessFails DEF Access!RequestFails, ReadsCache
<1> QED
  BY <1>3, <1>4, <1>5, <1>6, <1>7, <1>8

\* The account or the connection changes: the effects have to run.
LEMMA AccessRenders ==
  ASSUME AccessInv, NEW l \in Lives \union {None}, NEW r \in BOOLEAN, Access!Render(l, r)
  PROVE  AccessInv'
<1>1. /\ account' = l /\ linked' = r /\ (r => l # None) /\ effects = {}
      /\ effects' = {"ready"} \union (IF l # account THEN {"life"} ELSE {})
      /\ UNCHANGED <<granted, hydrated, retry, inFlight, binding, now, barred, reading>>
      /\ heard' \in BOOLEAN
  BY DEF Access!Render
<1>2. AccessTypeOK'
  BY <1>1 DEF AccessInv, AccessTypeOK, AccessLives
<1>3. "life" \notin effects' => account' = account
  BY <1>1
<1> QED
  BY <1>1, <1>2, <1>3 DEF AccessInv, OneIsCurrent, CacheIsFirst, GrantLasts, RefusalHolds,
    AskedOrHeard, Access!NoLicense, ReadsCache

\* The account's effect: the cache is read in a new epoch, and nothing is granted.
LEMMA AccessLifeEffect ==
  ASSUME AccessInv, Access!LifeEffect PROVE AccessInv'
<1>1. /\ effects' = {} /\ granted' = Access!NoLicense /\ hydrated' = FALSE
      /\ retry' = Access!NoRetry /\ heard' = FALSE /\ barred' = FALSE
      /\ reading' = "quiet"
      /\ inFlight' = Access!Aged(inFlight)
                       \union (IF account = None THEN {} ELSE {Access!Begun("cache")})
      /\ binding' \in {binding, Access!NoLicense}
      /\ UNCHANGED <<account, linked, now>>
  BY DEF Access!LifeEffect, AccessInv, AccessTypeOK
<1>2. Access!Aged(inFlight) \subseteq AccessRuns /\ \A x \in Access!Aged(inFlight) : x.cur = FALSE
  BY AgedRuns DEF AccessInv, AccessTypeOK
<1> DEFINE y == Access!Begun("cache")
<1>3. y \in AccessRuns /\ y.pc = "cache" /\ y.cur = TRUE /\ y.life = account
  BY BegunRuns
<1> HIDE DEF y
<1>4. retry' \in AccessRetries /\ retry'.on = FALSE
  BY <1>1, RetryTypes
<1>5. AccessTypeOK'
  BY <1>1, <1>2, <1>3, <1>4, NoLicenseType DEF y, AccessInv, AccessTypeOK
<1>6. \A x \in inFlight' : x.cur => x = y
  BY <1>1, <1>2 DEF y
<1>7. account # None => y \in inFlight'
  BY <1>1 DEF y
<1>8. /\ \A x, z \in inFlight' : x.cur /\ z.cur => x = z
      /\ \A x \in inFlight' : x.cur => x.life = account
  BY <1>3, <1>6
<1>9. OneIsCurrent' /\ GrantLasts' /\ RefusalHolds'
  BY <1>1, <1>8 DEF OneIsCurrent, GrantLasts, RefusalHolds, Access!NoLicense
<1>10. CacheIsFirst' /\ AskedOrHeard'
  BY <1>1, <1>3, <1>4, <1>7 DEF CacheIsFirst, AskedOrHeard, ReadsCache, AccessInv, AccessTypeOK,
    Access!NoLicense
<1> QED
  BY <1>5, <1>9, <1>10 DEF AccessInv

\* The connection's effect: if the cache is still being read, what reads it will ask.
LEMMA AccessReadyEffect ==
  ASSUME AccessInv, Access!ReadyEffect PROVE AccessInv'
<1>1. /\ effects = {"ready"} /\ effects' = {}
      /\ retry' = IF linked THEN [retry EXCEPT !.on = FALSE] ELSE Access!NoRetry
      /\ inFlight' = IF linked /\ hydrated THEN Access!Refreshed(inFlight) ELSE inFlight
      /\ reading' = IF linked /\ reading = "overtaken" THEN "missed" ELSE reading
      /\ UNCHANGED <<account, linked, granted, hydrated, binding, now, heard, barred>>
  BY DEF Access!ReadyEffect
<1>2. retry' \in AccessRetries /\ retry'.on = FALSE
  BY <1>1, RetryTypes DEF AccessInv, AccessTypeOK
<1>3. CASE linked /\ hydrated
  BY <1>1, <1>2, <1>3, AccessAsks DEF AccessInv, AccessTypeOK, GrantLasts, RefusalHolds
<1>4. CASE ~(linked /\ hydrated)
  <2>1. inFlight' = inFlight
    BY <1>1, <1>4
  <2>2. AccessTypeOK'
    BY <1>1, <1>2, <2>1 DEF AccessInv, AccessTypeOK
  <2>3. OneIsCurrent' /\ CacheIsFirst' /\ GrantLasts' /\ RefusalHolds'
    BY <1>1, <1>2, <2>1 DEF AccessInv, OneIsCurrent, CacheIsFirst, GrantLasts, RefusalHolds,
      Access!NoLicense, ReadsCache
  <2>4. linked /\ reading' # "missed" => \E x \in inFlight : x.cur /\ x.life = account
    BY <1>1, <1>4 DEF AccessInv, AccessTypeOK, OneIsCurrent, CacheIsFirst
  <2>5. AskedOrHeard'
    BY <1>1, <2>1, <2>4 DEF AskedOrHeard
  <2> QED
    BY <2>2, <2>3, <2>5 DEF AccessInv
<1> QED
  BY <1>3, <1>4

\* The user, the window or another tab asks, the retry is due, or the license ends.
LEMMA AccessAsksAgain ==
  ASSUME AccessInv, Access!AskAgain \/ Access!RetryFires \/ Access!Expire PROVE AccessInv'
<1>1. /\ UNCHANGED <<account, linked, effects, hydrated, binding, now, heard, barred>>
      /\ reading' = reading \/ (reading' = "overtaken" /\ Access!AskAgain)
      /\ inFlight' = Access!Refreshed(inFlight)
      /\ granted' = granted \/ granted' = Access!NoLicense
  BY DEF Access!AskAgain, Access!RetryFires, Access!Expire, Access!told
<1>2. retry' = [retry EXCEPT !.on = FALSE] \/ (retry' = retry /\ ~linked)
  BY DEF Access!AskAgain, Access!RetryFires, Access!Expire
<1>3. "life" \in effects \/ hydrated \/ reading' # "quiet"
  <2>1. CASE Access!AskAgain
    BY <2>1 DEF Access!AskAgain
  <2>2. CASE Access!RetryFires \/ Access!Expire
    BY <2>2 DEF Access!RetryFires, Access!Expire, Access!told, AccessInv, CacheIsFirst
  <2> QED
    BY <2>1, <2>2
<1>4. retry' \in AccessRetries /\ (retry'.on => retry.on /\ ~linked)
  BY <1>2, RetryTypes DEF AccessInv, AccessTypeOK
<1>5. granted' \in AccessLicenses /\ (granted' # Access!NoLicense => now <= granted'.exp)
  BY <1>1, NoLicenseType DEF AccessInv, AccessTypeOK, GrantLasts
<1>6. barred => granted' = Access!NoLicense
  BY <1>1 DEF AccessInv, RefusalHolds
<1> QED
  BY <1>1, <1>3, <1>4, <1>5, <1>6, AccessAsks DEF AccessInv, AccessTypeOK

\* The cached license is deleted, or time passes, but not past the end of what is granted.
LEMMA AccessRests ==
  ASSUME AccessInv, NEW l, NEW why, Access!Clear(l, why) \/ Access!Tick PROVE AccessInv'
<1>1. /\ UNCHANGED <<account, linked, effects, granted, hydrated, retry, inFlight, heard, barred,
                     reading>>
      /\ binding' \in {binding, Access!NoLicense}
      /\ \/ now' = now
         \/ now' = now + 1 /\ (granted = Access!NoLicense \/ granted.exp > now)
  BY DEF Access!Clear, Access!Tick, Access!told
<1>2. AccessTypeOK'
  BY <1>1, NoLicenseType DEF AccessInv, AccessTypeOK
<1>3. GrantLasts'
  BY <1>1 DEF AccessInv, AccessTypeOK, GrantLasts, AccessLicenses, Access!NoLicense
<1>4. OneIsCurrent' /\ CacheIsFirst' /\ RefusalHolds' /\ AskedOrHeard'
  BY <1>1 DEF AccessInv, OneIsCurrent, CacheIsFirst, RefusalHolds, AskedOrHeard, ReadsCache,
    Access!NoLicense
<1> QED
  BY <1>2, <1>3, <1>4 DEF AccessInv

\* The invariant of the plan holds, whatever part of the device moves.
LEMMA AccessAlways == DeviceSpec => []AccessInv
<1>1. DeviceInit => AccessInv
  BY AccessInitially DEF DeviceInit
<1>2. AccessInv /\ [DeviceNext]_deviceVars => AccessInv'
  <2> SUFFICES ASSUME AccessInv, [DeviceNext]_deviceVars PROVE AccessInv'
    OBVIOUS
  <2>1. CASE Access!Next
    <3>1. \A exp \in 1..MaxTime + 2 : exp \in Nat
      BY AccessAssumption DEF Access!ConstantsAssumption
    <3>2. TRUE \in BOOLEAN /\ 0 \in Nat
      OBVIOUS
    <3>3. CASE \E x \in inFlight : \/ Access!ReadCache(x) \/ Access!Hydrated(x) \/ Access!Write(x)
                                   \/ Access!Publish(x)
      BY <3>2, <3>3, AccessRunStep
    <3>4. CASE \E x \in inFlight, exp \in 1..MaxTime + 2 : Access!Answer(x, exp)
      BY <3>1, <3>2, <3>4, AccessRunStep
    <3>5. CASE \E x \in inFlight, transient \in BOOLEAN : Access!RequestFails(x, transient)
      BY <3>2, <3>5, AccessRunStep
    <3>6. CASE \/ \E l \in Lives \union {None}, r \in BOOLEAN : Access!Render(l, r)
               \/ Access!LifeEffect \/ Access!ReadyEffect \/ Access!AskAgain
               \/ Access!RetryFires \/ Access!Expire \/ Access!Tick
               \/ \E l \in Lives, why \in {"refused", "expired"} : Access!Clear(l, why)
      BY <3>6, AccessRenders, AccessLifeEffect, AccessReadyEffect, AccessAsksAgain, AccessRests
    <3> QED
      BY <2>1, <3>3, <3>4, <3>5, <3>6 DEF Access!Next
  <2>2. CASE UNCHANGED accessVars
    BY <2>2 DEF accessVars, AccessInv, AccessTypeOK, OneIsCurrent, CacheIsFirst, GrantLasts,
      RefusalHolds, AskedOrHeard, ReadsCache, Access!NoLicense
  <2> QED
    BY <2>1, <2>2, StepOfAPart
<1> QED
  BY <1>1, <1>2, PTL DEF DeviceSpec

\* BillingAccess.GrantedIsCurrent, for every number of accounts, functions in flight,
\* changes, refreshes and failures.
THEOREM AccessSafety == DeviceSpec => []GrantedIsCurrent
<1>1. AccessInv => GrantedIsCurrent
  BY DEF AccessInv, AccessTypeOK, AccessLicenses, GrantLasts, RefusalHolds, GrantedIsCurrent,
    Access!GrantedIsCurrent, Access!Granted
<1> QED
  BY <1>1, AccessAlways, PTL

\* BillingAccess.StatusIsHeard, likewise.
THEOREM StatusSafety == DeviceSpec => []StatusIsHeard
<1>1. AccessInv => StatusIsHeard
  BY DEF AccessInv, AskedOrHeard, StatusIsHeard, Access!StatusIsHeard, Access!Settled
<1> QED
  BY <1>1, AccessAlways, PTL

-----------------------------------------------------------------------------
(* WorkspaceRestore.                                                       *)

RestoreRecords == [kind : {"base", "timer", "edit"}, n : Nat, doc : Restore!Docs]
RestorePlans ==
  [rollback : SUBSET RestoreRecords, timers : SUBSET RestoreRecords,
   replacement : SUBSET RestoreRecords]
RestoreWork == {"clear", "load", "import", "flush", "commit"}

\* The values of the restore's variables.
RestoreTypeOK ==
  /\ db \subseteq RestoreRecords /\ home \subseteq RestoreRecords /\ journal \in RestorePlans
  /\ pc \in [{tab} -> RestoreWork \union {"off", "idle", "journal", "dead"}]
  /\ mode \in [{tab} -> {"replace", "rollback", "recover"}]
  /\ mem \in [{tab} -> SUBSET RestoreRecords]
  /\ open \in [{tab} -> BOOLEAN] /\ ready \in [{tab} -> BOOLEAN]
  /\ plan \in [{tab} -> RestorePlans]
  /\ told \in Nat /\ edits \in Nat

\* The workspace that a journal record keeps.
Kept(p) == p.rollback \union p.timers

\* A set of records is the home but for edits that are not stored yet.
HomeWithEdits(rs) == home \subseteq rs /\ \A r \in rs : r.kind = "edit" \/ r \in home

\* A backup is not empty, and holds nobody's edits.
IsBackup(rs) == rs # {} /\ Restore!EditsIn(rs) = {}

\* Without a journal nothing is under way, and the databases are the home.
WithoutJournal ==
  journal = Restore!NoJournal =>
    /\ db = home /\ pc[tab] \in {"off", "idle", "journal"}
    /\ pc[tab] \in {"idle", "journal"} => HomeWithEdits(mem[tab])

\* What the tab is about to journal is what it shows.
BeforeJournal ==
  /\ pc[tab] = "off" => ~open[tab]
  /\ pc[tab] = "journal" =>
       /\ journal = Restore!NoJournal /\ mode[tab] = "replace"
       /\ Kept(plan[tab]) = mem[tab] /\ IsBackup(plan[tab].replacement)

\* A journal keeps the home, and whatever edits may still reach a database.
WithJournal ==
  journal # Restore!NoJournal =>
    /\ HomeWithEdits(Kept(journal)) /\ IsBackup(journal.replacement)
    /\ Restore!EditsIn(db) \subseteq Kept(journal)
    /\ open[tab] => Restore!EditsIn(mem[tab]) \subseteq Kept(journal)

\* A restore, a rollback or a recovery works with the journal, from empty databases
\* to those that hold what it is to bring.
AtWork ==
  /\ pc[tab] \in RestoreWork => journal # Restore!NoJournal /\ plan[tab] = journal
  /\ pc[tab] = "load" => db = {} /\ ~open[tab]
  /\ pc[tab] = "import" => db = {} /\ mem[tab] = {}
  /\ pc[tab] = "flush" => mem[tab] = Restore!Payload(tab) /\ db \subseteq Restore!Payload(tab)
  /\ pc[tab] = "commit" => /\ mem[tab] = Restore!Payload(tab) /\ db = Restore!Payload(tab)
                           /\ Restore!EditsIn(db) \subseteq home

RestoreInv == RestoreTypeOK /\ WithoutJournal /\ BeforeJournal /\ WithJournal /\ AtWork

\* Initially the databases hold a workspace, and no tab is open.
LEMMA RestoreInitially == ASSUME Restore!Init PROVE RestoreInv
<1>1. db \subseteq RestoreRecords
  BY DEF Restore!Init, Restore!Backup, Restore!Timer, RestoreRecords, Restore!Docs
<1>2. Restore!NoJournal \in RestorePlans
  BY DEF Restore!NoJournal, RestorePlans
<1>3. RestoreTypeOK
  BY <1>1, <1>2 DEF Restore!Init, RestoreTypeOK
<1> QED
  BY <1>3 DEF Restore!Init, RestoreInv, WithoutJournal, BeforeJournal, WithJournal, AtWork,
    RestoreWork

\* The backup that replaces the workspace.
LEMMA BackupIsBackup ==
  ASSUME NEW n \in Nat
  PROVE  IsBackup(Restore!Backup(n)) /\ Restore!Backup(n) \subseteq RestoreRecords
<1>1. \A r \in Restore!Backup(n) : r \in RestoreRecords /\ r.kind = "base"
  BY DEF Restore!Backup, RestoreRecords, Restore!Docs
<1>2. [kind |-> "base", n |-> n, doc |-> "core"] \in Restore!Backup(n)
  BY DEF Restore!Backup, Restore!Docs
<1> QED
  BY <1>1, <1>2 DEF IsBackup, Restore!EditsIn

\* A journal that was written is there.
LEMMA BackupIsJournal ==
  ASSUME NEW p \in RestorePlans, IsBackup(p.replacement) PROVE p # Restore!NoJournal
BY DEF IsBackup, Restore!NoJournal

\* The tab starts.
LEMMA RestoreStarts ==
  ASSUME RestoreInv, Restore!Start(tab) PROVE RestoreInv'
<1>1. pc[tab] = "off" /\ UNCHANGED <<db, journal, home, told, edits>>
  BY DEF Restore!Start, Restore!counts
<1>2. CASE journal = Restore!NoJournal
  <2>1. /\ mem' = [mem EXCEPT ![tab] = db] /\ open' = [open EXCEPT ![tab] = TRUE]
        /\ ready' = [ready EXCEPT ![tab] = TRUE] /\ pc' = [pc EXCEPT ![tab] = "idle"]
        /\ UNCHANGED <<mode, plan>>
    BY <1>2 DEF Restore!Start
  <2>2. RestoreTypeOK'
    BY <1>1, <2>1 DEF RestoreInv, RestoreTypeOK
  <2>3. pc'[tab] = "idle" /\ mem'[tab] = db
    BY <2>1 DEF RestoreInv, RestoreTypeOK
  <2>4. db = home
    BY <1>2 DEF RestoreInv, WithoutJournal
  <2> QED
    BY <1>1, <1>2, <2>2, <2>3, <2>4 DEF RestoreInv, WithoutJournal, BeforeJournal, WithJournal,
      AtWork, HomeWithEdits, RestoreWork, Restore!NoJournal
<1>3. CASE journal # Restore!NoJournal
  <2>1. /\ pc' = [pc EXCEPT ![tab] = "clear"] /\ mode' = [mode EXCEPT ![tab] = "recover"]
        /\ plan' = [plan EXCEPT ![tab] = journal] /\ UNCHANGED <<mem, open, ready>>
    BY <1>3 DEF Restore!Start
  <2>2. RestoreTypeOK'
    BY <1>1, <2>1 DEF RestoreInv, RestoreTypeOK, RestoreWork
  <2>3. pc'[tab] = "clear" /\ plan'[tab] = journal
    BY <2>1 DEF RestoreInv, RestoreTypeOK
  <2> QED
    BY <1>1, <1>3, <2>1, <2>2, <2>3 DEF RestoreInv, WithoutJournal, BeforeJournal, WithJournal,
      AtWork, HomeWithEdits, Kept, RestoreWork, Restore!NoJournal, Restore!EditsIn
<1> QED
  BY <1>2, <1>3

\* The user edits.
LEMMA RestoreEdits ==
  ASSUME RestoreInv, Restore!Edit(tab) PROVE RestoreInv'
<1> DEFINE e == Restore!EditOf(edits + 1)
<1>1. /\ pc[tab] = "idle" /\ journal = Restore!NoJournal /\ edits' = edits + 1
      /\ mem' = [mem EXCEPT ![tab] = @ \union {e}]
      /\ UNCHANGED <<db, journal, pc, mode, open, ready, plan, home, told>>
  BY DEF Restore!Edit
<1>2. e \in RestoreRecords /\ e.kind = "edit"
  <2>1. edits + 1 \in Nat
    BY DEF RestoreInv, RestoreTypeOK
  <2> QED
    BY <2>1 DEF Restore!EditOf, RestoreRecords, Restore!Docs
<1> HIDE DEF e
<1>3. RestoreTypeOK'
  BY <1>1, <1>2 DEF RestoreInv, RestoreTypeOK
<1>4. mem'[tab] = mem[tab] \union {e}
  BY <1>1 DEF RestoreInv, RestoreTypeOK
<1> QED
  BY <1>1, <1>2, <1>3, <1>4 DEF RestoreInv, WithoutJournal, BeforeJournal, WithJournal, AtWork,
    HomeWithEdits, RestoreWork, Restore!NoJournal

\* Records of the tab reach the databases, and the edits among them are stored.
LEMMA RecordsAreStored ==
  ASSUME RestoreInv, NEW rs \in SUBSET mem[tab],
         open[tab], db' = db \union rs, home' = home \union Restore!EditsIn(db'),
         UNCHANGED <<journal, mode, mem, open, ready, plan, told, edits>>,
         pc' = pc \/ (pc[tab] = "flush" /\ pc' = [pc EXCEPT ![tab] = "commit"] /\ rs = mem[tab])
  PROVE  RestoreInv'
<1>1. mem[tab] \subseteq RestoreRecords /\ \A r \in rs : r \in mem[tab]
  BY DEF RestoreInv, RestoreTypeOK
<1>2. RestoreTypeOK'
  BY <1>1 DEF RestoreInv, RestoreTypeOK, Restore!EditsIn, RestoreWork
<1>3. \/ pc'[tab] = pc[tab]
      \/ pc[tab] = "flush" /\ pc'[tab] = "commit" /\ rs = mem[tab]
  BY DEF RestoreInv, RestoreTypeOK
<1>4. pc[tab] # "off"
  BY DEF RestoreInv, BeforeJournal
<1>5. WithoutJournal'
  <2> SUFFICES ASSUME journal = Restore!NoJournal
               PROVE  db' = home' /\ pc'[tab] \in {"idle", "journal"} /\ HomeWithEdits(mem[tab])'
    BY DEF WithoutJournal, Restore!NoJournal
  <2>1. /\ db = home /\ pc[tab] \in {"idle", "journal"} /\ HomeWithEdits(mem[tab])
    BY <1>4 DEF RestoreInv, WithoutJournal
  <2>2. home' = home \union rs
    BY <1>1, <2>1 DEF HomeWithEdits, Restore!EditsIn
  <2> QED
    BY <1>1, <1>3, <2>1, <2>2 DEF HomeWithEdits
<1>6. BeforeJournal'
  BY <1>3 DEF RestoreInv, BeforeJournal, Restore!NoJournal
<1>7. WithJournal'
  <2> SUFFICES ASSUME journal # Restore!NoJournal
               PROVE  /\ HomeWithEdits(Kept(journal))' /\ Restore!EditsIn(db)' \subseteq Kept(journal)
    BY DEF RestoreInv, WithJournal, Restore!NoJournal, Restore!EditsIn, Kept
  <2>1. /\ HomeWithEdits(Kept(journal)) /\ Restore!EditsIn(db) \subseteq Kept(journal)
        /\ Restore!EditsIn(mem[tab]) \subseteq Kept(journal)
    BY DEF RestoreInv, WithJournal
  <2>2. Restore!EditsIn(db') \subseteq Kept(journal)
    BY <1>1, <2>1 DEF Restore!EditsIn
  <2> QED
    BY <2>1, <2>2 DEF HomeWithEdits, Restore!EditsIn, Kept
<1>8. AtWork'
  <2>1. Restore!Payload(tab)' = Restore!Payload(tab)
    BY DEF Restore!Payload
  <2>2. pc'[tab] \in RestoreWork => pc[tab] \in RestoreWork
    BY <1>3 DEF RestoreWork
  <2>3. pc[tab] \in {"load", "import"} => db' = db
    BY <1>1 DEF RestoreInv, AtWork
  <2> QED
    BY <1>1, <1>3, <2>1, <2>2, <2>3 DEF RestoreInv, AtWork, Restore!NoJournal, Restore!EditsIn
<1> QED
  BY <1>2, <1>5, <1>6, <1>7, <1>8 DEF RestoreInv

\* A document reaches its database.
LEMMA RestorePersists ==
  ASSUME RestoreInv, NEW d \in Restore!Docs, Restore!Persist(tab, d) PROVE RestoreInv'
<1>1. Restore!In(mem[tab], d) \in SUBSET mem[tab]
  BY DEF Restore!In
<1> QED
  BY <1>1, RecordsAreStored DEF Restore!Persist, Restore!tabVars, Restore!counts

\* The workspace is exported, and what is to replace it is read.
LEMMA RestoreExports ==
  ASSUME RestoreInv, Restore!Export(tab) PROVE RestoreInv'
<1> DEFINE p == [rollback |-> mem[tab] \ {Restore!Timer},
                 timers |-> mem[tab] \intersect {Restore!Timer},
                 replacement |-> Restore!Backup(told + 1)]
<1>1. /\ pc[tab] = "idle" /\ journal = Restore!NoJournal /\ told' = told + 1
      /\ plan' = [plan EXCEPT ![tab] = p]
      /\ pc' = [pc EXCEPT ![tab] = "journal"] /\ mode' = [mode EXCEPT ![tab] = "replace"]
      /\ UNCHANGED <<db, journal, mem, open, ready, home, edits>>
  BY DEF Restore!Export
<1>2. told + 1 \in Nat /\ mem[tab] \subseteq RestoreRecords
  BY DEF RestoreInv, RestoreTypeOK
<1>3. IsBackup(p.replacement) /\ p.replacement \subseteq RestoreRecords
  BY <1>2, BackupIsBackup
<1>4. p \in RestorePlans /\ Kept(p) = mem[tab]
  BY <1>2, <1>3 DEF RestorePlans, Kept
<1> HIDE DEF p
<1>5. RestoreTypeOK'
  BY <1>1, <1>2, <1>4 DEF RestoreInv, RestoreTypeOK
<1>6. pc'[tab] = "journal" /\ mode'[tab] = "replace" /\ plan'[tab] = p
  BY <1>1 DEF RestoreInv, RestoreTypeOK
<1>7. WithoutJournal' /\ BeforeJournal'
  BY <1>1, <1>3, <1>4, <1>6 DEF RestoreInv, WithoutJournal, BeforeJournal, HomeWithEdits,
    Restore!NoJournal, Kept
<1>8. WithJournal' /\ AtWork'
  BY <1>1, <1>6 DEF WithJournal, AtWork, RestoreWork, Restore!NoJournal
<1> QED
  BY <1>5, <1>7, <1>8 DEF RestoreInv

\* The page is closed or dies.
LEMMA RestoreCrashes ==
  ASSUME RestoreInv, Restore!Crash(tab) PROVE RestoreInv'
<1>1. /\ pc' = [pc EXCEPT ![tab] = "off"] /\ mem' = [mem EXCEPT ![tab] = {}]
      /\ open' = [open EXCEPT ![tab] = FALSE] /\ ready' = [ready EXCEPT ![tab] = FALSE]
      /\ plan' = [plan EXCEPT ![tab] = Restore!NoJournal]
      /\ UNCHANGED <<db, journal, mode, home, told, edits>>
  BY DEF Restore!Crash
<1>2. Restore!NoJournal \in RestorePlans
  BY DEF Restore!NoJournal, RestorePlans
<1>3. RestoreTypeOK'
  BY <1>1, <1>2 DEF RestoreInv, RestoreTypeOK
<1>4. pc'[tab] = "off" /\ ~open'[tab]
  BY <1>1 DEF RestoreInv, RestoreTypeOK
<1> QED
  BY <1>1, <1>3, <1>4 DEF RestoreInv, WithoutJournal, BeforeJournal, WithJournal, AtWork,
    HomeWithEdits, Kept, RestoreWork, Restore!NoJournal, Restore!EditsIn

\* A step of the work fails: it is rolled back, or given up with the journal left.
LEMMA RestoreFails ==
  ASSUME RestoreInv, pc[tab] \in RestoreWork, Restore!Fails(tab),
         UNCHANGED <<journal, mem, ready, plan, told, edits>>,
         open' = open \/ open' = [u \in {tab} |-> FALSE],
         db' \subseteq RestoreRecords, Restore!EditsIn(db') \subseteq Kept(journal),
         home' = home \/ home' = home \union Restore!EditsIn(db')
  PROVE  RestoreInv'
<1>1. /\ pc' \in [{tab} -> {"clear", "idle", "dead"}]
      /\ mode' \in [{tab} -> {"replace", "rollback", "recover"}]
  <2>1. CASE mode[tab] = "replace"
    BY <2>1 DEF Restore!Fails, RestoreInv, RestoreTypeOK
  <2>2. CASE mode[tab] # "replace"
    <3>1. mode' = mode /\ pc' = [pc EXCEPT ![tab] = IF mode[tab] = "rollback" THEN "idle" ELSE "dead"]
      BY <2>2 DEF Restore!Fails
    <3> QED
      BY <3>1 DEF RestoreInv, RestoreTypeOK
  <2> QED
    BY <2>1, <2>2
<1>2. RestoreTypeOK'
  BY <1>1 DEF RestoreInv, RestoreTypeOK, RestoreWork, Restore!EditsIn
<1>3. journal # Restore!NoJournal /\ plan[tab] = journal
  BY DEF RestoreInv, AtWork
<1>4. pc'[tab] \in {"clear", "idle", "dead"} /\ (open'[tab] => open[tab])
  BY <1>1
<1>5. WithoutJournal' /\ BeforeJournal' /\ AtWork'
  BY <1>3, <1>4 DEF WithoutJournal, BeforeJournal, AtWork, RestoreWork, Restore!NoJournal
<1>6. WithJournal'
  BY <1>3, <1>4 DEF RestoreInv, WithJournal, HomeWithEdits, Kept, Restore!EditsIn,
    Restore!NoJournal
<1> QED
  BY <1>2, <1>5, <1>6 DEF RestoreInv

\* The journal is written.
LEMMA RestoreWritesJournal ==
  ASSUME RestoreInv, Restore!WriteJournal(tab) PROVE RestoreInv'
<1>1. /\ pc[tab] = "journal" /\ UNCHANGED <<db, mode, mem, open, ready, plan, home, told, edits>>
      /\ \/ journal' = plan[tab] /\ pc' = [pc EXCEPT ![tab] = "clear"]
         \/ journal' = journal /\ pc' = [pc EXCEPT ![tab] = "idle"]
  BY DEF Restore!WriteJournal, Restore!Goes
<1>2. /\ journal = Restore!NoJournal /\ Kept(plan[tab]) = mem[tab]
      /\ IsBackup(plan[tab].replacement) /\ plan[tab] \in RestorePlans
      /\ db = home /\ HomeWithEdits(mem[tab])
  BY <1>1 DEF RestoreInv, RestoreTypeOK, WithoutJournal, BeforeJournal
<1>3. plan[tab] # Restore!NoJournal
  BY <1>2, BackupIsJournal
<1>4. RestoreTypeOK'
  BY <1>1, <1>2 DEF RestoreInv, RestoreTypeOK, RestoreWork
<1>5. CASE journal' = plan[tab] /\ pc' = [pc EXCEPT ![tab] = "clear"]
  <2>1. pc'[tab] = "clear"
    BY <1>5 DEF RestoreInv, RestoreTypeOK
  <2>2. WithoutJournal' /\ BeforeJournal' /\ AtWork'
    BY <1>1, <1>3, <1>5, <2>1 DEF WithoutJournal, BeforeJournal, AtWork, Restore!NoJournal
  <2>3. WithJournal'
    BY <1>1, <1>2, <1>5 DEF WithJournal, HomeWithEdits, Kept, Restore!EditsIn, IsBackup
  <2> QED
    BY <1>4, <2>2, <2>3 DEF RestoreInv
<1>6. CASE journal' = journal /\ pc' = [pc EXCEPT ![tab] = "idle"]
  <2>1. pc'[tab] = "idle"
    BY <1>6 DEF RestoreInv, RestoreTypeOK
  <2> QED
    BY <1>1, <1>2, <1>4, <1>6, <2>1 DEF RestoreInv, WithoutJournal, BeforeJournal, AtWork,
      WithJournal, HomeWithEdits, RestoreWork, Restore!NoJournal
<1> QED
  BY <1>1, <1>5, <1>6

\* The databases are deleted, or some of them.
LEMMA RestoreClears ==
  ASSUME RestoreInv, Restore!Clear(tab) PROVE RestoreInv'
<1>1. PICK gone \in SUBSET Restore!Docs :
        /\ db' = {r \in db : r.doc \notin gone}
        /\ IF gone = Restore!Docs
           THEN /\ mem' = [mem EXCEPT ![tab] = {}] /\ ready' = [ready EXCEPT ![tab] = FALSE]
                /\ Restore!Goes(tab, "load")
           ELSE Restore!Fails(tab) /\ UNCHANGED <<mem, ready>>
  BY DEF Restore!Clear
<1>2. /\ pc[tab] = "clear" /\ open' = [u \in {tab} |-> FALSE]
      /\ UNCHANGED <<journal, plan, home, told, edits>>
  BY DEF Restore!Clear
<1>3. journal # Restore!NoJournal /\ plan[tab] = journal
  BY <1>2 DEF RestoreInv, AtWork, RestoreWork
<1>4. db' \subseteq RestoreRecords /\ Restore!EditsIn(db') \subseteq Kept(journal)
  BY <1>1, <1>3 DEF RestoreInv, RestoreTypeOK, WithJournal, Restore!EditsIn
<1>5. CASE gone = Restore!Docs
  <2>1. /\ mem' = [mem EXCEPT ![tab] = {}] /\ ready' = [ready EXCEPT ![tab] = FALSE]
        /\ pc' = [pc EXCEPT ![tab] = "load"] /\ mode' = mode
    BY <1>1, <1>5 DEF Restore!Goes
  <2>2. db' = {}
    BY <1>1, <1>5 DEF RestoreInv, RestoreTypeOK, RestoreRecords
  <2>3. RestoreTypeOK'
    BY <1>2, <1>4, <2>1 DEF RestoreInv, RestoreTypeOK, RestoreWork
  <2>4. pc'[tab] = "load" /\ ~open'[tab]
    BY <1>2, <2>1 DEF RestoreInv, RestoreTypeOK
  <2>5. WithoutJournal' /\ BeforeJournal' /\ AtWork'
    BY <1>2, <1>3, <2>2, <2>4 DEF WithoutJournal, BeforeJournal, AtWork, Restore!NoJournal
  <2>6. WithJournal'
    BY <1>2, <1>3, <1>4, <2>4 DEF RestoreInv, WithJournal, HomeWithEdits, Kept, Restore!NoJournal,
      Restore!EditsIn
  <2> QED
    BY <2>3, <2>5, <2>6 DEF RestoreInv
<1>6. CASE gone # Restore!Docs
  <2>1. pc[tab] \in RestoreWork
    BY <1>2 DEF RestoreWork
  <2>2. Restore!Fails(tab) /\ UNCHANGED <<mem, ready>>
    BY <1>1, <1>6
  <2> QED
    BY <1>2, <1>4, <2>1, <2>2, RestoreFails
<1> QED
  BY <1>5, <1>6

\* Without a change of the records a failure is rolled back or given up.
LEMMA RestoreOnlyFails ==
  ASSUME RestoreInv, pc[tab] \in RestoreWork, Restore!Fails(tab),
         UNCHANGED <<db, journal, mem, open, ready, plan, home, told, edits>>
  PROVE  RestoreInv'
<1>1. db' \subseteq RestoreRecords /\ Restore!EditsIn(db') \subseteq Kept(journal)
  BY DEF RestoreInv, RestoreTypeOK, AtWork, WithJournal
<1> QED
  BY <1>1, RestoreFails

\* The documents are created again, empty.
LEMMA RestoreReopens ==
  ASSUME RestoreInv, Restore!Reopen(tab) PROVE RestoreInv'
<1>1. /\ pc[tab] = "load" /\ pc[tab] \in RestoreWork
      /\ UNCHANGED <<db, journal, plan, home, told, edits>>
  BY DEF Restore!Reopen, RestoreWork
<1>2. CASE Restore!Fails(tab) /\ UNCHANGED <<mem, open, ready>>
  BY <1>1, <1>2, RestoreOnlyFails
<1>3. CASE /\ mem' = [mem EXCEPT ![tab] = db] /\ open' = [open EXCEPT ![tab] = TRUE]
           /\ ready' = [ready EXCEPT ![tab] = TRUE] /\ Restore!Goes(tab, "import")
  <2>1. pc' = [pc EXCEPT ![tab] = "import"] /\ mode' = mode
    BY <1>3 DEF Restore!Goes
  <2>2. RestoreTypeOK'
    BY <1>1, <1>3, <2>1 DEF RestoreInv, RestoreTypeOK, RestoreWork
  <2>3. pc'[tab] = "import" /\ mem'[tab] = {} /\ db = {}
    BY <1>1, <1>3, <2>1 DEF RestoreInv, RestoreTypeOK, AtWork
  <2>4. journal # Restore!NoJournal /\ plan[tab] = journal
    BY <1>1 DEF RestoreInv, AtWork
  <2>5. WithoutJournal' /\ BeforeJournal' /\ AtWork'
    BY <1>1, <2>3, <2>4 DEF WithoutJournal, BeforeJournal, AtWork, Restore!NoJournal
  <2>6. WithJournal'
    BY <1>1, <2>3, <2>4 DEF RestoreInv, WithJournal, HomeWithEdits, Kept, Restore!NoJournal,
      Restore!EditsIn
  <2> QED
    BY <2>2, <2>5, <2>6 DEF RestoreInv
<1> QED
  BY <1>2, <1>3 DEF Restore!Reopen

\* What a restore or a rollback brings.
LEMMA PayloadOfPlan ==
  ASSUME RestoreInv, pc[tab] \in RestoreWork
  PROVE  /\ Restore!Payload(tab) = IF mode[tab] = "replace" THEN journal.replacement
                                   ELSE Kept(journal)
         /\ Restore!Payload(tab) \subseteq RestoreRecords
         /\ Restore!EditsIn(Restore!Payload(tab)) \subseteq Kept(journal)
<1>1. plan[tab] = journal /\ journal \in RestorePlans /\ IsBackup(journal.replacement)
  BY DEF RestoreInv, RestoreTypeOK, AtWork, WithJournal
<1> QED
  BY <1>1 DEF Restore!Payload, Kept, RestorePlans, IsBackup, Restore!EditsIn

\* They are filled.
LEMMA RestoreImports ==
  ASSUME RestoreInv, Restore!Import(tab) PROVE RestoreInv'
<1>1. /\ pc[tab] = "import" /\ pc[tab] \in RestoreWork
      /\ UNCHANGED <<db, journal, open, ready, plan, home, told, edits>>
  BY DEF Restore!Import, RestoreWork
<1>2. CASE Restore!Fails(tab) /\ UNCHANGED mem
  BY <1>1, <1>2, RestoreOnlyFails
<1>3. CASE /\ mem' = [u \in {tab} |-> IF u = tab \/ open[u]
                                      THEN mem[u] \union Restore!Payload(tab) ELSE mem[u]]
           /\ Restore!Goes(tab, "flush")
  <2>1. pc' = [pc EXCEPT ![tab] = "flush"] /\ mode' = mode
    BY <1>3 DEF Restore!Goes
  <2>2. pc'[tab] = "flush" /\ mem'[tab] = Restore!Payload(tab) /\ db = {}
    BY <1>1, <1>3, <2>1 DEF RestoreInv, RestoreTypeOK, AtWork
  <2>3. RestoreTypeOK'
    BY <1>1, <1>3, <2>1, <2>2, PayloadOfPlan DEF RestoreInv, RestoreTypeOK, RestoreWork
  <2>4. journal # Restore!NoJournal /\ plan[tab] = journal
    BY <1>1 DEF RestoreInv, AtWork
  <2>5. Restore!Payload(tab)' = Restore!Payload(tab)
    BY <1>1, <2>1 DEF Restore!Payload
  <2>6. WithoutJournal' /\ BeforeJournal' /\ AtWork'
    BY <1>1, <2>2, <2>4, <2>5 DEF WithoutJournal, BeforeJournal, AtWork, Restore!NoJournal
  <2>7. WithJournal'
    BY <1>1, <2>2, <2>4, PayloadOfPlan DEF RestoreInv, WithJournal, HomeWithEdits, Kept,
      Restore!NoJournal, Restore!EditsIn
  <2> QED
    BY <2>3, <2>6, <2>7 DEF RestoreInv
<1> QED
  BY <1>2, <1>3 DEF Restore!Import

\* A transaction on each database, or on some.
LEMMA RestoreFlushes ==
  ASSUME RestoreInv, Restore!Flush(tab) PROVE RestoreInv'
<1>1. PICK done \in SUBSET Restore!Docs :
        /\ open[tab] \/ done = {}
        /\ db' = db \union {r \in mem[tab] : r.doc \in done}
        /\ home' = home \union Restore!EditsIn(db')
        /\ IF done = Restore!Docs THEN Restore!Goes(tab, "commit") ELSE Restore!Fails(tab)
  BY DEF Restore!Flush
<1>2. /\ pc[tab] = "flush" /\ pc[tab] \in RestoreWork
      /\ UNCHANGED <<journal, mem, open, ready, plan, told, edits>>
  BY DEF Restore!Flush, RestoreWork
<1> DEFINE rs == {r \in mem[tab] : r.doc \in done}
<1>3. rs \in SUBSET mem[tab]
  OBVIOUS
<1>4. CASE done = Restore!Docs
  <2>1. rs = mem[tab]
    BY <1>4 DEF RestoreInv, RestoreTypeOK, RestoreRecords
  <2>2. open[tab]
    BY <1>1, <1>4 DEF Restore!Docs
  <2>3. pc' = [pc EXCEPT ![tab] = "commit"] /\ mode' = mode
    BY <1>1, <1>4 DEF Restore!Goes
  <2>4. db' = db \union rs
    BY <1>1
  <2> HIDE DEF rs
  <2> QED
    BY <1>1, <1>2, <1>3, <2>1, <2>2, <2>3, <2>4, RecordsAreStored
<1>5. CASE done # Restore!Docs
  <2>1. db' \subseteq RestoreRecords /\ Restore!EditsIn(db') \subseteq Kept(journal)
    <3>1. mem[tab] = Restore!Payload(tab) /\ db \subseteq Restore!Payload(tab)
      BY <1>2 DEF RestoreInv, AtWork
    <3>2. /\ Restore!Payload(tab) \subseteq RestoreRecords
          /\ Restore!EditsIn(Restore!Payload(tab)) \subseteq Kept(journal)
      BY <1>2, PayloadOfPlan
    <3> QED
      BY <1>1, <3>1, <3>2 DEF Restore!EditsIn
  <2>2. Restore!Fails(tab)
    BY <1>1, <1>5
  <2> QED
    BY <1>1, <1>2, <2>1, <2>2, RestoreFails
<1> QED
  BY <1>4, <1>5

\* The journal is deleted: what the databases hold is the home from now on.
LEMMA RestoreCommits ==
  ASSUME RestoreInv, Restore!Commit(tab) PROVE RestoreInv'
<1>1. /\ pc[tab] = "commit" /\ pc[tab] \in RestoreWork
      /\ UNCHANGED <<db, mem, open, ready, plan, told, edits>>
  BY DEF Restore!Commit, RestoreWork
<1>2. CASE Restore!Fails(tab) /\ UNCHANGED <<journal, home>>
  BY <1>1, <1>2, RestoreOnlyFails
<1>3. CASE /\ journal' = Restore!NoJournal
           /\ home' = IF mode[tab] = "replace" THEN plan[tab].replacement ELSE home
           /\ Restore!Goes(tab, "idle")
  <2>1. pc' = [pc EXCEPT ![tab] = "idle"] /\ mode' = mode
    BY <1>3 DEF Restore!Goes
  <2>2. /\ mem[tab] = Restore!Payload(tab) /\ db = Restore!Payload(tab)
        /\ Restore!EditsIn(db) \subseteq home /\ plan[tab] = journal
        /\ HomeWithEdits(Kept(journal))
    BY <1>1 DEF RestoreInv, AtWork, WithJournal
  <2>3. /\ Restore!Payload(tab) = IF mode[tab] = "replace" THEN journal.replacement
                                  ELSE Kept(journal)
        /\ Restore!Payload(tab) \subseteq RestoreRecords
    BY <1>1, PayloadOfPlan
  <2>4. home' = db
    <3>1. CASE mode[tab] = "replace"
      BY <1>3, <2>2, <2>3, <3>1
    <3>2. CASE mode[tab] # "replace"
      BY <1>3, <2>2, <2>3, <3>2 DEF HomeWithEdits, Restore!EditsIn
    <3> QED
      BY <3>1, <3>2
  <2>5. Restore!NoJournal \in RestorePlans
    BY DEF Restore!NoJournal, RestorePlans
  <2>6. RestoreTypeOK'
    BY <1>1, <1>3, <2>1, <2>4, <2>5 DEF RestoreInv, RestoreTypeOK
  <2>7. pc'[tab] = "idle"
    BY <2>1 DEF RestoreInv, RestoreTypeOK
  <2>8. WithoutJournal' /\ BeforeJournal' /\ WithJournal' /\ AtWork'
    BY <1>1, <1>3, <2>2, <2>4, <2>7 DEF WithoutJournal, BeforeJournal, WithJournal, AtWork,
      HomeWithEdits, RestoreWork, Restore!NoJournal
  <2> QED
    BY <2>6, <2>8 DEF RestoreInv
<1> QED
  BY <1>2, <1>3 DEF Restore!Commit

\* The invariant of the restore holds, whatever part of the device moves.
LEMMA RestoreAlways == DeviceSpec => []RestoreInv
<1>1. DeviceInit => RestoreInv
  BY RestoreInitially DEF DeviceInit
<1>2. RestoreInv /\ [DeviceNext]_deviceVars => RestoreInv'
  <2> SUFFICES ASSUME RestoreInv, [DeviceNext]_deviceVars PROVE RestoreInv'
    OBVIOUS
  <2>1. CASE Restore!Next
    <3>1. \/ Restore!Start(tab) \/ Restore!Edit(tab) \/ Restore!Export(tab)
          \/ Restore!Proceed(tab) \/ Restore!Crash(tab)
          \/ \E d \in Restore!Docs : Restore!Persist(tab, d)
      BY <2>1 DEF Restore!Next
    <3> QED
      BY <3>1, RestoreStarts, RestoreEdits, RestoreExports, RestoreWritesJournal, RestoreClears,
        RestoreReopens, RestoreImports, RestoreFlushes, RestoreCommits, RestoreCrashes,
        RestorePersists DEF Restore!Proceed
  <2>2. CASE UNCHANGED restoreVars
    BY <2>2 DEF restoreVars, RestoreInv, RestoreTypeOK, WithoutJournal, BeforeJournal,
      WithJournal, AtWork, HomeWithEdits, Kept, Restore!NoJournal, Restore!EditsIn,
      Restore!Payload
  <2> QED
    BY <2>1, <2>2, StepOfAPart
<1> QED
  BY <1>1, <1>2, PTL DEF DeviceSpec

\* WorkspaceRestore.HomeIsKept, for every number of restores, edits, failures and
\* crashes of the tab.
THEOREM RestoreSafety == DeviceSpec => []HomeIsKept
<1>1. RestoreInv => HomeIsKept
  BY DEF RestoreInv, WithoutJournal, WithJournal, HomeWithEdits, Kept, HomeIsKept,
    Restore!HomeIsKept, Restore!NoJournal
<1> QED
  BY <1>1, RestoreAlways, PTL

-----------------------------------------------------------------------------
(* RecurringExpenses.                                                      *)

ExpenseSet == Expenses!Expenses
ExpenseRun ==
  [at : ExpenseSet, until : 0..MaxDay, recs : SUBSET Expenses!Recs,
   last : [Expenses!Recs -> Nat], known : SUBSET ExpenseSet]
ExpenseRec == [state : {"absent", "there", "gone"}, last : Nat, active : BOOLEAN]
ExpenseBooks ==
  [recs : [Expenses!Recs -> ExpenseRec], copies : [ExpenseSet -> {"none", "paid", "unpaid"}],
   archived : SUBSET ExpenseSet, made : SUBSET ExpenseSet]

\* The values of the expenses' variables.
ExpensesTypeOK ==
  /\ books \in ExpenseBooks /\ day \in 0..MaxDay
  /\ runs \in [Expenses!Runs -> {Expenses!NoRun} \union ExpenseRun]
  /\ viewing \in [at : {Expenses!Nothing} \union ExpenseSet, last : Nat]
  /\ adding \in 0..Count

\* The periods of a recurrence up to the n-th were made, or passed over by a view.
MadeUpTo(w, r, n) == {r} \X (1..n) \subseteq w.made

\* A recurrence that there is or was.
Recurring(w) == {r \in Expenses!Recs : w.recs[r].state # "absent"}

\* A mark has its expenses, there is one copy of each, and what was made belongs to
\* a recurrence.
BooksAreSound(w) ==
  /\ \A r \in Expenses!Live(w) : MadeUpTo(w, r, w.recs[r].last)
  /\ Expenses!Active(w) \union w.archived \subseteq w.made
  /\ Expenses!Active(w) \intersect w.archived = {}
  /\ \A x \in w.made : x[1] \in Recurring(w)

\* What a run takes to be made was made.
RunIsSound(w, g) ==
  /\ g.known \subseteq w.made /\ g.recs \subseteq Recurring(w)
  /\ \A r \in g.recs : MadeUpTo(w, r, g.last[r])

\* A generation that waits for an expense has those before it.
IsNext(w, x) == x[1] \in Recurring(w) /\ MadeUpTo(w, x[1], x[2] - 1)

RunsAreSound(w, rs) ==
  \A id \in Expenses!Runs :
    rs[id] # Expenses!NoRun => RunIsSound(w, rs[id]) /\ IsNext(w, rs[id].at)

WaitsAreSound(w, v, a) ==
  /\ v.at # Expenses!Nothing => v.at[1] \in Recurring(w)
  /\ a # 0 => a \in Recurring(w) /\ <<a, 1>> \in ExpenseSet

ExpensesInv ==
  /\ ExpensesTypeOK
  /\ BooksAreSound(books) /\ RunsAreSound(books, runs) /\ WaitsAreSound(books, viewing, adding)

\* The recurrences and what was made of them only grow.
Grows(w, v) == w.made \subseteq v.made /\ Recurring(w) \subseteq Recurring(v)

\* The constants of the expenses.
LEMMA ExpenseConstants ==
  /\ Count \in Nat /\ Batch \in Nat /\ MaxDay \in Nat
  /\ Last \in [1..Count -> Nat] /\ Expenses!Recs = 1..Count
  /\ ExpenseSet = (1..Count) \X (1..MaxDay)
BY ExpensesAssumption DEF Expenses!ConstantsAssumption, Expenses!Recs, ExpenseSet,
  Expenses!Expenses

\* The cardinality that the expenses use.
LEMMA CardinalityOfExpenses == ASSUME NEW S PROVE Expenses!Cardinality(S) = Cardinality(S)
BY Zenon DEF Expenses!Cardinality, Cardinality

\* LeastOf returns the least of some numbers.
LEMMA LeastOfSome ==
  ASSUME NEW S \in SUBSET Nat, S # {}
  PROVE  Expenses!LeastOf(S) \in S /\ \A k \in S : Expenses!LeastOf(S) <= k
BY NaturalMin DEF Expenses!LeastOf, Min

\* The pending periods follow the last one, and none is after today.
LEMMA PendingPeriods ==
  ASSUME day \in 0..MaxDay, NEW g, NEW r \in Expenses!Recs, g.last[r] \in Nat
  PROVE  /\ Expenses!Pending(g, r) \subseteq 1..MaxDay
         /\ \A p \in Expenses!Pending(g, r) : 1 .. p - 1 \subseteq 1 .. g.last[r] \union Expenses!Pending(g, r)
         /\ Expenses!Pending(g, r) # {} =>
              /\ g.last[r] + Cardinality(Expenses!Pending(g, r)) \in 0..MaxDay
              /\ 1 .. g.last[r] + Cardinality(Expenses!Pending(g, r))
                   \subseteq 1 .. g.last[r] \union Expenses!Pending(g, r)
<1> DEFINE S == {day, Last[r], g.last[r] + Batch}
           a == g.last[r]
           b == Expenses!LeastOf(S)
<1>1. S \in SUBSET Nat /\ S # {} /\ day \in S
  BY ExpenseConstants
<1>2. b \in S /\ b <= day
  <2> HIDE DEF S
  <2> QED BY <1>1, LeastOfSome
<1>3. b \in Nat /\ b <= MaxDay /\ a \in Nat /\ Expenses!Pending(g, r) = a + 1 .. b
  BY <1>1, <1>2, ExpenseConstants DEF Expenses!Pending
<1> HIDE DEF a, b, S
<1>5. Cardinality(a + 1 .. b) = IF a + 1 > b THEN 0 ELSE b - (a + 1) + 1
  <2> DEFINE lo == a + 1
  <2>1. lo \in Int /\ b \in Int
    BY <1>3
  <2> HIDE DEF lo
  <2>2. Cardinality(lo .. b) = IF lo > b THEN 0 ELSE b - lo + 1
    BY <2>1, FS_Interval
  <2> QED
    BY <2>2 DEF lo
<1>6. CASE a + 1 <= b
  <2>1. Cardinality(a + 1 .. b) = b - a
    BY <1>3, <1>5, <1>6
  <2>2. a + (b - a) = b
    BY <1>3
  <2>3. b \in 0..MaxDay /\ a + 1 .. b \subseteq 1..MaxDay /\ 1..b \subseteq 1..a \union (a + 1 .. b)
    BY <1>3, <1>6, ExpenseConstants
  <2>4. \A p \in a + 1 .. b : 1 .. p - 1 \subseteq 1..a \union (a + 1 .. b)
    BY <1>3
  <2> QED
    BY <1>3, <2>1, <2>2, <2>3, <2>4 DEF a
<1>7. CASE a + 1 > b
  <2>1. a + 1 .. b = {}
    BY <1>3, <1>7
  <2> QED
    BY <1>3, <2>1 DEF a
<1> QED
  BY <1>3, <1>6, <1>7

\* One of some expenses is before the others.
LEMMA FirstExpense ==
  ASSUME NEW S \in SUBSET ExpenseSet, S # {}
  PROVE  LET y == CHOOSE y \in S : \A z \in S \ {y} : Expenses!Before(y, z)
         IN  y \in S /\ \A z \in S \ {y} : Expenses!Before(y, z)
<1> DEFINE R == {z[1] : z \in S}
           r == Min(R)
           P == {z[2] : z \in {u \in S : u[1] = r}}
           p == Min(P)
<1>1. R \in SUBSET Nat /\ R # {}
  BY ExpenseConstants
<1>2. r \in R /\ \A k \in R : r <= k
  <2> HIDE DEF R
  <2> QED BY <1>1, NaturalMin
<1>3. P \in SUBSET Nat /\ P # {}
  <2>1. PICK z \in S : z[1] = r
    BY <1>2
  <2> HIDE DEF r, R
  <2> QED BY <2>1, ExpenseConstants
<1>4. p \in P /\ \A k \in P : p <= k
  <2> HIDE DEF P
  <2> QED BY <1>3, NaturalMin
<1>5. PICK y \in S : y[1] = r /\ y[2] = p
  <2> HIDE DEF p, r
  <2> QED BY <1>4
<1>6. \A z \in S \ {y} : Expenses!Before(y, z)
  <2> TAKE z \in S \ {y}
  <2>1. r <= z[1] /\ (z[1] = r => p <= z[2])
    <3> HIDE DEF p, r
    <3> QED BY <1>2, <1>4
  <2> HIDE DEF p, r
  <2> QED BY <1>5, <2>1, ExpenseConstants DEF Expenses!Before
<1> QED
  BY <1>6

\* A run, and who waits, stays sound while the books grow.
LEMMA SoundWhileGrowing ==
  ASSUME NEW w, NEW v, Grows(w, v)
  PROVE  /\ \A r, n : MadeUpTo(w, r, n) => MadeUpTo(v, r, n)
         /\ \A g : RunIsSound(w, g) => RunIsSound(v, g)
         /\ \A x : IsNext(w, x) => IsNext(v, x)
         /\ \A rs : RunsAreSound(w, rs) => RunsAreSound(v, rs)
         /\ \A u, a : WaitsAreSound(w, u, a) => WaitsAreSound(v, u, a)
<1>1. \A r, n : MadeUpTo(w, r, n) => MadeUpTo(v, r, n)
  BY DEF Grows, MadeUpTo
<1>2. \A g : RunIsSound(w, g) => RunIsSound(v, g)
  BY <1>1 DEF Grows, RunIsSound
<1>3. \A x : IsNext(w, x) => IsNext(v, x)
  BY <1>1 DEF Grows, IsNext
<1>4. \A rs : RunsAreSound(w, rs) => RunsAreSound(v, rs)
  BY <1>2, <1>3 DEF RunsAreSound
<1>5. \A u, a : WaitsAreSound(w, u, a) => WaitsAreSound(v, u, a)
  BY <1>3 DEF Grows, WaitsAreSound
<1> QED
  BY <1>1, <1>2, <1>3, <1>4, <1>5

\* An expense is made.
LEMMA MakingAnExpense ==
  ASSUME NEW w \in ExpenseBooks, NEW x \in ExpenseSet, BooksAreSound(w), x[1] \in Recurring(w),
         x \notin Expenses!Active(w) \union w.archived
  PROVE  /\ Expenses!With(w, x) \in ExpenseBooks /\ BooksAreSound(Expenses!With(w, x))
         /\ Grows(w, Expenses!With(w, x)) /\ x \in Expenses!With(w, x).made
         /\ Expenses!With(w, x).recs = w.recs
<1> DEFINE v == Expenses!With(w, x)
           paid == IF x[1] \in AutoPaid THEN "paid" ELSE "unpaid"
<1>0. v = [recs |-> w.recs, copies |-> [w.copies EXCEPT ![x] = paid],
            archived |-> w.archived, made |-> w.made \union {x}]
  <2>1. w = [recs |-> w.recs, copies |-> w.copies, archived |-> w.archived, made |-> w.made]
    BY DEF ExpenseBooks
  <2>2. v = [w EXCEPT !.copies = [w.copies EXCEPT ![x] = paid], !.made = w.made \union {x}]
    BY SMTT(20) DEF Expenses!With
  <2> HIDE DEF v, paid
  <2> QED BY <2>1, <2>2
<1>1. /\ v.recs = w.recs /\ v.archived = w.archived /\ v.made = w.made \union {x}
      /\ v.copies = [w.copies EXCEPT ![x] = paid]
  <2> HIDE DEF v
  <2> QED BY <1>0
<1>2. v \in ExpenseBooks
  BY DEF Expenses!With, ExpenseBooks
<1>3. Expenses!Active(v) = Expenses!Active(w) \union {x}
  BY <1>1 DEF Expenses!Active, ExpenseBooks, ExpenseSet
<1> HIDE DEF v, paid
<1>4. Recurring(v) = Recurring(w) /\ Expenses!Live(v) = Expenses!Live(w)
  BY <1>1 DEF Recurring, Expenses!Live
<1>5. Grows(w, v)
  BY <1>1, <1>4 DEF Grows
<1>6. BooksAreSound(v)
  BY <1>1, <1>3, <1>4 DEF BooksAreSound, MadeUpTo
<1> QED
  BY <1>1, <1>2, <1>5, <1>6 DEF v
\* An expense in the scope of a run that has got to x.
InScope(g, x, y) ==
  /\ Expenses!Before(x, y)
  /\ \/ y[1] = x[1] /\ y[2] <= g.until
     \/ y[1] # x[1] /\ y[1] \in g.recs /\ y[2] \in Expenses!Pending(g, y[1])

\* A run goes on to the first expense in its scope that it does not know: those
\* before it were made, and so were those it marks.
LEMMA RunGoesOn ==
  ASSUME ExpensesInv, NEW id \in Expenses!Runs, NEW g, NEW x, NEW w \in ExpenseBooks,
         BooksAreSound(w), Grows(books, w), RunIsSound(w, g),
         g.until \in 0..MaxDay, g.recs \subseteq Expenses!Recs, g.last \in [Expenses!Recs -> Nat],
         g.known \subseteq ExpenseSet, g = [at |-> g.at, until |-> g.until, recs |-> g.recs,
                                            last |-> g.last, known |-> g.known],
         x = Expenses!Nothing \/ (x \in g.known /\ IsNext(w, x)),
         Expenses!GoOn(id, g, x, w), UNCHANGED <<day, viewing, adding>>
  PROVE  ExpensesInv'
<1> DEFINE scope == {y \in ExpenseSet \ g.known : InScope(g, x, y)}
           next == IF scope = {} THEN <<Count + 1, 0>>
                   ELSE CHOOSE y \in scope : \A z \in scope \ {y} : Expenses!Before(y, z)
           marked == Expenses!Through(g, x, next[1]) \intersect Expenses!Live(w)
           recs == [r \in Expenses!Recs |->
                      IF r \in marked THEN [w.recs[r] EXCEPT !.last = Expenses!Until(g, x, r)]
                      ELSE w.recs[r]]
           gone == IF scope = {} THEN Expenses!NoRun
                   ELSE [g EXCEPT !.at = next, !.until = Expenses!Until(g, x, next[1])]
<1>1. books' = [w EXCEPT !.recs = recs] /\ runs' = [runs EXCEPT ![id] = gone]
  BY DEF Expenses!GoOn, ExpenseSet, InScope
<1>2. day \in 0..MaxDay /\ runs \in [Expenses!Runs -> {Expenses!NoRun} \union ExpenseRun]
  BY DEF ExpensesInv, ExpensesTypeOK
<1>3. /\ x \in Nat \X Nat /\ (x \in ExpenseSet \/ (x[1] = 0 /\ x[2] = 0))
  BY ExpenseConstants DEF Expenses!Nothing
<1>4. scope # {} => /\ next \in ExpenseSet /\ InScope(g, x, next)
                    /\ \A z \in scope \ {next} : Expenses!Before(next, z)
  <2> HIDE DEF scope
  <2>1. scope \in SUBSET ExpenseSet /\ \A y \in scope : InScope(g, x, y)
    BY DEF scope
  <2> QED
    BY <2>1, FirstExpense
<1>5. next \in Nat \X Nat /\ (scope = {} => next = <<Count + 1, 0>>)
  <2> HIDE DEF scope
  <2>1. Count + 1 \in Nat
    BY ExpenseConstants
  <2>2. CASE scope = {}
    BY <2>1, <2>2
  <2>3. CASE scope # {}
    <3> HIDE DEF next
    <3> QED BY <2>3, <1>4, ExpenseConstants
  <2> QED BY <2>2, <2>3
<1>6. \A y \in ExpenseSet : InScope(g, x, y) /\ Expenses!Before(y, next) => y \in w.made
  <2> SUFFICES ASSUME NEW y \in ExpenseSet, InScope(g, x, y), Expenses!Before(y, next),
                      y \notin g.known
               PROVE  FALSE
    BY DEF RunIsSound
  <2>1. y \in scope
    OBVIOUS
  <2>2. next \in ExpenseSet /\ (y # next => Expenses!Before(next, y))
    <3> HIDE DEF scope, next
    <3> QED BY <2>1, <1>4
  <2> HIDE DEF scope, next
  <2> QED
    BY <2>2, ExpenseConstants DEF Expenses!Before
<1> HIDE DEF scope, next
<1>7. \A r \in Expenses!Recs :
        /\ r # x[1] /\ Expenses!Pending(g, r) # {} => Expenses!Until(g, x, r) \in 0..MaxDay
        /\ r = x[1] => Expenses!Until(g, x, r) = g.until
        /\ r # x[1] => Expenses!Until(g, x, r) = g.last[r] + Cardinality(Expenses!Pending(g, r))
  <2> TAKE r \in Expenses!Recs
  <2>1. g.last[r] \in Nat
    OBVIOUS
  <2>2. Expenses!Pending(g, r) # {} =>
          g.last[r] + Cardinality(Expenses!Pending(g, r)) \in 0..MaxDay
    BY <1>2, <2>1, PendingPeriods
  <2> DEFINE c == g.last[r] + Cardinality(Expenses!Pending(g, r))
  <2>3. Expenses!Until(g, x, r) = IF r = x[1] THEN g.until ELSE c
    BY CardinalityOfExpenses DEF Expenses!Until
  <2>4. Expenses!Pending(g, r) # {} => c \in 0..MaxDay
    BY <2>2
  <2> HIDE DEF c
  <2>5. /\ r # x[1] /\ Expenses!Pending(g, r) # {} => Expenses!Until(g, x, r) \in 0..MaxDay
        /\ r = x[1] => Expenses!Until(g, x, r) = g.until
        /\ r # x[1] => Expenses!Until(g, x, r) = c
    BY <2>3, <2>4
  <2> QED
    BY <2>5 DEF c
<1>8. \A r \in marked : MadeUpTo(w, r, Expenses!Until(g, x, r)) /\ Expenses!Until(g, x, r) \in 0..MaxDay
  <2> SUFFICES ASSUME NEW r \in marked
               PROVE  MadeUpTo(w, r, Expenses!Until(g, x, r))
                      /\ Expenses!Until(g, x, r) \in 0..MaxDay
    OBVIOUS
  <2>1. /\ r \in g.recs /\ r \in Expenses!Recs /\ x[1] <= r /\ r < next[1]
        /\ r = x[1] \/ Expenses!Pending(g, r) # {}
    BY DEF Expenses!Through
  <2>2. CASE r = x[1]
    <3>1. Expenses!Until(g, x, r) = g.until /\ x \in ExpenseSet /\ IsNext(w, x) /\ x \in w.made
      BY <2>1, <2>2, <1>3, <1>7, ExpenseConstants DEF Expenses!Nothing, RunIsSound
    <3>2. ASSUME NEW p \in 1..g.until PROVE <<r, p>> \in w.made
      <4>1. <<r, p>> \in ExpenseSet
        BY <2>1, ExpenseConstants
      <4>2. CASE p < x[2]
        BY <2>2, <3>1, <4>2, <1>3 DEF IsNext, MadeUpTo
      <4>3. CASE p = x[2]
        <5>1. x = <<r, p>>
          BY <1>3, <2>2, <4>3
        <5> QED BY <3>1, <5>1
      <4>4. CASE p > x[2]
        <5>1. InScope(g, x, <<r, p>>) /\ Expenses!Before(<<r, p>>, next)
          BY <1>3, <1>5, <2>1, <2>2, <4>4 DEF InScope, Expenses!Before
        <5> QED BY <4>1, <5>1, <1>6
      <4> QED BY <4>2, <4>3, <4>4, <1>3
    <3> QED
      BY <3>1, <3>2 DEF MadeUpTo
  <2>3. CASE r # x[1]
    <3>1. /\ Expenses!Until(g, x, r) = g.last[r] + Cardinality(Expenses!Pending(g, r))
          /\ Expenses!Until(g, x, r) \in 0..MaxDay
      BY <2>1, <2>3, <1>7
    <3>2. /\ 1 .. Expenses!Until(g, x, r) \subseteq 1 .. g.last[r] \union Expenses!Pending(g, r)
          /\ Expenses!Pending(g, r) \subseteq 1..MaxDay
      BY <2>1, <2>3, <3>1, <1>2, PendingPeriods
    <3>3. ASSUME NEW p \in Expenses!Pending(g, r) PROVE <<r, p>> \in w.made
      <4>1. <<r, p>> \in ExpenseSet
        BY <2>1, <3>2, ExpenseConstants
      <4>2. InScope(g, x, <<r, p>>) /\ Expenses!Before(<<r, p>>, next)
        BY <1>3, <1>5, <2>1, <2>3, <3>2, ExpenseConstants DEF InScope, Expenses!Before
      <4> QED BY <4>1, <4>2, <1>6
    <3>4. MadeUpTo(w, r, g.last[r])
      BY <2>1 DEF RunIsSound
    <3> QED
      BY <3>1, <3>2, <3>3, <3>4 DEF MadeUpTo
  <2> QED BY <2>2, <2>3
<1>9. recs \in [Expenses!Recs -> ExpenseRec] /\ \A r \in Expenses!Recs : recs[r].state = w.recs[r].state
  BY <1>8 DEF ExpenseBooks, ExpenseRec
<1>10. \A r \in Expenses!Live(w) : MadeUpTo(w, r, recs[r].last)
  <2> SUFFICES ASSUME NEW r \in Expenses!Live(w) PROVE MadeUpTo(w, r, recs[r].last)
    OBVIOUS
  <2>1. r \in Expenses!Recs /\ w.recs[r] \in ExpenseRec
    BY DEF Expenses!Live, ExpenseBooks
  <2>2. CASE r \in marked
    <3>1. recs[r].last = Expenses!Until(g, x, r)
      BY <2>1, <2>2 DEF ExpenseRec
    <3> QED BY <2>2, <3>1, <1>8
  <2>3. CASE r \notin marked
    BY <2>1, <2>3 DEF BooksAreSound
  <2> QED BY <2>2, <2>3
<1> HIDE DEF recs, marked
<1>11. books' \in ExpenseBooks
  BY <1>1, <1>9 DEF ExpenseBooks
<1>12. /\ books'.recs = recs /\ books'.copies = w.copies
       /\ books'.archived = w.archived /\ books'.made = w.made
  BY <1>1 DEF ExpenseBooks
<1>13. /\ Recurring(books') = Recurring(w) /\ Expenses!Live(books') = Expenses!Live(w)
       /\ Expenses!Active(books') = Expenses!Active(w)
  BY <1>9, <1>12 DEF Recurring, Expenses!Live, Expenses!Active
<1>14. BooksAreSound(books')
  BY <1>10, <1>12, <1>13 DEF BooksAreSound, MadeUpTo
<1>15. Grows(w, books') /\ Grows(books, books')
  BY <1>12, <1>13 DEF Grows
<1>16. scope # {} => IsNext(w, next)
  <2> SUFFICES ASSUME scope # {} PROVE IsNext(w, next)
    OBVIOUS
  <2>1. next \in ExpenseSet /\ InScope(g, x, next)
    BY <1>4
  <2>2. CASE next[1] = x[1]
    <3>1. x \in ExpenseSet /\ IsNext(w, x) /\ x \in w.made /\ x[2] < next[2] /\ next[2] <= g.until
      BY <2>1, <2>2, <1>3, ExpenseConstants DEF InScope, Expenses!Nothing, RunIsSound,
        Expenses!Before
    <3>2. ASSUME NEW p \in 1 .. next[2] - 1 PROVE <<x[1], p>> \in w.made
      <4>1. <<x[1], p>> \in ExpenseSet /\ p < next[2] /\ p \in Nat
        BY <2>1, <3>1, ExpenseConstants
      <4>2. CASE p < x[2]
        BY <3>1, <4>1, <4>2, <1>3, ExpenseConstants DEF IsNext, MadeUpTo
      <4>3. CASE p = x[2]
        <5>1. x = <<x[1], p>>
          BY <1>3, <4>3
        <5> QED BY <3>1, <5>1
      <4>4. CASE p > x[2]
        <5>1. InScope(g, x, <<x[1], p>>) /\ Expenses!Before(<<x[1], p>>, next)
          BY <1>3, <1>5, <2>2, <3>1, <4>1, <4>4 DEF InScope, Expenses!Before
        <5> QED BY <4>1, <5>1, <1>6
      <4> QED BY <4>1, <4>2, <4>3, <4>4, <1>3
    <3> QED
      BY <2>2, <3>1, <3>2 DEF IsNext, MadeUpTo
  <2>3. CASE next[1] # x[1]
    <3> DEFINE r == next[1]
    <3>1. r \in g.recs /\ r \in Expenses!Recs /\ next[2] \in Expenses!Pending(g, r) /\ x[1] < r
      BY <2>1, <2>3, <1>3, ExpenseConstants DEF InScope, Expenses!Before
    <3>2. /\ 1 .. next[2] - 1 \subseteq 1 .. g.last[r] \union Expenses!Pending(g, r)
          /\ Expenses!Pending(g, r) \subseteq 1..MaxDay
      BY <3>1, <1>2, PendingPeriods
    <3>3. ASSUME NEW p \in 1 .. next[2] - 1, p \in Expenses!Pending(g, r) PROVE <<r, p>> \in w.made
      <4>1. <<r, p>> \in ExpenseSet
        BY <3>1, <3>2, <3>3, ExpenseConstants
      <4>2. InScope(g, x, <<r, p>>) /\ Expenses!Before(<<r, p>>, next)
        BY <1>3, <1>5, <2>3, <3>1, <3>2, <3>3, ExpenseConstants DEF InScope, Expenses!Before
      <4> QED BY <4>1, <4>2, <1>6
    <3>4. MadeUpTo(w, r, g.last[r]) /\ r \in Recurring(w)
      BY <3>1 DEF RunIsSound
    <3> QED
      BY <3>2, <3>3, <3>4 DEF IsNext, MadeUpTo
  <2> QED BY <2>2, <2>3
<1>17. gone \in {Expenses!NoRun} \union ExpenseRun
  <2>1. CASE scope = {}
    BY <2>1
  <2>2. CASE scope # {}
    <3>1. next \in ExpenseSet /\ InScope(g, x, next)
      BY <2>2, <1>4
    <3>2. next[1] \in Expenses!Recs
      BY <3>1, ExpenseConstants
    <3>3. Expenses!Until(g, x, next[1]) \in 0..MaxDay
      BY <3>1, <3>2, <1>7 DEF InScope
    <3>4. gone = [at |-> next, until |-> Expenses!Until(g, x, next[1]), recs |-> g.recs,
                  last |-> g.last, known |-> g.known]
      BY <2>2
    <3> QED BY <3>1, <3>3, <3>4 DEF ExpenseRun
  <2> QED BY <2>1, <2>2
<1>18. gone # Expenses!NoRun => RunIsSound(w, gone) /\ IsNext(w, gone.at)
  <2> SUFFICES ASSUME scope # {} PROVE RunIsSound(w, gone) /\ IsNext(w, gone.at)
    OBVIOUS
  <2>1. gone = [at |-> next, until |-> Expenses!Until(g, x, next[1]), recs |-> g.recs,
                last |-> g.last, known |-> g.known]
    OBVIOUS
  <2> HIDE DEF gone
  <2>2. gone.at = next /\ gone.recs = g.recs /\ gone.last = g.last /\ gone.known = g.known
    BY <2>1
  <2> QED
    BY <2>2, <1>16 DEF RunIsSound
<1> HIDE DEF gone
<1>19. ExpensesTypeOK'
  BY <1>1, <1>2, <1>11, <1>17 DEF ExpensesInv, ExpensesTypeOK
<1>20. RunsAreSound(books', runs')
  <2>1. RunsAreSound(w, runs)
    BY SoundWhileGrowing DEF ExpensesInv
  <2>2. RunsAreSound(w, runs')
    BY <2>1, <1>1, <1>2, <1>18 DEF RunsAreSound
  <2> QED
    BY <2>2, <1>15, SoundWhileGrowing
<1>21. WaitsAreSound(books', viewing', adding')
  BY <1>15, SoundWhileGrowing DEF ExpensesInv
<1> QED
  BY <1>14, <1>19, <1>20, <1>21 DEF ExpensesInv, BooksAreSound, RunsAreSound, WaitsAreSound
\* The page or the application begins to generate.
LEMMA ExpensesBegin ==
  ASSUME ExpensesInv, NEW id \in Expenses!Runs, Expenses!Begin(id) PROVE ExpensesInv'
<1> DEFINE recs == {r \in Expenses!Live(books) : books.recs[r].active}
           last == [r \in Expenses!Recs |-> books.recs[r].last]
           seen == Expenses!Active(books) \union
                      (IF id = Expenses!Page THEN books.archived ELSE {})
           g == [at |-> Expenses!Nothing, until |-> 0, recs |-> recs, last |-> last,
                 known |-> seen]
<1>1. books \in ExpenseBooks /\ BooksAreSound(books) /\ 0 \in 0..MaxDay
  BY ExpenseConstants DEF ExpensesInv, ExpensesTypeOK
<1>2. recs \subseteq Expenses!Recs /\ last \in [Expenses!Recs -> Nat] /\ seen \subseteq ExpenseSet
  BY <1>1 DEF ExpenseBooks, ExpenseRec, Expenses!Live, Expenses!Active, ExpenseSet
<1>3. /\ seen \subseteq books.made /\ recs \subseteq Recurring(books)
      /\ \A r \in recs : MadeUpTo(books, r, last[r])
  BY <1>1 DEF BooksAreSound, Recurring, Expenses!Live
<1>4. Expenses!GoOn(id, g, Expenses!Nothing, books) /\ UNCHANGED <<day, viewing, adding>>
  BY DEF Expenses!Begin
<1> HIDE DEF recs, last, seen
<1>5. /\ g.at = Expenses!Nothing /\ g.until = 0 /\ g.recs = recs /\ g.last = last
      /\ g.known = seen
  OBVIOUS
<1>6. g = [at |-> g.at, until |-> g.until, recs |-> g.recs, last |-> g.last, known |-> g.known]
  OBVIOUS
<1> HIDE DEF g
<1>7. RunIsSound(books, g)
  BY <1>3, <1>5 DEF RunIsSound
<1>8. Grows(books, books)
  BY DEF Grows
<1> QED
  BY <1>1, <1>2, <1>4, <1>5, <1>6, <1>7, <1>8, RunGoesOn

\* A run makes the expense that it waited for.
LEMMA ExpensesGenerate ==
  ASSUME ExpensesInv, NEW id \in Expenses!Runs, Expenses!Generate(id) PROVE ExpensesInv'
<1> DEFINE o == runs[id]
           x == o.at
           w == Expenses!With(books, x)
           g == [o EXCEPT !.known = o.known \union {x}]
<1>1. /\ o # Expenses!NoRun /\ ~Expenses!Taken(x) /\ UNCHANGED <<day, viewing, adding>>
      /\ Expenses!GoOn(id, g, x, w)
  BY DEF Expenses!Generate
<1>2. o \in ExpenseRun /\ books \in ExpenseBooks /\ BooksAreSound(books)
  BY <1>1 DEF ExpensesInv, ExpensesTypeOK
<1>3. RunIsSound(books, o) /\ IsNext(books, x)
  BY <1>1 DEF ExpensesInv, RunsAreSound
<1>4. x \in ExpenseSet /\ x \notin Expenses!Active(books) \union books.archived
  BY <1>1, <1>2 DEF ExpenseRun, Expenses!Taken
<1> HIDE DEF o, x
<1>5. /\ w \in ExpenseBooks /\ BooksAreSound(w) /\ Grows(books, w) /\ x \in w.made
  BY <1>2, <1>3, <1>4, MakingAnExpense DEF IsNext
<1>6. g = [at |-> o.at, until |-> o.until, recs |-> o.recs, last |-> o.last,
           known |-> o.known \union {x}]
  BY <1>2 DEF ExpenseRun
<1> HIDE DEF w, g
<1>7. /\ g.at = o.at /\ g.until = o.until /\ g.recs = o.recs /\ g.last = o.last
      /\ g.known = o.known \union {x}
  BY <1>6
<1>8. g = [at |-> g.at, until |-> g.until, recs |-> g.recs, last |-> g.last, known |-> g.known]
  BY <1>6, <1>7
<1>9. RunIsSound(w, g) /\ IsNext(w, x)
  <2>1. RunIsSound(w, o) /\ IsNext(w, x)
    BY <1>3, <1>5, SoundWhileGrowing
  <2> QED
    BY <2>1, <1>5, <1>7 DEF RunIsSound
<1>10. /\ g.until \in 0..MaxDay /\ g.recs \subseteq Expenses!Recs
       /\ g.last \in [Expenses!Recs -> Nat] /\ g.known \subseteq ExpenseSet /\ x \in g.known
  BY <1>2, <1>4, <1>7 DEF ExpenseRun
<1> QED
  BY <1>1, <1>5, <1>8, <1>9, <1>10, RunGoesOn

\* Runs end, and nobody waits any more.
LEMMA RunsEnd ==
  ASSUME ExpensesInv, UNCHANGED <<books, day>>,
         NEW ended \in SUBSET Expenses!Runs,
         runs' = [id \in Expenses!Runs |-> IF id \in ended THEN Expenses!NoRun ELSE runs[id]],
         viewing' \in {viewing, [at |-> Expenses!Nothing, last |-> 0]}, adding' \in {adding, 0}
  PROVE  ExpensesInv'
<1>1. ExpensesTypeOK'
  BY ExpenseConstants DEF ExpensesInv, ExpensesTypeOK
<1>2. RunsAreSound(books', runs')
  BY DEF ExpensesInv, ExpensesTypeOK, RunsAreSound
<1>3. WaitsAreSound(books', viewing', adding')
  BY DEF ExpensesInv, WaitsAreSound
<1> QED
  BY <1>1, <1>2, <1>3 DEF ExpensesInv, BooksAreSound, RunsAreSound, WaitsAreSound

\* A run is cut short.
LEMMA ExpensesFail ==
  ASSUME ExpensesInv, NEW id \in Expenses!Runs, Expenses!GenerateFails(id) PROVE ExpensesInv'
<1>1. runs' = [k \in Expenses!Runs |-> IF k \in {id} THEN Expenses!NoRun ELSE runs[k]]
  BY DEF Expenses!GenerateFails, ExpensesInv, ExpensesTypeOK
<1> QED
  BY <1>1, RunsEnd DEF Expenses!GenerateFails

\* The books grow and stay sound, while the runs go on.
LEMMA BooksGrow ==
  ASSUME ExpensesInv, books' \in ExpenseBooks, BooksAreSound(books'), Grows(books, books'),
         UNCHANGED day, runs' \in {runs, [id \in Expenses!Runs |-> Expenses!NoRun]},
         viewing' \in {viewing, [at |-> Expenses!Nothing, last |-> 0]},
         adding' \in {adding, 0} \union {r \in Recurring(books') : <<r, 1>> \in ExpenseSet}
  PROVE  ExpensesInv'
<1>1. Recurring(books') \subseteq 1..Count
  BY ExpenseConstants DEF Recurring
<1>2. ExpensesTypeOK'
  BY <1>1, ExpenseConstants DEF ExpensesInv, ExpensesTypeOK
<1>3. RunsAreSound(books', runs')
  <2>1. RunsAreSound(books', runs)
    BY SoundWhileGrowing DEF ExpensesInv
  <2> QED
    BY <2>1 DEF RunsAreSound
<1>4. WaitsAreSound(books', viewing', adding')
  <2>1. WaitsAreSound(books', viewing, adding)
    BY SoundWhileGrowing DEF ExpensesInv
  <2> QED
    BY <2>1 DEF WaitsAreSound
<1> QED
  BY <1>2, <1>3, <1>4 DEF ExpensesInv, BooksAreSound, RunsAreSound, WaitsAreSound

\* A recurrence changes.
LEMMA RecurrenceChanges ==
  ASSUME NEW w \in ExpenseBooks, BooksAreSound(w), NEW r \in Expenses!Recs, NEW q \in ExpenseRec,
         q.state = "there" => MadeUpTo(w, r, q.last), q.state # "absent"
  PROVE  LET v == [w EXCEPT !.recs = [w.recs EXCEPT ![r] = q]]
         IN  /\ v \in ExpenseBooks /\ BooksAreSound(v) /\ Grows(w, v) /\ r \in Recurring(v)
             /\ v = [recs |-> [w.recs EXCEPT ![r] = q], copies |-> w.copies,
                     archived |-> w.archived, made |-> w.made]
<1> DEFINE rs == [w.recs EXCEPT ![r] = q]
           v == [w EXCEPT !.recs = rs]
<1>1. rs \in [Expenses!Recs -> ExpenseRec]
      /\ \A k \in Expenses!Recs : rs[k] = IF k = r THEN q ELSE w.recs[k]
  BY DEF ExpenseBooks
<1> HIDE DEF rs
<1>2. v = [recs |-> rs, copies |-> w.copies, archived |-> w.archived, made |-> w.made]
  BY DEF ExpenseBooks
<1>3. v \in ExpenseBooks
  BY <1>1, <1>2 DEF ExpenseBooks
<1> HIDE DEF v
<1>4. v.recs = rs /\ v.copies = w.copies /\ v.archived = w.archived /\ v.made = w.made
  BY <1>2
<1>5. Recurring(v) = Recurring(w) \union {r} /\ Expenses!Active(v) = Expenses!Active(w)
  BY <1>1, <1>4 DEF Recurring, Expenses!Active
<1>6. Grows(w, v)
  BY <1>4, <1>5 DEF Grows
<1>7. BooksAreSound(v)
  BY <1>1, <1>4, <1>5 DEF BooksAreSound, MadeUpTo, Expenses!Live
<1> QED
  BY <1>2, <1>3, <1>5, <1>6, <1>7 DEF v, rs
\* What grows twice grows.
LEMMA GrowsFurther ==
  ASSUME NEW u, NEW v, NEW w, Grows(u, v), Grows(v, w) PROVE Grows(u, w)
BY DEF Grows

\* A recurrence is marked up to a period that was made with those before it.
LEMMA Marking ==
  ASSUME NEW w \in ExpenseBooks, BooksAreSound(w), NEW r \in Expenses!Recs, NEW p \in Nat,
         MadeUpTo(w, r, p)
  PROVE  LET v == Expenses!Marked(w, r, p)
         IN  v \in ExpenseBooks /\ BooksAreSound(v) /\ Grows(w, v)
<1>1. CASE r \notin Expenses!Live(w)
  BY <1>1 DEF Expenses!Marked, Grows
<1>2. CASE r \in Expenses!Live(w)
  <2> DEFINE q == [w.recs[r] EXCEPT !.last = p]
             v == Expenses!Marked(w, r, p)
  <2>1. w.recs[r] \in ExpenseRec /\ w.recs \in [Expenses!Recs -> ExpenseRec]
    BY DEF ExpenseBooks
  <2>2. q \in ExpenseRec /\ q.state = "there" /\ q.last = p
    BY <1>2, <2>1 DEF ExpenseRec, Expenses!Live
  <2>3. v = [w EXCEPT !.recs = [w.recs EXCEPT ![r] = q]]
    BY <1>2, <2>1 DEF Expenses!Marked, ExpenseBooks
  <2> HIDE DEF q, v
  <2>4. v \in ExpenseBooks /\ BooksAreSound(v) /\ Grows(w, v)
    BY <2>2, <2>3, RecurrenceChanges
  <2> QED BY <2>4 DEF v
<1> QED BY <1>1, <1>2

\* A period that is due is to be viewed.
LEMMA ExpensesView ==
  ASSUME ExpensesInv, NEW x \in ExpenseSet, Expenses!View(x) PROVE ExpensesInv'
<1>1. /\ x[1] \in Expenses!Live(books)
      /\ viewing' = [at |-> x, last |-> books.recs[x[1]].last]
      /\ UNCHANGED <<books, day, runs, doneFor, adding, deeds>>
  BY DEF Expenses!View
<1>2. books \in ExpenseBooks
  BY DEF ExpensesInv, ExpensesTypeOK
<1>3. x[1] \in Expenses!Recs /\ x[1] \in Recurring(books) /\ books.recs[x[1]].last \in Nat
  BY <1>1, <1>2 DEF Expenses!Live, Recurring, ExpenseBooks, ExpenseRec
<1>4. ExpensesTypeOK'
  BY <1>1, <1>3 DEF ExpensesInv, ExpensesTypeOK
<1>5. WaitsAreSound(books', viewing', adding')
  BY <1>1, <1>3 DEF ExpensesInv, WaitsAreSound
<1> QED
  BY <1>1, <1>4, <1>5 DEF ExpensesInv, BooksAreSound, RunsAreSound, WaitsAreSound

\* The mark of a view passes over the periods between.
LEMMA PassingOver ==
  ASSUME NEW w \in ExpenseBooks, BooksAreSound(w), NEW x \in ExpenseSet, x \in w.made,
         x[1] \in Expenses!Live(w)
  PROVE  LET v == Expenses!Passes(w, x)
         IN  /\ v \in ExpenseBooks /\ BooksAreSound(v) /\ Grows(w, v)
             /\ MadeUpTo(v, x[1], x[2])
<1> DEFINE r == x[1]
           over == {r} \X (w.recs[r].last + 1 .. x[2] - 1)
           news == w.made \union over
           v == Expenses!Passes(w, x)
<1>1. /\ r \in Expenses!Recs /\ x[2] \in 1..MaxDay /\ MaxDay \in Nat /\ x = <<r, x[2]>>
      /\ w.recs \in [Expenses!Recs -> ExpenseRec] /\ w.recs[r].last \in Nat
      /\ r \in Recurring(w) /\ ExpenseSet = Expenses!Recs \X (1..MaxDay)
  BY ExpenseConstants DEF ExpenseBooks, ExpenseRec, Expenses!Live, Recurring
<1>2. \A y \in over : y[1] = r /\ y \in ExpenseSet
  BY <1>1
<1>3. v = [recs |-> w.recs, copies |-> w.copies, archived |-> w.archived, made |-> news]
  BY DEF Expenses!Passes, ExpenseBooks
<1>4. /\ v.recs = w.recs /\ v.copies = w.copies /\ v.archived = w.archived /\ v.made = news
  BY <1>3
<1>5. news \in SUBSET ExpenseSet /\ w.made \subseteq news
  BY <1>2 DEF ExpenseBooks
<1>6. v \in ExpenseBooks
  BY <1>3, <1>5 DEF ExpenseBooks
<1>7. Recurring(v) = Recurring(w) /\ Expenses!Live(v) = Expenses!Live(w)
      /\ Expenses!Active(v) = Expenses!Active(w)
  BY <1>4 DEF Recurring, Expenses!Live, Expenses!Active
<1>8. \A y \in news : y[1] \in Recurring(v)
  BY <1>1, <1>2, <1>7 DEF BooksAreSound
<1>9. \A s \in Expenses!Live(v) : MadeUpTo(v, s, v.recs[s].last)
  BY <1>4, <1>5, <1>7 DEF BooksAreSound, MadeUpTo
<1>10. BooksAreSound(v)
  BY <1>4, <1>5, <1>7, <1>8, <1>9 DEF BooksAreSound
<1>11. ASSUME NEW p \in 1..x[2] PROVE <<r, p>> \in news
  <2>1. CASE p <= w.recs[r].last
    <3>1. MadeUpTo(w, r, w.recs[r].last) /\ p \in 1..w.recs[r].last
      BY <1>1, <2>1 DEF BooksAreSound
    <3> QED
      BY <3>1 DEF MadeUpTo
  <2>2. CASE p > w.recs[r].last /\ p < x[2]
    BY <1>1, <2>2
  <2>3. CASE p = x[2]
    BY <1>1, <2>3
  <2> QED
    BY <1>1, <2>1, <2>2, <2>3
<1>12. MadeUpTo(v, r, x[2])
  BY <1>4, <1>11 DEF MadeUpTo
<1> QED
  BY <1>4, <1>5, <1>6, <1>7, <1>10, <1>12 DEF Grows

\* It is viewed, and its expense is made.
LEMMA ExpensesViewed ==
  ASSUME ExpensesInv, Expenses!Viewed PROVE ExpensesInv'
<1> DEFINE x == viewing.at
           w == Expenses!With(books, x)
           u == Expenses!Passes(w, x)
<1>1. /\ x # Expenses!Nothing /\ ~Expenses!Taken(x)
      /\ books' = IF viewing.last < x[2] THEN Expenses!Marked(u, x[1], x[2]) ELSE w
      /\ viewing' = [at |-> Expenses!Nothing, last |-> 0]
      /\ UNCHANGED <<day, runs, adding>>
  BY DEF Expenses!Viewed
<1>2. books \in ExpenseBooks /\ BooksAreSound(books) /\ x \in ExpenseSet
      /\ x[1] \in Recurring(books)
  BY <1>1 DEF ExpensesInv, ExpensesTypeOK, WaitsAreSound
<1>3. x \notin Expenses!Active(books) \union books.archived
  BY <1>1 DEF Expenses!Taken
<1> HIDE DEF x
<1>4. w \in ExpenseBooks /\ BooksAreSound(w) /\ Grows(books, w) /\ x \in w.made
  BY <1>2, <1>3, MakingAnExpense
<1> HIDE DEF w
<1>5. x[1] \in Expenses!Recs /\ x[2] \in Nat
  BY <1>2, ExpenseConstants
<1>6. books' \in ExpenseBooks /\ BooksAreSound(books') /\ Grows(w, books')
  <2>1. CASE x[1] \in Expenses!Live(w)
    <3>1. /\ u \in ExpenseBooks /\ BooksAreSound(u) /\ Grows(w, u)
          /\ MadeUpTo(u, x[1], x[2])
      BY <1>2, <1>4, <2>1, PassingOver
    <3> HIDE DEF u
    <3>2. LET v == Expenses!Marked(u, x[1], x[2])
          IN  v \in ExpenseBooks /\ BooksAreSound(v) /\ Grows(u, v)
      BY <1>5, <3>1, Marking
    <3> QED
      BY <1>1, <1>4, <3>1, <3>2 DEF Grows
  <2>2. CASE x[1] \notin Expenses!Live(w)
    <3>1. u = w /\ Expenses!Marked(w, x[1], x[2]) = w
      BY <2>2 DEF Expenses!Passes, Expenses!Marked
    <3> QED
      BY <1>1, <1>4, <3>1 DEF Grows
  <2> QED
    BY <2>1, <2>2
<1>7. Grows(books, books')
  BY <1>4, <1>6, GrowsFurther
<1> QED
  BY <1>1, <1>6, <1>7, BooksGrow

\* Nothing is viewed after all.
LEMMA ExpensesViewFails ==
  ASSUME ExpensesInv, Expenses!ViewFails PROVE ExpensesInv'
<1> DEFINE none == {}
<1>1. /\ none \in SUBSET Expenses!Runs
      /\ runs' = [k \in Expenses!Runs |-> IF k \in none THEN Expenses!NoRun ELSE runs[k]]
  BY DEF Expenses!ViewFails, ExpensesInv, ExpensesTypeOK
<1> HIDE DEF none
<1> QED
  BY <1>1, RunsEnd DEF Expenses!ViewFails

\* A recurrence that is not there yet has no expense.
LEMMA NewRecurrence ==
  ASSUME ExpensesInv, NEW r \in Expenses!Recs, r \in Expenses!NextRec, NEW p \in Nat
  PROVE  LET q == [state |-> "there", last |-> p, active |-> TRUE]
         IN  /\ q \in ExpenseRec /\ <<r, 1>> \notin books.made
             /\ Expenses!Created(r, p) = [books EXCEPT !.recs = [books.recs EXCEPT ![r] = q]]
<1>1. books \in ExpenseBooks /\ BooksAreSound(books)
  BY DEF ExpensesInv, ExpensesTypeOK
<1>2. r \notin Recurring(books)
  BY DEF Recurring, Expenses!NextRec
<1> QED
  BY <1>1, <1>2 DEF BooksAreSound, ExpenseRec, Expenses!Created, ExpenseBooks

\* A recurrence is created, with nothing to be made of it yet.
LEMMA CreatedIsSound ==
  ASSUME ExpensesInv, NEW r \in Expenses!Recs, r \in Expenses!NextRec
  PROVE  LET v == Expenses!Created(r, 0)
         IN  /\ v \in ExpenseBooks /\ BooksAreSound(v) /\ Grows(books, v) /\ r \in Recurring(v)
             /\ v.recs[r].state = "there" /\ v.copies = books.copies
             /\ v.archived = books.archived /\ v.made = books.made
<1> DEFINE q == [state |-> "there", last |-> 0, active |-> TRUE]
           v == Expenses!Created(r, 0)
<1>1. books \in ExpenseBooks /\ BooksAreSound(books)
  BY DEF ExpensesInv, ExpensesTypeOK
<1>2. q \in ExpenseRec /\ v = [books EXCEPT !.recs = [books.recs EXCEPT ![r] = q]]
  BY NewRecurrence
<1>3. q.state = "there" /\ MadeUpTo(books, r, q.last)
  BY DEF MadeUpTo
<1> HIDE DEF q, v
<1>4. /\ v \in ExpenseBooks /\ BooksAreSound(v) /\ Grows(books, v) /\ r \in Recurring(v)
      /\ v = [recs |-> [books.recs EXCEPT ![r] = q], copies |-> books.copies,
              archived |-> books.archived, made |-> books.made]
  BY <1>1, <1>2, <1>3, RecurrenceChanges
<1>5. v.recs[r] = q
  BY <1>1, <1>4 DEF ExpenseBooks
<1> QED
  BY <1>3, <1>4, <1>5 DEF v

\* In the dialog its first expense follows.
LEMMA ExpensesAddInDialog ==
  ASSUME ExpensesInv, NEW r \in Expenses!Recs, Expenses!AddInDialog(r) PROVE ExpensesInv'
<1>1. /\ r \in Expenses!NextRec /\ books' = Expenses!Created(r, 0)
      /\ adding' = IF day >= 1 THEN r ELSE 0
      /\ UNCHANGED <<day, runs, viewing>>
  BY DEF Expenses!AddInDialog
<1>2. /\ books' \in ExpenseBooks /\ BooksAreSound(books') /\ Grows(books, books')
      /\ r \in Recurring(books')
  BY <1>1, CreatedIsSound
<1>3. day >= 1 => <<r, 1>> \in ExpenseSet
  BY ExpenseConstants DEF ExpensesInv, ExpensesTypeOK
<1> QED
  BY <1>1, <1>2, <1>3, BooksGrow

\* The first expense of a recurrence is made and marked.
LEMMA FirstOfRecurrence ==
  ASSUME NEW w \in ExpenseBooks, BooksAreSound(w), NEW r \in Recurring(w),
         <<r, 1>> \notin Expenses!Active(w) \union w.archived, <<r, 1>> \in ExpenseSet
  PROVE  LET v == Expenses!Marked(Expenses!With(w, <<r, 1>>), r, 1)
         IN  v \in ExpenseBooks /\ BooksAreSound(v) /\ Grows(w, v)
<1> DEFINE x == <<r, 1>>
           u == Expenses!With(w, x)
<1>1. x \in ExpenseSet /\ x[1] = r
  OBVIOUS
<1> HIDE DEF x
<1>2. u \in ExpenseBooks /\ BooksAreSound(u) /\ Grows(w, u) /\ x \in u.made
  BY <1>1, MakingAnExpense DEF x
<1> HIDE DEF u
<1>3. MadeUpTo(u, r, 1) /\ r \in Expenses!Recs
  BY <1>2 DEF MadeUpTo, Recurring, x
<1>4. LET v == Expenses!Marked(u, r, 1) IN v \in ExpenseBooks /\ BooksAreSound(v) /\ Grows(u, v)
  BY <1>2, <1>3, Marking
<1> QED
  BY <1>2, <1>4, GrowsFurther DEF u, x
\* The first expense is made for the dialog.
LEMMA ExpensesAdded ==
  ASSUME ExpensesInv, Expenses!Added PROVE ExpensesInv'
<1>1. /\ adding # 0 /\ ~Expenses!Taken(<<adding, 1>>) /\ adding' = 0
      /\ books' = Expenses!Marked(Expenses!With(books, <<adding, 1>>), adding, 1)
      /\ UNCHANGED <<day, runs, viewing>>
  BY DEF Expenses!Added
<1>2. books \in ExpenseBooks /\ BooksAreSound(books) /\ adding \in Recurring(books)
  BY <1>1 DEF ExpensesInv, ExpensesTypeOK, WaitsAreSound
<1>3. <<adding, 1>> \in ExpenseSet
  BY <1>1 DEF ExpensesInv, WaitsAreSound
<1>4. books' \in ExpenseBooks /\ BooksAreSound(books') /\ Grows(books, books')
  BY <1>1, <1>2, <1>3, FirstOfRecurrence DEF Expenses!Taken
<1> QED
  BY <1>1, <1>4, BooksGrow

\* The state of a recurrence changes, and whether it is active.
LEMMA RecurrenceIsSet ==
  ASSUME ExpensesInv, NEW r \in Recurring(books), NEW q \in ExpenseRec,
         q.last = books.recs[r].last, q.state \in {books.recs[r].state, "gone"},
         books' = [books EXCEPT !.recs = [books.recs EXCEPT ![r] = q]],
         UNCHANGED <<day, runs, viewing>>, adding' \in {adding, 0}
  PROVE  ExpensesInv'
<1>1. books \in ExpenseBooks /\ BooksAreSound(books) /\ r \in Expenses!Recs
  BY DEF ExpensesInv, ExpensesTypeOK, Recurring
<1>2. q.state # "absent" /\ (q.state = "there" => MadeUpTo(books, r, q.last))
  BY <1>1 DEF Recurring, BooksAreSound, Expenses!Live
<1>3. books' \in ExpenseBooks /\ BooksAreSound(books') /\ Grows(books, books')
  BY <1>1, <1>2, RecurrenceChanges
<1> QED
  BY <1>3, BooksGrow

\* The recurrence of the dialog is deleted again, for want of an expense.
LEMMA ExpensesAddFails ==
  ASSUME ExpensesInv, Expenses!AddFails PROVE ExpensesInv'
<1> DEFINE q == [books.recs[adding] EXCEPT !.state = "gone"]
<1>1. /\ adding # 0 /\ adding' = 0 /\ UNCHANGED <<day, runs, viewing>>
      /\ books' = [books EXCEPT !.recs[adding].state = "gone"]
  BY DEF Expenses!AddFails
<1>2. books \in ExpenseBooks /\ adding \in Recurring(books)
  BY <1>1 DEF ExpensesInv, ExpensesTypeOK, WaitsAreSound
<1>3. books.recs[adding] \in ExpenseRec
  BY <1>2 DEF ExpenseBooks, Recurring
<1>4. q \in ExpenseRec /\ q.last = books.recs[adding].last /\ q.state = "gone"
  BY <1>3 DEF ExpenseRec
<1>5. books' = [books EXCEPT !.recs = [books.recs EXCEPT ![adding] = q]]
  BY <1>1
<1> HIDE DEF q
<1> QED
  BY <1>1, <1>2, <1>4, <1>5, RecurrenceIsSet

\* The user deletes it.
LEMMA ExpensesDeleteRecurrence ==
  ASSUME ExpensesInv, NEW r \in Expenses!Recs, Expenses!DeleteRecurrence(r) PROVE ExpensesInv'
<1> DEFINE q == [books.recs[r] EXCEPT !.state = "gone"]
<1>1. /\ r \in Expenses!Live(books) /\ UNCHANGED <<day, runs, viewing, adding>>
      /\ books' = [books EXCEPT !.recs[r].state = "gone"]
  BY DEF Expenses!DeleteRecurrence
<1>2. books \in ExpenseBooks /\ r \in Recurring(books)
  BY <1>1 DEF ExpensesInv, ExpensesTypeOK, Recurring, Expenses!Live
<1>3. books.recs[r] \in ExpenseRec
  BY <1>2 DEF ExpenseBooks
<1>4. q \in ExpenseRec /\ q.last = books.recs[r].last /\ q.state = "gone"
  BY <1>3 DEF ExpenseRec
<1>5. books' = [books EXCEPT !.recs = [books.recs EXCEPT ![r] = q]]
  BY <1>1
<1> HIDE DEF q
<1> QED
  BY <1>1, <1>2, <1>4, <1>5, RecurrenceIsSet

\* The user pauses or resumes it.
LEMMA ExpensesSetActive ==
  ASSUME ExpensesInv, NEW r \in Expenses!Recs, NEW active \in BOOLEAN,
         Expenses!SetActive(r, active)
  PROVE  ExpensesInv'
<1> DEFINE q == [books.recs[r] EXCEPT !.active = active]
<1>1. /\ r \in Expenses!Live(books) /\ UNCHANGED <<day, runs, viewing, adding>>
      /\ books' = [books EXCEPT !.recs[r].active = active]
  BY DEF Expenses!SetActive
<1>2. books \in ExpenseBooks /\ r \in Recurring(books)
  BY <1>1 DEF ExpensesInv, ExpensesTypeOK, Recurring, Expenses!Live
<1>3. books.recs[r] \in ExpenseRec
  BY <1>2 DEF ExpenseBooks
<1>4. q \in ExpenseRec /\ q.last = books.recs[r].last /\ q.state = books.recs[r].state
  BY <1>3 DEF ExpenseRec
<1>5. books' = [books EXCEPT !.recs = [books.recs EXCEPT ![r] = q]]
  BY <1>1
<1> HIDE DEF q
<1> QED
  BY <1>1, <1>2, <1>4, <1>5, RecurrenceIsSet

\* The agent creates one, with its first expense if that is due.
LEMMA ExpensesAddByAgent ==
  ASSUME ExpensesInv, NEW r \in Expenses!Recs, Expenses!AddByAgent(r) PROVE ExpensesInv'
<1> DEFINE x == <<r, 1>>
           v == Expenses!Created(r, 0)
<1>1. /\ r \in Expenses!NextRec /\ UNCHANGED <<day, runs, viewing, adding>>
      /\ books' = IF day >= 1 THEN Expenses!With(Expenses!Created(r, 1), x) ELSE v
  BY DEF Expenses!AddByAgent
<1>2. /\ v \in ExpenseBooks /\ BooksAreSound(v) /\ Grows(books, v) /\ r \in Recurring(v)
      /\ v.recs[r].state = "there" /\ v.copies = books.copies /\ v.archived = books.archived
      /\ v.made = books.made
  BY <1>1, CreatedIsSound
<1>3. CASE ~(day >= 1)
  BY <1>1, <1>2, <1>3, BooksGrow
<1>4. CASE day >= 1
  <2>1. x \in ExpenseSet
    BY <1>4, ExpenseConstants DEF ExpensesInv, ExpensesTypeOK
  <2>2. x \notin Expenses!Active(v) \union v.archived
    BY <1>1, <1>2, NewRecurrence DEF ExpensesInv, BooksAreSound, Expenses!Active
  <2>3. LET w == Expenses!Marked(Expenses!With(v, x), r, 1)
        IN  w \in ExpenseBooks /\ BooksAreSound(w) /\ Grows(v, w)
    BY <1>2, <2>1, <2>2, FirstOfRecurrence
  <2>4. Expenses!Marked(Expenses!With(v, x), r, 1) = books'
    <3> DEFINE q(p) == [state |-> "there", last |-> p, active |-> TRUE]
               copies == [books.copies EXCEPT ![x] = IF r \in AutoPaid THEN "paid" ELSE "unpaid"]
               news == books.made \union {x}
               a == Expenses!With(v, x)
               rs(p) == [books.recs EXCEPT ![r] = q(p)]
    <3>1. books = [recs |-> books.recs, copies |-> books.copies, archived |-> books.archived,
                   made |-> books.made]
          /\ books.recs \in [Expenses!Recs -> ExpenseRec]
      BY DEF ExpensesInv, ExpensesTypeOK, ExpenseBooks
    <3>2. \A p \in Nat : Expenses!Created(r, p) = [books EXCEPT !.recs = rs(p)]
      BY <1>1, NewRecurrence
    <3>3. \A p \in Nat : Expenses!With(Expenses!Created(r, p), x) =
            [recs |-> rs(p), copies |-> copies, archived |-> books.archived, made |-> news]
      <4> SUFFICES ASSUME NEW p \in Nat
                   PROVE  Expenses!With(Expenses!Created(r, p), x) =
                     [recs |-> rs(p), copies |-> copies, archived |-> books.archived,
                      made |-> news]
        OBVIOUS
      <4> DEFINE c == Expenses!Created(r, p)
                 e == rs(p)
      <4>1. c = [books EXCEPT !.recs = e]
        BY <3>2
      <4> HIDE DEF e, c
      <4>2. c = [recs |-> e, copies |-> books.copies, archived |-> books.archived,
                 made |-> books.made]
        BY <3>1, <4>1
      <4> HIDE DEF x
      <4>3. x[1] = r
        BY DEF x
      <4>4. Expenses!With(c, x) =
              [recs |-> e, copies |-> copies, archived |-> books.archived, made |-> news]
        <5>1. /\ c.recs = e /\ c.copies = books.copies /\ c.archived = books.archived
              /\ c.made = books.made
          BY <4>2
        <5>2. Expenses!With(c, x) = [c EXCEPT !.copies = copies, !.made = news]
          BY <4>3, <5>1 DEF Expenses!With
        <5> HIDE DEF copies, news
        <5> QED
          BY <4>2, <5>2
      <4> QED
        BY <4>4 DEF c, e
    <3>4. a = [recs |-> rs(0), copies |-> copies, archived |-> books.archived, made |-> news]
      BY <3>3
    <3>5. rs(0)[r] = q(0) /\ [rs(0) EXCEPT ![r] = [q(0) EXCEPT !.last = 1]] = rs(1)
      BY <3>1
    <3> HIDE DEF copies, news, a, rs
    <3>6. a.recs = rs(0) /\ r \in Expenses!Live(a)
      BY <3>4, <3>5 DEF Expenses!Live
    <3>7. Expenses!Marked(a, r, 1) = [a EXCEPT !.recs = [rs(0) EXCEPT ![r] = [q(0) EXCEPT !.last = 1]]]
      BY <3>5, <3>6 DEF Expenses!Marked
    <3> HIDE DEF q
    <3>8. Expenses!Marked(a, r, 1) =
            [recs |-> rs(1), copies |-> copies, archived |-> books.archived, made |-> news]
      BY <3>4, <3>5, <3>7
    <3> QED
      BY <1>1, <1>4, <3>3, <3>8 DEF a
  <2> HIDE DEF v, x
  <2>5. books' \in ExpenseBooks /\ BooksAreSound(books') /\ Grows(v, books')
    BY <2>3, <2>4
  <2>6. Grows(books, books')
    BY <1>2, <2>5, GrowsFurther
  <2> QED
    BY <1>1, <2>5, <2>6, BooksGrow
<1> QED
  BY <1>3, <1>4
\* Copies go to the archive or are deleted.
LEMMA CopiesChange ==
  ASSUME NEW w \in ExpenseBooks, BooksAreSound(w),
         NEW copies \in [ExpenseSet -> {"none", "paid", "unpaid"}], NEW kept \in SUBSET ExpenseSet,
         {x \in ExpenseSet : copies[x] # "none"} \union kept
           \subseteq Expenses!Active(w) \union w.archived,
         {x \in ExpenseSet : copies[x] # "none"} \intersect kept = {}
  PROVE  LET v == [recs |-> w.recs, copies |-> copies, archived |-> kept, made |-> w.made]
         IN  v \in ExpenseBooks /\ BooksAreSound(v) /\ Grows(w, v)
<1> DEFINE v == [recs |-> w.recs, copies |-> copies, archived |-> kept, made |-> w.made]
<1>1. v \in ExpenseBooks
  BY DEF ExpenseBooks
<1>2. v.recs = w.recs /\ v.copies = copies /\ v.archived = kept /\ v.made = w.made
  OBVIOUS
<1> HIDE DEF v
<1>3. /\ Recurring(v) = Recurring(w) /\ Expenses!Live(v) = Expenses!Live(w)
      /\ Expenses!Active(v) = {x \in ExpenseSet : copies[x] # "none"}
  BY <1>2 DEF Recurring, Expenses!Live, Expenses!Active, ExpenseSet
<1>4. BooksAreSound(v) /\ Grows(w, v)
  BY <1>2, <1>3 DEF BooksAreSound, MadeUpTo, Grows
<1> QED
  BY <1>1, <1>4 DEF v

\* An expense is paid.
LEMMA ExpensesMarkPaid ==
  ASSUME ExpensesInv, NEW x \in ExpenseSet, Expenses!MarkPaid(x) PROVE ExpensesInv'
<1> DEFINE copies == [books.copies EXCEPT ![x] = "paid"]
<1>1. /\ books.copies[x] = "unpaid" /\ books' = [books EXCEPT !.copies = copies]
      /\ UNCHANGED <<day, runs, viewing, adding>>
  BY DEF Expenses!MarkPaid
<1>2. books \in ExpenseBooks /\ BooksAreSound(books)
  BY DEF ExpensesInv, ExpensesTypeOK
<1>3. copies \in [ExpenseSet -> {"none", "paid", "unpaid"}] /\ books.archived \in SUBSET ExpenseSet
  BY <1>2 DEF ExpenseBooks
<1>4. {y \in ExpenseSet : copies[y] # "none"} = Expenses!Active(books)
  BY <1>1, <1>2 DEF ExpenseBooks, Expenses!Active, ExpenseSet
<1> HIDE DEF copies
<1>5. books' = [recs |-> books.recs, copies |-> copies, archived |-> books.archived,
                made |-> books.made]
  BY <1>1, <1>2 DEF ExpenseBooks
<1>6. books' \in ExpenseBooks /\ BooksAreSound(books') /\ Grows(books, books')
  BY <1>2, <1>3, <1>4, <1>5, CopiesChange DEF BooksAreSound
<1> QED
  BY <1>1, <1>6, BooksGrow

\* A copy of an expense is deleted.
LEMMA ExpensesDelete ==
  ASSUME ExpensesInv, NEW x \in ExpenseSet, Expenses!DeleteExpense(x) PROVE ExpensesInv'
<1> DEFINE copies == IF books.copies[x] # "none" THEN [books.copies EXCEPT ![x] = "none"]
                     ELSE books.copies
           kept == IF books.copies[x] # "none" THEN books.archived ELSE books.archived \ {x}
<1>1. /\ UNCHANGED <<day, runs, viewing, adding>>
      /\ books' = IF books.copies[x] # "none"
                  THEN [books EXCEPT !.copies = [books.copies EXCEPT ![x] = "none"]]
                  ELSE [books EXCEPT !.archived = books.archived \ {x}]
  BY DEF Expenses!DeleteExpense
<1>2. books \in ExpenseBooks /\ BooksAreSound(books)
  BY DEF ExpensesInv, ExpensesTypeOK
<1>3. books = [recs |-> books.recs, copies |-> books.copies, archived |-> books.archived,
               made |-> books.made]
  BY <1>2 DEF ExpenseBooks
<1>4. /\ copies \in [ExpenseSet -> {"none", "paid", "unpaid"}] /\ kept \in SUBSET books.archived
      /\ books.archived \subseteq ExpenseSet
      /\ {y \in ExpenseSet : copies[y] # "none"} \subseteq Expenses!Active(books)
  BY <1>2 DEF ExpenseBooks, Expenses!Active, ExpenseSet
<1>5. books' = [recs |-> books.recs, copies |-> copies, archived |-> kept, made |-> books.made]
  BY <1>1, <1>3
<1> HIDE DEF copies, kept
<1>6. books' \in ExpenseBooks /\ BooksAreSound(books') /\ Grows(books, books')
  BY <1>2, <1>4, <1>5, CopiesChange DEF BooksAreSound
<1> QED
  BY <1>1, <1>6, BooksGrow

\* Whoever waits for an expense waits for one of a recurrence.
LEMMA AwaitedIsRecurring ==
  ASSUME ExpensesInv, NEW x \in Expenses!Awaited
  PROVE  x \in ExpenseSet /\ x[1] \in Recurring(books)
<1>1. x \in ExpenseSet /\ x # Expenses!Nothing
  BY ExpenseConstants DEF Expenses!Awaited, ExpenseSet, Expenses!Nothing
<1>2. CASE \E id \in Expenses!Runs : x = runs[id].at
  <2>1. PICK id \in Expenses!Runs : x = runs[id].at
    BY <1>2
  <2>2. runs[id] # Expenses!NoRun
    BY <1>1, <2>1 DEF Expenses!NoRun
  <2> QED
    BY <1>1, <2>1, <2>2 DEF ExpensesInv, RunsAreSound, IsNext
<1>3. CASE x = viewing.at
  BY <1>1, <1>3 DEF ExpensesInv, WaitsAreSound
<1>4. CASE x = <<adding, 1>>
  BY <1>1, <1>4, ExpenseConstants DEF ExpensesInv, WaitsAreSound
<1> QED
  BY <1>1, <1>2, <1>3, <1>4 DEF Expenses!Awaited

\* The page is loaded again, and old expenses are archived.
LEMMA ExpensesReload ==
  ASSUME ExpensesInv, Expenses!Reload PROVE ExpensesInv'
<1>1. PICK w \in {books} \union
                 {Expenses!With(books, x) :
                    x \in Expenses!Awaited \ (Expenses!Active(books) \union books.archived)} :
        LET old == {x \in ExpenseSet : w.copies[x] = "paid" /\ x[2] + Age <= day}
        IN books' = [w EXCEPT !.copies = [x \in ExpenseSet |-> IF x \in old THEN "none"
                                                               ELSE w.copies[x]],
                              !.archived = w.archived \union old]
  BY DEF Expenses!Reload, ExpenseSet
<1>2. /\ UNCHANGED day /\ runs' = [id \in Expenses!Runs |-> Expenses!NoRun] /\ adding' = 0
      /\ viewing' = [at |-> Expenses!Nothing, last |-> 0]
  BY DEF Expenses!Reload
<1>3. books \in ExpenseBooks /\ BooksAreSound(books)
  BY DEF ExpensesInv, ExpensesTypeOK
<1>4. w \in ExpenseBooks /\ BooksAreSound(w) /\ Grows(books, w)
  <2>1. CASE w = books
    BY <1>3, <2>1 DEF Grows
  <2>2. CASE w # books
    <3>1. PICK x \in Expenses!Awaited \ (Expenses!Active(books) \union books.archived) :
            w = Expenses!With(books, x)
      BY <2>2
    <3>2. x \in ExpenseSet /\ x[1] \in Recurring(books)
      BY AwaitedIsRecurring
    <3> QED
      BY <1>3, <3>1, <3>2, MakingAnExpense
  <2> QED BY <2>1, <2>2
<1> DEFINE old == {x \in ExpenseSet : w.copies[x] = "paid" /\ x[2] + Age <= day}
           copies == [x \in ExpenseSet |-> IF x \in old THEN "none" ELSE w.copies[x]]
           kept == w.archived \union old
<1>5. books' = [w EXCEPT !.copies = copies, !.archived = kept]
  BY <1>1
<1>6. old \subseteq Expenses!Active(w)
  BY <1>4 DEF ExpenseBooks, Expenses!Active, ExpenseSet
<1> HIDE DEF old
<1>7. /\ copies \in [ExpenseSet -> {"none", "paid", "unpaid"}] /\ kept \in SUBSET ExpenseSet
      /\ {y \in ExpenseSet : copies[y] # "none"} = Expenses!Active(w) \ old
  BY <1>4, <1>6 DEF ExpenseBooks, Expenses!Active, ExpenseSet
<1>8. /\ {y \in ExpenseSet : copies[y] # "none"} \union kept
           \subseteq Expenses!Active(w) \union w.archived
      /\ {y \in ExpenseSet : copies[y] # "none"} \intersect kept = {}
  BY <1>4, <1>6, <1>7 DEF BooksAreSound
<1> HIDE DEF copies, kept
<1>9. books' = [recs |-> w.recs, copies |-> copies, archived |-> kept, made |-> w.made]
  BY <1>4, <1>5 DEF ExpenseBooks
<1>10. books' \in ExpenseBooks /\ BooksAreSound(books') /\ Grows(w, books')
  BY <1>4, <1>7, <1>8, <1>9, CopiesChange
<1>11. Grows(books, books')
  BY <1>4, <1>10, GrowsFurther
<1> QED
  BY <1>2, <1>10, <1>11, BooksGrow

\* A day goes by.
LEMMA ExpensesNextDay ==
  ASSUME ExpensesInv, Expenses!NextDay PROVE ExpensesInv'
<1>1. day' \in 0..MaxDay /\ UNCHANGED <<books, runs, viewing, adding>>
  BY ExpenseConstants DEF Expenses!NextDay, ExpensesInv, ExpensesTypeOK
<1> QED
  BY <1>1 DEF ExpensesInv, ExpensesTypeOK, BooksAreSound, RunsAreSound, WaitsAreSound

\* Initially there is no recurrence.
LEMMA ExpensesInitially == ASSUME Expenses!Init PROVE ExpensesInv
<1>1. books = [recs |-> [r \in Expenses!Recs |-> [state |-> "absent", last |-> 0, active |-> FALSE]],
               copies |-> [x \in ExpenseSet |-> "none"], archived |-> {}, made |-> {}]
      /\ day = 0 /\ runs = [id \in Expenses!Runs |-> Expenses!NoRun]
      /\ adding = 0 /\ viewing = [at |-> Expenses!Nothing, last |-> 0]
  BY DEF Expenses!Init, ExpenseSet
<1>2. books \in ExpenseBooks
  BY <1>1 DEF ExpenseBooks, ExpenseRec
<1>3. Expenses!Live(books) = {} /\ Expenses!Active(books) = {} /\ books.archived = {} /\ books.made = {}
  BY <1>1 DEF Expenses!Live, Expenses!Active, ExpenseSet
<1>4. BooksAreSound(books) /\ RunsAreSound(books, runs) /\ WaitsAreSound(books, viewing, adding)
  BY <1>1, <1>3 DEF BooksAreSound, RunsAreSound, WaitsAreSound
<1> QED
  BY <1>1, <1>2, <1>4, ExpenseConstants DEF ExpensesInv, ExpensesTypeOK

\* The invariant of the expenses holds, whatever part of the device moves.
LEMMA ExpensesAlways == DeviceSpec => []ExpensesInv
<1>1. DeviceInit => ExpensesInv
  BY ExpensesInitially DEF DeviceInit
<1>2. ExpensesInv /\ [DeviceNext]_deviceVars => ExpensesInv'
  <2> SUFFICES ASSUME ExpensesInv, [DeviceNext]_deviceVars PROVE ExpensesInv'
    OBVIOUS
  <2>1. CASE Expenses!Next
    <3>1. \/ \E id \in Expenses!Runs :
               Expenses!Begin(id) \/ Expenses!Generate(id) \/ Expenses!GenerateFails(id)
          \/ \E x \in ExpenseSet : Expenses!View(x) \/ Expenses!MarkPaid(x) \/ Expenses!DeleteExpense(x)
          \/ Expenses!Viewed \/ Expenses!ViewFails \/ Expenses!Added \/ Expenses!AddFails
          \/ \E r \in Expenses!Recs : \/ Expenses!AddInDialog(r) \/ Expenses!AddByAgent(r)
                                      \/ Expenses!DeleteRecurrence(r)
          \/ \E r \in Expenses!Recs, active \in BOOLEAN : Expenses!SetActive(r, active)
          \/ Expenses!NextDay \/ Expenses!Reload
      BY <2>1 DEF Expenses!Next, ExpenseSet
    <3> QED
      BY <3>1, ExpensesBegin, ExpensesGenerate, ExpensesFail, ExpensesView, ExpensesViewed,
        ExpensesViewFails, ExpensesAddInDialog, ExpensesAdded, ExpensesAddFails,
        ExpensesAddByAgent, ExpensesDeleteRecurrence, ExpensesSetActive, ExpensesMarkPaid,
        ExpensesDelete, ExpensesReload, ExpensesNextDay
  <2>2. CASE UNCHANGED expenseVars
    BY <2>2 DEF expenseVars, ExpensesInv, ExpensesTypeOK, BooksAreSound, RunsAreSound,
      WaitsAreSound
  <2> QED
    BY <2>1, <2>2, StepOfAPart
<1> QED
  BY <1>1, <1>2, PTL DEF DeviceSpec

\* RecurringExpenses.EveryPeriodOnce, for every number of recurrences, periods, days
\* and reloads, and every size of a batch.
THEOREM ExpensesSafety == DeviceSpec => []EveryPeriodOnce
<1>1. ExpensesInv => EveryPeriodOnce
  BY DEF ExpensesInv, BooksAreSound, MadeUpTo, EveryPeriodOnce, Expenses!EveryPeriodOnce,
    Expenses!NoPeriodIsSkipped, Expenses!OneCopy
<1> QED
  BY <1>1, ExpensesAlways, PTL

-----------------------------------------------------------------------------
(* WorkspaceDeletion.                                                      *)

\* Some of the records, and some of the ties that there may be.
RecordsOf(kinds) == {r \in Records : Kind[r] \in kinds}
Entries == RecordsOf({"entry"})
TieSet == {t \in Records \X Records : t[2] \in TieOf[t[1]]}
Works == [recs : SUBSET Records, ties : SUBSET TieSet]

DeletionPlans ==
  [entries : SUBSET Entries, others : SUBSET RecordsOf({"timer", "attachment", "expense"}),
   invoices : SUBSET RecordsOf({"invoice"}), tasks : SUBSET RecordsOf({"task"}),
   parents : SUBSET RecordsOf({"client", "project"}), personal : SUBSET RecordsOf({"project"})]
StartedDeletions == [at : {"start"}, ask : Deletion!Requests, flushed : SUBSET Deletion!Docs]
PlannedDeletions ==
  [at : {"invoices", "tasks", "parents"}, ask : Deletion!Requests, plan : DeletionPlans,
   tasks : SUBSET RecordsOf({"task"}), flushed : SUBSET Deletion!Docs]

\* The values of the deletion's variables.
DeletionTypeOK ==
  /\ work \in Works /\ saved \in Works /\ made \in SUBSET Records
  /\ deletion \in {Deletion!NoDeletion} \union StartedDeletions \union PlannedDeletions

\* A tie is that of a record that there is, and what there is was made.
TiesAreHeld(w) == w.recs \subseteq made /\ \A t \in w.ties : t[1] \in w.recs

\* What a stored entry names is there: the core document may be written without it.
EntriesHaveTheirTask ==
  /\ \A r \in saved.recs \intersect Entries : Refs[r] \subseteq work.recs
  /\ \A t \in saved.ties : t[1] \in Entries => t[2] \in work.recs

\* Once the entries are flushed, none is stored that was deleted.
FlushedEntriesAreThere ==
  deletion # Deletion!NoDeletion /\ "entries" \in deletion.flushed =>
    /\ saved.recs \intersect Entries \subseteq work.recs
    /\ \A t \in saved.ties : t[1] \in Entries => t \in work.ties

\* No entry is billed on an invoice that is to be deleted.
InvoicesAreReleased ==
  deletion \in PlannedDeletions /\ deletion.at = "invoices" =>
    /\ deletion.plan.invoices \subseteq made
    /\ \A t \in work.ties : t[1] \in Entries => t[2] \notin deletion.plan.invoices

DeletionInv ==
  /\ DeletionTypeOK /\ TiesAreHeld(work) /\ TiesAreHeld(saved)
  /\ Deletion!Whole(work) /\ Deletion!Whole(saved)
  /\ EntriesHaveTheirTask /\ FlushedEntriesAreThere /\ InvoicesAreReleased

\* The constants of the deletion.
LEMMA DeletionConstants ==
  /\ \A r \in Records : Kind[r] \in {"client", "project", "task", "entry", "timer",
                                     "attachment", "expense", "invoice"}
  /\ \A r \in Records : Refs[r] \subseteq RecordsOf({"client", "project", "task"})
  /\ \A t \in TieSet : /\ t[1] \in Records /\ t[2] \in RecordsOf({"client", "invoice"})
                       /\ Kind[t[2]] = "invoice" => Kind[t[1]] \in {"entry", "expense", "task"}
  /\ Roots \subseteq RecordsOf({"client", "project", "task"})
BY DeletionAssumption DEF Deletion!ConstantsAssumption, Deletion!Of, RecordsOf, TieSet

\* Time entries are in a document of their own.
LEMMA EntriesDocument ==
  ASSUME NEW r \in Records
  PROVE  Deletion!DocOf(r) = IF r \in Entries THEN "entries" ELSE "core"
BY DEF Deletion!DocOf, Entries, RecordsOf

\* What is named or tied to is in the core document.
LEMMA NamedIsCore ==
  /\ \A r \in Records : \A x \in Refs[r] : x \in Records /\ Deletion!DocOf(x) = "core"
  /\ \A t \in TieSet : t[2] \in Records /\ Deletion!DocOf(t[2]) = "core"
BY DeletionConstants DEF Deletion!DocOf, RecordsOf

\* A database that a document is written to stays whole: what is added comes after
\* what it names, and what is left out is named by no entry.
LEMMA DocumentIsWritten ==
  ASSUME DeletionInv, NEW d \in Deletion!Docs, Deletion!InOrder(d)
  PROVE  LET w == Deletion!Written(d)
         IN  /\ w \in Works /\ TiesAreHeld(w) /\ Deletion!Whole(w)
             /\ \A r \in w.recs \intersect Entries :
                  IF d = "entries" THEN r \in work.recs ELSE r \in saved.recs
             /\ \A t \in w.ties :
                  t[1] \in Entries => IF d = "entries" THEN t \in work.ties ELSE t \in saved.ties
<1> DEFINE w == Deletion!Written(d)
<1>1. /\ w.recs = {r \in work.recs : Deletion!DocOf(r) = d}
                    \union {r \in saved.recs : Deletion!DocOf(r) # d}
      /\ w.ties = {t \in work.ties : Deletion!DocOf(t[1]) = d}
                    \union {t \in saved.ties : Deletion!DocOf(t[1]) # d}
      /\ w = [recs |-> w.recs, ties |-> w.ties]
  BY DEF Deletion!Written
<1>2. /\ \A r \in w.recs \ saved.recs : Refs[r] \intersect work.recs \subseteq w.recs
      /\ \A t \in w.ties \ saved.ties : t[2] \in work.recs => t[2] \in w.recs
  BY DEF Deletion!InOrder
<1> HIDE DEF w
<1>3. /\ work \in Works /\ saved \in Works /\ Deletion!Whole(work) /\ Deletion!Whole(saved)
      /\ TiesAreHeld(work) /\ TiesAreHeld(saved) /\ EntriesHaveTheirTask
  BY DEF DeletionInv, DeletionTypeOK
<1>4. w \in Works
  BY <1>1, <1>3 DEF Works
<1>5. d \in {"core", "entries"}
  BY DEF Deletion!Docs
<1>6. TiesAreHeld(w)
  BY <1>1, <1>3 DEF TiesAreHeld
<1>7. ASSUME NEW r \in w.recs, NEW x \in Refs[r] PROVE x \in w.recs
  <2>1. r \in Records /\ x \in Records /\ Deletion!DocOf(x) = "core"
    BY <1>4, NamedIsCore DEF Works
  <2>2. CASE r \in work.recs /\ Deletion!DocOf(r) = d
    <3>1. x \in work.recs
      BY <1>3, <2>2 DEF Deletion!Whole
    <3>2. CASE d = "core"
      BY <1>1, <2>1, <3>1, <3>2
    <3>3. CASE d # "core"
      <4>1. CASE r \in saved.recs
        BY <1>1, <1>3, <2>1, <3>3, <4>1 DEF Deletion!Whole
      <4>2. CASE r \notin saved.recs
        BY <1>2, <3>1, <4>2
      <4> QED BY <4>1, <4>2
    <3> QED BY <3>2, <3>3
  <2>3. CASE r \in saved.recs /\ Deletion!DocOf(r) # d
    <3>1. x \in saved.recs
      BY <1>3, <2>3 DEF Deletion!Whole
    <3>2. CASE d = "core"
      <4>1. r \in Entries
        BY <2>1, <2>3, <3>2, EntriesDocument
      <4>2. x \in work.recs
        BY <1>3, <2>3, <4>1 DEF EntriesHaveTheirTask
      <4> QED BY <1>1, <2>1, <3>2, <4>2
    <3>3. CASE d # "core"
      BY <1>1, <2>1, <3>1, <3>3
    <3> QED BY <3>2, <3>3
  <2> QED BY <1>1, <2>2, <2>3
<1>8. ASSUME NEW t \in w.ties PROVE t[2] \in w.recs
  <2>1. t \in TieSet /\ t[1] \in Records /\ Deletion!DocOf(t[2]) = "core"
    BY <1>4, NamedIsCore, DeletionConstants DEF Works
  <2>2. CASE t \in work.ties /\ Deletion!DocOf(t[1]) = d
    <3>1. t[2] \in work.recs
      BY <1>3, <2>2 DEF Deletion!Whole
    <3>2. CASE d = "core"
      BY <1>1, <2>1, <3>1, <3>2
    <3>3. CASE d # "core"
      <4>1. CASE t \in saved.ties
        BY <1>1, <1>3, <2>1, <3>3, <4>1 DEF Deletion!Whole
      <4>2. CASE t \notin saved.ties
        BY <1>2, <3>1, <4>2
      <4> QED BY <4>1, <4>2
    <3> QED BY <3>2, <3>3
  <2>3. CASE t \in saved.ties /\ Deletion!DocOf(t[1]) # d
    <3>1. t[2] \in saved.recs
      BY <1>3, <2>3 DEF Deletion!Whole
    <3>2. CASE d = "core"
      <4>1. t[1] \in Entries
        BY <2>1, <2>3, <3>2, EntriesDocument
      <4>2. t[2] \in work.recs
        BY <1>3, <2>3, <4>1 DEF EntriesHaveTheirTask
      <4> QED BY <1>1, <2>1, <3>2, <4>2
    <3>3. CASE d # "core"
      BY <1>1, <2>1, <3>1, <3>3
    <3> QED BY <3>2, <3>3
  <2> QED BY <1>1, <2>2, <2>3
<1>9. Deletion!Whole(w)
  BY <1>7, <1>8 DEF Deletion!Whole
<1>10. \A r \in w.recs \intersect Entries :
         IF d = "entries" THEN r \in work.recs ELSE r \in saved.recs
  BY <1>1, <1>5, EntriesDocument DEF Entries, RecordsOf
<1>11. \A t \in w.ties :
         t[1] \in Entries => IF d = "entries" THEN t \in work.ties ELSE t \in saved.ties
  BY <1>1, <1>5, EntriesDocument DEF Entries, RecordsOf
<1> QED
  BY <1>4, <1>6, <1>9, <1>10, <1>11 DEF w

\* A document is written, in the background or for the deletion.
LEMMA DocumentIsSaved ==
  ASSUME DeletionInv, NEW d \in Deletion!Docs, Deletion!InOrder(d), saved' = Deletion!Written(d),
         UNCHANGED <<work, made>>,
         \/ UNCHANGED deletion
         \/ /\ deletion # Deletion!NoDeletion
            /\ deletion' = [deletion EXCEPT !.flushed = deletion.flushed \union {d}]
  PROVE  DeletionInv'
<1>1. /\ saved' \in Works /\ TiesAreHeld(saved') /\ Deletion!Whole(saved')
      /\ \A r \in saved'.recs \intersect Entries :
           IF d = "entries" THEN r \in work.recs ELSE r \in saved.recs
      /\ \A t \in saved'.ties :
           t[1] \in Entries => IF d = "entries" THEN t \in work.ties ELSE t \in saved.ties
  BY DocumentIsWritten
<1>2. CASE UNCHANGED deletion
  <2>1. DeletionTypeOK' /\ InvoicesAreReleased'
    BY <1>1, <1>2 DEF DeletionInv, DeletionTypeOK, InvoicesAreReleased
  <2>2. EntriesHaveTheirTask'
    BY <1>1 DEF DeletionInv, EntriesHaveTheirTask, Deletion!Whole
  <2>3. FlushedEntriesAreThere'
    BY <1>1, <1>2 DEF DeletionInv, FlushedEntriesAreThere, Deletion!NoDeletion
  <2> QED
    BY <1>1, <2>1, <2>2, <2>3 DEF DeletionInv, TiesAreHeld, Deletion!Whole
<1>3. CASE /\ deletion # Deletion!NoDeletion
           /\ deletion' = [deletion EXCEPT !.flushed = deletion.flushed \union {d}]
  <2>1. deletion \in StartedDeletions \union PlannedDeletions
    BY <1>3 DEF DeletionInv, DeletionTypeOK
  <2>2. /\ deletion' \in StartedDeletions \union PlannedDeletions
        /\ deletion'.at = deletion.at /\ deletion'.flushed = deletion.flushed \union {d}
        /\ deletion' \in PlannedDeletions =>
             deletion \in PlannedDeletions /\ deletion'.plan = deletion.plan
    BY <1>3, <2>1 DEF StartedDeletions, PlannedDeletions
  <2>3. DeletionTypeOK' /\ InvoicesAreReleased'
    BY <1>1, <2>2 DEF DeletionInv, DeletionTypeOK, InvoicesAreReleased
  <2>4. EntriesHaveTheirTask'
    BY <1>1 DEF DeletionInv, EntriesHaveTheirTask, Deletion!Whole
  <2>5. FlushedEntriesAreThere'
    BY <1>1, <1>3, <2>2 DEF DeletionInv, FlushedEntriesAreThere, Deletion!NoDeletion
  <2> QED
    BY <1>1, <2>3, <2>4, <2>5 DEF DeletionInv, TiesAreHeld, Deletion!Whole
<1> QED
  BY <1>2, <1>3

\* A deletion ends.
LEMMA DeletionEnds ==
  ASSUME DeletionInv, UNCHANGED <<work, saved, made>>, deletion' = Deletion!NoDeletion
  PROVE  DeletionInv'
<1>1. Deletion!NoDeletion \notin PlannedDeletions
  BY DEF Deletion!NoDeletion, PlannedDeletions
<1>2. FlushedEntriesAreThere' /\ InvoicesAreReleased'
  BY <1>1 DEF FlushedEntriesAreThere, InvoicesAreReleased, Deletion!NoDeletion
<1> QED
  BY <1>2 DEF DeletionInv, DeletionTypeOK, TiesAreHeld, Deletion!Whole, EntriesHaveTheirTask,
    Deletion!NoDeletion
\* Records go from memory, with their ties and others that are released, and nothing
\* that stays names them.
LEMMA WorkShrinks ==
  ASSUME DeletionInv, Deletion!Flushed, NEW gone, NEW ts \in SUBSET work.ties,
         \A t \in ts : t[1] \notin gone /\ t[2] \notin gone,
         \A r \in work.recs : Refs[r] \intersect gone = {} \/ r \in gone \ Entries,
         \A t \in work.ties : t[1] \in Entries => t[2] \notin gone,
         work' = [recs |-> work.recs \ gone, ties |-> ts], UNCHANGED <<saved, made>>,
         deletion' \in PlannedDeletions, deletion'.flushed = {}, InvoicesAreReleased'
  PROVE  DeletionInv'
<1>1. work'.recs = work.recs \ gone /\ work'.ties = ts
  OBVIOUS
<1>2. work \in Works /\ TiesAreHeld(work) /\ Deletion!Whole(work) /\ EntriesHaveTheirTask
  BY DEF DeletionInv, DeletionTypeOK
<1>3. /\ saved.recs \intersect Entries \subseteq work.recs
      /\ \A t \in saved.ties : t[1] \in Entries => t \in work.ties
  BY DEF DeletionInv, FlushedEntriesAreThere, Deletion!Flushed, Deletion!Docs
<1>4. DeletionTypeOK'
  BY <1>1, <1>2 DEF DeletionInv, DeletionTypeOK, Works
<1>5. TiesAreHeld(work') /\ Deletion!Whole(work')
  BY <1>1, <1>2 DEF TiesAreHeld, Deletion!Whole
<1>6. EntriesHaveTheirTask'
  <2>1. ASSUME NEW r \in saved.recs \intersect Entries PROVE Refs[r] \subseteq work'.recs
    BY <1>1, <1>2, <1>3 DEF EntriesHaveTheirTask
  <2>2. ASSUME NEW t \in saved.ties, t[1] \in Entries PROVE t[2] \in work'.recs
    BY <1>1, <1>2, <1>3, <2>2 DEF EntriesHaveTheirTask
  <2> QED
    BY <2>1, <2>2 DEF EntriesHaveTheirTask
<1>7. FlushedEntriesAreThere'
  BY DEF FlushedEntriesAreThere
<1> QED
  BY <1>4, <1>5, <1>6, <1>7 DEF DeletionInv, TiesAreHeld, Deletion!Whole

\* What a deletion is about is as the records are.
LEMMA PlanOfDeletion ==
  ASSUME work \in Works, NEW q \in Deletion!Requests
  PROVE  /\ Deletion!Plan(work, q) \in DeletionPlans
         /\ Deletion!Plan(work, q).invoices \subseteq work.recs
         /\ Deletion!Plan(work, q).entries \subseteq work.recs
<1>1. q.root \in RecordsOf({"client", "project", "task"})
  BY DeletionConstants DEF Deletion!Requests
<1>2. Deletion!ProjectsOf(work, q) \subseteq RecordsOf({"project"})
  <2>1. CASE Kind[q.root] = "project"
    BY <1>1, <2>1 DEF Deletion!ProjectsOf, RecordsOf
  <2>2. CASE Kind[q.root] = "client" /\ q.projects
    BY <1>1, <2>2 DEF Deletion!ProjectsOf, RecordsOf, Deletion!Of, Works
  <2>3. CASE Kind[q.root] # "project" /\ ~(Kind[q.root] = "client" /\ q.projects)
    BY <2>3 DEF Deletion!ProjectsOf
  <2> QED BY <2>1, <2>2, <2>3
<1>3. Deletion!TasksOf(work, q) \subseteq RecordsOf({"task"})
  <2>1. \A S \in SUBSET RecordsOf({"task"}) :
          Deletion!Subtasks(work, S) \subseteq RecordsOf({"task"})
    BY DEF Deletion!Subtasks, Deletion!Of, Deletion!Naming, RecordsOf, Works
  <2>2. CASE Kind[q.root] = "task"
    <3>1. {q.root} \in SUBSET RecordsOf({"task"})
      BY <1>1, <2>2 DEF RecordsOf
    <3> QED BY <2>1, <2>2, <3>1 DEF Deletion!TasksOf
  <2>3. CASE Kind[q.root] # "task"
    BY <2>3 DEF Deletion!TasksOf, Deletion!Of, Deletion!Naming, RecordsOf, Works
  <2> QED BY <2>2, <2>3
<1>4. Deletion!InvoicesOf(work, q) \subseteq RecordsOf({"invoice"}) \intersect work.recs
  BY DEF Deletion!InvoicesOf, Deletion!Of, Deletion!Naming, RecordsOf, Works
<1> DEFINE p == Deletion!Plan(work, q)
<1>5. /\ p.entries \subseteq work.recs /\ p.entries \subseteq Records
      /\ p.others \subseteq RecordsOf({"timer", "attachment", "expense"})
      /\ p.invoices \subseteq RecordsOf({"invoice"}) \intersect work.recs
      /\ p.tasks \subseteq RecordsOf({"task"})
      /\ p.parents \subseteq RecordsOf({"client", "project"})
      /\ p.personal \subseteq RecordsOf({"project"})
  BY <1>1, <1>2, <1>3, <1>4 DEF Deletion!Plan, Deletion!Of, Deletion!Naming, RecordsOf, Works
<1>6. p \in DeletionPlans
  <2>1. p = [entries |-> p.entries, others |-> p.others, invoices |-> p.invoices,
             tasks |-> p.tasks, parents |-> p.parents, personal |-> p.personal]
    BY DEF Deletion!Plan
  <2>2. p.entries \subseteq Entries
    BY DEF Deletion!Plan, Deletion!Of, Deletion!Naming, Entries, RecordsOf, Works
  <2> HIDE DEF p
  <2> QED BY <1>5, <2>1, <2>2 DEF DeletionPlans
<1> QED
  BY <1>5, <1>6

\* A deletion that is under way has a plan.
LEMMA DeletionIsPlanned ==
  ASSUME DeletionInv, Deletion!Flushed
  PROVE  /\ deletion \in StartedDeletions \union PlannedDeletions
         /\ deletion.ask \in Deletion!Requests
         /\ deletion.at \in {"invoices", "tasks", "parents"} =>
              deletion \in PlannedDeletions /\ deletion.plan \in DeletionPlans
BY DEF Deletion!Flushed, DeletionInv, DeletionTypeOK, StartedDeletions, PlannedDeletions

\* What has been deleted of what depends on the records.
LEMMA DependentsAreDeleted ==
  ASSUME DeletionInv, Deletion!DeleteDependents PROVE DeletionInv'
<1> DEFINE q == deletion.ask
           p == Deletion!Plan(work, q)
           gone == p.entries \union p.others
           ts == {t \in work.ties : t[1] \notin gone}
<1>1. Deletion!Flushed /\ deletion.at = "start"
  BY DEF Deletion!DeleteDependents
<1>2. CASE ~Deletion!Allowed(work, q)
  BY <1>2, DeletionEnds DEF Deletion!DeleteDependents, Deletion!Refused
<1>3. CASE Deletion!Allowed(work, q)
  <2>1. work \in Works /\ TiesAreHeld(work) /\ q \in Deletion!Requests
    BY <1>1, DeletionIsPlanned DEF DeletionInv, DeletionTypeOK
  <2>2. p \in DeletionPlans /\ p.invoices \subseteq work.recs
    BY <2>1, PlanOfDeletion
  <2>3. /\ work' = [recs |-> work.recs \ gone, ties |-> ts] /\ UNCHANGED <<saved, made>>
        /\ deletion' = [[at |-> "invoices", ask |-> q, plan |-> p, tasks |-> p.tasks,
                         flushed |-> {}] EXCEPT !.flushed = {}]
    BY <1>3 DEF Deletion!DeleteDependents, Deletion!GoesOn, Deletion!Without
  <2>4. \A r \in Deletion!Of(work.recs, {"entry", "task"}) \ (p.entries \union p.tasks) :
          \A t \in work.ties : t[1] = r /\ t[2] \in Deletion!Of(work.recs, {"invoice"})
                                 => t[2] \notin p.invoices
    BY <1>3 DEF Deletion!Allowed
  <2>5. deletion' = [at |-> "invoices", ask |-> q, plan |-> p, tasks |-> p.tasks, flushed |-> {}]
    BY <2>3
  <2> HIDE DEF q, p
  <2>6. /\ p.tasks \subseteq RecordsOf({"task"}) /\ p.invoices \subseteq RecordsOf({"invoice"})
        /\ p.others \subseteq RecordsOf({"timer", "attachment", "expense"})
        /\ p.entries \subseteq Entries
    BY <2>2 DEF DeletionPlans
  <2>7. deletion' \in PlannedDeletions /\ deletion'.flushed = {} /\ deletion'.plan = p
        /\ deletion'.at = "invoices"
    BY <2>1, <2>2, <2>5, <2>6 DEF PlannedDeletions
  <2>8. gone \intersect RecordsOf({"client", "project", "task", "invoice"}) = {}
    BY <2>6 DEF Entries, RecordsOf
  <2> HIDE DEF gone
  <2>9. /\ \A r \in work.recs : Refs[r] \intersect gone = {}
        /\ \A t \in work.ties : t[2] \notin gone
    BY <2>1, <2>8, DeletionConstants DEF Works, RecordsOf
  <2>10. \A t \in ts : t[1] \in Entries => t[2] \notin p.invoices
    <3> SUFFICES ASSUME NEW t \in ts, t[1] \in Entries, t[2] \in p.invoices PROVE FALSE
      OBVIOUS
    <3>1. t[1] \in work.recs /\ t[1] \notin gone
      BY <2>1 DEF TiesAreHeld
    <3>2. t[1] \notin p.entries /\ t[1] \notin p.tasks
      BY <2>6, <3>1 DEF gone, Entries, RecordsOf
    <3>3. /\ t[1] \in Deletion!Of(work.recs, {"entry", "task"})
          /\ t[2] \in Deletion!Of(work.recs, {"invoice"})
      BY <2>2, <2>6, <3>1 DEF Deletion!Of, Entries, RecordsOf
    <3> QED
      BY <2>4, <3>2, <3>3
  <2>11. InvoicesAreReleased'
    <3>1. p.invoices \subseteq made
      BY <2>1, <2>2 DEF TiesAreHeld
    <3> QED
      BY <2>3, <2>7, <2>10, <3>1 DEF InvoicesAreReleased
  <2> HIDE DEF ts
  <2>12. ts \in SUBSET work.ties /\ \A t \in ts : t[1] \notin gone /\ t[2] \notin gone
    BY <2>9 DEF ts
  <2> QED
    BY <1>1, <2>3, <2>7, <2>9, <2>11, <2>12, WorkShrinks
<1> QED
  BY <1>2, <1>3
\* A deletion that waits anew, without the invoices before it.
LEMMA NextPhase ==
  ASSUME deletion \in PlannedDeletions, NEW at \in {"tasks", "parents"},
         NEW rest \in SUBSET deletion.tasks,
         deletion' = [deletion EXCEPT !.at = at, !.tasks = rest, !.flushed = {}]
  PROVE  deletion' \in PlannedDeletions /\ deletion'.flushed = {} /\ InvoicesAreReleased'
<1>1. deletion' \in PlannedDeletions /\ deletion'.flushed = {} /\ deletion'.at = at
  BY DEF PlannedDeletions
<1> QED
  BY <1>1 DEF InvoicesAreReleased

\* The invoices are deleted: who was billed on them is released or gone.
LEMMA InvoicesAreDeleted ==
  ASSUME DeletionInv, Deletion!DeleteInvoices PROVE DeletionInv'
<1> DEFINE gone == deletion.plan.invoices
           released == {t \in Deletion!Tied(work, gone) : Kind[t[1]] \in {"expense", "task"}}
           ts == {t \in work.ties \ released : t[1] \notin gone}
<1>1. Deletion!Flushed /\ deletion.at = "invoices"
  BY DEF Deletion!DeleteInvoices
<1>2. CASE ~Deletion!Allowed(work, deletion.ask)
  BY <1>2, DeletionEnds DEF Deletion!DeleteInvoices, Deletion!Refused
<1>3. CASE Deletion!Allowed(work, deletion.ask)
  <2>1. /\ deletion \in PlannedDeletions /\ deletion.plan \in DeletionPlans
        /\ work \in Works /\ TiesAreHeld(work)
    BY <1>1, DeletionIsPlanned DEF DeletionInv, DeletionTypeOK
  <2>2. /\ work' = Deletion!Without([work EXCEPT !.ties = work.ties \ released], gone)
        /\ deletion' = [[deletion EXCEPT !.at = "tasks"] EXCEPT !.flushed = {}]
        /\ UNCHANGED <<saved, made>>
    BY <1>3 DEF Deletion!DeleteInvoices, Deletion!GoesOn
  <2>3. work' = [recs |-> work.recs \ gone, ties |-> ts]
    BY <2>1, <2>2 DEF Deletion!Without, Works
  <2>4. deletion' = [deletion EXCEPT !.at = "tasks", !.tasks = deletion.tasks, !.flushed = {}]
    BY <2>1, <2>2 DEF PlannedDeletions
  <2>5. gone \subseteq RecordsOf({"invoice"})
    BY <2>1 DEF DeletionPlans
  <2>6. \A t \in work.ties : t[1] \in Entries => t[2] \notin gone
    BY <1>1, <2>1 DEF DeletionInv, InvoicesAreReleased
  <2> HIDE DEF gone
  <2>7. \A r \in work.recs : Refs[r] \intersect gone = {}
    BY <2>1, <2>5, DeletionConstants DEF Works, RecordsOf
  <2>8. \A t \in ts : t[1] \notin gone /\ t[2] \notin gone
    <3> SUFFICES ASSUME NEW t \in ts, t[2] \in gone PROVE FALSE
      OBVIOUS
    <3>1. t \in TieSet /\ Kind[t[2]] = "invoice" /\ t[1] \in Records
      BY <2>1, <2>5, DeletionConstants DEF Works, RecordsOf
    <3>2. Kind[t[1]] \in {"entry", "expense", "task"}
      BY <3>1, DeletionConstants
    <3>3. Kind[t[1]] # "entry"
      BY <2>6, <3>1 DEF Entries, RecordsOf
    <3> QED
      BY <3>2, <3>3 DEF Deletion!Tied
  <2> HIDE DEF ts
  <2>9. ts \in SUBSET work.ties
    BY DEF ts
  <2>10. deletion' \in PlannedDeletions /\ deletion'.flushed = {} /\ InvoicesAreReleased'
    <3>1. "tasks" \in {"tasks", "parents"} /\ deletion.tasks \in SUBSET deletion.tasks
      OBVIOUS
    <3> QED
      BY <2>1, <2>4, <3>1, NextPhase
  <2> QED
    BY <1>1, <2>2, <2>3, <2>6, <2>7, <2>8, <2>9, <2>10, WorkShrinks
<1> QED
  BY <1>2, <1>3

\* Tasks are deleted that nothing names any more.
LEMMA TasksAreDeleted ==
  ASSUME DeletionInv, Deletion!DeleteTasks PROVE DeletionInv'
<1> DEFINE leaves == {k \in deletion.tasks : \A c \in deletion.tasks : k \notin Refs[c]}
           ts == {t \in work.ties : t[1] \notin leaves}
<1>1. Deletion!Flushed /\ deletion.at = "tasks"
  BY DEF Deletion!DeleteTasks
<1>2. CASE ~(Deletion!Allowed(work, deletion.ask) /\ Deletion!Naming(work, leaves) = {})
  BY <1>2, DeletionEnds DEF Deletion!DeleteTasks, Deletion!Refused
<1>3. CASE Deletion!Allowed(work, deletion.ask) /\ Deletion!Naming(work, leaves) = {}
  <2>1. deletion \in PlannedDeletions /\ work \in Works
    BY <1>1, DeletionIsPlanned DEF DeletionInv, DeletionTypeOK
  <2>2. /\ work' = [recs |-> work.recs \ leaves, ties |-> ts] /\ UNCHANGED <<saved, made>>
        /\ deletion' = [[deletion EXCEPT !.tasks = deletion.tasks \ leaves] EXCEPT !.flushed = {}]
    BY <1>3 DEF Deletion!DeleteTasks, Deletion!GoesOn, Deletion!Without
  <2>3. leaves \subseteq RecordsOf({"task"})
    BY <2>1 DEF PlannedDeletions
  <2> HIDE DEF leaves
  <2>4. deletion' = [deletion EXCEPT !.at = "tasks", !.tasks = deletion.tasks \ leaves,
                                     !.flushed = {}]
    BY <1>1, <2>1, <2>2 DEF PlannedDeletions
  <2>5. deletion' \in PlannedDeletions /\ deletion'.flushed = {} /\ InvoicesAreReleased'
    <3>1. "tasks" \in {"tasks", "parents"} /\ deletion.tasks \ leaves \in SUBSET deletion.tasks
      OBVIOUS
    <3> QED
      BY <2>1, <2>4, <3>1, NextPhase
  <2>6. \A r \in work.recs : Refs[r] \intersect leaves = {}
    BY <1>3 DEF Deletion!Naming
  <2>7. \A t \in work.ties : t[2] \notin leaves
    BY <2>1, <2>3, DeletionConstants DEF Works, RecordsOf
  <2>8. ts \in SUBSET work.ties /\ \A t \in ts : t[1] \notin leaves /\ t[2] \notin leaves
    BY <2>7
  <2> HIDE DEF ts
  <2> QED
    BY <1>1, <2>2, <2>5, <2>6, <2>7, <2>8, WorkShrinks
<1> QED
  BY <1>2, <1>3

\* The projects and the client are deleted, when nothing names them any more.
LEMMA ParentsAreDeleted ==
  ASSUME DeletionInv, Deletion!DeleteParents PROVE DeletionInv'
<1> DEFINE p == deletion.plan
           gone == p.parents
           ts == {t \in work.ties \ Deletion!Tied(work, gone) : t[1] \notin gone}
           goes == /\ Kind[deletion.ask.root] # "task" => Deletion!Allowed(work, deletion.ask)
                   /\ Deletion!Naming(work, gone \union p.tasks) = {}
                   /\ \A t \in Deletion!Tied(work, gone) : t[1] \in gone \union p.personal
<1>1. Deletion!Flushed /\ deletion.at = "tasks"
  BY DEF Deletion!DeleteParents
<1>2. CASE ~goes
  BY <1>2, DeletionEnds DEF Deletion!DeleteParents, Deletion!Refused
<1>3. CASE goes
  <2>1. deletion \in PlannedDeletions /\ p \in DeletionPlans /\ work \in Works
    BY <1>1, DeletionIsPlanned DEF DeletionInv, DeletionTypeOK
  <2>2. /\ work' = Deletion!Without([work EXCEPT !.ties = work.ties \ Deletion!Tied(work, gone)], gone)
        /\ UNCHANGED <<saved, made>>
        /\ deletion' = [[deletion EXCEPT !.at = "parents"] EXCEPT !.flushed = {}]
    BY <1>3 DEF Deletion!DeleteParents, Deletion!GoesOn
  <2>3. work' = [recs |-> work.recs \ gone, ties |-> ts]
    BY <2>1, <2>2 DEF Deletion!Without, Works
  <2>4. deletion' = [deletion EXCEPT !.at = "parents", !.tasks = deletion.tasks, !.flushed = {}]
    BY <2>1, <2>2 DEF PlannedDeletions
  <2>5. deletion' \in PlannedDeletions /\ deletion'.flushed = {} /\ InvoicesAreReleased'
    <3>1. "parents" \in {"tasks", "parents"} /\ deletion.tasks \in SUBSET deletion.tasks
      OBVIOUS
    <3> QED
      BY <2>1, <2>4, <3>1, NextPhase
  <2>6. \A r \in work.recs : Refs[r] \intersect gone = {}
    BY <1>3 DEF Deletion!Naming
  <2>7. \A t \in work.ties : t[1] \in Entries => t[2] \notin gone
    <3>1. (gone \union p.personal) \intersect Entries = {}
      BY <2>1 DEF DeletionPlans, Entries, RecordsOf
    <3> QED
      BY <1>3, <3>1 DEF Deletion!Tied
  <2>8. ts \in SUBSET work.ties /\ \A t \in ts : t[1] \notin gone /\ t[2] \notin gone
    BY DEF Deletion!Tied
  <2> HIDE DEF ts, gone
  <2> QED
    BY <1>1, <2>2, <2>3, <2>5, <2>6, <2>7, <2>8, WorkShrinks
<1> QED
  BY <1>2, <1>3

\* The deletion is asked for, and waits for a first flush.
LEMMA DeletionIsAsked ==
  ASSUME DeletionInv, NEW q \in Deletion!Requests, Deletion!Ask(q) PROVE DeletionInv'
<1>1. /\ deletion' = [at |-> "start", ask |-> q, flushed |-> {}]
      /\ UNCHANGED <<work, saved, made>>
  BY DEF Deletion!Ask
<1>2. deletion' \in StartedDeletions /\ deletion'.at = "start" /\ deletion'.flushed = {}
  BY <1>1 DEF StartedDeletions
<1>3. DeletionTypeOK'
  BY <1>1, <1>2 DEF DeletionInv, DeletionTypeOK
<1>4. FlushedEntriesAreThere' /\ InvoicesAreReleased'
  BY <1>2 DEF FlushedEntriesAreThere, InvoicesAreReleased
<1> QED
  BY <1>1, <1>3, <1>4 DEF DeletionInv, TiesAreHeld, Deletion!Whole, EntriesHaveTheirTask

\* A record is added, with its ties and those of the work that it bills.
LEMMA RecordIsAdded ==
  ASSUME DeletionInv, NEW r \in Records, Deletion!Add(r) PROVE DeletionInv'
<1>1. /\ r \notin made /\ Refs[r] \subseteq work.recs /\ made' = made \union {r}
      /\ UNCHANGED <<saved, deletion>>
  BY DEF Deletion!Add
<1>2. PICK ties \in SUBSET {<<r, x>> : x \in TieOf[r] \ Deletion!Of(TieOf[r], {"invoice"})} :
        /\ \A t \in ties : t[2] \in work.recs
        /\ LET billed == IF Kind[r] # "invoice" THEN {}
                         ELSE {<<x, r>> : x \in {y \in work.recs : r \in TieOf[y]
                                 /\ \A t \in work.ties : t[1] = y => Kind[t[2]] # "invoice"}}
           IN work' = [recs |-> work.recs \union {r},
                       ties |-> work.ties \union ties \union billed]
  BY DEF Deletion!Add
<1> DEFINE billed == IF Kind[r] # "invoice" THEN {}
                     ELSE {<<x, r>> : x \in {y \in work.recs : r \in TieOf[y]
                             /\ \A t \in work.ties : t[1] = y => Kind[t[2]] # "invoice"}}
<1>3. /\ work' = [recs |-> work.recs \union {r}, ties |-> work.ties \union ties \union billed]
      /\ \A t \in billed : t[2] = r /\ t[1] \in work.recs /\ r \in TieOf[t[1]]
                           /\ t = <<t[1], t[2]>>
  BY <1>2
<1>4. \A t \in ties : /\ t[1] = r /\ t[2] \in TieOf[r] /\ Kind[t[2]] # "invoice"
                      /\ t[2] \in work.recs /\ t = <<t[1], t[2]>>
  BY <1>2 DEF Deletion!Of
<1> HIDE DEF billed
<1>5. work'.recs = work.recs \union {r} /\ work'.ties = work.ties \union ties \union billed
  BY <1>3
<1>6. /\ work \in Works /\ TiesAreHeld(work) /\ TiesAreHeld(saved)
      /\ Deletion!Whole(work) /\ Deletion!Whole(saved)
  BY DEF DeletionInv, DeletionTypeOK
<1>7. ties \union billed \subseteq TieSet
  BY <1>3, <1>4, <1>6 DEF Works, TieSet
<1>8. DeletionTypeOK'
  BY <1>1, <1>3, <1>6, <1>7 DEF DeletionInv, DeletionTypeOK, Works
<1>9. TiesAreHeld(work)' /\ TiesAreHeld(saved)' /\ Deletion!Whole(work)' /\ Deletion!Whole(saved)'
  BY <1>1, <1>3, <1>4, <1>5, <1>6 DEF TiesAreHeld, Deletion!Whole
<1>10. EntriesHaveTheirTask' /\ FlushedEntriesAreThere'
  BY <1>1, <1>5 DEF DeletionInv, EntriesHaveTheirTask, FlushedEntriesAreThere, Deletion!NoDeletion
<1>11. InvoicesAreReleased'
  <2> SUFFICES ASSUME deletion \in PlannedDeletions, deletion.at = "invoices"
               PROVE  /\ deletion.plan.invoices \subseteq made'
                      /\ \A t \in work'.ties : t[1] \in Entries => t[2] \notin deletion.plan.invoices
    BY <1>1 DEF InvoicesAreReleased
  <2>1. /\ deletion.plan.invoices \subseteq made
        /\ \A t \in work.ties : t[1] \in Entries => t[2] \notin deletion.plan.invoices
    BY DEF DeletionInv, InvoicesAreReleased
  <2>2. \A x \in deletion.plan.invoices : Kind[x] = "invoice"
    BY DEF PlannedDeletions, DeletionPlans, RecordsOf
  <2> QED
    BY <1>1, <1>3, <1>4, <1>5, <2>1, <2>2
<1> QED
  BY <1>8, <1>9, <1>10, <1>11 DEF DeletionInv

\* The tab dies and starts again from the databases.
LEMMA DeletionRestarts ==
  ASSUME DeletionInv, Deletion!Restart PROVE DeletionInv'
<1>1. /\ work' = saved /\ deletion' = Deletion!NoDeletion /\ UNCHANGED <<saved, made>>
  BY DEF Deletion!Restart
<1>2. Deletion!NoDeletion \notin PlannedDeletions
  BY DEF Deletion!NoDeletion, PlannedDeletions
<1>3. FlushedEntriesAreThere' /\ InvoicesAreReleased'
  BY <1>1, <1>2 DEF FlushedEntriesAreThere, InvoicesAreReleased, Deletion!NoDeletion
<1>4. EntriesHaveTheirTask'
  BY <1>1 DEF DeletionInv, EntriesHaveTheirTask, Deletion!Whole
<1> QED
  BY <1>1, <1>3, <1>4 DEF DeletionInv, DeletionTypeOK, TiesAreHeld, Deletion!Whole,
    Deletion!NoDeletion

\* Initially the workspace is whole.
LEMMA DeletionInitially == ASSUME Deletion!Init PROVE DeletionInv
<1>1. /\ work = [recs |-> FirstRecords, ties |-> FirstTies] /\ saved = work /\ made = FirstRecords
      /\ deletion = Deletion!NoDeletion
  BY DEF Deletion!Init
<1>2. /\ FirstRecords \subseteq Records /\ \A r \in FirstRecords : Refs[r] \subseteq FirstRecords
      /\ \A t \in FirstTies : /\ t \in TieSet /\ t[1] \in FirstRecords /\ t[2] \in FirstRecords
  BY DeletionAssumption DEF Deletion!ConstantsAssumption, TieSet
<1>3. DeletionTypeOK
  BY <1>1, <1>2 DEF DeletionTypeOK, Works
<1>4. Deletion!NoDeletion \notin PlannedDeletions
  BY DEF Deletion!NoDeletion, PlannedDeletions
<1>5. TiesAreHeld(work) /\ Deletion!Whole(work)
  BY <1>1, <1>2 DEF TiesAreHeld, Deletion!Whole
<1> QED
  BY <1>1, <1>3, <1>4, <1>5 DEF DeletionInv, EntriesHaveTheirTask, FlushedEntriesAreThere,
    InvoicesAreReleased, Deletion!Whole

\* The invariant of the deletion holds, whatever part of the device moves.
LEMMA DeletionAlways == DeviceSpec => []DeletionInv
<1>1. DeviceInit => DeletionInv
  BY DeletionInitially DEF DeviceInit
<1>2. DeletionInv /\ [DeviceNext]_deviceVars => DeletionInv'
  <2> SUFFICES ASSUME DeletionInv, [DeviceNext]_deviceVars PROVE DeletionInv'
    OBVIOUS
  <2>1. CASE Deletion!Next
    <3>1. CASE \E d \in Deletion!Docs : Deletion!FlushDoc(d) \/ Deletion!PersistDoc(d)
      BY <3>1, DocumentIsSaved DEF Deletion!FlushDoc, Deletion!PersistDoc
    <3>2. CASE Deletion!FlushFails \/ Deletion!Acknowledge
      BY <3>2, DeletionEnds DEF Deletion!FlushFails, Deletion!Acknowledge, Deletion!Refused
    <3> QED
      BY <2>1, <3>1, <3>2, RecordIsAdded, DeletionIsAsked, DependentsAreDeleted,
        InvoicesAreDeleted, TasksAreDeleted, ParentsAreDeleted, DeletionRestarts
        DEF Deletion!Next
  <2>2. CASE UNCHANGED deletionVars
    BY <2>2 DEF deletionVars, DeletionInv, DeletionTypeOK, TiesAreHeld, Deletion!Whole,
      EntriesHaveTheirTask, FlushedEntriesAreThere, InvoicesAreReleased, Deletion!NoDeletion
  <2> QED
    BY <2>1, <2>2, StepOfAPart
<1> QED
  BY <1>1, <1>2, PTL DEF DeviceSpec

\* WorkspaceDeletion.NoOrphans, for every set of records and references between
\* them, and every number of deletions, failed flushes and restarts.
THEOREM DeletionSafety == DeviceSpec => []NoOrphans
<1>1. DeletionInv => NoOrphans
  BY DEF DeletionInv, NoOrphans, Deletion!NoOrphans
<1> QED
  BY <1>1, DeletionAlways, PTL

=============================================================================

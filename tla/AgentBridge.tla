----------------------------- MODULE AgentBridge -----------------------------
(***************************************************************************)
(* The local bridge between an agent and the tabs of the app.  The bridge  *)
(* sends the agent's commands to one authoritative tab of those that are   *)
(* connected; the tab executes them one after another, a sensitive one     *)
(* only with a signed approval or after it has asked the user.             *)
(***************************************************************************)
EXTENDS Naturals, Sequences, FiniteSets, FiniteSetsExt

CONSTANTS
  Tabs,
  Sensitive,       \* the commands that need an approval
  MaxConns, MaxCommands  \* bounds

ConstantsAssumption ==
  /\ {MaxConns, MaxCommands} \subseteq Nat \ {0}
  /\ Sensitive \subseteq 1..MaxCommands /\ "none" \notin Tabs

Conns == 1..MaxConns        \* the connections, in the order in which they are made
Commands == 1..MaxCommands  \* the commands, in the order in which the agent gives them

VARIABLES
  clients,  \* the bridge: its connections
  chosen,   \* authoritativeClientId, or 0
  waiting,  \* pendingResponses: the connection that is to answer a command, or 0
  trusted,  \* the tabs whose session or key the bridge accepts
  told,     \* what the agent was told of a command
  link,     \* a connection: whose it is, whether its socket lives, how far its proof is
  wire,     \* the commands and answers under way
  socket,   \* a tab: its connection, or 0
  queue,    \* ... the commands it has received
  busy,     \* ... the command the queue waits for, or 0
  asked,    \* ... the command the user is asked about, or 0
  run,      \* how far a command is in its tab
  approved  \* bookkeeping: the commands for which the user or a token has stood

bridgeVars == <<clients, chosen, waiting, trusted, told>>
tabVars == <<queue, busy, asked, run, approved>>
vars == <<bridgeVars, link, wire, socket, tabVars>>

Made == {c \in Conns : link[c].tab # "none"}
Proved(c) == link[c].proof \in {"done", "late"}  \* ~reconnectPending
Late == {c \in Made : link[c].proof = "late"}  \* bookkeeping: taken in when they were gone
TabOf(r) == CHOOSE t \in Tabs : t = link[run[r].conn].tab

-----------------------------------------------------------------------------
(* Connections.                                                            *)

\* A tab connects with a pairing code or a session token, or with a key that it
\* still has to prove; the first one with a session becomes authoritative.
Connects(t, proof) ==
  \E c \in Conns \ Made :
    /\ \A d \in Conns \ Made : c <= d
    /\ socket[t] = 0 /\ socket' = [socket EXCEPT ![t] = c]
    /\ link' = [link EXCEPT ![c] = [tab |-> t, alive |-> TRUE, proof |-> proof]]
    /\ clients' = clients \union {c}
    /\ chosen' = IF chosen = 0 /\ proof = "done" THEN c ELSE chosen

Pair(t) ==
  /\ Connects(t, "done") /\ trusted' = trusted \union {t}
  /\ UNCHANGED <<waiting, told, wire, tabVars>>
Resume(t) ==
  /\ t \in trusted /\ Connects(t, "done")
  /\ UNCHANGED <<waiting, trusted, told, wire, tabVars>>
Reconnect(t) ==
  /\ t \in trusted /\ Connects(t, "asked")
  /\ UNCHANGED <<waiting, trusted, told, wire, tabVars>>

\* The tab signs the challenge, the bridge begins to verify it ...
Prove(c) ==
  /\ c \in clients /\ link[c].alive /\ link[c].proof = "asked"
  /\ link' = [link EXCEPT ![c].proof = IF link[c].tab \in trusted THEN "checked" ELSE @,
                          ![c].alive = link[c].tab \in trusted]
  /\ UNCHANGED <<bridgeVars, wire, socket, tabVars>>

\* ... and takes the connection in, whatever became of it: one that is gone stays
\* the authoritative one for good.
Verified(c) ==
  /\ link[c].proof = "checked"
  /\ link' = [link EXCEPT ![c].proof = IF c \in clients THEN "done" ELSE "late"]
  /\ chosen' = IF chosen = 0 THEN c ELSE chosen
  /\ UNCHANGED <<clients, waiting, trusted, told, wire, socket, tabVars>>

\* A socket dies with what is on its way.
Dies(c) ==
  /\ link[c].alive
  /\ link' = [link EXCEPT ![c].alive = FALSE]
  /\ wire' = {m \in wire : m.conn # c}

Drop(c) == Dies(c) /\ UNCHANGED <<bridgeVars, socket, tabVars>>

\* Variant: the next one is elected before the closed one is removed.
Elected_TooEarly(cs) ==
  LET able == {c \in clients : Proved(c)} IN IF able = {} THEN 0 ELSE Min(able)

\* The first of those that have a session.
Elected(cs) == LET able == {c \in cs : Proved(c)} IN IF able = {} THEN 0 ELSE Min(able)

Rejected(rs) == [r \in Commands |-> IF r \in rs THEN "unavailable" ELSE told[r]]
WaitingFor(c) == {r \in Commands : waiting[r] = c}

\* The bridge sees that a socket is closed.
Disconnected(c) ==
  /\ c \in clients /\ ~link[c].alive
  /\ clients' = clients \ {c}
  /\ chosen' = IF chosen = c THEN Elected(clients') ELSE chosen
  /\ told' = Rejected(WaitingFor(c))
  /\ waiting' = [r \in Commands |-> IF waiting[r] = c THEN 0 ELSE waiting[r]]
  /\ UNCHANGED <<trusted, link, wire, socket, tabVars>>

\* The question to the user is withdrawn, which counts as a refusal.
Withdrawn(t) ==
  [r \in Commands |-> IF asked[t] = r THEN [run[r] EXCEPT !.at = "denied"] ELSE run[r]]

\* The tab sees it; it will try again.
Closed(t) ==
  /\ socket[t] # 0 /\ ~link[socket[t]].alive
  /\ socket' = [socket EXCEPT ![t] = 0]
  /\ run' = Withdrawn(t) /\ asked' = [asked EXCEPT ![t] = 0]
  /\ UNCHANGED <<bridgeVars, link, wire, queue, busy, approved>>

\* The user disconnects, and the key is forgotten.
Leave(t) ==
  /\ socket[t] # 0 /\ Dies(socket[t])
  /\ trusted' = trusted \ {t}
  /\ socket' = [socket EXCEPT ![t] = 0]
  /\ run' = Withdrawn(t) /\ asked' = [asked EXCEPT ![t] = 0]
  /\ UNCHANGED <<clients, chosen, waiting, told, queue, busy, approved>>

\* Access is revoked: every session and key is forgotten, every socket closed.
RevokeAll ==
  /\ trusted # {} /\ trusted' = {}
  /\ told' = Rejected({r \in Commands : waiting[r] # 0})
  /\ waiting' = [r \in Commands |-> 0]
  /\ link' = [c \in Conns |-> [link[c] EXCEPT !.alive = FALSE]]
  /\ wire' = {}
  /\ UNCHANGED <<clients, chosen, socket, tabVars>>

-----------------------------------------------------------------------------
(* Commands.                                                               *)

\* The agent gives a command: it is sent to the authoritative tab, or refused.
Dispatch(r) ==
  /\ told[r] = "none" /\ \A s \in Commands : s < r => told[s] # "none"
  /\ IF chosen \in clients /\ Proved(chosen)
     THEN /\ waiting' = [waiting EXCEPT ![r] = chosen] /\ told' = [told EXCEPT ![r] = "soon"]
          /\ wire' = IF link[chosen].alive
                     THEN wire \union {[r |-> r, conn |-> chosen, says |-> "do"]} ELSE wire
     ELSE told' = [told EXCEPT ![r] = "unavailable"] /\ UNCHANGED <<waiting, wire>>
  /\ UNCHANGED <<clients, chosen, trusted, link, socket, tabVars>>

\* The bridge gives up a command.
TimeOut(r) ==
  /\ waiting[r] # 0 /\ waiting' = [waiting EXCEPT ![r] = 0]
  /\ told' = [told EXCEPT ![r] = "unavailable"]
  /\ UNCHANGED <<clients, chosen, trusted, link, wire, socket, tabVars>>

\* The tab receives a command and puts it into its queue.
Receive(m) ==
  /\ m \in wire /\ m.says = "do" /\ \A n \in wire : n.conn = m.conn /\ n.says = "do" => m.r <= n.r
  /\ LET t == link[m.conn].tab IN
       /\ socket[t] = m.conn
       /\ queue' = [queue EXCEPT ![t] = Append(@, m.r)]
  /\ run' = [run EXCEPT ![m.r] = [at |-> "queued", conn |-> m.conn]]
  /\ wire' = wire \ {m}
  /\ UNCHANGED <<bridgeVars, link, socket, busy, asked, approved>>

\* The next command starts if its connection is still the tab's.
Start(t) ==
  /\ busy[t] = 0 /\ queue[t] # <<>>
  /\ LET r == Head(queue[t])
         starts == socket[t] = run[r].conn /\ link[socket[t]].alive
     IN /\ busy' = [busy EXCEPT ![t] = IF starts THEN r ELSE 0]
        /\ run' = [run EXCEPT ![r].at =
             IF ~starts THEN "over" ELSE IF r \in Sensitive THEN "checked" ELSE "works"]
  /\ queue' = [queue EXCEPT ![t] = Tail(@)]
  /\ UNCHANGED <<bridgeVars, link, wire, socket, asked, approved>>

\* A valid token stands for the approval; otherwise the user is asked, and a
\* question that is still open is withdrawn.
Vouch(r) ==
  /\ run[r].at = "checked" /\ run' = [run EXCEPT ![r].at = "works"]
  /\ approved' = approved \union {r}
  /\ UNCHANGED <<bridgeVars, link, wire, socket, queue, busy, asked>>
Ask(r) ==
  /\ run[r].at = "checked"
  /\ run' = [Withdrawn(TabOf(r)) EXCEPT ![r].at = "asks"]
  /\ asked' = [asked EXCEPT ![TabOf(r)] = r]
  /\ UNCHANGED <<bridgeVars, link, wire, socket, queue, busy, approved>>

\* Variant: the answer goes to the command that the queue waits for.
Asking_Busy(t) == busy[t]

\* The command that the answer of the user is for.
Asking(t) == asked[t]

\* The user, or the time the question is open, decides.
Decide(t, yes) ==
  /\ asked[t] # 0 /\ asked' = [asked EXCEPT ![t] = 0]
  /\ run' = [r \in Commands |-> IF r = Asking(t)
                                THEN [run[r] EXCEPT !.at = IF yes THEN "works" ELSE "denied"]
                                ELSE run[r]]
  /\ approved' = IF yes THEN approved \union {asked[t]} ELSE approved
  /\ UNCHANGED <<bridgeVars, link, wire, socket, queue, busy>>

\* The command ends; its answer is sent if the connection is still the tab's
\* and the queue has not gone on without it.
Finish(r) ==
  LET t == TabOf(r) IN
  /\ run[r].at \in {"works", "denied"}
  /\ run' = [run EXCEPT ![r].at = IF @ = "works" THEN "done" ELSE "over"]
  /\ busy' = [busy EXCEPT ![t] = IF @ = r THEN 0 ELSE @]
  /\ wire' = IF busy[t] = r /\ socket[t] = run[r].conn /\ link[socket[t]].alive
             THEN wire \union {[r |-> r, conn |-> socket[t],
                                says |-> IF run[r].at = "works" THEN "done" ELSE "denied"]}
             ELSE wire
  /\ UNCHANGED <<bridgeVars, link, socket, queue, asked, approved>>

\* The time of a command is over: the queue goes on, and so does the command.
Slow(t) ==
  /\ busy[t] # 0 /\ busy' = [busy EXCEPT ![t] = 0]
  /\ UNCHANGED <<bridgeVars, link, wire, socket, queue, asked, run, approved>>

\* The bridge takes an answer from the connection that it waits for.
Answer(m) ==
  /\ m \in wire /\ m.says # "do" /\ wire' = wire \ {m}
  /\ IF waiting[m.r] = m.conn
     THEN waiting' = [waiting EXCEPT ![m.r] = 0] /\ told' = [told EXCEPT ![m.r] = m.says]
     ELSE UNCHANGED <<waiting, told>>
  /\ UNCHANGED <<clients, chosen, trusted, link, socket, tabVars>>

-----------------------------------------------------------------------------
Init ==
  /\ clients = {} /\ chosen = 0 /\ trusted = {}
  /\ waiting = [r \in Commands |-> 0] /\ told = [r \in Commands |-> "none"]
  /\ link = [c \in Conns |-> [tab |-> "none", alive |-> FALSE, proof |-> "none"]]
  /\ wire = {} /\ socket = [t \in Tabs |-> 0]
  /\ queue = [t \in Tabs |-> <<>>] /\ busy = [t \in Tabs |-> 0] /\ asked = [t \in Tabs |-> 0]
  /\ run = [r \in Commands |-> [at |-> "none", conn |-> 0]]
  /\ approved = {}

Next ==
  \/ \E t \in Tabs : Pair(t) \/ Resume(t) \/ Reconnect(t) \/ Closed(t) \/ Leave(t)
  \/ \E c \in Made : Prove(c) \/ Verified(c) \/ Drop(c) \/ Disconnected(c)
  \/ RevokeAll
  \/ \E r \in Commands : Dispatch(r) \/ TimeOut(r) \/ Vouch(r) \/ Ask(r) \/ Finish(r)
  \/ \E m \in wire : Receive(m) \/ Answer(m)
  \/ \E t \in Tabs : Start(t) \/ Slow(t) \/ \E yes \in BOOLEAN : Decide(t, yes)

Spec == Init /\ [][Next]_vars

-----------------------------------------------------------------------------
\* While a tab with a session is connected, the agent's commands have a tab to
\* go to, unless a tab was taken in after its socket had closed; and a command is
\* only waited for where it can be answered or seen to fail
\* (getAuthoritativeClient, electAuthoritativeClient).
CommandsFindATab ==
  /\ (\E c \in clients : Proved(c)) => (chosen \in clients /\ Proved(chosen)) \/ chosen \in Late
  /\ \A r \in Commands : waiting[r] # 0 => waiting[r] \in clients

\* A sensitive command is executed only if an approval was given for it, however
\* late the command before it ends (onCommandApprovalRequest).
OnlyApprovedIsDone ==
  \A r \in Sensitive : run[r].at = "done" => r \in approved
=============================================================================

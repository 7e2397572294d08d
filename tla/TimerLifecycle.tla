--------------------------- MODULE TimerLifecycle ---------------------------
(***************************************************************************)
(* The timer of one project on several devices, and the time entries it    *)
(* becomes.  The timer is the value of the project's key in the map of     *)
(* timers, in the core document; the entries are in a document of their    *)
(* own.  A stop writes the entry and then deletes the timer, so a crash or *)
(* a sync of one document only can leave a timer whose entry exists (a     *)
(* ghost); the reconciliation at the end of a sync pass deletes it.        *)
(*                                                                         *)
(* An edit, a stop and a manual entry wait for archived documents between  *)
(* what they read and what they write.  Each document is saved to an       *)
(* IndexedDB database some time after it changed in memory.  The clock     *)
(* counts half seconds: a timer starts at the next whole second.           *)
(***************************************************************************)
EXTENDS Integers, FiniteSets, YMap

CONSTANTS
  Devices,       \* browsers with a copy of the workspace
  FirstClients,  \* the ways the first sessions may draw their client ids
  MaxClient,     \* bound: client ids
  MaxIds,        \* bound: timer instances and manual entries ever made
  MaxCommands,   \* bound: commands the user gives
  MaxInFlight,   \* bound: commands in flight at once on a device
  MaxCrashes,    \* bound: times a tab dies
  Horizon,       \* bound: the clock
  Spans,         \* the intervals a user may enter by hand
  Features,      \* the optional commands that are in use
  Online,        \* a cloud provider is connected
  SavedFirst     \* IndexedDB writes: entries before core, and before an upload

Ids == 1..MaxIds
Clients == 1..MaxClient
Docs == {"core", "entries"}

ASSUME BoundsAssumption ==
  /\ MaxClient \in Nat /\ MaxIds \in Nat /\ MaxCommands \in Nat
  /\ MaxInFlight \in Nat /\ MaxCrashes \in Nat /\ Horizon \in Nat
ASSUME SpanAssumption == \A s \in Spans : s \in Int \X Int /\ s[1] <= s[2]
ASSUME FlagAssumption ==
  /\ Online \in BOOLEAN /\ SavedFirst \in BOOLEAN
  /\ Features \subseteq {"clear", "edit", "pause", "pauseAt", "manual", "delete"}
\* Yjs draws client ids at random; no two sessions draw the same.
ASSUME ClientAssumption ==
  /\ FirstClients \subseteq [Devices -> [Docs -> Clients]]
  /\ \A f \in FirstClients, n \in Docs, d, e \in Devices : f[d][n] = f[e][n] => d = e

VARIABLES
  doc,       \* the documents in the memory of each device
  disk,      \* the databases of each device
  cloud,     \* the documents at the provider
  client,    \* the ids under which this session of a device writes
  drawn,     \* bookkeeping: client ids drawn so far
  calls,     \* commands in flight, each waiting at an await
  pass,      \* the documents the sync pass of a device has exchanged
  clock,
  born,      \* bookkeeping: ids made so far
  given,     \* bookkeeping: commands given so far
  crashes,   \* bookkeeping: crashes so far
  waived,    \* bookkeeping: timers the user cleared and entries the user deleted
  pausedAt   \* bookkeeping: the instants at which an instance was paused

dataVars == <<doc, disk, cloud>>
ghosts == <<drawn, crashes, waived, pausedAt>>
vars == <<doc, disk, cloud, client, drawn, calls, pass, clock, born, given,
          crashes, waived, pausedAt>>

\* core: the timer key holds an instance; the fields of an instance are keys
\* of a map of its own.  entries: a key per entry, holding <<start, end>>.
EmptyCore ==
  [timer |-> EmptyKey, start |-> [i \in Ids |-> EmptyKey],
   paused |-> [i \in Ids |-> EmptyKey], elapsed |-> [i \in Ids |-> EmptyKey]]
EmptyDocs == [core |-> EmptyCore, entries |-> [i \in Ids |-> EmptyKey]]

MergeFields(f, g) == [i \in Ids |-> Merge(f[i], g[i])]
MergeDoc(n, a, b) ==
  IF n = "entries" THEN MergeFields(a, b)
  ELSE [timer |-> Merge(a.timer, b.timer),
        start |-> MergeFields(a.start, b.start),
        paused |-> MergeFields(a.paused, b.paused),
        elapsed |-> MergeFields(a.elapsed, b.elapsed)]

-----------------------------------------------------------------------------
(* What a device reads. *)

Later(a, b) == IF a < b THEN b ELSE a
WholeSecond(t) == t + (t % 2)

Running(d) == Has(doc[d].core.timer)
Instance(d) == Value(doc[d].core.timer)
Timer(d) ==
  LET i == Instance(d) IN
    [inst |-> i, start |-> Value(doc[d].core.start[i]),
     paused |-> Value(doc[d].core.paused[i]), elapsed |-> Value(doc[d].core.elapsed[i])]

\* The entries of a device, as pairs of an id and an interval.
Entries(e) == {<<i, Value(e[i])>> : i \in {j \in Ids : Has(e[j])}}

PauseEnd(t) == t.start + Later(0, t.elapsed)
StopEnd(t) == IF t.paused THEN PauseEnd(t) ELSE Later(clock, t.start)
CheckEnd(t) == IF t.paused THEN PauseEnd(t) ELSE clock

Overlap(a, b) == a[1] < b[2] /\ a[2] > b[1]

\* Variant: only a start inside an entry counts as an overlap.
Free_Inside(span, seen) == \A e \in seen : ~(e[2][1] <= span[1] /\ span[1] < e[2][2])

Free(span, seen) == \A e \in seen : ~Overlap(span, e[2])

\* Variant: any entry is taken for the entry of this instance.
StoppedEntry_Any(t, seen) == seen # {}

StoppedEntry(t, seen) == \E e \in seen : e[1] = t.inst

-----------------------------------------------------------------------------
(* Commands that finish without waiting. *)

Command == given < MaxCommands /\ given' = given + 1
CoreOf(d, c) == doc' = [doc EXCEPT ![d].core = c]

\* updateEntityFields: a key is set for each field that is given.
WriteFields(d, i, start, paused, elapsed) ==
  LET c == doc[d].core
      put(key, vals) == IF vals = {} THEN key
                        ELSE Set(key, client[d].core, CHOOSE v \in vals : TRUE)
  IN CoreOf(d, [c EXCEPT !.start[i] = put(@, start), !.paused[i] = put(@, paused),
                         !.elapsed[i] = put(@, elapsed)])

Start(d) ==
  /\ Command
  /\ ~Running(d)
  /\ born < MaxIds
  /\ born' = born + 1
  /\ LET new(v) == Set(EmptyKey, client[d].core, v)
     IN CoreOf(d, [doc[d].core EXCEPT
          !.timer = Set(@, client[d].core, born + 1),
          !.start[born + 1] = new(WholeSecond(clock)),
          !.paused[born + 1] = new(FALSE),
          !.elapsed[born + 1] = new(0)])
  /\ UNCHANGED <<disk, cloud, client, calls, pass, clock, ghosts>>

\* The instant of a pause may be given: the interface gives the instant the
\* button was pressed, an agent any instant.
Pause(d, at) ==
  /\ Command
  /\ "pause" \in Features
  /\ Running(d) /\ ~Timer(d).paused
  /\ at = clock \/ "pauseAt" \in Features
  /\ LET t == Timer(d)
         spent == Later(0, at - t.start)
     IN /\ WriteFields(d, t.inst, {}, {TRUE}, {spent})
        /\ pausedAt' = [pausedAt EXCEPT ![t.inst] = @ \cup {t.start + spent}]
  /\ UNCHANGED <<disk, cloud, client, drawn, calls, pass, clock, born, crashes, waived>>

Resume(d) ==
  /\ Command
  /\ Running(d) /\ Timer(d).paused
  /\ LET t == Timer(d)
     IN WriteFields(d, t.inst, {clock - Later(0, t.elapsed)}, {FALSE}, {0})
  /\ UNCHANGED <<disk, cloud, client, calls, pass, clock, born, ghosts>>

Clear(d) ==
  /\ Command
  /\ "clear" \in Features
  /\ Running(d)
  /\ CoreOf(d, [doc[d].core EXCEPT !.timer = Delete(@)])
  /\ waived' = waived \cup {Instance(d)}
  /\ UNCHANGED <<disk, cloud, client, drawn, calls, pass, clock, born, crashes, pausedAt>>

DeleteEntry(d, i) ==
  /\ Command
  /\ "delete" \in Features
  /\ Has(doc[d].entries[i])
  /\ doc' = [doc EXCEPT ![d].entries[i] = Delete(@)]
  /\ waived' = waived \cup {i}
  /\ UNCHANGED <<disk, cloud, client, drawn, calls, pass, clock, born, crashes, pausedAt>>

-----------------------------------------------------------------------------
(* Commands that wait for archived documents before they write. *)

InFlight(d) == {c \in calls : c.device = d}
Begin(d, call) ==
  /\ Command
  /\ Cardinality(InFlight(d)) < MaxInFlight
  /\ calls' = calls \cup {call}
  /\ UNCHANGED <<doc, disk, cloud, client, pass, clock, born, ghosts>>
Return(c) == calls' = calls \ {c}

\* buildUpdatedTimer: a paused timer keeps the instant at which it was paused.
Moved(t, to) ==
  [t EXCEPT !.start = to, !.elapsed = IF t.paused THEN PauseEnd(t) - to ELSE @]

\* Variant: a paused timer may be moved past the instant it was paused.
Movable_Unchecked(t, to) == to # t.start => to <= clock

Movable(t, to) == (to # t.start => to <= clock) /\ Moved(t, to).elapsed >= 0
WriteMove(d, t, to) ==
  WriteFields(d, t.inst, {to}, {}, IF t.paused THEN {Moved(t, to).elapsed} ELSE {})

BeginEdit(d, to) ==
  /\ "edit" \in Features
  /\ Running(d)
  /\ Movable(Timer(d), to) /\ to # Timer(d).start
  /\ Begin(d, [kind |-> "edit", device |-> d, n |-> given, asked |-> Timer(d), to |-> to])

\* An edit that leaves the start as it is does not wait, but writes.
EditInPlace(d) ==
  /\ Command
  /\ "edit" \in Features
  /\ Running(d)
  /\ Movable(Timer(d), Timer(d).start)
  /\ WriteMove(d, Timer(d), Timer(d).start)
  /\ UNCHANGED <<disk, cloud, client, calls, pass, clock, born, ghosts>>

Unchanged(c) == Running(c.device) /\ Timer(c.device) = c.asked
EditStands(c) ==
  LET t == Moved(Timer(c.device), c.to)
  IN Free(<<c.to, CheckEnd(t)>>, Entries(doc[c.device].entries))

\* Variant: the timer read before the wait is written back.
FinishEdit_Stale(c) ==
  /\ c.kind = "edit"
  /\ Return(c)
  /\ IF Running(c.device) /\ Timer(c.device).inst = c.asked.inst
     THEN WriteMove(c.device, c.asked, c.to)
     ELSE UNCHANGED doc
  /\ UNCHANGED <<disk, cloud, client, pass, clock, born, given, ghosts>>

FinishEdit(c) ==
  /\ c.kind = "edit"
  /\ Return(c)
  /\ IF Unchanged(c) /\ Movable(Timer(c.device), c.to) /\ EditStands(c)
     THEN WriteMove(c.device, Timer(c.device), c.to)
     ELSE UNCHANGED doc
  /\ UNCHANGED <<disk, cloud, client, pass, clock, born, given, ghosts>>

\* The entries a stop checks against are read before it waits.
BeginStop(d) ==
  /\ Running(d)
  /\ Begin(d, [kind |-> "stop", device |-> d, n |-> given, asked |-> Timer(d),
               seen |-> Entries(doc[d].entries)])

SameTimer(c) ==
  /\ Running(c.device)
  /\ Timer(c.device).inst = c.asked.inst
  /\ Timer(c.device).start = c.asked.start
StopSpan(t) == <<t.start, StopEnd(t)>>

\* Recovered: the entry of this instance was there already.
FinishStop(c) ==
  LET d == c.device
      t == Timer(d)
      recovered == StoppedEntry(t, c.seen)
  IN
  /\ c.kind = "stop"
  /\ Return(c)
  /\ IF SameTimer(c) /\ (recovered \/ Free(StopSpan(t), c.seen))
     THEN doc' = [doc EXCEPT
            ![d].entries[t.inst] =
               IF recovered THEN @ ELSE Set(@, client[d].entries, StopSpan(t)),
            ![d].core.timer = Delete(@)]
     ELSE UNCHANGED doc
  /\ UNCHANGED <<disk, cloud, client, pass, clock, born, given, ghosts>>

BeginManual(d, span) ==
  /\ "manual" \in Features
  /\ Begin(d, [kind |-> "manual", device |-> d, n |-> given, span |-> span,
               seen |-> Entries(doc[d].entries)])

FinishManual(c) ==
  /\ c.kind = "manual"
  /\ Return(c)
  /\ IF Free(c.span, c.seen)
     THEN /\ born < MaxIds
          /\ born' = born + 1
          /\ doc' = [doc EXCEPT ![c.device].entries[born + 1] =
                                  Set(@, client[c.device].entries, c.span)]
     ELSE UNCHANGED <<doc, born>>
  /\ UNCHANGED <<disk, cloud, client, pass, clock, given, ghosts>>

-----------------------------------------------------------------------------
(* The clock, the databases, the provider and the end of a tab. *)

Tick ==
  /\ clock < Horizon
  /\ clock' = clock + 1
  /\ UNCHANGED <<dataVars, client, calls, pass, born, given, ghosts>>

Saved(d, n) == disk[d][n] = doc[d][n]

Persist(d, n) ==
  /\ ~Saved(d, n)
  /\ SavedFirst => (n = "core" => Saved(d, "entries"))
  /\ disk' = [disk EXCEPT ![d][n] = doc[d][n]]
  /\ UNCHANGED <<doc, cloud, client, calls, pass, clock, born, given, ghosts>>

\* A pass syncs each document once (syncDoc): it pulls what the provider has,
\* then pushes what this device has.
Exchange(d, n) ==
  /\ Online
  /\ n \notin pass[d]
  /\ SavedFirst => Saved(d, n)
  /\ LET both == MergeDoc(n, doc[d][n], cloud[n])
     IN /\ doc' = [doc EXCEPT ![d][n] = both]
        /\ cloud' = [cloud EXCEPT ![n] = both]
  /\ pass' = [pass EXCEPT ![d] = @ \cup {n}]
  /\ UNCHANGED <<disk, client, calls, clock, born, given, ghosts>>

\* reconcileOrphanedTimers: a timer whose entry exists was stopped.
Ghost(d) == Running(d) /\ StoppedEntry(Timer(d), Entries(doc[d].entries))

\* Variant: a timer is deleted if any entry exists.
Reconciled_Any(d) ==
  IF Running(d) /\ Entries(doc[d].entries) # {}
  THEN [doc[d].core EXCEPT !.timer = Delete(@)] ELSE doc[d].core

Reconciled(d) ==
  IF Ghost(d) THEN [doc[d].core EXCEPT !.timer = Delete(@)] ELSE doc[d].core

\* Variant: a pass ends without reconciliation.
EndPass_NoReconcile(d) ==
  /\ pass[d] = Docs
  /\ pass' = [pass EXCEPT ![d] = {}]
  /\ UNCHANGED <<doc, disk, cloud, client, calls, clock, born, given, ghosts>>

EndPass(d) ==
  /\ pass[d] = Docs
  /\ pass' = [pass EXCEPT ![d] = {}]
  /\ CoreOf(d, Reconciled(d))
  /\ UNCHANGED <<disk, cloud, client, calls, clock, born, given, ghosts>>

\* The tab dies; the new session reads the databases and draws new ids.
Crash(d) ==
  /\ crashes < MaxCrashes
  /\ crashes' = crashes + 1
  /\ doc' = [doc EXCEPT ![d] = disk[d]]
  /\ calls' = calls \ InFlight(d)
  /\ pass' = [pass EXCEPT ![d] = {}]
  /\ \E c, e \in Clients :
       /\ c \notin drawn["core"] /\ e \notin drawn["entries"]
       /\ client' = [client EXCEPT ![d] = [core |-> c, entries |-> e]]
       /\ drawn' = [core |-> drawn["core"] \cup {c}, entries |-> drawn["entries"] \cup {e}]
  /\ UNCHANGED <<disk, cloud, clock, born, given, waived, pausedAt>>

-----------------------------------------------------------------------------
Init ==
  /\ doc = [d \in Devices |-> EmptyDocs] /\ disk = doc /\ cloud = EmptyDocs
  /\ client \in FirstClients
  /\ drawn = [n \in Docs |-> {client[d][n] : d \in Devices}]
  /\ calls = {} /\ pass = [d \in Devices |-> {}]
  /\ clock = 0 /\ born = 0 /\ given = 0 /\ crashes = 0
  /\ waived = {} /\ pausedAt = [i \in Ids |-> {}]

Next ==
  \/ \E d \in Devices :
       \/ Start(d) \/ Resume(d) \/ Clear(d) \/ EditInPlace(d) \/ BeginStop(d)
       \/ \E at \in 0..Horizon : Pause(d, at) \/ BeginEdit(d, at)
       \/ \E i \in Ids : DeleteEntry(d, i)
       \/ \E s \in Spans : BeginManual(d, s)
       \/ \E n \in Docs : Persist(d, n) \/ Exchange(d, n)
       \/ EndPass(d)
       \/ Crash(d)
  \/ \E c \in calls : FinishEdit(c) \/ FinishStop(c) \/ FinishManual(c)
  \/ Tick

Spec == Init /\ [][Next]_vars

\* The databases are written and sync passes go on.
FairSpec ==
  /\ Spec
  /\ \A d \in Devices :
       /\ \A n \in Docs : WF_vars(Persist(d, n)) /\ WF_vars(Exchange(d, n))
       /\ WF_vars(EndPass(d))

-----------------------------------------------------------------------------
Paths == Seq(Clients)
TimerRecords == [inst : Ids, start : Int, paused : BOOLEAN, elapsed : Nat]

DocsOK(x) ==
  /\ x.core.timer \in Keys(Paths, Ids)
  /\ \A i \in Ids :
       /\ x.core.start[i] \in Keys(Paths, Int)
       /\ x.core.paused[i] \in Keys(Paths, BOOLEAN)
       /\ x.core.elapsed[i] \in Keys(Paths, Nat)
       /\ x.entries[i] \in Keys(Paths, Int \X Int)

SeenOK(c) == c.seen \subseteq Ids \X (Int \X Int)
CallOK(c) ==
  /\ c.device \in Devices /\ c.n \in 0..MaxCommands
  /\ \/ c.kind = "edit" /\ c.asked \in TimerRecords /\ c.to \in 0..Horizon
     \/ c.kind = "stop" /\ c.asked \in TimerRecords /\ SeenOK(c)
     \/ c.kind = "manual" /\ c.span \in Spans /\ SeenOK(c)

\* The state has the declared types, and a visible timer has all its fields
\* (Timer(d) is well defined).
TypeOK ==
  /\ \A d \in Devices : DocsOK(doc[d]) /\ DocsOK(disk[d])
  /\ DocsOK(cloud)
  /\ client \in [Devices -> [Docs -> Clients]]
  /\ drawn \in [Docs -> SUBSET Clients]
  /\ \A c \in calls : CallOK(c)
  /\ pass \in [Devices -> SUBSET Docs]
  /\ clock \in 0..Horizon /\ born \in 0..MaxIds
  /\ given \in 0..MaxCommands /\ crashes \in 0..MaxCrashes
  /\ waived \in SUBSET Ids
  /\ pausedAt \in [Ids -> SUBSET Int]
  /\ \A d \in Devices : Running(d) => Timer(d) \in TimerRecords

-----------------------------------------------------------------------------
Copies == {doc[d] : d \in Devices} \cup {cloud}
Ended(x, i) ==
  \E it \in x.core.timer.items : it.val = i /\ it.path \in x.core.timer.dead

\* Tracked work is never lost: a timer that is deleted in some copy of the
\* workspace became an entry in some copy, unless the user cleared the timer
\* or deleted the entry.  At risk: a stop that mistakes the entry of an
\* earlier timer for its own (findStoppedTimerEntry), a reconciliation that
\* deletes a restarted timer, a crash between the two writes of a stop.
WorkIsKept ==
  \A i \in Ids :
    (\E x \in Copies : Ended(x, i))
      => i \in waived \/ \E x \in Copies : x.entries[i].items # {}

\* A paused timer ends at an instant it was paused at, however its start was
\* edited: an edit moves the start and the elapsed time together, and what an
\* edit read before it waited never lands on a timer that was paused or
\* resumed meanwhile (updateTimerWithValidation).  On one device.
PauseEndIsReal ==
  \A d \in Devices :
    Running(d) /\ Timer(d).paused => PauseEnd(Timer(d)) \in pausedAt[Timer(d).inst]

\* No two entries of the project overlap, whatever mix of stops, edits and
\* manual entries made them, as long as one command waits at a time
\* (checkTimeOverlap).
NoOverlap ==
  \A d \in Devices : \A e, f \in Entries(doc[d].entries) :
    e # f => ~Overlap(e[2], f[2])

\* A timer whose entry exists, left by a crash or by a sync of one document,
\* does not stay: the reconciliation after a sync pass deletes it
\* (reconcileOrphanedTimers).
GhostsGo == \A d \in Devices : Ghost(d) ~> ~Ghost(d)
=============================================================================

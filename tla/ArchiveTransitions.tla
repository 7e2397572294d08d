------------------------- MODULE ArchiveTransitions -------------------------
(***************************************************************************)
(* One record that lives in the active document or in an archive document. *)
(* A task is moved both ways by the user; an expense is moved to the       *)
(* archive when the app starts, if it is old and settled, and comes back   *)
(* only when a duplicate is resolved.  A move writes the copy with a       *)
(* transition (where to, when) and then deletes the original; the two      *)
(* documents are saved and uploaded apart, so a device can be left with    *)
(* both copies, or with the original and no copy.  The archive document is *)
(* loaded on demand.                                                       *)
(***************************************************************************)
EXTENDS Naturals, FiniteSets, YMap

CONSTANTS
  Devices,
  Movers,       \* devices whose user moves the task, and which are reloaded
  Kinds,        \* subset of {"task", "expense"}
  FirstClients, \* the ways the first sessions may draw their client ids
  MaxClient,    \* bound: client ids
  MaxCommands,  \* bound: moves of the task and edits of the record
  MaxReloads    \* bound: reloads and crashes

Places == {"active", "archive"}
Other(n) == CHOOSE m \in Places : m # n

ASSUME MoverAssumption == Movers \subseteq Devices
ASSUME KindAssumption == Kinds \subseteq {"task", "expense"}
ASSUME BoundsAssumption == {MaxClient, MaxCommands, MaxReloads} \subseteq Nat
ASSUME ClientAssumption == FirstClients \subseteq [Devices -> [Places -> 1..MaxClient]]

VARIABLES
  kind,    \* what the record is
  mem,     \* the two documents in the memory of each device
  disk,    \* the databases of each device
  cloud,   \* the two documents at the provider
  client,  \* the ids under which this session of a device writes
  up,      \* "off", "ready", or "loaded": with the archive document in memory
  pass,    \* the documents the sync pass of a device has exchanged
  clock,   \* a millisecond per command of the user
  used,    \* bookkeeping: client ids drawn so far
  edits, reloads  \* bookkeeping: edits and reloads made

counts == <<used, edits, reloads>>
vars == <<kind, mem, disk, cloud, client, up, pass, clock, counts>>

\* A copy: the last edit it has, when that was, whether the record is old and
\* settled, and the transition.  An edit of a copy sets fields of its nested
\* map, which is the item at path "of".
NoMove == [to |-> "none", at |-> 0]
FirstCopy == [ver |-> 0, at |-> 0, due |-> TRUE, move |-> NoMove]
EmptyDoc == [key |-> EmptyKey, fields |-> {}]

MergeDocs(a, b) == [key |-> Merge(a.key, b.key), fields |-> a.fields \union b.fields]

-----------------------------------------------------------------------------
(* Reading and writing a document.                                         *)

Holds(doc) == Has(doc.key)

Copy(doc) ==
  LET it == Last(doc.key)
      es == {e \in doc.fields : e.of = it.path}
  IN IF es = {} THEN it.val
     ELSE LET e == CHOOSE x \in es : \A y \in es : x = y \/ Before(y.path, x.path)
          IN [it.val EXCEPT !.ver = e.val.ver, !.at = e.val.at, !.due = e.val.due]

Put(doc, c, copy) == [doc EXCEPT !.key = Set(@, c, copy)]
Drop(doc) == [doc EXCEPT !.key = Delete(@)]

Amend(doc, c, val) ==
  LET p == LastPath(doc.key)
      es == {e \in doc.fields : e.of = p}
      q == IF es = {} THEN <<>>
           ELSE (CHOOSE x \in es : \A y \in es : x = y \/ Before(y.path, x.path)).path
  IN [doc EXCEPT !.fields = @ \union {[of |-> p, path |-> Append(q, c), val |-> val]}]

Greater(a, b) == IF a > b THEN a ELSE b

\* entityFreshness: an edit or a move, whichever is later.
Freshness(copy) == Greater(copy.at, copy.move.at)

\* chooseFreshestEntity
Freshest(active, archived) ==
  IF Freshness(active) > Freshness(archived) THEN active ELSE archived

-----------------------------------------------------------------------------
(* Moves and the settling of duplicates, on the documents of a device.     *)

\* The copy goes to n and the original from the other document.
Moved(d, docs, n, copy) ==
  [docs EXCEPT ![n] = Put(@, client[d][n], copy), ![Other(n)] = Drop(@)]

\* The latest transition on either copy.
TaskMove(docs) ==
  LET ms == {Copy(docs[n]).move : n \in {p \in Places : Holds(docs[p])}} \ {NoMove}
  IN IF ms = {} THEN NoMove ELSE CHOOSE m \in ms : \A o \in ms : o.at <= m.at

\* Variant: a copy that is already right ends the settling of its task.
SettledTask_RightIsEnough(d, docs) ==
  LET m == TaskMove(docs)
      copies == {Copy(docs[n]) : n \in {p \in Places : Holds(docs[p])}}
  IN IF m = NoMove THEN docs
     ELSE IF Holds(docs[m.to]) /\ Copy(docs[m.to]).move = m THEN docs
     ELSE Moved(d, docs, m.to,
            [(CHOOSE c \in copies : \A o \in copies : Freshness(o) <= Freshness(c))
               EXCEPT !.move = m])

\* reconcileTaskArchiveTransitions: a transition tells where the task belongs;
\* without one a duplicate belongs to the archive.
SettledTask(d, docs) ==
  LET both == \A n \in Places : Holds(docs[n])
      m == TaskMove(docs)
      to == IF m.to = "active" THEN "active" ELSE "archive"
      src == IF both
             THEN IF m = NoMove THEN Copy(docs["archive"])
                  ELSE Freshest(Copy(docs["active"]), Copy(docs["archive"]))
             ELSE Copy(docs[CHOOSE n \in Places : Holds(docs[n])])
      result == IF m = NoMove THEN src ELSE [src EXCEPT !.move = m]
      same == Holds(docs[to]) /\ Copy(docs[to]) = result
  IN IF m = NoMove /\ ~both THEN docs
     ELSE IF same THEN [docs EXCEPT ![Other(to)] = Drop(@)]
     ELSE Moved(d, docs, to, result)

\* reconcileOneWayArchive: of a duplicate the freshest copy decides.
SettledExpense(d, docs) ==
  IF ~(\A n \in Places : Holds(docs[n])) THEN docs
  ELSE LET src == Freshest(Copy(docs["active"]), Copy(docs["archive"]))
           to == IF src.due THEN "archive" ELSE "active"
       IN Moved(d, docs, to, [src EXCEPT !.move = [to |-> to, at |-> clock]])

Settled(d, docs) ==
  IF kind = "task" THEN SettledTask(d, docs) ELSE SettledExpense(d, docs)

-----------------------------------------------------------------------------
(* What happens on a device.                                               *)

Known(d) == IF up[d] = "loaded" THEN Places ELSE {"active"}

Saved(d) == disk[d] = mem[d]

\* initialize: an old and settled expense in the active document is archived,
\* as it was before the archive was loaded and a duplicate settled.
Start(d) ==
  LET copy == Copy(mem[d]["active"])
      due == kind = "expense" /\ Holds(mem[d]["active"]) /\ copy.due
  IN
  /\ up[d] = "off"
  /\ up' = [up EXCEPT ![d] = IF due THEN "loaded" ELSE "ready"]
  /\ mem' = IF ~due THEN mem
            ELSE [mem EXCEPT ![d] = Moved(d, Settled(d, @), "archive",
                    [copy EXCEPT !.move = [to |-> "archive", at |-> clock]])]
  /\ UNCHANGED <<kind, disk, cloud, client, pass, clock, counts>>

\* The archive document is loaded, with what the provider has or without.
Load(d, pull) ==
  LET docs == IF pull
              THEN [mem[d] EXCEPT !["archive"] = MergeDocs(@, cloud["archive"])]
              ELSE mem[d] IN
  /\ up[d] = "ready"
  /\ up' = [up EXCEPT ![d] = "loaded"]
  /\ mem' = [mem EXCEPT ![d] = Settled(d, docs)]
  /\ UNCHANGED <<kind, disk, cloud, client, pass, clock, counts>>

Command == clock < MaxCommands /\ clock' = clock + 1

\* archiveTask and unarchiveTask: the duplicates are settled first, and a task
\* that is then in the other document is moved.
Move(d, to) ==
  LET docs == Settled(d, mem[d]) IN
  /\ kind = "task" /\ d \in Movers
  /\ up[d] = "loaded" /\ Holds(docs[Other(to)])
  /\ Command
  /\ mem' = [mem EXCEPT ![d] = Moved(d, docs, to,
       [Copy(docs[Other(to)]) EXCEPT !.move = [to |-> to, at |-> clock + 1]])]
  /\ UNCHANGED <<kind, disk, cloud, client, up, pass, counts>>

\* An edit goes to the active copy if there is one; an archived expense can be
\* edited, an archived task cannot.
Edit(d, due) ==
  LET n == IF Holds(mem[d]["active"]) THEN "active" ELSE "archive" IN
  /\ up[d] # "off"
  /\ n \in Known(d) /\ Holds(mem[d][n]) /\ (kind = "task" => n = "active" /\ due)
  /\ Command /\ edits' = edits + 1
  /\ mem' = [mem EXCEPT ![d][n] =
       Amend(@, client[d][n], [ver |-> edits + 1, at |-> clock + 1, due |-> due])]
  /\ UNCHANGED <<kind, disk, cloud, client, up, pass, used, reloads>>

\* A document reaches its database.  The copy was written before the original
\* was deleted, and gets there first: a save does not take the record off the
\* disk while the other document has it in memory only.
Save(d, n) ==
  /\ mem[d][n] # disk[d][n]
  /\ Holds(mem[d][Other(n)]) =>
       Holds(mem[d][n]) \/ Last(mem[d][Other(n)].key) \in disk[d][Other(n)].key.items
  /\ disk' = [disk EXCEPT ![d][n] = mem[d][n]]
  /\ UNCHANGED <<kind, mem, cloud, client, up, pass, clock, counts>>

\* A sync pass exchanges the loaded documents, which have been saved ...
Exchange(d, n) ==
  /\ up[d] # "off" /\ Saved(d)
  /\ n \in Known(d) \ pass[d]
  /\ pass[d] = {} => \/ \E p \in Known(d) : mem[d][p] # cloud[p]
                     \/ up[d] = "loaded" /\ Settled(d, mem[d]) # mem[d]
  /\ LET doc == MergeDocs(mem[d][n], cloud[n]) IN
       /\ mem' = [mem EXCEPT ![d][n] = doc]
       /\ cloud' = [cloud EXCEPT ![n] = doc]
  /\ pass' = [pass EXCEPT ![d] = @ \union {n}]
  /\ UNCHANGED <<kind, disk, client, up, clock, counts>>

\* ... and ends with a settling of the record, if the archive is loaded.
EndPass(d) ==
  /\ pass[d] # {} /\ Known(d) \subseteq pass[d]
  /\ pass' = [pass EXCEPT ![d] = {}]
  /\ mem' = IF up[d] = "loaded" THEN [mem EXCEPT ![d] = Settled(d, @)] ELSE mem
  /\ UNCHANGED <<kind, disk, cloud, client, up, clock, counts>>

\* The page is reloaded or dies; the next session draws new client ids.
Reload(d) ==
  /\ d \in Movers /\ up[d] # "off" /\ reloads < MaxReloads
  /\ reloads' = reloads + 1
  /\ \E c \in [Places -> 1..MaxClient] :
       /\ \A n \in Places : c[n] \notin used[n]
       /\ client' = [client EXCEPT ![d] = c]
       /\ used' = [n \in Places |-> used[n] \union {c[n]}]
  /\ mem' = [mem EXCEPT ![d] = disk[d]]
  /\ up' = [up EXCEPT ![d] = "off"]
  /\ pass' = [pass EXCEPT ![d] = {}]
  /\ UNCHANGED <<kind, disk, cloud, clock, edits>>

-----------------------------------------------------------------------------
\* The record was created by a client of its own and is on every device.
Init ==
  /\ kind \in Kinds
  /\ cloud = [n \in Places |->
       IF n = "active" THEN Put(EmptyDoc, 0, FirstCopy) ELSE EmptyDoc]
  /\ mem = [d \in Devices |-> cloud] /\ disk = mem
  /\ client \in FirstClients
  /\ used = [n \in Places |-> {client[d][n] : d \in Devices}]
  /\ up = [d \in Devices |-> "off"] /\ pass = [d \in Devices |-> {}]
  /\ clock = 0 /\ edits = 0 /\ reloads = 0

Next ==
  \E d \in Devices :
    \/ Start(d) \/ EndPass(d) \/ Reload(d)
    \/ \E pull \in BOOLEAN : Load(d, pull)
    \/ \E due \in BOOLEAN : Edit(d, due)
    \/ \E n \in Places : Move(d, n) \/ Save(d, n) \/ Exchange(d, n)

Spec == Init /\ [][Next]_vars

\* The event loop, the databases and the sync timer go on.
FairSpec ==
  /\ Spec
  /\ \A d \in Devices :
       /\ WF_vars(Start(d)) /\ WF_vars(EndPass(d))
       /\ \A n \in Places : WF_vars(Save(d, n)) /\ WF_vars(Exchange(d, n))

-----------------------------------------------------------------------------
\* A document as it is when all durable replicas are merged.
Merged(n) ==
  LET replicas == {disk[d][n] : d \in Devices} \union {cloud[n]} IN
  [key |-> [items |-> UNION {r.key.items : r \in replicas},
            dead |-> UNION {r.key.dead : r \in replicas}],
   fields |-> UNION {r.fields : r \in replicas}]

\* A task is where its transition says, which is the latest one ever made
\* unless a session died with it.
LatestMove ==
  LET ms == UNION {{it.val.move : it \in Merged(n).key.items} : n \in Places}
  IN CHOOSE m \in ms : \A o \in ms : o.at <= m.at

InPlace(d) ==
  /\ Holds(mem[d]["active"]) # Holds(mem[d]["archive"])
  /\ kind = "task" =>
       \A n \in Places : Holds(mem[d][n]) =>
         LET m == Copy(mem[d][n]).move IN
         m.to \in {n, "none"} /\ (reloads = 0 => m = LatestMove)

\* In the end, when every device has the archive loaded, each has one copy, a
\* task where it was last moved to, and the same documents as the others.
AllLoaded == \A d \in Devices : up[d] = "loaded"

SettlesInPlace ==
  <>[](AllLoaded => \A d \in Devices : InPlace(d) /\ mem[d] = cloud)
=============================================================================

-------------------------- MODULE WorkspaceRestore --------------------------
(***************************************************************************)
(* The replacement of the local workspace by a backup.  The previous       *)
(* workspace is exported into a journal of its own database before the     *)
(* documents are deleted, created again and filled, one database per       *)
(* document.  A failure rolls back; a tab that starts and finds a journal  *)
(* takes it for an interrupted restore and rolls back, too.                *)
(***************************************************************************)
EXTENDS Naturals, FiniteSets

CONSTANTS
  Tabs,
  RetryAtOnce,  \* whether a restore is tried again where a rollback has failed
  MaxRestores, MaxEdits, MaxFaults, MaxCrashes  \* bounds

ConstantsAssumption ==
  /\ RetryAtOnce \in BOOLEAN
  /\ {MaxRestores, MaxEdits, MaxFaults, MaxCrashes} \subseteq Nat

Docs == {"core", "archive"}

VARIABLES
  db,       \* the records in the databases of the documents
  journal,  \* the restore journal
  pc, mode, \* what a tab does next, and for what
  mem,      \* the records in the documents of a tab
  open,     \* whether they are connected to the databases
  ready,    \* _isReady
  plan,     \* the journal record a tab works with
  home,     \* bookkeeping: the workspace the user was last told to have
  told,     \* bookkeeping: the restores begun
  edits, faults, crashes  \* bookkeeping

tabVars == <<pc, mode, mem, open, ready, plan>>
counts == <<told, edits, faults, crashes>>
vars == <<db, journal, tabVars, home, counts>>

\* The records of workspace n, the running timer, which backups leave out, and
\* an edit.
Backup(n) == {[kind |-> "base", n |-> n, doc |-> d] : d \in Docs}
Timer == [kind |-> "timer", n |-> 0, doc |-> "core"]
EditOf(n) == [kind |-> "edit", n |-> n, doc |-> "core"]

In(records, d) == {r \in records : r.doc = d}
EditsIn(records) == {r \in records : r.kind = "edit"}
NoJournal == [rollback |-> {}, timers |-> {}, replacement |-> {}]

-----------------------------------------------------------------------------
(* A tab.                                                                  *)

\* What the tab does after a step: its next one, or with a fault what follows
\* a failure of it.
Goes(t, next) == pc' = [pc EXCEPT ![t] = next] /\ UNCHANGED <<mode, faults>>

\* A failed replacement rolls back; a failed rollback gives up, and a failed
\* recovery leaves the page without a workspace.
Fails(t) ==
  /\ faults < MaxFaults /\ faults' = faults + 1
  /\ IF mode[t] = "replace"
     THEN pc' = [pc EXCEPT ![t] = "clear"] /\ mode' = [mode EXCEPT ![t] = "rollback"]
     ELSE pc' = [pc EXCEPT ![t] = IF mode[t] = "rollback" THEN "idle" ELSE "dead"]
          /\ UNCHANGED mode

\* initialize: with a journal the previous workspace is recovered first.
Start(t) ==
  /\ pc[t] = "off"
  /\ IF journal = NoJournal
     THEN /\ mem' = [mem EXCEPT ![t] = db]
          /\ open' = [open EXCEPT ![t] = TRUE] /\ ready' = [ready EXCEPT ![t] = TRUE]
          /\ pc' = [pc EXCEPT ![t] = "idle"]
          /\ UNCHANGED <<mode, plan>>
     ELSE /\ pc' = [pc EXCEPT ![t] = "clear"] /\ mode' = [mode EXCEPT ![t] = "recover"]
          /\ plan' = [plan EXCEPT ![t] = journal]
          /\ UNCHANGED <<mem, open, ready>>
  /\ UNCHANGED <<db, journal, home, counts>>

\* The user is not given a workspace to edit while a rollback is outstanding.
Edit(t) ==
  /\ pc[t] = "idle" /\ ready[t] /\ open[t] /\ journal = NoJournal
  /\ edits < MaxEdits /\ edits' = edits + 1
  /\ mem' = [mem EXCEPT ![t] = @ \union {EditOf(edits + 1)}]
  /\ UNCHANGED <<db, journal, pc, mode, open, ready, plan, home, told, faults, crashes>>

\* A document reaches its database in the background.
Persist(t, d) ==
  /\ open[t] /\ ~(In(mem[t], d) \subseteq db)
  /\ db' = db \union In(mem[t], d)
  /\ home' = home \union EditsIn(db')
  /\ UNCHANGED <<journal, tabVars, counts>>

\* replaceAllDataWithBackup exports the workspace and the timers ...
Export(t) ==
  /\ pc[t] = "idle" /\ ready[t] /\ told < MaxRestores
  /\ RetryAtOnce \/ journal = NoJournal
  /\ told' = told + 1
  /\ plan' = [plan EXCEPT ![t] = [rollback |-> mem[t] \ {Timer},
       timers |-> mem[t] \intersect {Timer}, replacement |-> Backup(told + 1)]]
  /\ pc' = [pc EXCEPT ![t] = "journal"] /\ mode' = [mode EXCEPT ![t] = "replace"]
  /\ UNCHANGED <<db, journal, mem, open, ready, home, edits, faults, crashes>>

\* ... journals them; nothing has happened if that fails ...
WriteJournal(t) ==
  /\ pc[t] = "journal"
  /\ \/ journal' = plan[t] /\ Goes(t, "clear")
     \/ /\ faults < MaxFaults /\ faults' = faults + 1
        /\ pc' = [pc EXCEPT ![t] = "idle"]
        /\ UNCHANGED <<journal, mode>>
  /\ UNCHANGED <<db, mem, open, ready, plan, home, told, edits, crashes>>

\* ... deletes the databases, whose connections close in every tab; one that
\* is blocked fails the step when others may be gone ...
Clear(t) ==
  /\ pc[t] = "clear"
  /\ open' = [u \in Tabs |-> FALSE]
  /\ \E gone \in SUBSET Docs :
       /\ db' = {r \in db : r.doc \notin gone}
       /\ IF gone = Docs
          THEN /\ mem' = [mem EXCEPT ![t] = {}] /\ ready' = [ready EXCEPT ![t] = FALSE]
               /\ Goes(t, "load")
          ELSE Fails(t) /\ UNCHANGED <<mem, ready>>
  /\ UNCHANGED <<journal, plan, home, told, edits, crashes>>

\* ... starts with the empty documents, without a look at the journal ...
Reopen(t) ==
  /\ pc[t] = "load"
  /\ \/ /\ mem' = [mem EXCEPT ![t] = db] /\ open' = [open EXCEPT ![t] = TRUE]
        /\ ready' = [ready EXCEPT ![t] = TRUE]
        /\ Goes(t, "import")
     \/ Fails(t) /\ UNCHANGED <<mem, open, ready>>
  /\ UNCHANGED <<db, journal, plan, home, told, edits, crashes>>

\* ... imports, which fails before it writes or not at all ...
Payload(t) ==
  IF mode[t] = "replace" THEN plan[t].replacement ELSE plan[t].rollback \union plan[t].timers

Import(t) ==
  /\ pc[t] = "import"
  /\ \/ /\ mem' = [u \in Tabs |-> IF u = t \/ open[u] THEN mem[u] \union Payload(t) ELSE mem[u]]
        /\ Goes(t, "flush")
     \/ Fails(t) /\ UNCHANGED mem
  /\ UNCHANGED <<db, journal, open, ready, plan, home, told, edits, crashes>>

\* Variant: the writes in the background are relied on.
Flush_Background(t) ==
  /\ pc[t] = "flush" /\ Goes(t, "commit")
  /\ UNCHANGED <<db, journal, mem, open, ready, plan, home, told, edits, crashes>>

\* ... waits for a transaction on each database ...
Flush(t) ==
  /\ pc[t] = "flush"
  /\ \E done \in SUBSET Docs :
       /\ open[t] \/ done = {}
       /\ db' = db \union {r \in mem[t] : r.doc \in done}
       /\ home' = home \union EditsIn(db')
       /\ IF done = Docs THEN Goes(t, "commit") ELSE Fails(t)
  /\ UNCHANGED <<journal, mem, open, ready, plan, told, edits, crashes>>

\* ... and deletes the journal.
Commit(t) ==
  /\ pc[t] = "commit"
  /\ \/ /\ journal' = NoJournal
        /\ home' = IF mode[t] = "replace" THEN plan[t].replacement ELSE home
        /\ Goes(t, "idle")
     \/ Fails(t) /\ UNCHANGED <<journal, home>>
  /\ UNCHANGED <<db, mem, open, ready, plan, told, edits, crashes>>

\* The page is closed or dies.
Crash(t) ==
  /\ pc[t] # "off" /\ crashes < MaxCrashes /\ crashes' = crashes + 1
  /\ pc' = [pc EXCEPT ![t] = "off"]
  /\ mem' = [mem EXCEPT ![t] = {}]
  /\ open' = [open EXCEPT ![t] = FALSE] /\ ready' = [ready EXCEPT ![t] = FALSE]
  /\ plan' = [plan EXCEPT ![t] = NoJournal]
  /\ UNCHANGED <<db, journal, mode, home, told, edits, faults>>

-----------------------------------------------------------------------------
Init ==
  /\ db = Backup(0) \union {Timer} /\ home = db
  /\ journal = NoJournal
  /\ pc = [t \in Tabs |-> "off"] /\ mode = [t \in Tabs |-> "recover"]
  /\ mem = [t \in Tabs |-> {}]
  /\ open = [t \in Tabs |-> FALSE] /\ ready = open
  /\ plan = [t \in Tabs |-> NoJournal]
  /\ told = 0 /\ edits = 0 /\ faults = 0 /\ crashes = 0

\* The steps of a restore or a recovery.
Proceed(t) ==
  WriteJournal(t) \/ Clear(t) \/ Reopen(t) \/ Import(t) \/ Flush(t) \/ Commit(t)

Next ==
  \E t \in Tabs :
    \/ Start(t) \/ Edit(t) \/ Export(t) \/ Proceed(t) \/ Crash(t)
    \/ \E d \in Docs : Persist(t, d)

Spec == Init /\ [][Next]_vars

-----------------------------------------------------------------------------
\* Whatever fails and whenever the tab dies, the workspace the user was last
\* told to have is whole in the databases or in the journal; and without a journal
\* the databases hold one workspace and nothing of another: neither a restore nor
\* a recovery leaves a mixture behind.
HomeIsKept ==
  /\ home \subseteq db \/ home \subseteq journal.rollback \union journal.timers
  /\ journal = NoJournal => db = home
=============================================================================

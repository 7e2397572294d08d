------------------------- MODULE WorkspaceDeletion -------------------------
(***************************************************************************)
(* The deletion of a task, a project or a client with everything that      *)
(* depends on it, in phases, dependents first, with a flush of the         *)
(* databases after each.  Time entries are in a document of their own.     *)
(* The user goes on working while a flush is awaited.                      *)
(***************************************************************************)
EXTENDS Naturals, FiniteSets

CONSTANTS
  Records,     \* everything that may ever exist
  Kind,        \* their collections
  Refs,        \* the records that a record names for good: its task, its project ...
  TieOf,       \* those it may name for a time: its client, its invoice
  FirstRecords, FirstTies,  \* the workspace at the start
  Roots,       \* the records whose deletion may be asked for
  MaxDeletions, MaxCrashes, MaxFaults  \* bounds

\* Those of some records that are in some collections.
Of(recs, kinds) == {r \in recs : Kind[r] \in kinds}

\* Clients, projects and tasks are named for good, and deleted with what names
\* them; the work that is billed is tied to its invoice.
ConstantsAssumption ==
  /\ Kind \in [Records ->
       {"client", "project", "task", "entry", "timer", "attachment", "expense", "invoice"}]
  /\ Refs \in [Records -> SUBSET Of(Records, {"client", "project", "task"})]
  /\ TieOf \in [Records -> SUBSET Of(Records, {"client", "invoice"})]
  /\ \A r \in Records :
       Of(TieOf[r], {"invoice"}) # {} => Kind[r] \in {"entry", "expense", "task"}
  /\ FirstRecords \subseteq Records /\ \A r \in FirstRecords : Refs[r] \subseteq FirstRecords
  /\ FirstTies \subseteq {t \in FirstRecords \X FirstRecords : t[2] \in TieOf[t[1]]}
  /\ Roots \subseteq Of(Records, {"client", "project", "task"})
  /\ {MaxDeletions, MaxCrashes, MaxFaults} \subseteq Nat

Docs == {"core", "entries"}

VARIABLES
  work,     \* the documents: the records and their ties
  saved,    \* the databases
  deletion, \* the deletion that runs
  made, deletions, deaths, failures  \* bookkeeping: records ever made, deletions asked for, crashes and failed flushes

vars == <<work, saved, deletion, made, deletions, deaths, failures>>

DocOf(r) == IF Kind[r] = "entry" THEN "entries" ELSE "core"
Naming(w, targets) == {r \in w.recs : Refs[r] \intersect targets # {}}
Tied(w, targets) == {t \in w.ties : t[2] \in targets}

\* The databases after one of them was written.
Written(d) ==
  [recs |-> {r \in work.recs : DocOf(r) = d} \union {r \in saved.recs : DocOf(r) # d},
   ties |-> {t \in work.ties : DocOf(t[1]) = d} \union {t \in saved.ties : DocOf(t[1]) # d}]

\* What is added reaches the databases in the order it was added in: a record
\* after those it names.
InOrder(d) ==
  LET w == Written(d) IN
  /\ \A r \in w.recs \ saved.recs : Refs[r] \intersect work.recs \subseteq w.recs
  /\ \A t \in w.ties \ saved.ties : t[2] \in work.recs => t[2] \in w.recs

-----------------------------------------------------------------------------
(* What a deletion is about.                                               *)

NoDeletion == [at |-> "none"]

\* A task goes with its subtasks, a project with its tasks, and a client with
\* the projects tied to it if that is asked for.
ProjectsOf(w, q) ==
  CASE Kind[q.root] = "project" -> {q.root}
    [] Kind[q.root] = "client" /\ q.projects -> {t[1] : t \in Tied(w, {q.root})} \intersect Of(w.recs, {"project"})
    [] OTHER -> {}

\* Tasks are nested in two levels, so twice the subtasks are all of them.
Subtasks(w, tasks) == tasks \union Of(Naming(w, tasks), {"task"})

TasksOf(w, q) ==
  IF Kind[q.root] = "task" THEN Subtasks(w, Subtasks(w, {q.root}))
  ELSE Of(Naming(w, ProjectsOf(w, q)), {"task"})

InvoicesOf(w, q) ==
  IF Kind[q.root] = "task" THEN {} ELSE Of(Naming(w, ProjectsOf(w, q) \union {q.root}), {"invoice"})

\* planWorkspaceDeletion and targets, for the records there are now.
Plan(w, q) ==
  LET projects == ProjectsOf(w, q)
      tasks == TasksOf(w, q)
      client == {q.root} \ Of({q.root}, {"task"})
  IN [entries  |-> Of(Naming(w, tasks), {"entry"}),
      others   |-> Of(Naming(w, tasks \union projects \union client), {"timer", "attachment", "expense"}),
      invoices |-> IF q.invoices THEN InvoicesOf(w, q) ELSE {},
      tasks    |-> tasks,
      parents  |-> projects \union client,
      personal |-> IF q.projects THEN {}
                   ELSE {t[1] : t \in Tied(w, {q.root})} \intersect Of(w.recs, {"project"})]

\* assertDeletionAllowed: invoices go only if asked for and if they are of one
\* project and claim nothing outside; a billed expense goes only with its invoice.
Allowed(w, q) ==
  LET p == Plan(w, q)
      claims(r) == {t[2] : t \in {u \in w.ties : u[1] = r}} \intersect Of(w.recs, {"invoice"})
  IN /\ q.root \in w.recs
     /\ InvoicesOf(w, q) # {} => q.invoices
     /\ \A i \in InvoicesOf(w, q) :
          Cardinality(Of(Refs[i], {"project"})) > 1 => Refs[i] \intersect ProjectsOf(w, q) = {}
     /\ \A r \in Of(w.recs, {"entry", "task"}) \ (p.entries \union p.tasks) :
          claims(r) \intersect p.invoices = {}
     /\ \A r \in Of(p.others, {"expense"}) : claims(r) \subseteq p.invoices

Without(w, gone) ==
  [recs |-> w.recs \ gone, ties |-> {t \in w.ties : t[1] \notin gone}]

-----------------------------------------------------------------------------
(* The user.                                                               *)

\* A record is created by a command that looks for what it names in the same
\* turn; its client, and on an invoice the work it bills, are tied to it.
Add(r) ==
  /\ r \notin made /\ Refs[r] \subseteq work.recs
  /\ made' = made \union {r}
  /\ \E ties \in SUBSET {<<r, x>> : x \in TieOf[r] \ Of(TieOf[r], {"invoice"})} :
       /\ \A t \in ties : t[2] \in work.recs
       /\ LET billed == IF Kind[r] # "invoice" THEN {}
                        ELSE {<<x, r>> : x \in {y \in work.recs : r \in TieOf[y]
                                /\ \A t \in work.ties : t[1] = y => Kind[t[2]] # "invoice"}}
          IN work' = [recs |-> work.recs \union {r}, ties |-> work.ties \union ties \union billed]
  /\ UNCHANGED <<saved, deletion, deletions, deaths, failures>>

Ask(q) ==
  /\ deletion = NoDeletion /\ q.root \in work.recs
  /\ deletions < MaxDeletions /\ deletions' = deletions + 1
  /\ deletion' = [at |-> "start", ask |-> q, flushed |-> {}]
  /\ UNCHANGED <<work, saved, made, deaths, failures>>

-----------------------------------------------------------------------------
(* The phases.  Each waits for the flush of the one before; a check that    *)
(* fails ends the deletion and keeps what is left.                          *)

Flushed == deletion # NoDeletion /\ deletion.flushed = Docs

GoesOn(next, w) ==
  /\ work' = w
  /\ deletion' = [next EXCEPT !.flushed = {}]
  /\ UNCHANGED <<saved, made, deletions, deaths, failures>>

Refused ==
  /\ deletion' = NoDeletion
  /\ UNCHANGED <<work, saved, made, deletions, deaths, failures>>

\* A database has taken the state of its document in.
FlushDoc(d) ==
  /\ deletion # NoDeletion /\ d \notin deletion.flushed /\ InOrder(d)
  /\ saved' = Written(d)
  /\ deletion' = [deletion EXCEPT !.flushed = @ \union {d}]
  /\ UNCHANGED <<work, made, deletions, deaths, failures>>

FlushFails ==
  /\ deletion # NoDeletion /\ ~Flushed
  /\ failures < MaxFaults /\ failures' = failures + 1
  /\ deletion' = NoDeletion
  /\ UNCHANGED <<work, saved, made, deletions, deaths>>

\* Variant: the tasks are not kept for the flush of their entries.
DeleteDependents_NoFlush ==
  /\ Flushed /\ deletion.at = "start"
  /\ LET p == Plan(work, deletion.ask) IN
     IF Allowed(work, deletion.ask)
     THEN /\ work' = Without(work, p.entries \union p.others)
          /\ deletion' = [at |-> "invoices", ask |-> deletion.ask, plan |-> p,
                          tasks |-> p.tasks, flushed |-> Docs]
          /\ UNCHANGED <<saved, made, deletions, deaths, failures>>
     ELSE Refused

DeleteDependents ==
  /\ Flushed /\ deletion.at = "start"
  /\ LET p == Plan(work, deletion.ask) IN
     IF Allowed(work, deletion.ask)
     THEN GoesOn([at |-> "invoices", ask |-> deletion.ask, plan |-> p, tasks |-> p.tasks,
                  flushed |-> {}],
                 Without(work, p.entries \union p.others))
     ELSE Refused

\* Expenses and tasks are released from the invoices, and these deleted.
DeleteInvoices ==
  /\ Flushed /\ deletion.at = "invoices"
  /\ IF Allowed(work, deletion.ask)
     THEN LET gone == deletion.plan.invoices
              released == {t \in Tied(work, gone) : Kind[t[1]] \in {"expense", "task"}}
          IN GoesOn([deletion EXCEPT !.at = "tasks"],
                    Without([work EXCEPT !.ties = @ \ released], gone))
     ELSE Refused

\* Tasks go in batches, leaves first, if nothing new names them.
DeleteTasks ==
  /\ Flushed /\ deletion.at = "tasks" /\ deletion.tasks # {}
  /\ LET leaves == {k \in deletion.tasks : \A c \in deletion.tasks : k \notin Refs[c]} IN
     IF Allowed(work, deletion.ask) /\ Naming(work, leaves) = {}
     THEN GoesOn([deletion EXCEPT !.tasks = @ \ leaves], Without(work, leaves))
     ELSE Refused

\* The projects and the client go last, and the projects that stay become
\* personal.
DeleteParents ==
  LET p == deletion.plan
      root == deletion.ask.root IN
  /\ Flushed /\ deletion.at = "tasks" /\ deletion.tasks = {}
  /\ IF /\ Kind[root] # "task" => Allowed(work, deletion.ask)
        /\ Naming(work, p.parents \union p.tasks) = {}
        /\ \A t \in Tied(work, p.parents) : t[1] \in p.parents \union p.personal
     THEN GoesOn([deletion EXCEPT !.at = "parents"],
                 Without([work EXCEPT !.ties = @ \ Tied(work, p.parents)], p.parents))
     ELSE Refused

Acknowledge ==
  /\ Flushed /\ deletion.at = "parents"
  /\ Refused

-----------------------------------------------------------------------------
\* A database takes the state of its document in, in the background.
PersistDoc(d) ==
  /\ Written(d) # saved /\ InOrder(d)
  /\ saved' = Written(d)
  /\ UNCHANGED <<work, deletion, made, deletions, deaths, failures>>

\* The tab dies and is opened again.
Restart ==
  /\ deaths < MaxCrashes /\ deaths' = deaths + 1
  /\ work' = saved
  /\ deletion' = NoDeletion
  /\ UNCHANGED <<saved, made, deletions, failures>>

Requests == [root : Roots, projects : BOOLEAN, invoices : BOOLEAN]

Init ==
  /\ work = [recs |-> FirstRecords, ties |-> FirstTies]
  /\ saved = work /\ made = FirstRecords
  /\ deletion = NoDeletion
  /\ deletions = 0 /\ deaths = 0 /\ failures = 0

Next ==
  \/ \E r \in Records : Add(r)
  \/ \E q \in Requests : Ask(q)
  \/ \E d \in Docs : FlushDoc(d) \/ PersistDoc(d)
  \/ FlushFails \/ DeleteDependents \/ DeleteInvoices \/ DeleteTasks \/ DeleteParents
  \/ Acknowledge \/ Restart

Spec == Init /\ [][Next]_vars

-----------------------------------------------------------------------------
Whole(w) ==
  /\ \A r \in w.recs : Refs[r] \subseteq w.recs
  /\ \A t \in w.ties : t[2] \in w.recs

\* A deletion leaves no record behind that names what is gone: neither in memory,
\* whatever was added while it waited, nor in the databases, whenever the tab dies.
NoOrphans ==
  /\ Whole(work)
  /\ Whole(saved)
=============================================================================

-------------------------- MODULE BillingWork_proofs --------------------------
(***************************************************************************)
(* What is billed is billed once, and stays marked as billed: safety of    *)
(* InvoiceBilling that rests on the life of a journaled plan, from the     *)
(* command that waits for it to the application that completes it.         *)
(***************************************************************************)
EXTENDS InvoiceBilling_proofs

USE BoundsAssumption, WorkAssumption, FlagAssumption, NoneAssumption

-----------------------------------------------------------------------------
(* The life of a journaled plan.                                           *)

\* Start-up finishes the journal before any command waits, and knows none of
\* its plans as complete.
BootFirst == replay.mode = "boot" => calls = {} /\ replay.done = {}

\* Where nothing replays after a sync, a plan that waits for its command or
\* for start-up, or is being applied, is still to be completed, and it is in
\* one of these places only.
OnceEach ==
  /\ \A c \in calls :
       c.kind = "apply" => ops[c.op].state = "prepared" /\ (run # Idle => run.op # c.op)
  /\ \A n \in replay.todo : ops[n].state = "prepared" /\ (run # Idle => run.op # n)
  /\ replay.mode # "sync"
  /\ replay.mode = "none" => replay.todo = {}
  /\ run # Idle => ops[run.op].state = "prepared"

\* What a command leaves of the journal and of the commands that wait: it
\* adds a plan that is still to be applied and waits to apply it, or adds none
\* and at most begins another wait.
LEMMA CommandEffect ==
  ASSUME TypeInv, Command
  PROVE  /\ Ready /\ replay' = replay /\ run' = run
         /\ \/ /\ ops' = ops
               /\ \A c \in calls' : c \in calls \/ c.kind # "apply"
            \/ \E n \in OpIds :
                 /\ ops[n] = NoOp /\ ops'[n].state = "prepared"
                 /\ \A m \in OpIds : m # n => ops'[m] = ops[m]
                 /\ \A c \in calls' : c \in calls \/ c = [kind |-> "apply", op |-> n]
<1> DEFINE Same == /\ ops' = ops
                   /\ \A c \in calls' : c \in calls \/ c.kind # "apply"
           More == \E n \in OpIds :
                     /\ ops[n] = NoOp /\ ops'[n].state = "prepared"
                     /\ \A m \in OpIds : m # n => ops'[m] = ops[m]
                     /\ \A c \in calls' : c \in calls \/ c = [kind |-> "apply", op |-> n]
           Goal == Ready /\ replay' = replay /\ run' = run /\ (Same \/ More)
<1>1. ASSUME NEW n \in OpIds, NEW op, Journal(n, op), op.state = "prepared",
             \A c \in calls' : c \in calls \/ c = [kind |-> "apply", op |-> n]
      PROVE  More
  BY <1>1 DEF Journal, NextOp, TypeInv, TypeOK
<1>2. ASSUME NEW sel \in Selections, SaveDraft(sel) PROVE Goal
  BY <1>2 DEF SaveDraft
<1>3. ASSUME NEW i \in Invoices, NEW sel \in Selections, RefreshDraft(i, sel) PROVE Goal
  BY <1>3 DEF RefreshDraft
<1>4. ASSUME NEW i \in Invoices, DeleteDraft(i) PROVE Goal
  BY <1>4 DEF DeleteDraft
<1>5. ASSUME NEW n \in OpIds, NEW i \in Invoices, NEW sel \in Selections \cup {inv[i].sel},
             PrepareFinalize(n, i, sel)
      PROVE Goal
  <2>1. FinalizeOp(i, sel).state = "prepared"
    BY DEF FinalizeOp
  <2>2. More
    BY <1>1, <1>5, <2>1 DEF PrepareFinalize
  <2> QED
    BY <1>5, <2>2 DEF PrepareFinalize, MayStart
<1>6. ASSUME NEW i \in Invoices, BeginUndo(i) PROVE Goal
  BY <1>6 DEF BeginUndo, MayStart, coreVars
<1>7. ASSUME NEW n \in OpIds, NEW c \in calls, PrepareUndo(n, c) PROVE Goal
  <2> DEFINE back == seq = c.rec.num + 1 /\ \A k \in c.others : k < c.rec.num
             op == ReleaseOp("undo", c.inv, c.rec, IF back THEN c.rec.num ELSE 0)
  <2>1. op.state = "prepared"
    BY DEF ReleaseOp
  <2>2. Journal(n, op) /\ calls' = (calls \ {c}) \cup {[kind |-> "apply", op |-> n]}
        /\ Ready /\ replay' = replay /\ run' = run
    BY <1>7 DEF PrepareUndo
  <2> HIDE DEF op
  <2>3. More
    BY <1>1, <2>1, <2>2
  <2> QED
    BY <2>2, <2>3
<1>8. ASSUME NEW n \in OpIds, NEW i \in Invoices, PrepareCancel(n, i) PROVE Goal
  <2>1. ReleaseOp("cancel", i, inv[i], 0).state = "prepared"
    BY DEF ReleaseOp
  <2>2. More
    BY <1>1, <1>8, <2>1 DEF PrepareCancel
  <2> QED
    BY <1>8, <2>2 DEF PrepareCancel, MayStart
<1>9. ASSUME NEW i \in Invoices, Pay(i) \/ MarkUnpaid(i) \/ BeginPay(i) PROVE Goal
  BY <1>9 DEF Pay, MarkUnpaid, BeginPay, SetStatus, MayStart, coreVars
<1>10. ASSUME NEW c \in calls, FinishPay(c) PROVE Goal
  BY <1>10 DEF FinishPay, SetStatus
<1> HIDE DEF Goal
<1>11. Goal
  BY <1>2, <1>3, <1>4, <1>5, <1>6, <1>7, <1>8, <1>9, <1>10 DEF Command
<1> QED
  BY <1>11 DEF Goal

\* The journal a last phase leaves.
LEMMA CompleteEffect ==
  ASSUME TypeInv, Complete
  PROVE  /\ run # Idle /\ run' = Idle /\ run.op \in OpIds
         /\ ops'[run.op] = [ops[run.op] EXCEPT !.state = "complete"]
         /\ ops[run.op] \in Operations
         /\ \A n \in OpIds : n # run.op => ops'[n] = ops[n]
         /\ UNCHANGED <<inv, charges, cutoff, seq, linked, ents, coreDisk, entsDisk, calls,
                        replay, born, crashes>>
<1>1. run # Idle
  BY RunIsOn DEF Complete, Phases
<1>2. run.op \in OpIds /\ ops[run.op] \in Operations
  BY <1>1, RunType, JournaledPlan DEF TypeInv, PlansAreJournaled
<1>3. ops' = [ops EXCEPT ![run.op].state = "complete"] /\ run' = Idle
  BY DEF Complete
<1> QED
  BY <1>1, <1>2, <1>3 DEF TypeInv, TypeOK, Complete, diskVars

\* Start-up comes before the commands, through every step.
LEMMA NextBootFirst == TypeInv /\ BootFirst /\ [Next]_vars => BootFirst'
<1> SUFFICES ASSUME TypeInv, BootFirst, [Next]_vars PROVE BootFirst'
  OBVIOUS
<1>1. CASE Command
  BY <1>1, CommandEffect DEF BootFirst, Ready
<1>2. CASE ApplyPhase
  BY <1>2, PhaseKeeps DEF BootFirst
<1>3. CASE \E c \in calls : ApplyOwn(c)
  BY <1>3 DEF ApplyOwn, BootFirst
<1>4. CASE ReplayNext
  <2>1. replay' = [replay EXCEPT !.todo = @ \ {Min(replay.todo)}] /\ calls' = calls
    BY <1>4 DEF ReplayNext
  <2> QED
    BY <2>1 DEF BootFirst, TypeInv, TypeOK
<1>5. CASE StartReplay \/ EndReplay
  BY <1>5 DEF StartReplay, EndReplay, NoReplay, BootFirst
<1>6. CASE Persist \/ UNCHANGED vars
  BY <1>6 DEF Persist, PersistBoth, PersistCore, PersistEntries, vars, BootFirst
<1>7. CASE CrashAndRestart
  BY <1>7 DEF CrashAndRestart, BootFirst
<1> QED
  BY <1>1, <1>2, <1>3, <1>4, <1>5, <1>6, <1>7 DEF Next

\* What a phase before the last leaves: the journal, and the plan applied.
LEMMA PhaseEffect ==
  ASSUME TypeInv, ApplyPhase, ~Complete
  PROVE  /\ run # Idle /\ run' # Idle /\ run'.op = run.op /\ run'.app = run.app /\ ops' = ops
         /\ UNCHANGED <<coreDisk, entsDisk, calls, replay, born, crashes>>
<1>1. ASSUME NEW from \in Phases, NEW to \in Phases, EnterPhase(from, to)
      PROVE  run' # Idle
  <2>1. run # Idle
    BY <1>1, RunIsOn DEF EnterPhase
  <2>2. run \in [op : OpIds, app : Operations, phase : Phases]
    BY <2>1 DEF TypeInv, TypeOK
  <2>3. run'.phase = to
    BY <1>1, <2>2 DEF EnterPhase
  <2> QED
    BY <2>3 DEF Idle, Phases
<1>2. run' # Idle
  BY <1>1
  DEF ApplyPhase, ApplyEntries, ApplyExpenses, ApplyTasks, ApplyLinks, ApplyInvoice, Phases
<1> QED
  BY <1>2, PhaseKeeps

\* What a replay applies next.
LEMMA ReplayNextEffect ==
  ASSUME TypeInv, ReplayNext
  PROVE  \E n \in replay.todo :
           /\ n \in OpIds /\ ops[n] # NoOp
           /\ Apply(n, IF n \in replay.done THEN "complete" ELSE "prepared")
           /\ replay'.todo = replay.todo \ {n}
           /\ replay'.mode = replay.mode /\ replay'.done = replay.done
<1>1. replay.todo \in SUBSET OpIds /\ replay.todo # {}
  BY DEF ReplayNext, TypeInv, TypeOK
<1>2. Min(replay.todo) \in replay.todo
  <2>1. replay.todo \in SUBSET Nat
    BY <1>1 DEF OpIds
  <2> QED BY <1>1, <2>1, NaturalMin
<1> DEFINE n == Min(replay.todo)
<1>3. /\ Apply(n, IF n \in replay.done THEN "complete" ELSE "prepared")
      /\ replay' = [replay EXCEPT !.todo = @ \ {n}]
  BY DEF ReplayNext
<1>4. ops[n] # NoOp
  BY <1>2 DEF TypeInv, PlansAreJournaled
<1> HIDE DEF n
<1>5. /\ replay'.todo = replay.todo \ {n} /\ replay'.mode = replay.mode
      /\ replay'.done = replay.done
  BY <1>3 DEF TypeInv, TypeOK
<1> QED
  BY <1>1, <1>2, <1>3, <1>4, <1>5 DEF n

\* A plan that is not known as complete is applied, from its first phase.
LEMMA ApplyEffect ==
  ASSUME TypeInv, NEW n \in OpIds, ops[n] # NoOp, NEW known, Apply(n, known),
         known = "prepared"
  PROVE  run' # Idle /\ run'.op = n
<1>1. ~Superseded(ops[n], known)
  BY DEF Superseded
<1>2. run'.op = n /\ run'.phase = "entries"
  BY <1>1 DEF Apply
<1> QED
  BY <1>2 DEF Idle

\* The life of a plan, through every step where nothing replays after a sync.
LEMMA NextOnceEach ==
  ASSUME PostSync = FALSE, TypeInv, BootFirst, OnceEach, [Next]_vars
  PROVE  OnceEach'
<1>1. /\ \A c \in calls : c.kind = "apply" => c.op \in OpIds
      /\ replay.todo \in SUBSET OpIds
      /\ run # Idle => run.op \in OpIds
  BY RunType DEF TypeInv, TypeOK, Calls
<1>2. CASE Command
  <2>1. Ready /\ replay' = replay /\ run' = run /\ run = Idle
    BY <1>2, CommandEffect DEF Ready
  <2>2. CASE ops' = ops /\ \A c \in calls' : c \in calls \/ c.kind # "apply"
    BY <2>1, <2>2 DEF OnceEach
  <2>3. CASE \E n \in OpIds :
               /\ ops[n] = NoOp /\ ops'[n].state = "prepared"
               /\ \A m \in OpIds : m # n => ops'[m] = ops[m]
               /\ \A c \in calls' : c \in calls \/ c = [kind |-> "apply", op |-> n]
    <3>1. PICK n \in OpIds :
               /\ ops[n] = NoOp /\ ops'[n].state = "prepared"
               /\ \A m \in OpIds : m # n => ops'[m] = ops[m]
               /\ \A c \in calls' : c \in calls \/ c = [kind |-> "apply", op |-> n]
      BY <2>3
    <3>2. \A m \in OpIds : ops[m].state = "prepared" => ops'[m].state = "prepared"
      BY <3>1
    <3> QED
      BY <1>1, <2>1, <3>1, <3>2 DEF OnceEach
  <2> QED
    BY <1>2, <2>2, <2>3, CommandEffect
<1>3. CASE Complete
  BY <1>1, <1>3, CompleteEffect DEF OnceEach
<1>4. CASE ApplyPhase /\ ~Complete
  BY <1>4, PhaseEffect DEF OnceEach
<1>5. CASE \E c \in calls : ApplyOwn(c)
  <2>1. PICK c \in calls : ApplyOwn(c)
    BY <1>5
  <2>2. c.kind = "apply" /\ c.op \in OpIds /\ ops[c.op] # NoOp /\ run = Idle
    BY <1>1, <2>1 DEF ApplyOwn, TypeInv, PlansAreJournaled
  <2>3. run'.op = c.op /\ ops' = ops /\ calls' = calls \ {c} /\ replay' = replay
    BY <2>1, <2>2, ApplyEffect DEF ApplyOwn, coreVars
  <2>4. replay.todo = {}
    BY <2>1 DEF ApplyOwn, OnceEach, TypeInv, TypeOK
  <2>5. \A d \in calls : d.kind = "apply" /\ d.op = c.op => d = c
    BY <2>2 DEF TypeInv, TypeOK, Calls
  <2> QED
    BY <2>2, <2>3, <2>4, <2>5 DEF OnceEach
<1>6. CASE ReplayNext
  <2>1. PICK n \in replay.todo :
           /\ n \in OpIds /\ ops[n] # NoOp
           /\ Apply(n, IF n \in replay.done THEN "complete" ELSE "prepared")
           /\ replay'.todo = replay.todo \ {n}
           /\ replay'.mode = replay.mode /\ replay'.done = replay.done
    BY <1>6, ReplayNextEffect
  <2>2. replay.mode = "boot"
    BY <2>1 DEF OnceEach, TypeInv, TypeOK
  <2>3. calls = {} /\ replay.done = {}
    BY <2>2 DEF BootFirst
  <2>4. run'.op = n
    BY <2>1, <2>3, ApplyEffect
  <2>5. ops' = ops /\ calls' = calls
    BY <1>6 DEF ReplayNext, coreVars
  <2> QED
    BY <2>1, <2>3, <2>4, <2>5 DEF OnceEach
<1>7. CASE StartReplay \/ EndReplay
  BY <1>7 DEF StartReplay, EndReplay, NoReplay, OnceEach, coreVars
<1>8. CASE Persist \/ UNCHANGED vars
  BY <1>8 DEF Persist, PersistBoth, PersistCore, PersistEntries, vars, coreVars, OnceEach
<1>9. CASE CrashAndRestart
  BY <1>9 DEF CrashAndRestart, OnceEach
<1> QED
  BY <1>2, <1>3, <1>4, <1>5, <1>6, <1>7, <1>8, <1>9 DEF Next, ApplyPhase
-----------------------------------------------------------------------------
(* Plans that release an invoice, and plans that somebody waits for.       *)

Releases(plan) == plan.kind \in {"undo", "cancel"}

\* Whatever is still to be applied is waited for, is being applied, or is
\* among what start-up finishes first.
AllAwaited ==
  \A n \in Pending : \/ [kind |-> "apply", op |-> n] \in calls
                     \/ run # Idle /\ run.op = n
                     \/ replay.mode = "boot" /\ n \in replay.todo

OneWait == \A c, d \in calls : c = d

\* A plan that releases or finalizes an invoice is a typed one.
LEMMA ReleasesAreTyped ==
  ASSUME TypeInv, NEW n \in OpIds
  PROVE  /\ ops[n].inv \in Nat
         /\ Releases(ops[n]) \/ Finalizes(ops[n]) \/ ops[n].state = "prepared" =>
              /\ ops[n] \in Operations /\ ops[n].inv \in Invoices
              /\ ops[n].state \in {"prepared", "complete"}
              /\ Releases(ops[n]) <=> ~Finalizes(ops[n])
<1>1. ops[n] = NoOp \/ ops[n] \in Operations
  BY DEF TypeInv, TypeOK
<1>2. CASE ops[n] = NoOp
  BY <1>2 DEF NoOp, Releases, Finalizes
<1>3. CASE ops[n] \in Operations
  BY <1>3 DEF Operations, Releases, Finalizes, Invoices
<1> QED
  BY <1>1, <1>2, <1>3

-----------------------------------------------------------------------------
(* What is billed is billed once: the work on the invoices, the markers on *)
(* the work and the journal agree, in memory and on disk.                  *)

\* An invoice that a client is charged for.
Charged(rec) == rec.status \in {"sent", "paid"}

\* The plans of a journal that are still to be completed.
Finalizing(journal) == {n \in OpIds : journal[n].state = "prepared" /\ Finalizes(journal[n])}
Releasing(journal) == {n \in OpIds : journal[n].state = "prepared" /\ Releases(journal[n])}

\* Invoice i holds work: it charges for it, or a plan is about to make it.
Holds(i, s, invs, journal) ==
  \/ Charged(invs[i]) /\ s \in invs[i].sel
  \/ \E n \in Finalizing(journal) : journal[n].inv = i /\ s \in journal[n].srcs

\* No work is held by two invoices.
OneHolder(invs, journal) ==
  \A i, j \in Invoices, s \in Work :
    Holds(i, s, invs, journal) /\ Holds(j, s, invs, journal) => i = j

\* No invoice is finalized by two plans, or finalized and released.
OnePlan(journal) ==
  \A n \in Finalizing(journal) :
    /\ \A m \in Finalizing(journal) : journal[n].inv = journal[m].inv => n = m
    /\ \A m \in Releasing(journal) : journal[n].inv # journal[m].inv

\* A finalization finds the work it claims free or its own, and its invoice
\* not yet issued, unless it was applied in part.  A plan to undo covers all
\* the work of its invoice.  Here part is the plans that may have been applied
\* in part.
PlansFit(invs, journal, own, part) ==
  /\ \A n \in Finalizing(journal) :
       /\ journal[n].sel = journal[n].srcs
       /\ \A s \in journal[n].srcs : own[s] \in {None, journal[n].inv}
       /\ \/ invs[journal[n].inv].status \in {"absent", "draft"}
          \/ Charged(invs[journal[n].inv]) /\ n \in part
  /\ \A m \in Releasing(journal) :
       journal[m].kind = "undo" =>
         \A s \in Work : own[s] = journal[m].inv => s \in journal[m].srcs

\* An invoice that is charged owns the work it charges for, unless its release
\* was applied in part.
Marked(invs, journal, own, part) ==
  \A i \in Invoices : Charged(invs[i]) =>
    \/ \A s \in invs[i].sel : own[s] = i
    \/ \E m \in Releasing(journal) \cap part : journal[m].inv = i

\* The owner of work is charged for, or a plan that may have been applied in
\* part accounts for the marker.
Accounted(invs, journal, own, part) ==
  \A s \in Work : own[s] # None =>
    \/ Charged(invs[own[s]])
    \/ \E n \in Finalizing(journal) : journal[n].inv = own[s] /\ s \in journal[n].srcs
    \/ \E m \in Releasing(journal) \cap part : journal[m].inv = own[s]

WorkFrom(invs, journal, own, part) ==
  /\ OneHolder(invs, journal) /\ OnePlan(journal)
  /\ PlansFit(invs, journal, own, part)
  /\ Marked(invs, journal, own, part)
  /\ Accounted(invs, journal, own, part)

\* Nothing beyond born was ever created, and nothing is canceled where
\* cancellations are not in use.
WithinBorn(invs, journal) ==
  /\ \A i \in Invoices : i > born => invs[i] = Absent
  /\ \A n \in OpIds : journal[n].inv <= born
  /\ \A n \in OpIds : journal[n].kind = "cancel" => "cancel" \in Features

\* The owners of the work, in memory and in the two databases, and the plans
\* that may have been applied in part: in memory those that are applied now or
\* that start-up still has to finish, on disk all.
Own == [s \in Work |-> Owner(s)]
OwnDisk == [s \in Work |-> IF s \in Entries THEN entsDisk[s] ELSE coreDisk.charges[s]]
Part == {n \in Pending : (run # Idle /\ run.op = n) \/ n \in replay.todo}
PartDisk == {n \in OpIds : coreDisk.ops[n].state = "prepared"}

\* The phases behind the current one have done their work.
Reached(s) ==
  \/ s \in Entries /\ run.phase # "entries"
  \/ s \in Expenses /\ run.phase \notin {"entries", "expenses"}
  \/ s \in Quotes /\ run.phase \notin {"entries", "expenses", "tasks"}

RunFits ==
  run # Idle =>
    /\ Finalizes(App) => /\ App.sel = App.srcs
                         /\ \A s \in App.srcs : Reached(s) => Owner(s) = App.inv
    /\ Releases(App) => /\ OwnedBy(App.inv) \subseteq App.srcs
                        /\ \A s \in Work : Reached(s) => Owner(s) # App.inv
    /\ run.phase = "complete" => (Finalizes(App) <=> Charged(inv[App.inv]))

\* What the commands that wait rely on when they go on.
CallsFit ==
  \A c \in calls :
    /\ c.kind \in {"pay", "undo"} =>
         c.inv <= born /\ \A n \in Finalizing(ops) : ops[n].inv # c.inv
    /\ c.kind = "pay" => /\ "cancel" \notin Features
                         /\ inv[c.inv].status \in {"sent", "paid", "absent"}
    /\ c.kind = "undo" => inv[c.inv].status # "draft"

WorkInv ==
  /\ TypeInv /\ RunIsJournaled /\ BootFirst /\ OnceEach
  /\ WorkFrom(inv, ops, Own, Part) /\ WorkFrom(coreDisk.inv, coreDisk.ops, OwnDisk, PartDisk)
  /\ WithinBorn(inv, ops) /\ WithinBorn(coreDisk.inv, coreDisk.ops)
  /\ RunFits /\ CallsFit

\* What the argument needs of an invoice table, a journal and the owners.
Typed(invs, journal, own) ==
  /\ invs \in [Invoices -> InvoiceRecords]
  /\ journal \in [OpIds -> Operations \cup {NoOp}]
  /\ own \in [Work -> Owners]

\* A plan still to be completed is an operation on an invoice.
LEMMA PlansAreTyped ==
  ASSUME NEW journal \in [OpIds -> Operations \cup {NoOp}],
         NEW n \in Finalizing(journal) \cup Releasing(journal)
  PROVE  /\ n \in OpIds /\ journal[n] \in Operations
         /\ journal[n].inv \in Invoices /\ journal[n].srcs \subseteq Work
<1>1. n \in OpIds /\ journal[n].state = "prepared"
  BY DEF Finalizing, Releasing
<1>2. journal[n] \in Operations
  BY <1>1 DEF NoOp
<1> QED
  BY <1>1, <1>2 DEF Operations

\* No invoice is nobody.
LEMMA NobodyIsNoInvoice == None \notin Invoices
BY DEF Invoices

\* Records are written that charge for what they charged for before.
LEMMA RecordsWork ==
  ASSUME NEW invs, NEW later \in [Invoices -> InvoiceRecords], NEW journal, NEW own, NEW part,
         Typed(invs, journal, own), WorkFrom(invs, journal, own, part),
         \A i \in Invoices :
           /\ Charged(later[i]) <=> Charged(invs[i])
           /\ Charged(later[i]) => later[i].sel = invs[i].sel
           /\ later[i].status = "canceled" => invs[i].status = "canceled"
  PROVE  WorkFrom(later, journal, own, part)
<1>1. \A i \in Invoices, s \in Work :
        Holds(i, s, later, journal) <=> Holds(i, s, invs, journal)
  BY DEF Holds
<1>2. OneHolder(later, journal) /\ OnePlan(journal)
  BY <1>1 DEF WorkFrom, OneHolder
<1>3. PlansFit(later, journal, own, part)
  <2> SUFFICES ASSUME NEW n \in Finalizing(journal)
               PROVE  \/ later[journal[n].inv].status \in {"absent", "draft"}
                      \/ Charged(later[journal[n].inv]) /\ n \in part
    BY DEF WorkFrom, PlansFit
  <2>1. journal[n].inv \in Invoices
    BY PlansAreTyped DEF Typed
  <2>2. later[journal[n].inv].status \in Statuses
    BY <2>1 DEF InvoiceRecords
  <2>3. invs[journal[n].inv].status # "canceled" /\ (Charged(invs[journal[n].inv]) => n \in part)
    BY DEF WorkFrom, PlansFit, Charged
  <2> QED
    BY <2>1, <2>2, <2>3 DEF Charged, Statuses
<1>4. Marked(later, journal, own, part)
  BY DEF WorkFrom, Marked
<1>5. Accounted(later, journal, own, part)
  BY DEF WorkFrom, Accounted, Typed, Owners
<1> QED
  BY <1>2, <1>3, <1>4, <1>5 DEF WorkFrom

\* More plans may have been applied in part than is known.
LEMMA MorePart ==
  ASSUME NEW invs, NEW journal, NEW own, NEW part, NEW more, part \subseteq more,
         WorkFrom(invs, journal, own, part)
  PROVE  WorkFrom(invs, journal, own, more)
<1>1. PlansFit(invs, journal, own, more)
  BY DEF WorkFrom, PlansFit
<1>2. Marked(invs, journal, own, more)
  BY DEF WorkFrom, Marked
<1>3. Accounted(invs, journal, own, more)
  BY DEF WorkFrom, Accounted
<1> QED
  BY <1>1, <1>2, <1>3 DEF WorkFrom

\* The invoice of a finalization that has claimed its work is issued.
LEMMA SentWork ==
  ASSUME NEW invs, NEW later \in [Invoices -> InvoiceRecords], NEW journal, NEW own, NEW part,
         Typed(invs, journal, own), WorkFrom(invs, journal, own, part),
         NEW n \in Finalizing(journal), n \in part,
         NEW i \in Invoices, i = journal[n].inv, ~Charged(invs[i]),
         \A s \in journal[n].srcs : own[s] = i,
         Charged(later[i]), later[i].sel = journal[n].srcs,
         \A j \in Invoices : j # i => later[j] = invs[j]
  PROVE  WorkFrom(later, journal, own, part)
<1>1. \A j \in Invoices, s \in Work :
        Holds(j, s, later, journal) => Holds(j, s, invs, journal)
  BY DEF Holds
<1>2. OneHolder(later, journal) /\ OnePlan(journal)
  BY <1>1 DEF WorkFrom, OneHolder
<1>3. PlansFit(later, journal, own, part)
  <2>1. \A m \in Finalizing(journal) : journal[m].inv = i => m = n
    BY DEF WorkFrom, OnePlan
  <2>2. \A m \in Finalizing(journal) : journal[m].inv \in Invoices
    BY PlansAreTyped DEF Typed
  <2> QED
    BY <2>1, <2>2 DEF WorkFrom, PlansFit
<1>4. Marked(later, journal, own, part)
  BY DEF WorkFrom, Marked
<1>5. Accounted(later, journal, own, part)
  BY DEF WorkFrom, Accounted, Typed, Owners
<1> QED
  BY <1>2, <1>3, <1>4, <1>5 DEF WorkFrom

\* An invoice that has given up its work is no longer charged.
LEMMA GoneWork ==
  ASSUME NEW invs, NEW later \in [Invoices -> InvoiceRecords], NEW journal, NEW own, NEW part,
         Typed(invs, journal, own), WorkFrom(invs, journal, own, part),
         NEW i \in Invoices, \A s \in Work : own[s] # i,
         \A n \in Finalizing(journal) : journal[n].inv # i,
         ~Charged(later[i]), \A j \in Invoices : j # i => later[j] = invs[j]
  PROVE  WorkFrom(later, journal, own, part)
<1>1. \A j \in Invoices, s \in Work :
        Holds(j, s, later, journal) => Holds(j, s, invs, journal)
  BY DEF Holds
<1>2. OneHolder(later, journal) /\ OnePlan(journal)
  BY <1>1 DEF WorkFrom, OneHolder
<1>3. PlansFit(later, journal, own, part)
  <2>1. \A m \in Finalizing(journal) : journal[m].inv \in Invoices
    BY PlansAreTyped DEF Typed
  <2> QED
    BY <2>1 DEF WorkFrom, PlansFit
<1>4. Marked(later, journal, own, part)
  BY DEF WorkFrom, Marked
<1>5. Accounted(later, journal, own, part)
  BY DEF WorkFrom, Accounted, Typed, Owners
<1> QED
  BY <1>2, <1>3, <1>4, <1>5 DEF WorkFrom

\* The heart of the argument: a finalization is journaled for work that
\* nobody owns and no pending plan claims, so that no invoice charges for it.
LEMMA FinalizeWork ==
  ASSUME NEW invs, NEW journal, NEW later, NEW own,
         Typed(invs, journal, own), WorkFrom(invs, journal, own, {}),
         NEW n \in OpIds, journal[n] = NoOp, later[n] \in Operations,
         later[n].state = "prepared", Finalizes(later[n]), later[n].sel = later[n].srcs,
         \A m \in OpIds : m # n => later[m] = journal[m],
         \A s \in later[n].srcs : own[s] = None,
         invs[later[n].inv].status \in {"absent", "draft"},
         \A m \in Finalizing(journal) \cup Releasing(journal) : journal[m].inv # later[n].inv,
         \A m \in Finalizing(journal) : journal[m].srcs \cap later[n].srcs = {}
  PROVE  WorkFrom(invs, later, own, {})
<1> DEFINE i == later[n].inv
<1>1. i \in Invoices /\ ~Charged(invs[i]) /\ later[n].srcs \subseteq Work
  BY DEF Charged, Operations
<1>2. Finalizing(later) = Finalizing(journal) \cup {n} /\ n \notin Finalizing(journal)
  BY DEF Finalizing, Finalizes, NoOp
<1>3. Releasing(later) = Releasing(journal) /\ n \notin Releasing(journal)
  BY DEF Releasing, Releases, Finalizes, NoOp
<1>4. \A m \in Finalizing(journal) \cup Releasing(journal) : later[m] = journal[m]
  BY <1>2, <1>3 DEF Finalizing, Releasing
<1>5. \A j \in Invoices, s \in Work :
        Holds(j, s, invs, later) <=>
          Holds(j, s, invs, journal) \/ (j = i /\ s \in later[n].srcs)
  BY <1>2, <1>4 DEF Holds
<1>6. \A j \in Invoices : \A s \in later[n].srcs : ~Holds(j, s, invs, journal)
  <2> SUFFICES ASSUME NEW j \in Invoices, NEW s \in later[n].srcs, Holds(j, s, invs, journal)
               PROVE  FALSE
    OBVIOUS
  <2>1. CASE Charged(invs[j]) /\ s \in invs[j].sel
    BY <2>1, NobodyIsNoInvoice DEF WorkFrom, Marked
  <2>2. CASE \E m \in Finalizing(journal) : journal[m].inv = j /\ s \in journal[m].srcs
    BY <2>2
  <2> QED BY <2>1, <2>2 DEF Holds
<1>7. OneHolder(invs, later)
  BY <1>1, <1>5, <1>6 DEF WorkFrom, OneHolder
<1>8. OnePlan(later)
  BY <1>2, <1>3, <1>4 DEF WorkFrom, OnePlan
<1>9. PlansFit(invs, later, own, {})
  BY <1>2, <1>3, <1>4 DEF WorkFrom, PlansFit
<1>10. Marked(invs, later, own, {}) /\ Accounted(invs, later, own, {})
  BY <1>2, <1>4 DEF WorkFrom, Marked, Accounted
<1> QED
  BY <1>7, <1>8, <1>9, <1>10 DEF WorkFrom

\* The release of an invoice that is not being finalized is journaled.
LEMMA ReleaseWork ==
  ASSUME NEW invs, NEW journal, NEW later, NEW own,
         Typed(invs, journal, own), WorkFrom(invs, journal, own, {}),
         NEW n \in OpIds, journal[n] = NoOp, Releases(later[n]),
         \A m \in OpIds : m # n => later[m] = journal[m],
         \A s \in Work : own[s] = later[n].inv => s \in later[n].srcs,
         \A m \in Finalizing(journal) : journal[m].inv # later[n].inv
  PROVE  WorkFrom(invs, later, own, {})
<1>1. Finalizing(later) = Finalizing(journal) /\ n \notin Finalizing(journal)
  BY DEF Finalizing, Finalizes, Releases, NoOp
<1>2. Releasing(later) \subseteq Releasing(journal) \cup {n}
  BY DEF Releasing
<1>3. \A m \in Finalizing(journal) \cup (Releasing(journal) \ {n}) : later[m] = journal[m]
  BY <1>1 DEF Finalizing, Releasing
<1>4. OneHolder(invs, later)
  BY <1>1, <1>3 DEF WorkFrom, OneHolder, Holds
<1>5. OnePlan(later)
  BY <1>1, <1>2, <1>3 DEF WorkFrom, OnePlan
<1>6. PlansFit(invs, later, own, {})
  BY <1>1, <1>2, <1>3 DEF WorkFrom, PlansFit
<1>7. Marked(invs, later, own, {}) /\ Accounted(invs, later, own, {})
  BY <1>1, <1>3 DEF WorkFrom, Marked, Accounted
<1> QED
  BY <1>4, <1>5, <1>6, <1>7 DEF WorkFrom

\* A finalization that is applied marks work it claims as its own.
LEMMA ClaimWork ==
  ASSUME NEW invs, NEW journal, NEW own, NEW later, NEW part,
         Typed(invs, journal, own), WorkFrom(invs, journal, own, part),
         NEW n \in Finalizing(journal),
         \A s \in Work : \/ later[s] = own[s]
                         \/ s \in journal[n].srcs /\ later[s] = journal[n].inv
  PROVE  WorkFrom(invs, journal, later, part)
<1> DEFINE i == journal[n].inv
<1>1. i \in Invoices /\ journal[n].srcs \subseteq Work
  BY PlansAreTyped DEF Typed
<1>2. \A s \in journal[n].srcs : own[s] \in {None, i}
  BY DEF WorkFrom, PlansFit
<1>3. \A s \in journal[n].srcs : Holds(i, s, invs, journal)
  BY DEF Holds
<1>4. PlansFit(invs, journal, later, part)
  <2>1. ASSUME NEW m \in Finalizing(journal), NEW s \in journal[m].srcs
        PROVE  later[s] \in {None, journal[m].inv}
    <3>1. journal[m].inv \in Invoices /\ s \in Work
      BY PlansAreTyped DEF Typed
    <3>2. Holds(journal[m].inv, s, invs, journal)
      BY DEF Holds
    <3>3. CASE later[s] = own[s]
      BY <3>3 DEF WorkFrom, PlansFit
    <3>4. CASE s \in journal[n].srcs /\ later[s] = i
      BY <1>1, <1>3, <3>1, <3>2, <3>4 DEF WorkFrom, OneHolder
    <3> QED BY <3>1, <3>3, <3>4
  <2>2. ASSUME NEW m \in Releasing(journal), journal[m].kind = "undo",
               NEW s \in Work, later[s] = journal[m].inv
        PROVE  s \in journal[m].srcs
    <3>1. journal[m].inv # i
      BY DEF WorkFrom, OnePlan
    <3> QED BY <2>2, <3>1 DEF WorkFrom, PlansFit
  <2> QED
    BY <2>1, <2>2 DEF WorkFrom, PlansFit
<1>5. Marked(invs, journal, later, part)
  <2>1. \A j \in Invoices : \A s \in Work : own[s] = j => later[s] = j
    BY <1>1, <1>2, NobodyIsNoInvoice
  <2>2. \A j \in Invoices : invs[j].sel \subseteq Work
    BY DEF Typed, InvoiceRecords
  <2> QED
    BY <2>1, <2>2 DEF WorkFrom, Marked
<1>6. Accounted(invs, journal, later, part)
  BY <1>1 DEF WorkFrom, Accounted
<1> QED
  BY <1>4, <1>5, <1>6 DEF WorkFrom

\* A release that is applied gives up work of its invoice.
LEMMA GiveUpWork ==
  ASSUME NEW invs, NEW journal, NEW own, NEW later, NEW part,
         Typed(invs, journal, own), WorkFrom(invs, journal, own, part),
         NEW n \in Releasing(journal), n \in part,
         \A s \in Work : later[s] = own[s] \/ (own[s] = journal[n].inv /\ later[s] = None)
  PROVE  WorkFrom(invs, journal, later, part)
<1>1. journal[n].inv \in Invoices
  BY PlansAreTyped DEF Typed
<1>2. PlansFit(invs, journal, later, part)
  <2>1. \A m \in Finalizing(journal) : journal[m].srcs \subseteq Work
    BY PlansAreTyped DEF Typed
  <2>2. \A m \in Releasing(journal) : journal[m].inv # None
    BY PlansAreTyped, NobodyIsNoInvoice DEF Typed
  <2> QED
    BY <2>1, <2>2 DEF WorkFrom, PlansFit
<1>3. Marked(invs, journal, later, part)
  <2>1. \A j \in Invoices : invs[j].sel \subseteq Work
    BY DEF Typed, InvoiceRecords
  <2> QED
    BY <2>1 DEF WorkFrom, Marked
<1>4. Accounted(invs, journal, later, part)
  BY DEF WorkFrom, Accounted
<1> QED
  BY <1>2, <1>3, <1>4 DEF WorkFrom

\* A plan is complete: a finalization has issued its invoice, a release has
\* left its invoice without work.
LEMMA CompleteWork ==
  ASSUME NEW invs, NEW journal, NEW own, NEW later, NEW part, NEW rest,
         Typed(invs, journal, own), WorkFrom(invs, journal, own, part),
         NEW n \in Finalizing(journal) \cup Releasing(journal), part \ {n} \subseteq rest,
         later[n].state = "complete", \A m \in OpIds : m # n => later[m] = journal[m],
         Finalizes(journal[n]) => Charged(invs[journal[n].inv]),
         Releases(journal[n]) => /\ ~Charged(invs[journal[n].inv])
                                 /\ \A s \in Work : own[s] # journal[n].inv
  PROVE  WorkFrom(invs, later, own, rest)
<1>1. n \in OpIds
  BY DEF Finalizing, Releasing
<1>2. Finalizing(later) = Finalizing(journal) \ {n} /\ Releasing(later) = Releasing(journal) \ {n}
  BY <1>1 DEF Finalizing, Releasing
<1>3. \A m \in Finalizing(later) \cup Releasing(later) : later[m] = journal[m]
  BY <1>2 DEF Finalizing, Releasing
<1>4. OneHolder(invs, later)
  BY <1>2, <1>3 DEF WorkFrom, OneHolder, Holds
<1>5. OnePlan(later)
  BY <1>2, <1>3 DEF WorkFrom, OnePlan
<1>6. PlansFit(invs, later, own, rest)
  BY <1>2, <1>3 DEF WorkFrom, PlansFit
<1>7. n \in Releasing(journal) => Releases(journal[n])
  BY DEF Releasing
<1>8. Marked(invs, later, own, rest)
  BY <1>2, <1>3, <1>7 DEF WorkFrom, Marked
<1>9. n \in Finalizing(journal) => Finalizes(journal[n])
  BY DEF Finalizing
<1>10. Accounted(invs, later, own, rest)
  BY <1>2, <1>3, <1>7, <1>9 DEF WorkFrom, Accounted
<1> QED
  BY <1>4, <1>5, <1>6, <1>8, <1>10 DEF WorkFrom

\* The state is typed as the argument needs it, in memory and on disk.
LEMMA WorkIsTyped ==
  ASSUME TypeInv
  PROVE  /\ Typed(inv, ops, Own) /\ Typed(coreDisk.inv, coreDisk.ops, OwnDisk)
         /\ born \in Nat /\ Invoices \subseteq Nat /\ \A n \in OpIds : ops[n].inv \in Nat
         /\ calls \subseteq Calls
         /\ run # Idle => App \in Operations /\ run.op \in OpIds /\ App.inv \in Invoices
<1>1. Own \in [Work -> Owners]
  BY DEF TypeInv, TypeOK, Own, Owner, Work
<1>2. coreDisk \in CoreStates /\ entsDisk \in [Entries -> Owners]
  BY DEF TypeInv, TypeOK
<1>3. OwnDisk \in [Work -> Owners]
  BY <1>2 DEF OwnDisk, CoreStates, Work
<1>4. Typed(coreDisk.inv, coreDisk.ops, OwnDisk)
  BY <1>2, <1>3 DEF Typed, CoreStates
<1>5. run # Idle => App \in Operations /\ run.op \in OpIds /\ App.inv \in Invoices
  BY RunType DEF TypeInv, Operations
<1>6. \A n \in OpIds : ops[n].inv \in Nat
  BY ReleasesAreTyped
<1> QED
  BY <1>1, <1>4, <1>5, <1>6 DEF Typed, TypeInv, TypeOK, Invoices

\* An empty workspace bills nothing.
LEMMA InitWorkInv == Init => WorkInv
<1> SUFFICES ASSUME Init PROVE WorkInv
  OBVIOUS
<1>1. \A n \in OpIds : ops[n] = NoOp
  BY DEF Init
<1>2. born = 0 /\ \A i \in Invoices : inv[i] = Absent
  BY DEF Init
<1>3. ~Releases(NoOp) /\ ~Finalizes(NoOp) /\ NoOp.inv = 0 /\ NoOp.kind # "cancel"
      /\ NoOp.state # "prepared" /\ ~Charged(Absent)
  BY DEF NoOp, Releases, Finalizes, Charged, Absent
<1>4. Finalizing(ops) = {} /\ Releasing(ops) = {}
  BY <1>1, <1>3 DEF Finalizing, Releasing
<1>5. \A s \in Work : Own[s] = None
  BY DEF Init, Own, Owner, Work
<1>6. WorkFrom(inv, ops, Own, Part)
  <2>1. OneHolder(inv, ops) /\ OnePlan(ops)
    BY <1>2, <1>3, <1>4 DEF OneHolder, OnePlan, Holds
  <2>2. PlansFit(inv, ops, Own, Part) /\ Marked(inv, ops, Own, Part)
        /\ Accounted(inv, ops, Own, Part)
    BY <1>2, <1>3, <1>4, <1>5 DEF PlansFit, Marked, Accounted
  <2> QED
    BY <2>1, <2>2 DEF WorkFrom
<1>7. coreDisk.inv = inv /\ coreDisk.ops = ops /\ OwnDisk = Own
  BY DEF Init, Core, OwnDisk, Own, Owner
<1>8. Part \subseteq PartDisk
  BY <1>7 DEF Part, PartDisk, Pending
<1>9. WorkFrom(coreDisk.inv, coreDisk.ops, OwnDisk, PartDisk)
  BY <1>6, <1>7, <1>8, MorePart
<1>10. WithinBorn(inv, ops) /\ WithinBorn(coreDisk.inv, coreDisk.ops)
  BY <1>1, <1>2, <1>3, <1>7 DEF WithinBorn
<1>11. calls = {} /\ run = Idle /\ replay = NoReplay
  BY DEF Init
<1>12. BootFirst /\ OnceEach /\ RunIsJournaled /\ RunFits /\ CallsFit
  BY <1>11 DEF BootFirst, OnceEach, RunIsJournaled, RunFits, CallsFit, NoReplay
<1> QED
  BY <1>6, <1>9, <1>10, <1>12, InitTypeInv DEF WorkInv

\* Where a command runs nothing was applied in part, so that charged work is
\* marked and no issued invoice waits to be finalized.
LEMMA NothingInPart ==
  ASSUME TypeInv, OnceEach, Ready
  PROVE  Part = {}
<1>1. run = Idle /\ replay.mode = "none"
  BY DEF Ready, OnceEach, TypeInv, TypeOK
<1> QED
  BY <1>1 DEF Part, OnceEach

\* What the commands do: they bill work that is free, and release invoices
\* that are charged.
LEMMA CommandWork ==
  ASSUME "cancel" \notin Features \/ "payAfterRates" \notin Features, WorkInv, Command
  PROVE  /\ WorkFrom(inv', ops', Own', Part') /\ WithinBorn(inv, ops)' /\ CallsFit'
         /\ born' \in {born, born + 1}
<1> DEFINE Goal == /\ WorkFrom(inv', ops', Own', {}) /\ WithinBorn(inv, ops)' /\ CallsFit'
                   /\ born' \in {born, born + 1}
<1>1. /\ Typed(inv, ops, Own) /\ born \in Nat /\ Invoices \subseteq Nat
      /\ \A n \in OpIds : ops[n].inv \in Nat
      /\ calls \subseteq Calls
  BY WorkIsTyped DEF WorkInv
<1>2. Ready /\ run' = run /\ replay' = replay /\ UNCHANGED <<ents, charges>>
  BY CommandEffect, CommandKeeps DEF WorkInv
<1>3. WorkFrom(inv, ops, Own, {}) /\ WithinBorn(inv, ops) /\ CallsFit
  BY <1>2, NothingInPart DEF WorkInv
<1>4. Own' = Own /\ Part' = {}
  <2>1. run = Idle /\ replay.todo = {}
    BY <1>2 DEF Ready, WorkInv, OnceEach, TypeInv, TypeOK
  <2> QED
    BY <1>2, <2>1 DEF Own, Owner, Part, Pending
<1>5. \A i \in Invoices : inv[i].status # "absent" => i <= born
  BY <1>1, <1>3 DEF WithinBorn, Absent
<1>6. \A n \in Finalizing(ops) : inv[ops[n].inv].status \in {"absent", "draft"}
  BY <1>3 DEF WorkFrom, PlansFit
<1>7. \A c \in calls : c.kind \in {"pay", "undo"} => c.inv \in Invoices
  BY <1>1 DEF Calls
\* A record that is written, and is charged for what it was.
<1>8. ASSUME NEW i \in Invoices, NEW rec \in InvoiceRecords, inv' = [inv EXCEPT ![i] = rec],
             Charged(rec) <=> Charged(inv[i]), Charged(rec) => rec.sel = inv[i].sel,
             rec.status # "canceled" \/ inv[i].status = "canceled",
             i <= born', born' \in {born, born + 1}, ops' = ops, calls' \subseteq calls,
             i <= born => /\ inv[i].status \in {"sent", "paid", "absent"} =>
                               rec.status \in {"sent", "paid", "absent"}
                          /\ inv[i].status # "draft" => rec.status # "draft"
      PROVE Goal
  <2>1. inv' \in [Invoices -> InvoiceRecords] /\ inv'[i] = rec
        /\ \A j \in Invoices : j # i => inv'[j] = inv[j]
    BY <1>1, <1>8 DEF Typed
  <2>2. WorkFrom(inv', ops', Own', {})
    BY <1>1, <1>3, <1>4, <1>8, <2>1, RecordsWork
  <2>3. WithinBorn(inv, ops)'
    <3>1. \A j \in Invoices : j > born' => j > born /\ j # i
      BY <1>1, <1>8
    <3>2. \A n \in OpIds : ops[n].inv <= born => ops[n].inv <= born'
      BY <1>1, <1>8
    <3> QED
      BY <1>3, <1>8, <2>1, <3>1, <3>2 DEF WithinBorn
  <2>4. CallsFit'
    <3>1. \A c \in calls : c.kind \in {"pay", "undo"} => c.inv <= born /\ c.inv <= born'
      BY <1>1, <1>3, <1>7, <1>8 DEF CallsFit
    <3> QED
      BY <1>3, <1>7, <1>8, <2>1, <3>1 DEF CallsFit
  <2> QED
    BY <1>8, <2>2, <2>3, <2>4
\* A plan that is journaled.
<1>9. ASSUME NEW n \in OpIds, NEW op \in Operations, Journal(n, op), inv' = inv,
             born' \in {born, born + 1}, op.inv <= born',
             op.kind = "cancel" => "cancel" \in Features,
             WorkFrom(inv, ops', Own, {}), \A c \in calls' : c \in calls \/ c.kind = "apply",
             Finalizes(op) => \A c \in calls : c.kind \in {"pay", "undo"} => c.inv # op.inv
      PROVE Goal
  <2>1. ops'[n] = op /\ \A m \in OpIds : m # n => ops'[m] = ops[m]
    BY <1>1, <1>9 DEF Journal, Typed
  <2>2. WithinBorn(inv, ops)'
    <3>1. \A j \in Invoices : j > born' => j > born
      BY <1>1, <1>9
    <3>2. \A m \in OpIds : ops[m].inv <= born => ops[m].inv <= born'
      BY <1>1, <1>9
    <3> QED
      BY <1>3, <1>9, <2>1, <3>1, <3>2 DEF WithinBorn
  <2>3. CallsFit'
    <3>1. \A m \in Finalizing(ops') : (m = n /\ Finalizes(op)) \/ (m \in Finalizing(ops) /\ m # n)
      BY <2>1 DEF Finalizing
    <3>2. \A k \in Nat : k <= born => k <= born'
      BY <1>1, <1>9
    <3>3. \A c \in calls : c.kind \in {"pay", "undo"} => c.inv <= born'
      BY <1>1, <1>3, <1>7, <3>2 DEF CallsFit
    <3>4. \A c \in calls : c.kind \in {"pay", "undo"} => \A m \in Finalizing(ops') : ops'[m].inv # c.inv
      <4> SUFFICES ASSUME NEW c \in calls, c.kind \in {"pay", "undo"},
                          NEW m \in Finalizing(ops')
                   PROVE  ops'[m].inv # c.inv
        OBVIOUS
      <4>1. CASE m = n /\ Finalizes(op)
        BY <1>9, <2>1, <4>1
      <4>2. CASE m \in Finalizing(ops) /\ m # n
        <5>1. ops[m].inv # c.inv
          BY <1>3, <4>2 DEF CallsFit
        <5> QED BY <2>1, <4>2, <5>1 DEF Finalizing
      <4> QED BY <3>1, <4>1, <4>2
    <3>5. \A c \in calls' : c.kind \in {"pay", "undo"} => c \in calls
      BY <1>9
    <3> QED
      BY <1>3, <1>9, <3>3, <3>4, <3>5 DEF CallsFit
  <2> QED
    BY <1>4, <1>9, <2>2, <2>3
\* A command that waits to go on with a charged invoice.
<1>10. ASSUME NEW i \in Invoices, Charged(inv[i]), NEW c, calls' = calls \cup {c}, c.inv = i,
              c.kind \in {"pay", "undo"}, c.kind = "pay" => "cancel" \notin Features,
              UNCHANGED <<inv, ops, born>>
       PROVE Goal
  <2>1. i <= born /\ \A n \in Finalizing(ops) : ops[n].inv # i
    BY <1>5, <1>6, <1>10 DEF Charged
  <2>2. CallsFit'
    BY <1>3, <1>10, <2>1 DEF CallsFit, Charged
  <2>3. WithinBorn(inv, ops)'
    BY <1>3, <1>10 DEF WithinBorn
  <2> QED
    BY <1>3, <1>4, <1>10, <2>2, <2>3
<1>11. ASSUME NEW sel \in Selections, SaveDraft(sel) PROVE Goal
  <2> DEFINE i == born + 1
             rec == [status |-> "draft", num |-> NextNumber, sel |-> sel,
                     was |-> [t \in Tasks |-> 0]]
  <2>1. i \in Invoices /\ ~(i <= born) /\ i <= i
    BY <1>1, <1>11 DEF SaveDraft, Invoices
  <2>2. NextNumber \in Numbers
    BY <1>11, NextNumberType DEF SaveDraft, Numbers, WorkInv, TypeInv
  <2>3. rec \in InvoiceRecords
    BY <2>2 DEF InvoiceRecords, Statuses, Cutoffs
  <2>4. inv[i].status = "absent" /\ rec.status = "draft"
    BY <1>1, <1>3, <2>1 DEF WithinBorn, Absent
  <2>5. ~Charged(rec) /\ ~Charged(inv[i])
    BY <2>4 DEF Charged
  <2>6. inv' = [inv EXCEPT ![i] = rec] /\ born' = i /\ born' \in {born, born + 1}
        /\ ops' = ops /\ calls' \subseteq calls
    BY <1>11 DEF SaveDraft
  <2> HIDE DEF i, rec
  <2> QED
    BY <1>8, <2>1, <2>3, <2>4, <2>5, <2>6
<1>12. ASSUME NEW i \in Invoices, NEW sel \in Selections, RefreshDraft(i, sel) PROVE Goal
  <2> DEFINE rec == [inv[i] EXCEPT !.sel = sel]
  <2>1. rec \in InvoiceRecords /\ rec.status = inv[i].status
    BY <1>1 DEF Typed, InvoiceRecords
  <2>2. inv' = [inv EXCEPT ![i] = rec] /\ inv[i].status = "draft" /\ born' = born
        /\ ops' = ops /\ calls' \subseteq calls
    BY <1>12 DEF RefreshDraft
  <2> HIDE DEF rec
  <2>3. ~Charged(rec) /\ ~Charged(inv[i])
    BY <2>1, <2>2 DEF Charged
  <2> QED
    BY <1>5, <1>8, <2>1, <2>2, <2>3
<1>13. ASSUME NEW i \in Invoices, DeleteDraft(i) PROVE Goal
  <2>1. inv' = [inv EXCEPT ![i] = Absent] /\ inv[i].status = "draft" /\ born' = born
        /\ ops' = ops /\ calls' \subseteq calls
    BY <1>13 DEF DeleteDraft
  <2>2. Absent \in InvoiceRecords /\ Absent.status = "absent"
    BY DEF Absent, InvoiceRecords, Statuses, Numbers, Cutoffs
  <2>3. ~Charged(Absent) /\ ~Charged(inv[i])
    BY <2>1, <2>2 DEF Charged
  <2> QED
    BY <1>5, <1>8, <2>1, <2>2, <2>3
<1>14. ASSUME NEW n \in OpIds, NEW i \in Invoices, NEW sel \in Selections \cup {inv[i].sel},
              PrepareFinalize(n, i, sel)
       PROVE Goal
  <2> DEFINE op == FinalizeOp(i, sel)
  <2>1. /\ op.state = "prepared" /\ Finalizes(op) /\ op.inv = i
        /\ op.sel = sel /\ op.srcs = sel /\ op.kind = "finalize"
    BY DEF FinalizeOp, Finalizes
  <2>2. sel \subseteq Work
    BY <1>1 DEF Typed, InvoiceRecords
  <2>3. op \in Operations
    BY <1>14, <2>2, FinalizeOpType DEF PrepareFinalize, WorkInv, TypeInv
  <2>4. Journal(n, op) /\ inv' = inv /\ calls' = calls \cup {[kind |-> "apply", op |-> n]}
    BY <1>14 DEF PrepareFinalize
  <2> HIDE DEF op
  <2>5. /\ i <= born' /\ born' \in {born, born + 1}
        /\ inv[i].status = "draft" \/ i = born + 1
    BY <1>1, <1>5, <1>14 DEF PrepareFinalize
  <2>6. inv[i].status \in {"absent", "draft"}
    BY <1>14 DEF PrepareFinalize
  <2>7. ops[n] = NoOp /\ ops'[n] = op /\ \A m \in OpIds : m # n => ops'[m] = ops[m]
    BY <1>1, <2>4 DEF Journal, NextOp, Typed
  <2>8. \A s \in sel : Own[s] = None
    BY <1>14, <2>2 DEF PrepareFinalize, Own
  <2>9. \A m \in Finalizing(ops) \cup Releasing(ops) : ops[m].inv # i
    BY <1>14 DEF PrepareFinalize, NoPendingFor, Pending, Finalizing, Releasing
  <2>10. \A m \in Finalizing(ops) : ops[m].srcs \cap sel = {}
    BY <1>14 DEF PrepareFinalize, Unreserved, Pending, Finalizing, Finalizes
  <2>11. WorkFrom(inv, ops', Own, {})
    BY <1>1, <1>3, <2>1, <2>3, <2>6, <2>7, <2>8, <2>9, <2>10, FinalizeWork
  <2>12. \A c \in calls : c.kind \in {"pay", "undo"} => c.inv # i
    BY <1>1, <1>3, <2>5 DEF CallsFit
  <2> QED
    BY <1>9, <2>1, <2>3, <2>4, <2>5, <2>11, <2>12
\* The release of an invoice that no plan finalizes.
<1>15. ASSUME NEW n \in OpIds, NEW op \in Operations, Journal(n, op), Releases(op),
              op.srcs = OwnedBy(op.inv), op.inv <= born,
              op.kind = "cancel" => "cancel" \in Features,
              \A m \in Finalizing(ops) : ops[m].inv # op.inv,
              inv' = inv, born' = born, \A c \in calls' : c \in calls \/ c.kind = "apply"
       PROVE Goal
  <2>1. ops[n] = NoOp /\ ops'[n] = op /\ \A m \in OpIds : m # n => ops'[m] = ops[m]
    BY <1>1, <1>15 DEF Journal, NextOp, Typed
  <2>2. \A s \in Work : Own[s] = op.inv => s \in op.srcs
    BY <1>15 DEF Own, OwnedBy
  <2>3. WorkFrom(inv, ops', Own, {})
    BY <1>1, <1>3, <1>15, <2>1, <2>2, ReleaseWork
  <2>4. ~Finalizes(op)
    BY <1>15 DEF Releases, Finalizes
  <2>5. born' \in {born, born + 1} /\ op.inv <= born'
    BY <1>15
  <2> QED
    BY <1>9, <1>15, <2>3, <2>4, <2>5
<1>16. ASSUME NEW i \in Invoices, BeginUndo(i) PROVE Goal
  <2> DEFINE others == {inv[j].num : j \in {k \in Invoices \ {i} : inv[k].status # "absent"}}
             c == [kind |-> "undo", inv |-> i, rec |-> inv[i], others |-> others]
  <2>1. calls' = calls \cup {c} /\ c.kind = "undo" /\ c.inv = i /\ Charged(inv[i])
    BY <1>16 DEF BeginUndo, Charged
  <2>2. UNCHANGED <<inv, ops, born>>
    BY <1>16 DEF BeginUndo, coreVars
  <2> HIDE DEF c
  <2> QED
    BY <1>10, <2>1, <2>2
<1>17. ASSUME NEW n \in OpIds, NEW c \in calls, PrepareUndo(n, c) PROVE Goal
  <2> DEFINE back == seq = c.rec.num + 1 /\ \A k \in c.others : k < c.rec.num
             seqTo == IF back THEN c.rec.num ELSE 0
             op == ReleaseOp("undo", c.inv, c.rec, seqTo)
  <2>1. c.kind = "undo" /\ c.inv \in Invoices /\ c.rec \in InvoiceRecords
    BY <1>1, <1>17 DEF PrepareUndo, Calls
  <2>2. seqTo \in 0..(MaxNumber + 1)
    <3> HIDE DEF back
    <3> QED BY <2>1 DEF InvoiceRecords, Numbers
  <2>3. op \in Operations
    <3> HIDE DEF seqTo
    <3> QED BY <2>1, <2>2, ReleaseOpType DEF WorkInv, TypeInv
  <2>4. op.kind = "undo" /\ op.inv = c.inv /\ op.srcs = OwnedBy(c.inv)
    BY DEF ReleaseOp
  <2>5. /\ Journal(n, op) /\ inv' = inv /\ born' = born
        /\ \A d \in calls' : d \in calls \/ d.kind = "apply"
    BY <1>17 DEF PrepareUndo
  <2>6. c.inv <= born /\ \A m \in Finalizing(ops) : ops[m].inv # c.inv
    BY <1>3, <2>1 DEF CallsFit
  <2> HIDE DEF op
  <2> QED
    BY <1>15, <2>3, <2>4, <2>5, <2>6 DEF Releases
<1>18. ASSUME NEW n \in OpIds, NEW i \in Invoices, PrepareCancel(n, i) PROVE Goal
  <2> DEFINE op == ReleaseOp("cancel", i, inv[i], 0)
  <2>1. op \in Operations
    BY <1>1, ReleaseOpType DEF WorkInv, TypeInv, Typed
  <2>2. op.kind = "cancel" /\ op.inv = i /\ op.srcs = OwnedBy(i)
    BY DEF ReleaseOp
  <2>3. /\ Journal(n, op) /\ inv' = inv /\ born' = born /\ inv[i].status = "sent"
        /\ "cancel" \in Features
        /\ \A d \in calls' : d \in calls \/ d.kind = "apply"
    BY <1>18 DEF PrepareCancel
  <2>4. i <= born /\ \A m \in Finalizing(ops) : ops[m].inv # i
    BY <1>5, <1>6, <2>3
  <2> HIDE DEF op
  <2> QED
    BY <1>15, <2>1, <2>2, <2>3, <2>4 DEF Releases
\* A payment recorded or taken back.
<1>19. ASSUME NEW i \in Invoices, NEW status \in {"sent", "paid"}, Charged(inv[i]),
              inv' = [inv EXCEPT ![i].status = status], ops' = ops, born' = born,
              calls' \subseteq calls
       PROVE Goal
  <2> DEFINE rec == [inv[i] EXCEPT !.status = status]
  <2>1. rec \in InvoiceRecords /\ rec.status = status /\ rec.sel = inv[i].sel
    BY <1>1 DEF Typed, InvoiceRecords, Statuses
  <2>2. inv' = [inv EXCEPT ![i] = rec]
    BY <1>19
  <2> HIDE DEF rec
  <2>3. Charged(rec) /\ i <= born
    BY <1>5, <1>19, <2>1 DEF Charged
  <2> QED
    BY <1>8, <1>19, <2>1, <2>2, <2>3
<1>20. ASSUME NEW i \in Invoices, Pay(i) \/ MarkUnpaid(i) PROVE Goal
  <2>1. Charged(inv[i]) /\ ops' = ops /\ born' = born /\ calls' \subseteq calls
    BY <1>20 DEF Pay, MarkUnpaid, SetStatus, Charged
  <2>2. \E status \in {"sent", "paid"} : inv' = [inv EXCEPT ![i].status = status]
    BY <1>20 DEF Pay, MarkUnpaid, SetStatus
  <2> QED
    BY <1>19, <2>1, <2>2
<1>21. ASSUME NEW i \in Invoices, BeginPay(i) PROVE Goal
  <2> DEFINE c == [kind |-> "pay", inv |-> i]
  <2>1. calls' = calls \cup {c} /\ c.kind = "pay" /\ c.inv = i /\ Charged(inv[i])
        /\ "cancel" \notin Features
    BY <1>21 DEF BeginPay, MayPay, Charged
  <2>2. UNCHANGED <<inv, ops, born>>
    BY <1>21 DEF BeginPay, coreVars
  <2> HIDE DEF c
  <2> QED
    BY <1>10, <2>1, <2>2
<1>22. ASSUME NEW c \in calls, FinishPay(c) PROVE Goal
  <2>1. /\ c.inv \in Invoices /\ inv[c.inv].status \in {"sent", "paid", "absent"}
        /\ ops' = ops /\ born' = born /\ calls' \subseteq calls
    BY <1>3, <1>7, <1>22 DEF FinishPay, SetStatus, CallsFit
  <2>2. CASE inv[c.inv].status # "absent"
    <3>1. inv' = [inv EXCEPT ![c.inv].status = "paid"] /\ Charged(inv[c.inv])
      BY <1>22, <2>1, <2>2 DEF FinishPay, SetStatus, Charged
    <3> QED
      BY <1>19, <2>1, <3>1
  <2>3. CASE inv[c.inv].status = "absent"
    <3>1. inv' = [inv EXCEPT ![c.inv].status = "absent"]
      BY <1>22, <2>3 DEF FinishPay, SetStatus
    <3>2. inv' = inv
      BY <1>1, <2>1, <2>3, <3>1 DEF Typed, InvoiceRecords
    <3>3. CallsFit' /\ WithinBorn(inv, ops)'
      BY <1>3, <2>1, <3>2 DEF CallsFit, WithinBorn
    <3> QED
      BY <1>3, <1>4, <2>1, <3>2, <3>3
  <2> QED
    BY <2>2, <2>3
<1> HIDE DEF Goal
<1>23. Goal
  BY <1>11, <1>12, <1>13, <1>14, <1>16, <1>17, <1>18, <1>20, <1>21, <1>22 DEF Command
<1> QED
  BY <1>4, <1>23 DEF Goal

\* The plan that is applied is one still to be completed, and it may have been
\* applied in part.
LEMMA RunIsPart ==
  ASSUME WorkInv, run # Idle
  PROVE  /\ run.op \in OpIds /\ run.op \in Part /\ App \in Operations /\ App.inv \in Invoices
         /\ App.inv = ops[run.op].inv
         /\ Finalizes(App) \/ Releases(App)
         /\ Finalizes(App) <=> ~Releases(App)
         /\ Finalizes(App) => /\ run.op \in Finalizing(ops) /\ App.srcs = ops[run.op].srcs
                              /\ Finalizes(ops[run.op])
         /\ Releases(App) => run.op \in Releasing(ops) /\ Releases(ops[run.op])
<1>1. run.op \in OpIds /\ App \in Operations /\ App.inv \in Invoices
  BY WorkIsTyped DEF WorkInv
<1>2. ops[run.op].state = "prepared"
  BY DEF WorkInv, OnceEach
<1>3. /\ App.kind = ops[run.op].kind /\ App.inv = ops[run.op].inv
      /\ App.kind = "finalize" => App.srcs = ops[run.op].srcs
  BY DEF WorkInv, RunIsJournaled
<1>4. App.kind \in {"finalize", "undo", "cancel"}
  BY <1>1 DEF Operations
<1> QED
  BY <1>1, <1>2, <1>3, <1>4 DEF Part, Pending, Finalizing, Releasing, Finalizes, Releases

\* A phase that writes owners: a finalization marks what it claims, a release
\* gives up what its invoice owns, and neither touches the work of another.
LEMMA OwnersWork ==
  ASSUME WorkInv, run # Idle, NEW P \in SUBSET Work,
         \A s \in Work : Owner(s)' = IF s \in P THEN NewOwner(s, Owner(s)) ELSE Owner(s),
         \A s \in Work : Reached(s)' => Reached(s) \/ s \in P,
         UNCHANGED <<inv, ops, replay>>, run' # Idle, run'.op = run.op, App' = App,
         run'.phase # "complete"
  PROVE  WorkFrom(inv', ops', Own', Part') /\ RunFits'
<1>1. /\ run.op \in OpIds /\ run.op \in Part /\ App \in Operations /\ App.inv \in Invoices
      /\ App.inv = ops[run.op].inv
      /\ Finalizes(App) \/ Releases(App)
      /\ Finalizes(App) <=> ~Releases(App)
  BY RunIsPart
<1>2. Typed(inv, ops, Own) /\ WorkFrom(inv, ops, Own, Part)
  BY WorkIsTyped DEF WorkInv
<1>3. Part' = Part
  BY DEF Part, Pending
<1>4. \A s \in Work : Own[s] = Owner(s) /\ Own'[s] = Owner(s)'
  BY DEF Own
<1>5. CASE Finalizes(App)
  <2>1. run.op \in Finalizing(ops) /\ App.srcs = ops[run.op].srcs /\ App.kind = "finalize"
    BY <1>5, RunIsPart DEF Finalizes
  <2>2. \A s \in Work : \/ Own'[s] = Own[s]
                        \/ s \in ops[run.op].srcs /\ Own'[s] = ops[run.op].inv
    BY <1>1, <1>4, <2>1 DEF NewOwner
  <2>3. WorkFrom(inv, ops, Own', Part)
    BY <1>2, <2>1, <2>2, ClaimWork
  <2>4. App.srcs \subseteq Work
    BY <1>1 DEF Operations
  <2>5. \A s \in App.srcs : Reached(s)' => Owner(s)' = App.inv
    <3> SUFFICES ASSUME NEW s \in App.srcs, Reached(s)' PROVE Owner(s)' = App.inv
      OBVIOUS
    <3>1. Owner(s) \in {None, App.inv}
      BY <1>1, <1>2, <1>4, <2>1, <2>4 DEF WorkFrom, PlansFit
    <3>2. NewOwner(s, Owner(s)) = App.inv
      BY <2>1, <3>1 DEF NewOwner, Claims
    <3>3. Reached(s) => Owner(s) = App.inv
      BY <1>5 DEF WorkInv, RunFits
    <3> QED
      BY <2>4, <3>2, <3>3
  <2>6. RunFits'
    <3>1. App.sel = App.srcs
      BY <1>5 DEF WorkInv, RunFits
    <3> QED
      BY <1>1, <1>5, <2>5, <3>1 DEF RunFits
  <2> QED
    BY <1>3, <2>3, <2>6
<1>6. CASE Releases(App)
  <2>1. run.op \in Releasing(ops) /\ App.kind # "finalize"
    BY <1>6, RunIsPart DEF Releases
  <2>2. \A s \in Work : \/ Own'[s] = Own[s]
                        \/ Own[s] = ops[run.op].inv /\ Own'[s] = None
    BY <1>1, <1>4, <2>1 DEF NewOwner
  <2>3. WorkFrom(inv, ops, Own', Part)
    BY <1>1, <1>2, <2>1, <2>2, GiveUpWork
  <2>4. OwnedBy(App.inv) \subseteq App.srcs /\ \A s \in Work : Reached(s) => Owner(s) # App.inv
    BY <1>6 DEF WorkInv, RunFits
  <2>5. None # App.inv
    BY <1>1, NobodyIsNoInvoice
  <2>6. \A s \in Work : Owner(s)' = App.inv => Owner(s) = App.inv /\ s \notin P
    <3> SUFFICES ASSUME NEW s \in Work, Owner(s)' = App.inv
                 PROVE  Owner(s) = App.inv /\ s \notin P
      OBVIOUS
    <3>1. Owner(s) = App.inv
      BY <2>1, <2>5 DEF NewOwner
    <3>2. s \in App.srcs
      BY <2>4, <3>1 DEF OwnedBy
    <3>3. NewOwner(s, Owner(s)) = None
      BY <2>1, <3>1, <3>2 DEF NewOwner
    <3> QED
      BY <2>5, <3>1, <3>3
  <2>7. OwnedBy(App.inv)' \subseteq OwnedBy(App.inv)
    BY <2>6 DEF OwnedBy
  <2>8. RunFits'
    <3>1. \A s \in Work : Reached(s)' => Owner(s)' # App.inv
      BY <2>4, <2>6
    <3> QED
      BY <1>1, <1>6, <2>4, <2>7, <3>1 DEF RunFits
  <2> QED
    BY <1>3, <2>3, <2>8
<1> QED
  BY <1>1, <1>5, <1>6

\* The invoice phase: the invoice is charged for the work that was marked, or
\* no longer charged for the work that was given up.
LEMMA InvoicePhaseWork ==
  ASSUME WorkInv, ApplyInvoice, run # Idle, run' # Idle, run'.op = run.op, App' = App,
         UNCHANGED <<calls, replay, born>>
  PROVE  /\ WorkFrom(inv', ops', Own', Part') /\ WithinBorn(inv, ops)'
         /\ CallsFit' /\ RunFits'
<1> DEFINE i == App.inv
           rec == inv[i]
<1>1. /\ run.op \in OpIds /\ run.op \in Part /\ App \in Operations /\ i \in Invoices
      /\ i = ops[run.op].inv
      /\ Finalizes(App) \/ Releases(App)
      /\ Finalizes(App) <=> ~Releases(App)
  BY RunIsPart
<1>2. /\ Typed(inv, ops, Own) /\ WorkFrom(inv, ops, Own, Part) /\ WithinBorn(inv, ops)
      /\ CallsFit /\ RunFits /\ calls \subseteq Calls /\ born \in Nat /\ Invoices \subseteq Nat
  BY WorkIsTyped DEF WorkInv
<1>3. /\ UNCHANGED <<ops, charges, ents>> /\ run.phase = "invoice"
      /\ inv' = [inv EXCEPT ![i] = NewInvoice(rec)]
  BY DEF ApplyInvoice, EnterPhase
<1>4. run'.phase = "complete"
  BY <1>1 DEF ApplyInvoice, EnterPhase, WorkInv, TypeInv, TypeOK
<1>5. Own' = Own /\ Part' = Part /\ ops' = ops
  BY <1>3 DEF Own, Owner, Part, Pending
<1>6. \A s \in Work : Reached(s) /\ Owner(s)' = Owner(s) /\ Own[s] = Owner(s)
  BY <1>3 DEF Reached, Work, Owner, Own
<1>7. rec \in InvoiceRecords /\ NewInvoice(rec) \in InvoiceRecords
  BY <1>1, <1>2, NewInvoiceType DEF Typed
<1>8. /\ inv' \in [Invoices -> InvoiceRecords] /\ inv'[i] = NewInvoice(rec)
      /\ \A j \in Invoices : j # i => inv'[j] = inv[j]
  BY <1>1, <1>2, <1>3, <1>7 DEF Typed
<1> HIDE DEF rec
<1>9. WithinBorn(inv, ops)'
  <2>1. i <= born
    BY <1>1, <1>2 DEF WithinBorn
  <2>2. \A j \in Invoices : j > born => j # i
    BY <1>1, <1>2, <2>1
  <2> QED
    BY <1>2, <1>5, <1>8, <2>2 DEF WithinBorn
\* What is left to show of the two kinds of plan.
<1>10. ASSUME Finalizes(App) <=> Charged(NewInvoice(rec)), NewInvoice(rec).status # "draft",
              Releases(App) => NewInvoice(rec).status = "absent" \/ App.kind = "cancel"
       PROVE  CallsFit' /\ RunFits'
  <2>1. RunFits'
    <3>1. /\ Finalizes(App) => /\ App.sel = App.srcs
                               /\ \A s \in App.srcs : Reached(s) => Owner(s) = i
          /\ Releases(App) => /\ OwnedBy(i) \subseteq App.srcs
                              /\ \A s \in Work : Reached(s) => Owner(s) # i
      BY <1>2 DEF RunFits
    <3>2. App.srcs \subseteq Work
      BY <1>1 DEF Operations
    <3>3. OwnedBy(i)' = OwnedBy(i)
      BY <1>6 DEF OwnedBy
    <3> QED
      BY <1>6, <1>8, <1>10, <3>1, <3>2, <3>3 DEF RunFits
  <2>2. CallsFit'
    <3> SUFFICES ASSUME NEW c \in calls, c.kind \in {"pay", "undo"}
                 PROVE  /\ c.inv <= born /\ \A n \in Finalizing(ops) : ops[n].inv # c.inv
                        /\ c.kind = "pay" => /\ "cancel" \notin Features
                                             /\ inv'[c.inv].status \in {"sent", "paid", "absent"}
                        /\ c.kind = "undo" => inv'[c.inv].status # "draft"
      BY <1>5 DEF CallsFit
    <3>1. c.inv \in Invoices
      BY <1>2 DEF Calls
    <3>2. /\ c.inv <= born /\ \A n \in Finalizing(ops) : ops[n].inv # c.inv
          /\ c.kind = "pay" => /\ "cancel" \notin Features
                               /\ inv[c.inv].status \in {"sent", "paid", "absent"}
          /\ c.kind = "undo" => inv[c.inv].status # "draft"
      BY <1>2 DEF CallsFit
    <3>3. CASE c.inv # i
      BY <1>8, <3>1, <3>2, <3>3
    <3>4. CASE c.inv = i
      <4>1. Releases(App)
        BY <1>1, <3>2, <3>4, RunIsPart
      <4>2. c.kind = "pay" => NewInvoice(rec).status = "absent"
        <5>1. App.kind = "cancel" => "cancel" \in Features
          BY <1>1, <1>2 DEF WithinBorn, WorkInv, RunIsJournaled
        <5> QED BY <1>10, <3>2, <4>1, <5>1
      <4> QED
        BY <1>8, <1>10, <3>2, <3>4, <4>2
    <3> QED BY <3>3, <3>4
  <2> QED
    BY <2>1, <2>2
<1>11. CASE Finalizes(App)
  <2>1. /\ run.op \in Finalizing(ops) /\ App.srcs = ops[run.op].srcs /\ App.kind = "finalize"
        /\ App.sel = App.srcs
    BY <1>2, <1>11, RunIsPart DEF Finalizes, RunFits
  <2>2. App.srcs \subseteq Work
    BY <1>1 DEF Operations
  <2>3. \A s \in App.srcs : Own[s] = i
    BY <1>2, <1>6, <1>11, <2>2 DEF RunFits
  <2>4. CASE rec.status \in {"absent", "draft"}
    <3>1. NewInvoice(rec).status = "sent" /\ NewInvoice(rec).sel = App.sel
      BY <2>1, <2>4 DEF NewInvoice
    <3>2. Charged(NewInvoice(rec)) /\ ~Charged(rec)
      BY <2>4, <3>1 DEF Charged
    <3>3. WorkFrom(inv', ops, Own, Part)
      BY <1>1, <1>2, <1>8, <2>1, <2>3, <3>1, <3>2, SentWork DEF rec
    <3> QED
      BY <1>1, <1>5, <1>9, <1>10, <1>11, <3>1, <3>2, <3>3
  <2>5. CASE rec.status \notin {"absent", "draft"}
    <3>1. Charged(rec)
      BY <1>1, <1>2, <2>1, <2>5 DEF WorkFrom, PlansFit, rec
    <3>2. NewInvoice(rec) = rec
      BY <2>1, <2>5 DEF NewInvoice
    <3>3. WorkFrom(inv', ops, Own, Part)
      BY <1>2, <1>8, <3>2, RecordsWork DEF rec
    <3> QED
      BY <1>1, <1>5, <1>9, <1>10, <1>11, <2>5, <3>1, <3>2, <3>3
  <2> QED
    BY <2>4, <2>5
<1>12. CASE Releases(App)
  <2>1. run.op \in Releasing(ops)
    BY <1>12, RunIsPart
  <2>2. \A s \in Work : Own[s] # i
    BY <1>2, <1>6, <1>12 DEF RunFits
  <2>3. \A n \in Finalizing(ops) : ops[n].inv # i
    BY <1>1, <1>2, <2>1 DEF WorkFrom, OnePlan
  <2>4. /\ NewInvoice(rec).status \in {"absent", "canceled"}
        /\ App.kind = "undo" => NewInvoice(rec).status = "absent"
    BY <1>7, <1>12 DEF NewInvoice, Releases, Absent, InvoiceRecords
  <2>5. ~Charged(NewInvoice(rec))
    BY <2>4 DEF Charged
  <2>6. WorkFrom(inv', ops, Own, Part)
    BY <1>1, <1>2, <1>8, <2>2, <2>3, <2>5, GoneWork
  <2>7. CallsFit' /\ RunFits'
    BY <1>1, <1>10, <1>12, <2>4, <2>5 DEF Releases
  <2> QED
    BY <1>5, <1>9, <2>6, <2>7
<1> QED
  BY <1>1, <1>11, <1>12

\* Applying a plan keeps the invoices, the markers and the journal in step.
LEMMA PhaseWork ==
  ASSUME WorkInv, ApplyPhase
  PROVE  /\ WorkFrom(inv', ops', Own', Part') /\ WithinBorn(inv, ops)'
         /\ CallsFit' /\ RunFits'
<1>1. TypeInv /\ WorkFrom(inv, ops, Own, Part) /\ WithinBorn(inv, ops) /\ CallsFit /\ RunFits
      /\ Typed(inv, ops, Own)
  BY WorkIsTyped DEF WorkInv
<1>2. run # Idle /\ UNCHANGED <<calls, replay, born>>
  BY <1>1, PhaseKeeps
<1>3. run \in [op : OpIds, app : Operations, phase : Phases]
  BY <1>1, <1>2 DEF TypeInv, TypeOK
\* A phase that writes owners only.
<1>4. ASSUME NEW P \in SUBSET Work, ~Complete, inv' = inv,
             \A s \in Work : Owner(s)' = IF s \in P THEN NewOwner(s, Owner(s)) ELSE Owner(s),
             \A s \in Work : Reached(s)' => Reached(s) \/ s \in P,
             run'.phase # "complete"
      PROVE  /\ WorkFrom(inv', ops', Own', Part') /\ WithinBorn(inv, ops)'
             /\ CallsFit' /\ RunFits'
  <2>1. run' # Idle /\ run'.op = run.op /\ App' = App /\ ops' = ops
    BY <1>1, <1>4, PhaseEffect DEF App
  <2>2. WorkFrom(inv', ops', Own', Part') /\ RunFits'
    BY <1>2, <1>4, <2>1, OwnersWork
  <2>3. WithinBorn(inv, ops)' /\ CallsFit'
    BY <1>1, <1>2, <1>4, <2>1 DEF WithinBorn, CallsFit
  <2> QED
    BY <2>2, <2>3
<1>5. CASE ApplyEntries
  <2>1. run.phase = "entries" /\ run'.phase = "expenses" /\ inv' = inv /\ charges' = charges
    BY <1>3, <1>5 DEF ApplyEntries, EnterPhase, coreVars
  <2>2. \A s \in Work : Owner(s)' = IF s \in Entries THEN NewOwner(s, Owner(s)) ELSE Owner(s)
    BY <1>5, <2>1 DEF ApplyEntries, Owner
  <2>3. \A s \in Work : Reached(s)' => Reached(s) \/ s \in Entries
    BY <2>1 DEF Reached
  <2>4. Entries \in SUBSET Work /\ ~Complete
    BY <2>1 DEF Work, Complete
  <2> QED
    BY <1>4, <2>1, <2>2, <2>3, <2>4
<1>6. CASE ApplyExpenses
  <2>1. run.phase = "expenses" /\ run'.phase = "tasks" /\ inv' = inv /\ ents' = ents
    BY <1>3, <1>6 DEF ApplyExpenses, EnterPhase
  <2>2. \A s \in Work : Owner(s)' = IF s \in Expenses THEN NewOwner(s, Owner(s)) ELSE Owner(s)
    BY <1>6, <2>1 DEF ApplyExpenses, Owner, Work
  <2>3. \A s \in Work : Reached(s)' => Reached(s) \/ s \in Expenses
    BY <2>1 DEF Reached
  <2>4. Expenses \in SUBSET Work /\ ~Complete
    BY <2>1 DEF Work, Complete
  <2> QED
    BY <1>4, <2>1, <2>2, <2>3, <2>4
<1>7. CASE ApplyTasks
  <2>1. run.phase = "tasks" /\ run'.phase = "links" /\ inv' = inv /\ ents' = ents
    BY <1>3, <1>7 DEF ApplyTasks, EnterPhase
  <2>2. \A s \in Work : Owner(s)' = IF s \in Quotes THEN NewOwner(s, Owner(s)) ELSE Owner(s)
    BY <1>7, <2>1 DEF ApplyTasks, Owner, Work
  <2>3. \A s \in Work : Reached(s)' => Reached(s) \/ s \in Quotes
    BY <2>1 DEF Reached
  <2>4. Quotes \in SUBSET Work /\ ~Complete
    BY <2>1 DEF Work, Complete
  <2> QED
    BY <1>4, <2>1, <2>2, <2>3, <2>4
<1>8. CASE ApplyLinks
  <2>1. run.phase = "links" /\ run'.phase = "invoice" /\ UNCHANGED <<inv, ents, charges>>
    BY <1>3, <1>8 DEF ApplyLinks, EnterPhase
  <2>2. \A s \in Work : Owner(s)' = IF s \in {} THEN NewOwner(s, Owner(s)) ELSE Owner(s)
    BY <2>1 DEF Owner
  <2>3. \A s \in Work : Reached(s)' => Reached(s) \/ s \in {}
    BY <2>1 DEF Reached
  <2>4. {} \in SUBSET Work /\ ~Complete
    BY <2>1 DEF Complete
  <2> QED
    BY <1>4, <2>1, <2>2, <2>3, <2>4
<1>9. CASE ApplyInvoice
  <2>1. ~Complete
    BY <1>9 DEF ApplyInvoice, EnterPhase, Complete
  <2>2. run' # Idle /\ run'.op = run.op /\ App' = App
    BY <1>1, <2>1, PhaseEffect DEF App
  <2> QED
    BY <1>2, <1>9, <2>2, InvoicePhaseWork
<1>10. CASE Complete
  <2>1. /\ run' = Idle /\ inv' = inv /\ run.phase = "complete"
        /\ ops'[run.op] = [ops[run.op] EXCEPT !.state = "complete"]
        /\ ops[run.op] \in Operations /\ run.op \in OpIds
        /\ \A n \in OpIds : n # run.op => ops'[n] = ops[n]
        /\ UNCHANGED <<ents, charges>>
    BY <1>1, <1>10, CompleteEffect DEF Complete
  <2>2. Own' = Own /\ \A s \in Work : Own[s] = Owner(s)
    BY <2>1 DEF Own, Owner
  <2>3. /\ App.inv = ops[run.op].inv
        /\ run.op \in Finalizing(ops) \cup Releasing(ops)
        /\ Finalizes(ops[run.op]) <=> Finalizes(App)
        /\ Releases(ops[run.op]) <=> Releases(App)
        /\ Finalizes(App) <=> ~Releases(App)
    BY <1>2, RunIsPart DEF Finalizes, Releases
  <2>4. Finalizes(App) <=> Charged(inv[App.inv])
    BY <1>1, <1>2, <2>1 DEF RunFits
  <2>5. Releases(App) => \A s \in Work : Own[s] # App.inv
    <3>1. \A s \in Work : Reached(s)
      BY <2>1 DEF Reached, Work
    <3> QED
      BY <1>1, <1>2, <2>2, <3>1 DEF RunFits
  <2>6. Part \ {run.op} \subseteq Part'
    BY <1>2, <2>1 DEF Part, Pending
  <2>7. ops'[run.op].state = "complete" /\ ops'[run.op].kind = ops[run.op].kind
        /\ ops'[run.op].inv = ops[run.op].inv
    BY <2>1 DEF Operations
  <2>8. WorkFrom(inv, ops', Own, Part')
    <3> DEFINE n == run.op
               later == ops'
               rest == Part'
    <3>1. /\ Finalizes(ops[n]) => Charged(inv[ops[n].inv])
          /\ Releases(ops[n]) => /\ ~Charged(inv[ops[n].inv])
                                 /\ \A s \in Work : Own[s] # ops[n].inv
      BY <2>3, <2>4, <2>5
    <3>2. /\ n \in Finalizing(ops) \cup Releasing(ops) /\ Part \ {n} \subseteq rest
          /\ later[n].state = "complete" /\ \A m \in OpIds : m # n => later[m] = ops[m]
      BY <2>1, <2>3, <2>6, <2>7
    <3> HIDE DEF n, later, rest
    <3>3. WorkFrom(inv, later, Own, rest)
      BY <1>1, <3>1, <3>2, CompleteWork
    <3> QED
      BY <3>3 DEF later, rest
  <2>9. WithinBorn(inv, ops)'
    BY <1>1, <1>2, <2>1, <2>7 DEF WithinBorn
  <2>10. CallsFit'
    <3>1. \A n \in Finalizing(ops') : n \in Finalizing(ops) /\ ops'[n] = ops[n]
      BY <2>1, <2>7 DEF Finalizing
    <3> QED
      BY <1>1, <1>2, <2>1, <3>1 DEF CallsFit
  <2> QED
    BY <2>1, <2>2, <2>8, <2>9, <2>10 DEF RunFits
<1> QED
  BY <1>5, <1>6, <1>7, <1>8, <1>9, <1>10 DEF ApplyPhase

\* An application starts from the plan of the journal: nothing is marked yet
\* by its phases, and a release takes all the work its invoice owns.
LEMMA StartWork ==
  ASSUME WorkInv, run = Idle, NEW n \in Pending, Apply(n, "prepared"),
         UNCHANGED <<inv, ops, ents, charges, born>>, calls' \subseteq calls,
         Part \subseteq Part'
  PROVE  /\ WorkFrom(inv', ops', Own', Part') /\ WithinBorn(inv, ops)'
         /\ CallsFit' /\ RunFits'
<1>1. /\ TypeInv /\ WorkFrom(inv, ops, Own, Part) /\ WithinBorn(inv, ops) /\ CallsFit
      /\ Typed(inv, ops, Own)
  BY WorkIsTyped DEF WorkInv
<1>2. n \in OpIds /\ ops[n].state = "prepared"
  BY DEF Pending
<1>3. ops[n] \in Operations /\ ops[n] # NoOp
  BY <1>1, <1>2, ReleasesAreTyped, NoOpIsNoPlan
<1> DEFINE app == IF ops[n].kind = "cancel" THEN CancelReplay(ops[n]) ELSE ops[n]
<1>4. run' = [op |-> n, phase |-> "entries", app |-> app]
  BY DEF Apply, Superseded
<1>5. App' = app /\ run'.phase = "entries"
  <2> HIDE DEF app
  <2> QED BY <1>4 DEF App
<1>6. Own' = Own /\ \A s \in Work : Own[s] = Owner(s) /\ Owner(s)' = Owner(s)
  BY DEF Own, Owner
<1>7. \A s \in Work : ~Reached(s)'
  BY <1>5, WorkAssumption DEF Reached, Work
<1>8. app.kind = ops[n].kind /\ app.inv = ops[n].inv
  BY <1>1, <1>3, CancelReplayType DEF TypeInv
<1>9. Finalizes(app) => app.sel = app.srcs /\ app.srcs \subseteq Work
  <2> SUFFICES ASSUME Finalizes(app) PROVE app.sel = app.srcs /\ app.srcs \subseteq Work
    OBVIOUS
  <2>1. app = ops[n] /\ n \in Finalizing(ops)
    BY <1>2, <1>8 DEF Finalizes, Finalizing
  <2> HIDE DEF app
  <2> QED
    BY <1>1, <1>3, <2>1 DEF WorkFrom, PlansFit, Operations
<1>10. Releases(app) => OwnedBy(app.inv) \subseteq app.srcs
  <2>1. CASE ops[n].kind = "cancel"
    <3>1. app.srcs = ops[n].srcs \cup OwnedBy(ops[n].inv)
      BY <1>3, <2>1 DEF CancelReplay, Operations
    <3> HIDE DEF app
    <3> QED BY <1>8, <3>1
  <2>2. CASE ops[n].kind = "undo"
    <3>1. app = ops[n] /\ n \in Releasing(ops)
      BY <1>2, <2>2 DEF Releasing, Releases
    <3> HIDE DEF app
    <3> QED BY <1>1, <1>6, <2>2, <3>1 DEF WorkFrom, PlansFit, OwnedBy
  <2> HIDE DEF app
  <2> QED
    BY <1>8, <2>1, <2>2 DEF Releases
<1> HIDE DEF app
<1>11. RunFits'
  <2>1. \A i : {s \in Work : Owner(s)' = i} = {s \in Work : Owner(s) = i}
    BY <1>6
  <2>2. /\ Finalizes(App)' => /\ App'.sel = App'.srcs /\ App'.srcs \subseteq Work
        /\ Releases(App)' => OwnedBy(App'.inv) \subseteq App'.srcs
        /\ run'.phase = "entries"
    BY <1>5, <1>9, <1>10 DEF Finalizes, Releases
  <2> QED
    BY <1>7, <2>1, <2>2 DEF RunFits, OwnedBy
<1>12. WorkFrom(inv', ops', Own', Part')
  BY <1>1, <1>6, MorePart
<1>13. WithinBorn(inv, ops)' /\ CallsFit'
  BY <1>1 DEF WithinBorn, CallsFit
<1> QED
  BY <1>11, <1>12, <1>13

\* A crash forgets what memory held and keeps what the two databases hold, and
\* start-up takes every plan that is not complete as applied in part.
LEMMA CrashWork ==
  ASSUME WorkInv, CrashAndRestart
  PROVE  WorkFrom(inv', ops', Own', Part') /\ WithinBorn(inv, ops)' /\ CallsFit' /\ RunFits'
<1>1. /\ inv' = coreDisk.inv /\ ops' = coreDisk.ops /\ born' = born
      /\ charges' = coreDisk.charges /\ ents' = entsDisk
      /\ run' = Idle /\ calls' = {}
      /\ replay'.todo = {n \in OpIds : coreDisk.ops[n].state = "prepared"}
  BY DEF CrashAndRestart
<1>2. Own' = OwnDisk
  BY <1>1 DEF Own, OwnDisk, Owner
<1>3. Part' = PartDisk
  BY <1>1 DEF Part, PartDisk, Pending
<1> QED
  BY <1>1, <1>2, <1>3 DEF WorkInv, WithinBorn, CallsFit, RunFits

\* The invariant through every step, where the databases are written in the
\* order of the changes.
LEMMA NextWorkInv ==
  ASSUME PostSync = FALSE, InOrder, "cancel" \notin Features \/ "payAfterRates" \notin Features,
         WorkInv, [Next]_vars
  PROVE  WorkInv'
<1> DEFINE Memory == /\ WorkFrom(inv, ops, Own, Part) /\ WithinBorn(inv, ops)
                     /\ RunFits /\ CallsFit
           Disk == /\ WorkFrom(coreDisk.inv, coreDisk.ops, OwnDisk, PartDisk)
                   /\ WithinBorn(coreDisk.inv, coreDisk.ops)
<1>1. TypeInv' /\ RunIsJournaled' /\ BootFirst' /\ OnceEach'
  BY NextTypeInv, RunStaysJournaled, NextBootFirst, NextOnceEach DEF WorkInv
<1>2. TypeInv /\ BootFirst /\ OnceEach /\ Memory /\ Disk
  BY DEF WorkInv
<1>3. /\ born \in Nat /\ Invoices \subseteq Nat
      /\ \A n \in OpIds : coreDisk.ops[n].inv \in Nat
  BY <1>2 DEF TypeInv, TypeOK, CoreStates, Invoices, Operations, NoOp
<1>4. SUFFICES Memory' /\ Disk'
  BY <1>1 DEF WorkInv
\* A step that writes neither database.
<1>5. ASSUME UNCHANGED <<coreDisk, entsDisk>>, born' \in {born, born + 1}
      PROVE  Disk'
  <2>1. OwnDisk' = OwnDisk /\ PartDisk' = PartDisk
    BY <1>5 DEF OwnDisk, PartDisk
  <2>2. /\ \A i \in Invoices : i > born' => i > born
        /\ \A n \in OpIds : coreDisk.ops[n].inv <= born => coreDisk.ops[n].inv <= born'
    BY <1>3, <1>5
  <2> QED
    BY <1>2, <1>5, <2>1, <2>2 DEF WithinBorn
\* A step that only takes a plan from where it waited.
<1>6. ASSUME UNCHANGED <<inv, ops, ents, charges, born, run>>, calls' = calls, Part' = Part
      PROVE  Memory'
  <2>1. Own' = Own /\ \A s \in Work : Owner(s)' = Owner(s)
    BY <1>6 DEF Own, Owner
  <2>2. RunFits'
    BY <1>2, <1>6 DEF RunFits, App, OwnedBy, Owner, Reached
  <2> QED
    BY <1>2, <1>6, <2>1, <2>2 DEF WithinBorn, CallsFit
<1>7. CASE Command
  <2>1. run = Idle /\ UNCHANGED <<coreDisk, entsDisk, run>>
    BY <1>2, <1>7, CommandKeeps
  <2>2. /\ WorkFrom(inv', ops', Own', Part') /\ WithinBorn(inv, ops)' /\ CallsFit'
        /\ born' \in {born, born + 1}
    BY <1>7, CommandWork
  <2>3. RunFits'
    BY <2>1 DEF RunFits
  <2> QED
    BY <1>5, <2>1, <2>2, <2>3
<1>8. CASE ApplyPhase
  <2>1. UNCHANGED <<coreDisk, entsDisk, born>>
    BY <1>2, <1>8, PhaseKeeps
  <2> QED
    BY <1>5, <1>8, <2>1, PhaseWork
<1>9. CASE \E c \in calls : ApplyOwn(c)
  <2>1. PICK c \in calls : ApplyOwn(c)
    BY <1>9
  <2>2. /\ run = Idle /\ c.kind = "apply" /\ Apply(c.op, "prepared") /\ calls' \subseteq calls
        /\ UNCHANGED <<inv, ops, charges, ents, coreDisk, entsDisk, born, replay>>
    BY <2>1 DEF ApplyOwn, coreVars, diskVars
  <2>3. c.op \in OpIds
    BY <1>2, <2>2 DEF TypeInv, TypeOK, Calls
  <2>4. c.op \in Pending
    BY <1>2, <2>2, <2>3 DEF OnceEach, Pending
  <2>5. Part \subseteq Part'
    BY <2>2 DEF Part, Pending
  <2> QED
    BY <1>5, <2>2, <2>4, <2>5, StartWork
<1>10. CASE ReplayNext
  <2>1. PICK n \in replay.todo :
           /\ n \in OpIds /\ ops[n] # NoOp
           /\ Apply(n, IF n \in replay.done THEN "complete" ELSE "prepared")
           /\ replay'.todo = replay.todo \ {n}
           /\ replay'.mode = replay.mode /\ replay'.done = replay.done
    BY <1>2, <1>10, ReplayNextEffect
  <2>2. replay.mode = "boot"
    BY <1>2, <2>1 DEF OnceEach, TypeInv, TypeOK
  <2>3. Apply(n, "prepared") /\ n \in Pending
    BY <1>2, <2>1, <2>2 DEF BootFirst, OnceEach, Pending
  <2>4. run = Idle /\ UNCHANGED <<inv, ops, charges, ents, coreDisk, entsDisk, born, calls>>
    BY <1>10 DEF ReplayNext, coreVars, diskVars
  <2>5. run' # Idle /\ run'.op = n
    BY <1>2, <2>1, <2>3, ApplyEffect
  <2>6. Part \subseteq Part'
    BY <2>1, <2>4, <2>5 DEF Part, Pending
  <2> QED
    BY <1>5, <2>3, <2>4, <2>6, StartWork
<1>11. CASE StartReplay
  BY <1>11 DEF StartReplay
<1>12. CASE EndReplay
  <2>1. /\ UNCHANGED <<inv, ops, charges, ents, coreDisk, entsDisk, born, calls, run>>
        /\ replay.todo = {} /\ replay'.todo = {}
    BY <1>12 DEF EndReplay, NoReplay, coreVars, diskVars
  <2>2. Part' = Part
    BY <2>1 DEF Part, Pending
  <2> QED
    BY <1>5, <1>6, <2>1, <2>2
<1>13. CASE Persist
  <2>1. /\ UNCHANGED <<inv, ops, charges, ents, born, calls, run, replay>>
        /\ coreDisk' = Core /\ entsDisk' = ents
    BY <1>13 DEF Persist, PersistBoth, PersistCore, PersistEntries, coreVars
  <2>2. coreDisk'.inv = inv /\ coreDisk'.ops = ops /\ coreDisk'.charges = charges
    BY <2>1 DEF Core
  <2>3. Part' = Part
    BY <2>1 DEF Part, Pending
  <2>4. OwnDisk' = Own
    BY <2>1, <2>2 DEF OwnDisk, Own, Owner
  <2>5. Part \subseteq PartDisk'
    BY <2>2 DEF Part, PartDisk, Pending
  <2>6. WorkFrom(coreDisk'.inv, coreDisk'.ops, OwnDisk', PartDisk')
    BY <1>2, <2>2, <2>4, <2>5, MorePart
  <2>7. WithinBorn(coreDisk.inv, coreDisk.ops)'
    BY <1>2, <2>1, <2>2 DEF WithinBorn
  <2> QED
    BY <1>6, <2>1, <2>3, <2>6, <2>7
<1>14. CASE CrashAndRestart
  <2>1. UNCHANGED <<coreDisk, entsDisk, born>>
    BY <1>14 DEF CrashAndRestart, diskVars
  <2> QED
    BY <1>5, <1>14, <2>1, CrashWork
<1>15. CASE UNCHANGED vars
  <2>1. UNCHANGED <<inv, ops, charges, ents, coreDisk, entsDisk, born, calls, run, replay>>
    BY <1>15 DEF vars
  <2>2. Part' = Part
    BY <2>1 DEF Part, Pending
  <2> QED
    BY <1>5, <1>6, <2>1, <2>2
<1> QED
  BY <1>7, <1>8, <1>9, <1>10, <1>11, <1>12, <1>13, <1>14, <1>15 DEF Next

\* No client is charged twice for the same work, however the commands, the
\* phases of their plans, the crashes and the start-up replays interleave.  It
\* is proved for a device that replays only at start-up (after a sync a replay
\* applies completed plans again), whose two databases are written in the
\* order of the changes (else the markers of the entries may be lost and the
\* journal kept), and that does not both cancel invoices and record payments
\* after an await: a late payment brings a canceled invoice back, whose work
\* may have been billed again.
THEOREM WorkIsBilledOnce ==
  ASSUME PostSync = FALSE, InOrder, "cancel" \notin Features \/ "payAfterRates" \notin Features
  PROVE  Spec => []NoDoubleBilling
<1>1. WorkInv /\ [Next]_vars => WorkInv'
  BY NextWorkInv
<1>2. WorkInv => NoDoubleBilling
  <2> SUFFICES ASSUME WorkInv, NEW i \in Live, NEW j \in Live, i # j,
                      NEW s \in inv[i].sel \cap inv[j].sel
               PROVE  FALSE
    BY DEF NoDoubleBilling
  <2>1. i \in Invoices /\ j \in Invoices /\ Charged(inv[i]) /\ Charged(inv[j])
    BY DEF Live, Charged
  <2>2. s \in Work
    BY <2>1 DEF WorkInv, TypeInv, TypeOK, InvoiceRecords
  <2>3. Holds(i, s, inv, ops) /\ Holds(j, s, inv, ops)
    BY <2>1 DEF Holds
  <2> QED
    BY <2>1, <2>2, <2>3 DEF WorkInv, WorkFrom, OneHolder
<1> QED
  BY <1>1, <1>2, InitWorkInv, PTL DEF Spec

\* When everything has settled, the work an invoice charges for is marked as
\* billed by it and no marker is stranded: the phases of every plan took effect
\* together, or start-up finished them.  The hypotheses are those of
\* WorkIsBilledOnce.
THEOREM MarkersMatchInvoices ==
  ASSUME PostSync = FALSE, InOrder, "cancel" \notin Features \/ "payAfterRates" \notin Features
  PROVE  Spec => []ClaimsMatchInvoices
<1>1. WorkInv /\ [Next]_vars => WorkInv'
  BY NextWorkInv
<1>2. WorkInv => ClaimsMatchInvoices
  <2> SUFFICES ASSUME WorkInv, Settled
               PROVE  /\ \A i \in Live : inv[i].sel \subseteq OwnedBy(i)
                      /\ \A s \in Work : Owner(s) # None => Owner(s) \in Live
    BY DEF ClaimsMatchInvoices
  <2>1. Finalizing(ops) = {} /\ Releasing(ops) = {}
    BY DEF Settled, Pending, Finalizing, Releasing
  <2>2. \A i \in Live : i \in Invoices /\ Charged(inv[i]) /\ inv[i].sel \subseteq Work
    BY DEF Live, Charged, WorkInv, TypeInv, TypeOK, InvoiceRecords
  <2>3. \A s \in Work : Own[s] = Owner(s) /\ Owner(s) \in Owners
    BY WorkIsTyped DEF Own, WorkInv, Typed
  <2>4. \A i \in Live : \A s \in inv[i].sel : Own[s] = i
    BY <2>1, <2>2 DEF WorkInv, WorkFrom, Marked
  <2>5. \A s \in Work : Own[s] # None => Charged(inv[Own[s]])
    BY <2>1 DEF WorkInv, WorkFrom, Accounted
  <2> QED
    BY <2>2, <2>3, <2>4, <2>5 DEF OwnedBy, Live, Charged, Owners
<1> QED
  BY <1>1, <1>2, InitWorkInv, PTL DEF Spec

-----------------------------------------------------------------------------
(* The links and the sequence follow the invoices, where invoices are      *)
(* finalized without a saved draft and an undo runs alone.                 *)

\* Whatever a command adds to the journal it waits for, and it takes no
\* application away from the commands that wait.
LEMMA CommandWaits ==
  ASSUME TypeInv, Command
  PROVE  /\ \A n \in OpIds : [kind |-> "apply", op |-> n] \in calls =>
                               [kind |-> "apply", op |-> n] \in calls'
         /\ \A n \in OpIds : ops'[n] = ops[n] \/ [kind |-> "apply", op |-> n] \in calls'
<1> DEFINE call(n) == [kind |-> "apply", op |-> n]
           Goal == /\ \A n \in OpIds : call(n) \in calls => call(n) \in calls'
                   /\ \A n \in OpIds : ops'[n] = ops[n] \/ call(n) \in calls'
<1>1. ASSUME NEW n \in OpIds, NEW op, Journal(n, op)
      PROVE  \A m \in OpIds : m # n => ops'[m] = ops[m]
  BY <1>1 DEF Journal, TypeInv, TypeOK
<1>2. ASSUME NEW sel \in Selections, SaveDraft(sel) PROVE Goal
  BY <1>2 DEF SaveDraft
<1>3. ASSUME NEW i \in Invoices, NEW sel \in Selections, RefreshDraft(i, sel) PROVE Goal
  BY <1>3 DEF RefreshDraft
<1>4. ASSUME NEW i \in Invoices, DeleteDraft(i) PROVE Goal
  BY <1>4 DEF DeleteDraft
<1>5. ASSUME NEW n \in OpIds, NEW i \in Invoices, NEW sel \in Selections \cup {inv[i].sel},
             PrepareFinalize(n, i, sel)
      PROVE Goal
  BY <1>1, <1>5 DEF PrepareFinalize
<1>6. ASSUME NEW i \in Invoices, BeginUndo(i) PROVE Goal
  BY <1>6 DEF BeginUndo, coreVars
<1>7. ASSUME NEW n \in OpIds, NEW c \in calls, PrepareUndo(n, c) PROVE Goal
  <2>1. c.kind = "undo" /\ calls' = (calls \ {c}) \cup {call(n)}
    BY <1>7 DEF PrepareUndo
  <2>2. \A m \in OpIds : m # n => ops'[m] = ops[m]
    BY <1>1, <1>7 DEF PrepareUndo
  <2>3. \A m \in OpIds : call(m) # c
    BY <2>1
  <2> QED BY <2>1, <2>2, <2>3
<1>8. ASSUME NEW n \in OpIds, NEW i \in Invoices, PrepareCancel(n, i) PROVE Goal
  BY <1>1, <1>8 DEF PrepareCancel
<1>9. ASSUME NEW i \in Invoices, Pay(i) \/ MarkUnpaid(i) \/ BeginPay(i) PROVE Goal
  BY <1>9 DEF Pay, MarkUnpaid, BeginPay, SetStatus, coreVars
<1>10. ASSUME NEW c \in calls, FinishPay(c) PROVE Goal
  <2>1. c.kind = "pay" /\ calls' = calls \ {c} /\ ops' = ops
    BY <1>10 DEF FinishPay, SetStatus
  <2>2. \A m \in OpIds : call(m) # c
    BY <2>1
  <2> QED BY <2>1, <2>2
<1> HIDE DEF Goal
<1>11. Goal
  BY <1>2, <1>3, <1>4, <1>5, <1>6, <1>7, <1>8, <1>9, <1>10 DEF Command
<1> QED
  BY <1>11 DEF Goal

\* Whatever is still to be applied is waited for, through every step.
LEMMA NextAllAwaited ==
  ASSUME TypeInv, BootFirst, AllAwaited, [Next]_vars
  PROVE  AllAwaited'
<1> DEFINE call(n) == [kind |-> "apply", op |-> n]
<1>1. CASE Command
  <2>1. Ready /\ replay' = replay /\ run' = run /\ run = Idle
    BY <1>1, CommandEffect DEF Ready
  <2>2. \A n \in Pending : call(n) \in calls
    BY <2>1 DEF AllAwaited, Ready
  <2>3. \A n \in Pending' : call(n) \in calls'
    BY <1>1, <2>2, CommandWaits DEF Pending
  <2> QED
    BY <2>3 DEF AllAwaited
<1>2. CASE Complete
  <2>1. run.op \in OpIds /\ ops'[run.op].state = "complete" /\ UNCHANGED <<calls, replay>>
        /\ \A n \in OpIds : n # run.op => ops'[n] = ops[n]
    BY <1>2, CompleteEffect DEF Operations
  <2>2. \A n \in Pending' : n \in Pending /\ n # run.op
    BY <2>1 DEF Pending
  <2> QED
    BY <2>1, <2>2 DEF AllAwaited
<1>3. CASE ApplyPhase /\ ~Complete
  <2>1. run' # Idle /\ run'.op = run.op /\ ops' = ops /\ UNCHANGED <<calls, replay>>
    BY <1>3, PhaseEffect
  <2> QED
    BY <2>1 DEF AllAwaited, Pending
<1>4. CASE \E c \in calls : ApplyOwn(c)
  <2>1. PICK c \in calls : ApplyOwn(c)
    BY <1>4
  <2>2. c.kind = "apply" /\ c.op \in OpIds /\ ops[c.op] # NoOp /\ run = Idle
    BY <2>1 DEF ApplyOwn, TypeInv, TypeOK, PlansAreJournaled, Calls
  <2>3. /\ Apply(c.op, "prepared") /\ calls' = calls \ {c} /\ UNCHANGED <<ops, replay>>
    BY <2>1 DEF ApplyOwn, coreVars
  <2>4. run' # Idle /\ run'.op = c.op
    BY <2>2, <2>3, ApplyEffect
  <2>5. \A n \in OpIds : call(n) \in calls => call(n) \in calls' \/ n = c.op
    <3>1. \A n \in OpIds : call(n) = c => n = c.op
      OBVIOUS
    <3> QED BY <2>3, <3>1
  <2> QED
    BY <2>2, <2>3, <2>4, <2>5 DEF AllAwaited, Pending
<1>5. CASE ReplayNext
  <2>1. PICK n \in replay.todo :
           /\ n \in OpIds /\ ops[n] # NoOp
           /\ Apply(n, IF n \in replay.done THEN "complete" ELSE "prepared")
           /\ replay'.todo = replay.todo \ {n}
           /\ replay'.mode = replay.mode /\ replay'.done = replay.done
    BY <1>5, ReplayNextEffect
  <2>2. UNCHANGED <<ops, calls>> /\ run = Idle
    BY <1>5 DEF ReplayNext, coreVars
  <2>3. CASE replay.mode # "boot"
    BY <2>1, <2>2, <2>3 DEF AllAwaited, Pending
  <2>4. CASE replay.mode = "boot"
    <3>1. run' # Idle /\ run'.op = n
      BY <2>1, <2>4, ApplyEffect DEF BootFirst
    <3> QED
      BY <2>1, <2>2, <3>1 DEF AllAwaited, Pending
  <2> QED
    BY <2>3, <2>4
<1>6. CASE StartReplay \/ EndReplay
  <2>1. UNCHANGED <<ops, calls, run>>
    BY <1>6, ReplayKeeps
  <2> QED
    BY <1>6, <2>1 DEF AllAwaited, Pending, StartReplay, EndReplay, Ready
<1>7. CASE Persist \/ UNCHANGED vars
  BY <1>7 DEF Persist, PersistBoth, PersistCore, PersistEntries, vars, coreVars, AllAwaited,
     Pending
<1>8. CASE CrashAndRestart
  <2>1. /\ ops' = coreDisk.ops /\ replay'.mode = "boot"
        /\ replay'.todo = {n \in OpIds : coreDisk.ops[n].state = "prepared"}
    BY <1>8 DEF CrashAndRestart
  <2> QED
    BY <2>1 DEF AllAwaited, Pending
<1> QED
  BY <1>1, <1>2, <1>3, <1>4, <1>5, <1>6, <1>7, <1>8 DEF Next, ApplyPhase

\* The invoices, the journal, the links and the sequence of one state: what
\* is linked is issued, or its finalization is still to be applied; what is
\* issued is linked and behind the sequence, or its undo is still to be
\* applied.  An undo rewinds the sequence past no other invoice.
LinksFrom(invs, journal, links, next) ==
  /\ \A i \in Invoices : invs[i].status # "draft"
  /\ \A i \in links :
       \/ IsIssued(invs[i])
       \/ \E n \in OpIds : /\ Finalizes(journal[n]) /\ journal[n].state = "prepared"
                           /\ journal[n].inv = i
  /\ \A i \in Invoices : IsIssued(invs[i]) =>
       \/ i \in links /\ invs[i].num < next
       \/ \E n \in OpIds : /\ journal[n].kind = "undo" /\ journal[n].state = "prepared"
                           /\ journal[n].inv = i
  /\ \A n \in OpIds : Finalizes(journal[n]) => journal[n].seqTo = journal[n].num + 1
  /\ \A n \in OpIds : journal[n].kind = "undo" =>
       /\ "undo" \in Features
       /\ (journal[n].state = "prepared" /\ journal[n].seqTo # 0) =>
            \A j \in Invoices : IsIssued(invs[j]) /\ j # journal[n].inv =>
                                  invs[j].num < journal[n].seqTo
  /\ "undo" \in Features =>
       \A n, m \in OpIds : journal[n].state = "prepared" /\ journal[m].state = "prepared" =>
                             n = m
  /\ "undo" \notin Features =>
       \A n \in OpIds : Finalizes(journal[n]) /\ journal[n].state = "complete" =>
                          IsIssued(invs[journal[n].inv])

\* An undo that waits knows the number of its invoice and of every other, and
\* nothing is applied meanwhile.
UndoWaits ==
  \A c \in calls : c.kind = "undo" =>
    /\ "undo" \in Features /\ run = Idle /\ replay.mode = "none"
    /\ c.rec.num = inv[c.inv].num
    /\ \A j \in Invoices : inv[j].status # "absent" /\ j # c.inv => inv[j].num \in c.others

\* How far the application has come with the links and the invoice.
RunHasLinked ==
  run # Idle =>
    /\ App.kind # "cancel" => App.seqTo = ops[run.op].seqTo
    /\ (run.phase = "invoice" /\ Finalizes(App)) => App.inv \in linked /\ App.num < seq
    /\ (run.phase = "invoice" /\ App.kind = "undo") => App.inv \notin linked
    /\ (run.phase = "complete" /\ Finalizes(App)) => IsIssued(inv[App.inv])
    /\ (run.phase = "complete" /\ App.kind = "undo") => inv[App.inv].status = "absent"

LinksInv ==
  /\ TypeInv /\ RunIsJournaled /\ BootFirst
  /\ PostSync = FALSE => OnceEach
  /\ LinksFrom(inv, ops, linked, seq)
  /\ LinksFrom(coreDisk.inv, coreDisk.ops, coreDisk.linked, coreDisk.seq)
  /\ AllAwaited /\ ("undo" \in Features => OneWait) /\ UndoWaits /\ RunHasLinked

\* An empty workspace has linked nothing.
LEMMA InitLinksInv == Init => LinksInv
<1> SUFFICES ASSUME Init PROVE LinksInv
  OBVIOUS
<1>1. /\ \A n \in OpIds : ops[n] = NoOp
      /\ \A i \in Invoices : inv[i] = Absent
      /\ linked = {}
  BY DEF Init
<1>2. ~Finalizes(NoOp) /\ NoOp.kind # "undo" /\ NoOp.state \notin {"prepared", "complete"}
  BY DEF NoOp, Finalizes
<1>3. ~IsIssued(Absent) /\ Absent.status # "draft"
  BY DEF Absent, IsIssued
<1>4. LinksFrom(inv, ops, linked, seq)
  BY <1>1, <1>2, <1>3 DEF LinksFrom
<1>5. /\ coreDisk.inv = inv /\ coreDisk.ops = ops
      /\ coreDisk.linked = linked /\ coreDisk.seq = seq
  BY DEF Init, Core
<1>6. calls = {} /\ run = Idle /\ replay = NoReplay /\ Pending = {}
  BY <1>1, <1>2 DEF Init, Pending
<1>7. BootFirst /\ OnceEach /\ AllAwaited /\ OneWait /\ UndoWaits /\ RunHasLinked
      /\ RunIsJournaled
  BY <1>6 DEF BootFirst, OnceEach, AllAwaited, OneWait, UndoWaits, RunHasLinked,
              RunIsJournaled, NoReplay
<1> QED
  BY <1>4, <1>5, <1>7, InitTypeInv DEF LinksInv

\* Records change, and neither which invoices are issued nor their numbers.
LEMMA RecordLinks ==
  ASSUME LinksInv, UNCHANGED <<ops, linked, seq>>,
         \A i \in Invoices : /\ inv'[i].num = inv[i].num /\ inv'[i].status # "draft"
                             /\ IsIssued(inv'[i]) <=> IsIssued(inv[i])
  PROVE  LinksFrom(inv, ops, linked, seq)'
<1>1. LinksFrom(inv, ops, linked, seq) /\ linked \subseteq Invoices
      /\ \A n \in OpIds : Finalizes(ops[n]) => ops[n].inv \in Invoices
  BY FinalizationsAreTyped DEF LinksInv, TypeInv, TypeOK
<1> QED
  BY <1>1 DEF LinksFrom

\* A plan is journaled, the only one left to apply where there is undo.
LEMMA PlanLinks ==
  ASSUME LinksInv, NEW n \in OpIds, NEW op, Journal(n, op), op.state = "prepared",
         UNCHANGED <<inv, linked, seq>>,
         "undo" \in Features => Pending = {},
         Finalizes(op) => op.seqTo = op.num + 1,
         op.kind = "undo" =>
           /\ "undo" \in Features
           /\ op.seqTo # 0 =>
                \A j \in Invoices : IsIssued(inv[j]) /\ j # op.inv => inv[j].num < op.seqTo
  PROVE  LinksFrom(inv, ops, linked, seq)'
<1>1. LinksFrom(inv, ops, linked, seq) /\ ops \in [OpIds -> Operations \cup {NoOp}]
  BY DEF LinksInv, TypeInv, TypeOK
<1>2. ops'[n] = op /\ (\A m \in OpIds : m # n => ops'[m] = ops[m]) /\ ops[n] = NoOp
  BY <1>1 DEF Journal, NextOp
<1>3. ~Finalizes(ops[n]) /\ ops[n].kind # "undo"
  BY <1>2 DEF NoOp, Finalizes
<1>4. /\ \A i \in Invoices : inv'[i].status # "draft"
      /\ \A i \in linked' :
           \/ IsIssued(inv'[i])
           \/ \E m \in OpIds : /\ Finalizes(ops'[m]) /\ ops'[m].state = "prepared"
                               /\ ops'[m].inv = i
  BY <1>1, <1>2, <1>3 DEF LinksFrom
<1>5. \A i \in Invoices : IsIssued(inv'[i]) =>
       \/ i \in linked' /\ inv'[i].num < seq'
       \/ \E m \in OpIds : /\ ops'[m].kind = "undo" /\ ops'[m].state = "prepared"
                           /\ ops'[m].inv = i
  BY <1>1, <1>2, <1>3 DEF LinksFrom
<1>6. \A m \in OpIds : Finalizes(ops'[m]) => ops'[m].seqTo = ops'[m].num + 1
  BY <1>1, <1>2 DEF LinksFrom
<1>7. \A m \in OpIds : ops'[m].kind = "undo" =>
       /\ "undo" \in Features
       /\ (ops'[m].state = "prepared" /\ ops'[m].seqTo # 0) =>
            \A j \in Invoices : IsIssued(inv'[j]) /\ j # ops'[m].inv =>
                                  inv'[j].num < ops'[m].seqTo
  BY <1>1, <1>2 DEF LinksFrom
<1>8. "undo" \in Features =>
        \A k, m \in OpIds : ops'[k].state = "prepared" /\ ops'[m].state = "prepared" => k = m
  BY <1>2 DEF Pending
<1>9. "undo" \notin Features =>
        \A m \in OpIds : Finalizes(ops'[m]) /\ ops'[m].state = "complete" =>
                           IsIssued(inv'[ops'[m].inv])
  BY <1>1, <1>2 DEF LinksFrom
<1> QED
  BY <1>4, <1>5, <1>6, <1>7, <1>8, <1>9 DEF LinksFrom

\* A command that may start waits alone, and finds nothing left to apply.
LEMMA NothingWaits ==
  ASSUME MaxInFlight <= 1, AllAwaited, OneWait, MayStart
  PROVE  calls = {} /\ Pending = {}
<1>1. calls = {}
  <2> SUFFICES ASSUME NEW c \in calls PROVE FALSE
    OBVIOUS
  <2>1. calls = {c}
    BY DEF OneWait
  <2>2. Cardinality(calls) = 1
    BY <2>1, FS_Singleton
  <2> QED
    BY <2>2 DEF MayStart
<1> QED
  BY <1>1 DEF AllAwaited, MayStart, Ready

\* What the commands do.
LEMMA CommandLinks ==
  ASSUME "draft" \notin Features,
         "undo" \notin Features \/ (MaxInFlight <= 1 /\ PostSync = FALSE),
         LinksInv, Command
  PROVE  /\ LinksFrom(inv, ops, linked, seq)'
         /\ ("undo" \in Features => OneWait)' /\ UndoWaits'
<1> DEFINE Goal == /\ LinksFrom(inv, ops, linked, seq)'
                   /\ ("undo" \in Features => OneWait)' /\ UndoWaits'
<1>1. /\ inv \in [Invoices -> InvoiceRecords] /\ calls \subseteq Calls
      /\ LinksFrom(inv, ops, linked, seq) /\ AllAwaited /\ UndoWaits
      /\ "undo" \in Features => OneWait
      /\ PostSync = FALSE => replay.mode # "sync"
      /\ replay.mode \in {"none", "boot", "sync"}
  BY DEF LinksInv, TypeInv, TypeOK, OnceEach
<1>2. MayStart /\ "undo" \in Features => calls = {} /\ Pending = {}
  BY <1>1, NothingWaits
<1>3. "undo" \notin Features => \A c \in calls : c.kind # "undo"
  BY <1>1 DEF UndoWaits
\* An issued record gets another status, while an undo may wait.
<1>4. ASSUME NEW i \in Invoices, NEW status \in {"sent", "paid"}, IsIssued(inv[i]),
             inv' = [inv EXCEPT ![i].status = status], UNCHANGED <<ops, linked, seq, run, replay>>,
             calls' \subseteq calls
      PROVE Goal
  <2>1. /\ \A j \in Invoices : j # i => inv'[j] = inv[j]
        /\ inv'[i].status = status /\ inv'[i].num = inv[i].num
    BY <1>1, <1>4 DEF InvoiceRecords
  <2>2. \A j \in Invoices : /\ inv'[j].num = inv[j].num /\ inv'[j].status # "draft"
                            /\ IsIssued(inv'[j]) <=> IsIssued(inv[j])
                            /\ inv'[j].status = "absent" <=> inv[j].status = "absent"
    BY <1>1, <1>4, <2>1 DEF IsIssued, LinksFrom
  <2>3. LinksFrom(inv, ops, linked, seq)'
    BY <1>4, <2>2, RecordLinks
  <2>4. \A c \in calls : c.kind = "undo" => c.inv \in Invoices
    BY <1>1 DEF Calls
  <2>5. UndoWaits' /\ ("undo" \in Features => OneWait)'
    BY <1>1, <1>4, <2>2, <2>4 DEF UndoWaits, OneWait
  <2> QED
    BY <2>3, <2>5
\* A plan is journaled.
<1>5. ASSUME NEW n \in OpIds, NEW op, Journal(n, op), LinksFrom(inv, ops, linked, seq)',
             UNCHANGED <<inv, run, replay>>,
             "undo" \in Features => calls' = {[kind |-> "apply", op |-> n]},
             "undo" \notin Features => calls' = calls \cup {[kind |-> "apply", op |-> n]}
      PROVE Goal
  BY <1>3, <1>5 DEF UndoWaits, OneWait
<1>6. ASSUME NEW sel \in Selections, SaveDraft(sel) PROVE FALSE
  BY <1>6 DEF SaveDraft
<1>7. ASSUME NEW i \in Invoices, NEW sel \in Selections, RefreshDraft(i, sel) PROVE FALSE
  BY <1>7 DEF RefreshDraft
<1>8. ASSUME NEW i \in Invoices, DeleteDraft(i) PROVE FALSE
  BY <1>8 DEF DeleteDraft
<1>9. ASSUME NEW n \in OpIds, NEW i \in Invoices, NEW sel \in Selections \cup {inv[i].sel},
             PrepareFinalize(n, i, sel)
      PROVE Goal
  <2> DEFINE op == FinalizeOp(i, sel)
  <2>1. op.state = "prepared" /\ op.kind = "finalize" /\ op.seqTo = op.num + 1
    BY DEF FinalizeOp
  <2>2. /\ Journal(n, op) /\ UNCHANGED <<inv, linked, seq, run, replay>> /\ MayStart
        /\ calls' = calls \cup {[kind |-> "apply", op |-> n]}
    BY <1>9 DEF PrepareFinalize
  <2> HIDE DEF op
  <2>3. LinksFrom(inv, ops, linked, seq)'
    BY <1>2, <2>1, <2>2, PlanLinks
  <2> QED
    BY <1>2, <1>5, <2>2, <2>3
<1>10. ASSUME NEW i \in Invoices, BeginUndo(i) PROVE Goal
  <2>1. calls = {} /\ run = Idle /\ replay.mode = "none" /\ "undo" \in Features
    BY <1>1, <1>2, <1>10 DEF BeginUndo, MayStart, Ready
  <2> DEFINE others == {inv[j].num : j \in {k \in Invoices \ {i} : inv[k].status # "absent"}}
             c == [kind |-> "undo", inv |-> i, rec |-> inv[i], others |-> others]
  <2>2. calls' = {c} /\ c.kind = "undo" /\ c.inv = i /\ c.rec = inv[i]
        /\ \A j \in Invoices : inv[j].status # "absent" /\ j # i => inv[j].num \in c.others
    BY <1>10, <2>1 DEF BeginUndo
  <2> HIDE DEF c
  <2>3. UNCHANGED <<inv, ops, linked, seq, run, replay>>
    BY <1>10 DEF BeginUndo, coreVars
  <2>4. UndoWaits' /\ OneWait'
    BY <2>1, <2>2, <2>3 DEF UndoWaits, OneWait
  <2>5. LinksFrom(inv, ops, linked, seq)'
    BY <1>1, <2>3 DEF LinksFrom
  <2> QED
    BY <2>4, <2>5
<1>11. ASSUME NEW n \in OpIds, NEW c \in calls, PrepareUndo(n, c) PROVE Goal
  <2> DEFINE back == seq = c.rec.num + 1 /\ \A k \in c.others : k < c.rec.num
             to == IF back THEN c.rec.num ELSE 0
             op == ReleaseOp("undo", c.inv, c.rec, to)
  <2>1. op.state = "prepared" /\ op.kind = "undo" /\ op.inv = c.inv /\ op.seqTo = to
    BY DEF ReleaseOp
  <2>2. Journal(n, op) /\ calls' = (calls \ {c}) \cup {[kind |-> "apply", op |-> n]}
        /\ UNCHANGED <<inv, linked, seq, run, replay>> /\ c.kind = "undo"
    BY <1>11 DEF PrepareUndo
  <2>3. \A j \in Invoices : IsIssued(inv[j]) /\ j # c.inv => inv[j].num \in c.others
    BY <1>1, <2>2 DEF UndoWaits, IsIssued
  <2>4. op.seqTo # 0 => \A j \in Invoices : IsIssued(inv[j]) /\ j # op.inv => inv[j].num < op.seqTo
    BY <2>1, <2>3
  <2> HIDE DEF op
  <2>5. "undo" \in Features /\ calls = {c} /\ run = Idle /\ replay.mode = "none"
    BY <1>1, <2>2 DEF UndoWaits, OneWait
  <2>6. Pending = {}
    BY <1>1, <2>2, <2>5 DEF AllAwaited
  <2>7. LinksFrom(inv, ops, linked, seq)'
    BY <2>1, <2>2, <2>4, <2>5, <2>6, PlanLinks DEF Finalizes
  <2> QED
    BY <1>5, <2>2, <2>5, <2>7
<1>12. ASSUME NEW n \in OpIds, NEW i \in Invoices, PrepareCancel(n, i) PROVE Goal
  <2> DEFINE op == ReleaseOp("cancel", i, inv[i], 0)
  <2>1. op.state = "prepared" /\ op.kind = "cancel"
    BY DEF ReleaseOp
  <2>2. /\ Journal(n, op) /\ UNCHANGED <<inv, linked, seq, run, replay>> /\ MayStart
        /\ calls' = calls \cup {[kind |-> "apply", op |-> n]}
    BY <1>12 DEF PrepareCancel
  <2> HIDE DEF op
  <2>3. LinksFrom(inv, ops, linked, seq)'
    BY <1>2, <2>1, <2>2, PlanLinks DEF Finalizes
  <2> QED
    BY <1>2, <1>5, <2>2, <2>3
<1>13. ASSUME NEW i \in Invoices, Pay(i) PROVE Goal
  BY <1>4, <1>13 DEF Pay, SetStatus, IsIssued
<1>14. ASSUME NEW i \in Invoices, MarkUnpaid(i) PROVE Goal
  BY <1>4, <1>14 DEF MarkUnpaid, SetStatus, IsIssued
<1>15. ASSUME NEW i \in Invoices, BeginPay(i) PROVE Goal
  <2>1. calls' = calls \cup {[kind |-> "pay", inv |-> i]} /\ MayStart
        /\ UNCHANGED <<inv, ops, linked, seq, run, replay>>
    BY <1>15 DEF BeginPay, coreVars
  <2>2. LinksFrom(inv, ops, linked, seq)'
    BY <1>1, <2>1 DEF LinksFrom
  <2>3. UndoWaits' /\ ("undo" \in Features => OneWait)'
    BY <1>1, <1>2, <2>1 DEF UndoWaits, OneWait
  <2> QED
    BY <2>2, <2>3
<1>16. ASSUME NEW c \in calls, FinishPay(c) PROVE Goal
  <2>1. c.kind = "pay" /\ c.inv \in Invoices /\ calls' = calls \ {c}
        /\ UNCHANGED <<ops, linked, seq, run, replay>>
    BY <1>1, <1>16 DEF FinishPay, SetStatus, Calls
  <2>2. CASE inv[c.inv].status = "absent"
    <3>1. inv' = inv
      BY <1>1, <1>16, <2>2 DEF FinishPay, SetStatus, InvoiceRecords
    <3>2. LinksFrom(inv, ops, linked, seq)' /\ UndoWaits' /\ ("undo" \in Features => OneWait)'
      BY <1>1, <2>1, <3>1 DEF LinksFrom, UndoWaits, OneWait
    <3> QED BY <3>2
  <2>3. CASE inv[c.inv].status # "absent"
    <3>1. inv' = [inv EXCEPT ![c.inv].status = "paid"]
      BY <1>16, <2>3 DEF FinishPay, SetStatus
    <3>2. IsIssued(inv[c.inv])
      BY <1>1, <2>1, <2>3 DEF InvoiceRecords, Statuses, IsIssued, LinksFrom
    <3> QED BY <1>4, <2>1, <3>1, <3>2
  <2> QED BY <2>2, <2>3
<1> HIDE DEF Goal
<1>17. Goal
  BY <1>6, <1>7, <1>8, <1>9, <1>10, <1>11, <1>12, <1>13, <1>14, <1>15, <1>16 DEF Command
<1> QED
  BY <1>17 DEF Goal

\* The phase that links or unlinks, and moves the sequence.
LEMMA LinkPhase ==
  ASSUME LinksInv, ApplyLinks,
         "undo" \notin Features \/ PostSync = FALSE
  PROVE  LinksFrom(inv, ops, linked, seq)' /\ RunHasLinked'
<1>1. /\ LinksFrom(inv, ops, linked, seq) /\ RunHasLinked /\ linked \subseteq Invoices
      /\ seq \in Nat
  BY DEF LinksInv, TypeInv, TypeOK
<1>2. run # Idle /\ run.phase = "links"
  BY RunIsOn DEF ApplyLinks, EnterPhase, Phases
<1>3. /\ App \in Operations /\ run.op \in OpIds
      /\ run \in [op : OpIds, app : Operations, phase : Phases]
  BY <1>2, RunType DEF LinksInv, TypeInv, TypeOK
<1>4. /\ App.kind = ops[run.op].kind /\ App.inv = ops[run.op].inv /\ App.num = ops[run.op].num
      /\ App.kind # "cancel" => App.seqTo = ops[run.op].seqTo
  BY <1>1, <1>2 DEF LinksInv, RunIsJournaled, RunHasLinked
<1>5. /\ run' = [run EXCEPT !.phase = "invoice"] /\ UNCHANGED <<inv, ops>>
  BY DEF ApplyLinks, EnterPhase
<1>6. run'.phase = "invoice" /\ App' = App /\ run'.op = run.op /\ App.inv \in Invoices
      /\ App.num \in Nat /\ App.seqTo \in Nat
  BY <1>3, <1>5 DEF App, Operations, Numbers
<1>7. CASE App.kind = "finalize"
  <2>1. linked' = linked \cup {App.inv} /\ seq' = Max({seq, App.seqTo})
    BY <1>7 DEF ApplyLinks
  <2>2. seq' \in Nat /\ seq' >= seq /\ seq' >= App.seqTo
    <3> DEFINE E == {seq, App.seqTo}
               B == MaxNumber + 1
    <3>1. seq \in 1..B /\ App.seqTo \in 0..B /\ B \in Nat
      BY <1>3 DEF LinksInv, TypeInv, TypeOK, Operations
    <3>2. Max(E) \in E /\ \A x \in E : x <= Max(E)
      <4>1. E \in SUBSET Nat /\ E # {} /\ \A x \in E : x <= B
        BY <3>1
      <4> HIDE DEF E, B
      <4> QED BY <3>1, <4>1, BoundedMax
    <3> QED BY <2>1, <3>1, <3>2
  <2>3. Finalizes(ops[run.op]) /\ App.seqTo = App.num + 1
    <3>1. Finalizes(ops[run.op])
      BY <1>4, <1>7 DEF Finalizes
    <3>2. ops[run.op].seqTo = ops[run.op].num + 1
      BY <1>1, <1>3, <3>1 DEF LinksFrom
    <3> QED BY <1>4, <1>7, <3>1, <3>2
  <2>4. App.num < seq'
    BY <1>6, <2>2, <2>3
  <2>5. \/ IsIssued(inv[App.inv])
        \/ ops[run.op].state = "prepared"
    <3>1. CASE "undo" \in Features
      BY <1>2, <3>1 DEF LinksInv, OnceEach
    <3>2. CASE "undo" \notin Features
      <4>1. ops[run.op].state \in {"prepared", "complete"}
        BY <1>3, <2>3, FinalizationsAreTyped DEF LinksInv, Operations
      <4>2. ops[run.op].state = "complete" => IsIssued(inv[ops[run.op].inv])
        BY <1>1, <1>3, <2>3, <3>2 DEF LinksFrom
      <4> QED BY <1>4, <4>1, <4>2
    <3> QED BY <3>1, <3>2
  <2>6. \A i \in linked' :
         \/ IsIssued(inv[i])
         \/ \E n \in OpIds : /\ Finalizes(ops[n]) /\ ops[n].state = "prepared"
                             /\ ops[n].inv = i
    <3>1. \A i \in linked :
           \/ IsIssued(inv[i])
           \/ \E n \in OpIds : /\ Finalizes(ops[n]) /\ ops[n].state = "prepared"
                               /\ ops[n].inv = i
      BY <1>1 DEF LinksFrom
    <3> QED BY <1>3, <1>4, <2>1, <2>3, <2>5, <3>1
  <2>7. \A i \in Invoices : inv[i].num \in Nat
    BY DEF LinksInv, TypeInv, TypeOK, InvoiceRecords, Numbers
  <2>8. \A i \in Invoices : IsIssued(inv[i]) =>
       \/ i \in linked' /\ inv[i].num < seq'
       \/ \E n \in OpIds : /\ ops[n].kind = "undo" /\ ops[n].state = "prepared"
                           /\ ops[n].inv = i
    BY <1>1, <2>1, <2>2, <2>7 DEF LinksFrom
  <2>9. LinksFrom(inv, ops, linked, seq)'
    BY <1>1, <1>5, <2>6, <2>8 DEF LinksFrom
  <2>10. RunHasLinked'
    BY <1>4, <1>5, <1>6, <1>7, <2>1, <2>4 DEF RunHasLinked
  <2> QED
    BY <2>9, <2>10
<1>8. CASE App.kind = "undo"
  <2>1. /\ linked' = linked \ {App.inv}
        /\ seq' = IF App.seqTo # 0 /\ seq = App.seqTo + 1 THEN App.seqTo ELSE seq
    BY <1>8 DEF ApplyLinks
  <2>2. "undo" \in Features /\ ops[run.op].state = "prepared"
    <3>1. "undo" \in Features
      BY <1>1, <1>3, <1>4, <1>8 DEF LinksFrom
    <3> QED
      BY <1>2, <3>1 DEF LinksInv, OnceEach
  <2>3. \A n \in OpIds : ops[n].state = "prepared" => n = run.op
    BY <1>1, <1>3, <2>2 DEF LinksFrom
  <2>4. \A j \in Invoices : IsIssued(inv[j]) /\ j # App.inv => j \in linked' /\ inv[j].num < seq
    BY <1>1, <1>4, <2>1, <2>3 DEF LinksFrom
  <2>5. \A j \in Invoices : IsIssued(inv[j]) /\ j # App.inv /\ App.seqTo # 0 => inv[j].num < App.seqTo
    <3>1. ops[run.op].kind = "undo"
      BY <1>4, <1>8
    <3>2. ops[run.op].seqTo # 0 =>
            \A j \in Invoices : IsIssued(inv[j]) /\ j # ops[run.op].inv =>
                                  inv[j].num < ops[run.op].seqTo
      BY <1>1, <1>3, <2>2, <3>1 DEF LinksFrom
    <3> QED BY <1>4, <1>8, <3>2
  <2>6. \A i \in Invoices : IsIssued(inv[i]) =>
       \/ i \in linked' /\ inv[i].num < seq'
       \/ \E n \in OpIds : /\ ops[n].kind = "undo" /\ ops[n].state = "prepared"
                           /\ ops[n].inv = i
    BY <1>3, <1>4, <1>8, <2>1, <2>2, <2>4, <2>5
  <2>7. LinksFrom(inv, ops, linked, seq)'
    BY <1>1, <1>5, <2>1, <2>6 DEF LinksFrom
  <2>8. RunHasLinked'
    BY <1>4, <1>5, <1>6, <1>8, <2>1 DEF RunHasLinked, Finalizes
  <2> QED
    BY <2>7, <2>8
<1>9. CASE App.kind = "cancel"
  <2>1. UNCHANGED <<linked, seq>>
    BY <1>9 DEF ApplyLinks
  <2>2. LinksFrom(inv, ops, linked, seq)'
    BY <1>1, <1>5, <2>1 DEF LinksFrom
  <2>3. RunHasLinked'
    BY <1>4, <1>5, <1>6, <1>9, <2>1 DEF RunHasLinked, Finalizes
  <2> QED
    BY <2>2, <2>3
<1> QED
  BY <1>3, <1>7, <1>8, <1>9 DEF Operations

\* The phase that writes the invoice record.
LEMMA InvoicePhaseLinks ==
  ASSUME LinksInv, ApplyInvoice,
         "undo" \notin Features \/ PostSync = FALSE
  PROVE  LinksFrom(inv, ops, linked, seq)' /\ RunHasLinked'
<1>1. /\ LinksFrom(inv, ops, linked, seq) /\ RunHasLinked /\ linked \subseteq Invoices
      /\ inv \in [Invoices -> InvoiceRecords]
  BY DEF LinksInv, TypeInv, TypeOK
<1>2. run # Idle /\ run.phase = "invoice"
  BY RunIsOn DEF ApplyInvoice, EnterPhase, Phases
<1>3. /\ App \in Operations /\ run.op \in OpIds /\ App.inv \in Invoices
      /\ run \in [op : OpIds, app : Operations, phase : Phases]
  BY <1>2, RunType DEF LinksInv, TypeInv, TypeOK, Operations
<1>4. /\ App.kind = ops[run.op].kind /\ App.inv = ops[run.op].inv /\ App.num = ops[run.op].num
      /\ App.kind # "cancel" => App.seqTo = ops[run.op].seqTo
  BY <1>1, <1>2 DEF LinksInv, RunIsJournaled, RunHasLinked
<1>5. /\ run' = [run EXCEPT !.phase = "complete"] /\ UNCHANGED <<ops, linked, seq>>
      /\ inv' = [inv EXCEPT ![App.inv] = NewInvoice(inv[App.inv])]
  BY DEF ApplyInvoice, EnterPhase
<1>6. run'.phase = "complete" /\ App' = App /\ run'.op = run.op
  BY <1>3, <1>5 DEF App
<1> DEFINE rec == inv[App.inv]
           new == NewInvoice(rec)
<1>7. inv'[App.inv] = new /\ \A j \in Invoices : j # App.inv => inv'[j] = inv[j]
  BY <1>1, <1>3, <1>5
<1>8. rec \in InvoiceRecords /\ rec.status # "draft"
  BY <1>1, <1>3 DEF LinksFrom
<1>9. CASE App.kind = "finalize"
  <2>1. \/ IsIssued(rec) /\ new = rec
        \/ rec.status = "absent" /\ IsIssued(new) /\ new.num = App.num
    BY <1>8, <1>9 DEF NewInvoice, IsIssued, InvoiceRecords, Statuses
  <2>2. IsIssued(new) /\ new.status # "draft"
    BY <1>8, <2>1 DEF IsIssued
  <2>3. App.inv \in linked /\ App.num < seq
    BY <1>1, <1>2, <1>9 DEF RunHasLinked, Finalizes
  <2> HIDE DEF rec, new
  <2>4. /\ \A i \in Invoices : inv'[i].status # "draft"
        /\ \A i \in Invoices : IsIssued(inv[i]) => IsIssued(inv'[i])
        /\ \A i \in Invoices : i # App.inv => inv'[i] = inv[i]
    BY <1>1, <1>7, <2>2 DEF LinksFrom
  <2>5. \A i \in Invoices : IsIssued(inv'[i]) =>
       \/ i \in linked' /\ inv'[i].num < seq'
       \/ \E n \in OpIds : /\ ops[n].kind = "undo" /\ ops[n].state = "prepared"
                           /\ ops[n].inv = i
    <3>1. CASE rec.status = "absent"
      <4>1. new.num = App.num
        BY <2>1, <3>1 DEF IsIssued
      <4> QED
        BY <1>1, <1>5, <1>7, <2>3, <4>1 DEF LinksFrom
    <3>2. CASE rec.status # "absent"
      BY <1>1, <1>5, <1>7, <2>1, <3>2 DEF LinksFrom, rec
    <3> QED BY <3>1, <3>2
  <2>6. \A n \in OpIds :
          ops[n].kind = "undo" /\ ops[n].state = "prepared" /\ ops[n].seqTo # 0 =>
            \A j \in Invoices : IsIssued(inv'[j]) /\ j # ops[n].inv => inv'[j].num < ops[n].seqTo
    <3> SUFFICES ASSUME NEW n \in OpIds, ops[n].kind = "undo", ops[n].state = "prepared"
                 PROVE  FALSE
      OBVIOUS
    <3>1. "undo" \in Features
      BY <1>1 DEF LinksFrom
    <3>2. ops[run.op].state = "prepared"
      BY <1>2, <3>1 DEF LinksInv, OnceEach
    <3>3. n = run.op
      BY <1>1, <1>3, <3>1, <3>2 DEF LinksFrom
    <3> QED
      BY <1>4, <1>9, <3>3
  <2>7. LinksFrom(inv, ops, linked, seq)'
    <3>1. \A n \in OpIds : Finalizes(ops[n]) => ops[n].inv \in Invoices
      BY FinalizationsAreTyped DEF LinksInv
    <3> QED
      BY <1>1, <1>5, <2>4, <2>5, <2>6, <3>1 DEF LinksFrom
  <2>8. RunHasLinked'
    BY <1>4, <1>5, <1>6, <1>7, <1>9, <2>2 DEF RunHasLinked, Finalizes
  <2> QED
    BY <2>7, <2>8
<1>10. CASE App.kind = "undo"
  <2>1. new = Absent
    BY <1>10 DEF NewInvoice
  <2>2. "undo" \in Features /\ ops[run.op].state = "prepared"
    <3>1. "undo" \in Features
      BY <1>1, <1>3, <1>4, <1>10 DEF LinksFrom
    <3> QED
      BY <1>2, <3>1 DEF LinksInv, OnceEach
  <2>3. App.inv \notin linked
    BY <1>1, <1>2, <1>10 DEF RunHasLinked
  <2> HIDE DEF rec, new
  <2>4. ~IsIssued(inv'[App.inv]) /\ inv'[App.inv].status = "absent"
    BY <1>7, <2>1 DEF Absent, IsIssued
  <2>5. /\ \A i \in Invoices : inv'[i].status # "draft"
        /\ \A i \in Invoices : IsIssued(inv'[i]) => i # App.inv /\ inv'[i] = inv[i]
        /\ \A i \in linked : inv'[i] = inv[i]
    BY <1>1, <1>7, <2>3, <2>4 DEF LinksFrom
  <2>6. LinksFrom(inv, ops, linked, seq)'
    BY <1>1, <1>5, <2>2, <2>5 DEF LinksFrom
  <2>7. RunHasLinked'
    BY <1>4, <1>5, <1>6, <1>10, <2>4 DEF RunHasLinked, Finalizes
  <2> QED
    BY <2>6, <2>7
<1>11. CASE App.kind = "cancel"
  <2>1. \/ rec.status = "absent" /\ new = rec
        \/ IsIssued(rec) /\ IsIssued(new) /\ new.status = "canceled" /\ new.num = rec.num
    BY <1>8, <1>11 DEF NewInvoice, IsIssued, InvoiceRecords, Statuses
  <2> HIDE DEF new
  <2>2. \A i \in Invoices : /\ inv'[i].num = inv[i].num /\ inv'[i].status # "draft"
                            /\ IsIssued(inv'[i]) <=> IsIssued(inv[i])
    BY <1>1, <1>7, <2>1 DEF LinksFrom
  <2>3. LinksFrom(inv, ops, linked, seq)'
    BY <1>5, <2>2, RecordLinks
  <2>4. RunHasLinked'
    BY <1>4, <1>5, <1>6, <1>11 DEF RunHasLinked, Finalizes
  <2> QED
    BY <2>3, <2>4
<1> QED
  BY <1>3, <1>9, <1>10, <1>11 DEF Operations

\* The phase that completes the plan.
LEMMA CompleteLinks ==
  ASSUME LinksInv, Complete,
         "undo" \notin Features \/ PostSync = FALSE
  PROVE  LinksFrom(inv, ops, linked, seq)'
<1>1. /\ LinksFrom(inv, ops, linked, seq) /\ RunHasLinked /\ linked \subseteq Invoices
  BY DEF LinksInv, TypeInv, TypeOK
<1>2. /\ run # Idle /\ run.op \in OpIds /\ run.phase = "complete"
      /\ ops'[run.op] = [ops[run.op] EXCEPT !.state = "complete"]
      /\ ops[run.op] \in Operations
      /\ \A n \in OpIds : n # run.op => ops'[n] = ops[n]
      /\ UNCHANGED <<inv, linked, seq>>
  BY CompleteEffect DEF LinksInv, Complete
<1>3. App.kind = ops[run.op].kind /\ App.inv = ops[run.op].inv
  BY <1>2 DEF LinksInv, RunIsJournaled
<1>4. \A n \in OpIds :
        /\ ops'[n].kind = ops[n].kind /\ ops'[n].inv = ops[n].inv
        /\ ops'[n].num = ops[n].num /\ ops'[n].seqTo = ops[n].seqTo
        /\ Finalizes(ops'[n]) <=> Finalizes(ops[n])
        /\ n # run.op => ops'[n].state = ops[n].state
        /\ ops'[n].state = "prepared" => ops[n].state = "prepared"
  BY <1>2 DEF Operations, Finalizes
<1>5. \A i \in linked :
       \/ IsIssued(inv[i])
       \/ \E n \in OpIds : /\ Finalizes(ops'[n]) /\ ops'[n].state = "prepared"
                           /\ ops'[n].inv = i
  <2>1. Finalizes(ops[run.op]) => IsIssued(inv[ops[run.op].inv])
    BY <1>1, <1>2, <1>3 DEF RunHasLinked, Finalizes
  <2> QED
    BY <1>1, <1>2, <1>4, <2>1 DEF LinksFrom
<1>6. \A i \in Invoices : IsIssued(inv[i]) =>
       \/ i \in linked /\ inv[i].num < seq
       \/ \E n \in OpIds : /\ ops'[n].kind = "undo" /\ ops'[n].state = "prepared"
                           /\ ops'[n].inv = i
  <2>1. ops[run.op].kind = "undo" => ~IsIssued(inv[ops[run.op].inv])
    BY <1>1, <1>2, <1>3 DEF RunHasLinked, IsIssued
  <2> QED
    BY <1>1, <1>4, <2>1 DEF LinksFrom
<1>7. \A n \in OpIds : Finalizes(ops'[n]) /\ ops'[n].state = "complete" /\ "undo" \notin Features =>
                          IsIssued(inv[ops'[n].inv])
  <2>1. Finalizes(ops[run.op]) => IsIssued(inv[ops[run.op].inv])
    BY <1>1, <1>2, <1>3 DEF RunHasLinked, Finalizes
  <2> QED
    BY <1>1, <1>4, <2>1 DEF LinksFrom
<1>8. \A n \in OpIds : Finalizes(ops'[n]) => ops'[n].seqTo = ops'[n].num + 1
  BY <1>1, <1>4 DEF LinksFrom
<1>9. \A n \in OpIds : ops'[n].kind = "undo" =>
       /\ "undo" \in Features
       /\ (ops'[n].state = "prepared" /\ ops'[n].seqTo # 0) =>
            \A j \in Invoices : IsIssued(inv[j]) /\ j # ops'[n].inv =>
                                  inv[j].num < ops'[n].seqTo
  BY <1>1, <1>4 DEF LinksFrom
<1>10. "undo" \in Features =>
       \A n, m \in OpIds : ops'[n].state = "prepared" /\ ops'[m].state = "prepared" => n = m
  BY <1>1, <1>4 DEF LinksFrom
<1>11. \A i \in Invoices : inv[i].status # "draft"
  BY <1>1 DEF LinksFrom
<1> QED
  BY <1>2, <1>5, <1>6, <1>7, <1>8, <1>9, <1>10, <1>11 DEF LinksFrom

\* What the phases do.
LEMMA PhaseLinks ==
  ASSUME LinksInv, ApplyPhase,
         "undo" \notin Features \/ PostSync = FALSE
  PROVE  LinksFrom(inv, ops, linked, seq)' /\ RunHasLinked'
<1>1. CASE Complete
  BY <1>1, CompleteLinks, CompleteEffect DEF RunHasLinked, LinksInv
<1>2. CASE ApplyLinks
  BY <1>2, LinkPhase
<1>3. CASE ApplyInvoice
  BY <1>3, InvoicePhaseLinks
<1>4. CASE ApplyEntries \/ ApplyExpenses \/ ApplyTasks
  <2>1. UNCHANGED <<inv, ops, linked, seq>>
    BY <1>4 DEF ApplyEntries, ApplyExpenses, ApplyTasks, coreVars
  <2>2. run # Idle /\ run'.op = run.op /\ App' = App
    <3>1. ~Complete
      BY <1>4 DEF Complete, ApplyEntries, ApplyExpenses, ApplyTasks, EnterPhase
    <3> QED BY <3>1, PhaseEffect DEF LinksInv, App
  <2>3. run'.phase \notin {"invoice", "complete"}
    <3>1. run \in [op : OpIds, app : Operations, phase : Phases]
      BY <2>2 DEF LinksInv, TypeInv, TypeOK
    <3> QED BY <1>4, <3>1 DEF ApplyEntries, ApplyExpenses, ApplyTasks, EnterPhase
  <2>4. LinksFrom(inv, ops, linked, seq)'
    BY <2>1 DEF LinksInv, LinksFrom
  <2>5. RunHasLinked'
    BY <2>1, <2>2, <2>3 DEF LinksInv, RunHasLinked
  <2> QED
    BY <2>4, <2>5
<1> QED
  BY <1>1, <1>2, <1>3, <1>4 DEF ApplyPhase

\* Every step keeps the links, the sequence and the invoices in agreement.
LEMMA NextLinksInv ==
  ASSUME "draft" \notin Features,
         "undo" \notin Features \/ (MaxInFlight <= 1 /\ PostSync = FALSE),
         LinksInv, [Next]_vars
  PROVE  LinksInv'
<1>1. /\ TypeInv' /\ RunIsJournaled' /\ BootFirst' /\ (PostSync = FALSE => OnceEach')
      /\ AllAwaited'
  BY NextTypeInv, RunStaysJournaled, NextBootFirst, NextOnceEach, NextAllAwaited DEF LinksInv
<1> DEFINE Disk == LinksFrom(coreDisk.inv, coreDisk.ops, coreDisk.linked, coreDisk.seq)
           Memory == LinksFrom(inv, ops, linked, seq)
           Lone == "undo" \in Features => OneWait
<1>2. Memory /\ Disk /\ Lone /\ UndoWaits /\ RunHasLinked
  BY DEF LinksInv
<1>3. ASSUME Memory', Disk', Lone', UndoWaits', RunHasLinked' PROVE LinksInv'
  BY <1>1, <1>3 DEF LinksInv
<1>4. CASE Command
  <2>1. Memory' /\ Lone' /\ UndoWaits'
    BY <1>4, CommandLinks
  <2>2. UNCHANGED coreDisk /\ run' = Idle
    BY <1>4, CommandKeeps DEF LinksInv
  <2> HIDE DEF Memory, Lone
  <2>3. Disk' /\ RunHasLinked'
    BY <1>2, <2>2 DEF RunHasLinked
  <2> QED
    BY <1>3, <2>1, <2>3
<1>5. CASE ApplyPhase
  <2>1. Memory' /\ RunHasLinked'
    BY <1>5, PhaseLinks
  <2>2. run # Idle /\ UNCHANGED <<coreDisk, calls>>
    BY <1>5, PhaseKeeps DEF LinksInv
  <2>3. Disk' /\ Lone'
    BY <1>2, <2>2 DEF OneWait
  <2>4. UndoWaits'
    BY <1>2, <2>2 DEF UndoWaits
  <2> HIDE DEF Memory, Disk, Lone
  <2> QED
    BY <1>3, <2>1, <2>3, <2>4
<1>6. CASE (\E c \in calls : ApplyOwn(c)) \/ ReplayNext
  <2>1. /\ run = Idle /\ calls' \subseteq calls
        /\ UNCHANGED <<inv, ops, linked, seq, coreDisk>>
        /\ \E n \in OpIds : \E known : ops[n] # NoOp /\ Apply(n, known)
    BY <1>6, StartKeeps DEF LinksInv
  <2>2. PICK n \in OpIds : \E known : ops[n] # NoOp /\ Apply(n, known)
    BY <2>1
  <2>3. Memory' /\ Disk' /\ Lone'
    BY <1>2, <2>1 DEF OneWait
  <2>4. RunHasLinked'
    <3>1. run' = Idle \/ (run'.op = n /\ run'.phase = "entries"
                          /\ (run'.app.kind = ops[n].kind)
                          /\ (ops[n].kind # "cancel" => run'.app = ops[n]))
      <4>1. run' = Idle \/ (run'.op = n /\ run'.phase = "entries"
                            /\ (run'.app.kind = ops[n].kind))
        BY <2>2, ApplyKeeps DEF LinksInv
      <4>2. run' = Idle \/ (ops[n].kind # "cancel" => run'.app = ops[n])
        BY <2>2 DEF Apply
      <4> QED BY <4>1, <4>2
    <3> QED
      BY <2>1, <3>1 DEF RunHasLinked, App
  <2>5. UndoWaits'
    <3>1. CASE "undo" \notin Features
      BY <1>2, <2>1, <3>1 DEF UndoWaits
    <3>2. CASE "undo" \in Features /\ \E c \in calls : ApplyOwn(c)
      <4>1. PICK c \in calls : ApplyOwn(c)
        BY <3>2
      <4>2. calls = {c} /\ calls' = calls \ {c}
        BY <1>2, <3>2, <4>1 DEF OneWait, ApplyOwn
      <4> QED BY <4>2 DEF UndoWaits
    <3>3. CASE "undo" \in Features /\ ReplayNext
      <4>1. replay.mode # "none" /\ calls' = calls
        BY <3>3 DEF ReplayNext, LinksInv, OnceEach
      <4> QED BY <1>2, <4>1 DEF UndoWaits
    <3> QED BY <1>6, <3>1, <3>2, <3>3
  <2> HIDE DEF Memory, Disk, Lone
  <2> QED
    BY <1>3, <2>3, <2>4, <2>5
<1>7. CASE StartReplay \/ EndReplay
  <2>1. UNCHANGED <<inv, ops, linked, seq, coreDisk, calls, run>>
    BY <1>7, ReplayKeeps
  <2>2. Memory' /\ Disk' /\ Lone' /\ RunHasLinked'
    BY <1>2, <2>1 DEF OneWait, RunHasLinked, App
  <2>3. UndoWaits'
    BY <1>2, <1>7, <2>1 DEF UndoWaits, StartReplay, EndReplay
  <2> HIDE DEF Memory, Disk, Lone
  <2> QED
    BY <1>3, <2>2, <2>3
<1>8. CASE Persist \/ UNCHANGED vars
  <2>1. UNCHANGED <<inv, ops, linked, seq, calls, run, replay>>
        /\ (coreDisk' = coreDisk \/ coreDisk' = Core)
    BY <1>8 DEF Persist, PersistBoth, PersistCore, PersistEntries, vars, coreVars
  <2>2. Disk'
    <3>1. CASE coreDisk' = coreDisk
      BY <1>2, <3>1
    <3>2. CASE coreDisk' = Core
      <4>1. /\ coreDisk'.inv = inv /\ coreDisk'.ops = ops
            /\ coreDisk'.linked = linked /\ coreDisk'.seq = seq
        BY <3>2 DEF Core
      <4> QED BY <1>2, <4>1 DEF LinksFrom
    <3> QED BY <2>1, <3>1, <3>2
  <2>3. Memory' /\ Lone' /\ RunHasLinked' /\ UndoWaits'
    BY <1>2, <2>1 DEF OneWait, RunHasLinked, App, UndoWaits
  <2> HIDE DEF Memory, Disk, Lone
  <2> QED
    BY <1>3, <2>2, <2>3
<1>9. CASE CrashAndRestart
  <2>1. /\ inv' = coreDisk.inv /\ ops' = coreDisk.ops
        /\ linked' = coreDisk.linked /\ seq' = coreDisk.seq
        /\ calls' = {} /\ run' = Idle /\ UNCHANGED coreDisk
    BY <1>9 DEF CrashAndRestart, diskVars
  <2>2. Memory' /\ Disk'
    BY <1>2, <2>1 DEF LinksFrom
  <2>3. Lone' /\ RunHasLinked' /\ UndoWaits'
    BY <2>1 DEF OneWait, RunHasLinked, UndoWaits
  <2> HIDE DEF Memory, Disk, Lone
  <2> QED
    BY <1>3, <2>2, <2>3
<1> QED
  BY <1>4, <1>5, <1>6, <1>7, <1>8, <1>9 DEF Next

\* Where invoices are finalized without a saved draft, whatever the order in
\* which the two databases are written and however many commands are in
\* flight, once all has settled the invoices linked to the project are the
\* issued ones and the next number is beyond every issued number.  With undo
\* it is proved for one command at a time and no replay after a sync: an undo
\* rewinds the sequence to the number it checked against the invoices it read.
THEOREM LinksFollowInvoices ==
  ASSUME "draft" \notin Features,
         "undo" \notin Features \/ (MaxInFlight <= 1 /\ PostSync = FALSE)
  PROVE  Spec => []LinksMatchInvoices
<1>1. Init => LinksInv
  BY InitLinksInv
<1>2. LinksInv /\ [Next]_vars => LinksInv'
  BY NextLinksInv
<1>3. LinksInv => LinksMatchInvoices
  <2> SUFFICES ASSUME LinksInv, Settled
               PROVE  Issued = linked /\ \A i \in Issued : inv[i].num < seq
    BY DEF LinksMatchInvoices
  <2>1. \A n \in OpIds : ops[n].state # "prepared"
    BY DEF Settled, Pending
  <2>2. LinksFrom(inv, ops, linked, seq) /\ linked \subseteq Invoices
    BY DEF LinksInv, TypeInv, TypeOK
  <2>3. Issued = {i \in Invoices : IsIssued(inv[i])}
    BY DEF Issued, IsIssued
  <2> QED
    BY <2>1, <2>2, <2>3 DEF LinksFrom
<1> QED
  BY <1>1, <1>2, <1>3, PTL DEF Spec

-----------------------------------------------------------------------------
(* Replays heal, where the databases are written in order and nothing is   *)
(* undone: a replay that no command runs into takes the markers from every *)
(* invoice that is not charged any more.                                   *)

\* The invoices and the journal of one state: what a complete finalization
\* issued stays issued, and what is canceled was canceled by a plan that the
\* journal still has.
KeptFrom(invs, journal) ==
  /\ \A i \in Invoices : i > born => invs[i] = Absent
  /\ \A n \in OpIds : journal[n].inv <= born /\ journal[n].kind # "undo"
  /\ \A n \in OpIds : Finalizes(journal[n]) /\ journal[n].state = "complete" =>
                        IsIssued(invs[journal[n].inv])
  /\ \A i \in Invoices : invs[i].status = "canceled" =>
       \E n \in OpIds : journal[n].kind = "cancel" /\ journal[n].inv = i

\* A finalization that reached its last phase has issued its invoice; a
\* cancellation is after all the work of its invoice and has released it
\* wherever its phases have come.
RunGivesUp ==
  run # Idle =>
    /\ (run.phase = "complete" /\ Finalizes(App)) => IsIssued(inv[App.inv])
    /\ App.kind = "cancel" => /\ OwnedBy(App.inv) \subseteq App.srcs
                              /\ \A s \in Work : Reached(s) => Owner(s) # App.inv

\* A cancellation of the invoice is still to come in this replay, or is being
\* applied.
ReleaseComes(i) ==
  \E n \in OpIds : /\ ops[n].kind = "cancel" /\ ops[n].inv = i
                   /\ n \in replay.todo \/ (run # Idle /\ run.op = n)

\* From the start of a replay that no command runs into: every plan is known
\* as complete, so that a finalization is applied for a charged invoice only,
\* and whoever else owns work is about to give it up.
QuietHeals ==
  quiet # "no" =>
    /\ calls = {} /\ Pending = {} /\ replay.todo \subseteq replay.done
    /\ (run # Idle /\ Finalizes(App)) => App.inv \in Live
    /\ \A s \in Work : Owner(s) \in Invoices =>
         Owner(s) \in Live \/ (quiet = "passing" /\ ReleaseComes(Owner(s)))

HealInv ==
  /\ ClaimsInv /\ BootFirst /\ AllAwaited
  /\ \A c \in calls : c.kind # "undo"
  /\ KeptFrom(inv, ops) /\ KeptFrom(coreDisk.inv, coreDisk.ops)
  /\ RunGivesUp /\ QuietHeals

\* An empty workspace is quiet only after a replay.
LEMMA InitHealInv == Init => HealInv
<1> SUFFICES ASSUME Init PROVE HealInv
  OBVIOUS
<1>1. /\ \A n \in OpIds : ops[n] = NoOp
      /\ \A i \in Invoices : inv[i] = Absent
      /\ born = 0
  BY DEF Init
<1>2. ~Finalizes(NoOp) /\ NoOp.kind # "undo" /\ NoOp.inv = 0 /\ NoOp.state # "prepared"
      /\ Absent.status # "canceled"
  BY DEF NoOp, Finalizes, Absent
<1>3. KeptFrom(inv, ops)
  BY <1>1, <1>2 DEF KeptFrom
<1>4. coreDisk.inv = inv /\ coreDisk.ops = ops
  BY DEF Init, Core
<1>5. calls = {} /\ run = Idle /\ replay = NoReplay /\ Pending = {} /\ quiet = "no"
  BY <1>1, <1>2 DEF Init, Pending
<1>6. BootFirst /\ AllAwaited /\ RunGivesUp /\ QuietHeals
  BY <1>5 DEF BootFirst, AllAwaited, RunGivesUp, QuietHeals, NoReplay
<1> QED
  BY <1>3, <1>4, <1>5, <1>6, InitClaimsInv DEF HealInv

\* A command ends the quiet.
LEMMA CommandQuiet == Command => quiet' = "no"
<1>1. \A n \in OpIds : \A op : Journal(n, op) => quiet' = "no"
  BY DEF Journal
<1>2. ASSUME NEW sel \in Selections, SaveDraft(sel) PROVE quiet' = "no"
  BY <1>2 DEF SaveDraft
<1>3. ASSUME NEW i \in Invoices, NEW sel \in Selections, RefreshDraft(i, sel)
      PROVE  quiet' = "no"
  BY <1>3 DEF RefreshDraft
<1>4. ASSUME NEW i \in Invoices, DeleteDraft(i) PROVE quiet' = "no"
  BY <1>4 DEF DeleteDraft
<1>5. ASSUME NEW n \in OpIds, NEW i \in Invoices, NEW sel, PrepareFinalize(n, i, sel)
      PROVE quiet' = "no"
  BY <1>5 DEF PrepareFinalize, Journal
<1>6. ASSUME NEW i \in Invoices, BeginUndo(i) \/ BeginPay(i) \/ Pay(i) \/ MarkUnpaid(i)
      PROVE  quiet' = "no"
  BY <1>6 DEF BeginUndo, BeginPay, Pay, MarkUnpaid, SetStatus
<1>7. ASSUME NEW n \in OpIds, NEW c \in calls, PrepareUndo(n, c) PROVE quiet' = "no"
  BY <1>7 DEF PrepareUndo, Journal
<1>8. ASSUME NEW n \in OpIds, NEW i \in Invoices, PrepareCancel(n, i) PROVE quiet' = "no"
  BY <1>8 DEF PrepareCancel, Journal
<1>9. ASSUME NEW c \in calls, FinishPay(c) PROVE quiet' = "no"
  BY <1>9 DEF FinishPay, SetStatus
<1> QED
  BY <1>2, <1>3, <1>4, <1>5, <1>6, <1>7, <1>8, <1>9 DEF Command

\* A record is written: of an invoice not issued before, which no complete
\* finalization has, or an issued one that stays issued.
LEMMA RecordKept ==
  ASSUME HealInv, NEW i \in Invoices, NEW rec, inv' = [inv EXCEPT ![i] = rec], ops' = ops,
         born' \in {born, born + 1}, i <= born',
         IsIssued(inv[i]) => IsIssued(rec),
         rec.status # "canceled"
  PROVE  KeptFrom(inv, ops)'
<1>1. /\ inv \in [Invoices -> InvoiceRecords] /\ born \in Nat /\ Invoices \subseteq Nat
      /\ KeptFrom(inv, ops)
  BY DEF HealInv, ClaimsInv, TypeInv, TypeOK, Invoices
<1>2. inv'[i] = rec /\ \A j \in Invoices : j # i => inv'[j] = inv[j]
  BY <1>1
<1>3. \A j \in Invoices : j > born' => inv'[j] = Absent
  BY <1>1, <1>2 DEF KeptFrom
<1>4. \A n \in OpIds : ops[n].inv <= born' /\ ops[n].kind # "undo"
  BY <1>1, ReleasesAreTyped DEF KeptFrom, HealInv, ClaimsInv
<1>5. \A n \in OpIds : Finalizes(ops[n]) /\ ops[n].state = "complete" =>
                         IsIssued(inv'[ops[n].inv])
  <2>1. \A n \in OpIds : Finalizes(ops[n]) => ops[n].inv \in Invoices
    BY FinalizationsAreTyped DEF HealInv, ClaimsInv
  <2> QED
    BY <1>1, <1>2, <2>1 DEF KeptFrom
<1>6. \A j \in Invoices : inv'[j].status = "canceled" =>
        \E n \in OpIds : ops[n].kind = "cancel" /\ ops[n].inv = j
  BY <1>1, <1>2 DEF KeptFrom
<1> QED
  BY <1>3, <1>4, <1>5, <1>6 DEF KeptFrom

\* A plan is journaled.
LEMMA PlanKept ==
  ASSUME HealInv, NEW n \in OpIds, NEW op, Journal(n, op), inv' = inv,
         born' \in {born, born + 1}, op.inv \in Invoices, op.inv <= born',
         op.state = "prepared", op.kind # "undo"
  PROVE  KeptFrom(inv, ops)'
<1>1. /\ born \in Nat /\ Invoices \subseteq Nat /\ KeptFrom(inv, ops)
      /\ ops \in [OpIds -> Operations \cup {NoOp}]
  BY DEF HealInv, ClaimsInv, TypeInv, TypeOK, Invoices
<1>2. ops'[n] = op /\ (\A m \in OpIds : m # n => ops'[m] = ops[m]) /\ ops[n] = NoOp
  BY <1>1 DEF Journal, NextOp
<1>3. ops[n].kind # "cancel"
  BY <1>2 DEF NoOp
<1>4. \A j \in Invoices : j > born' => inv'[j] = Absent
  <2>1. \A j \in Invoices : j > born' => j > born
    BY <1>1
  <2> QED BY <1>1, <2>1 DEF KeptFrom
<1>5. \A m \in OpIds : ops'[m].inv <= born' /\ ops'[m].kind # "undo"
  BY <1>1, <1>2, ReleasesAreTyped DEF KeptFrom, HealInv, ClaimsInv
<1>6. \A m \in OpIds : Finalizes(ops'[m]) /\ ops'[m].state = "complete" =>
                         IsIssued(inv'[ops'[m].inv])
  BY <1>1, <1>2 DEF KeptFrom
<1>7. \A j \in Invoices : inv'[j].status = "canceled" =>
        \E m \in OpIds : ops'[m].kind = "cancel" /\ ops'[m].inv = j
  BY <1>1, <1>2, <1>3 DEF KeptFrom
<1> QED
  BY <1>4, <1>5, <1>6, <1>7 DEF KeptFrom

\* No command takes an issued invoice away, where nothing is undone.
LEMMA CommandKept ==
  ASSUME "undo" \notin Features, HealInv, Command
  PROVE  KeptFrom(inv, ops)' /\ born' \in {born, born + 1} /\ \A c \in calls' : c.kind # "undo"
<1> DEFINE Goal == /\ KeptFrom(inv, ops)' /\ born' \in {born, born + 1}
                   /\ \A c \in calls' : c.kind # "undo"
<1>1. /\ inv \in [Invoices -> InvoiceRecords] /\ born \in Nat /\ Invoices \subseteq Nat
      /\ calls \subseteq Calls /\ KeptFrom(inv, ops)
  BY DEF HealInv, ClaimsInv, TypeInv, TypeOK, Invoices
<1>0. \A c \in calls : c.kind # "undo"
  BY DEF HealInv
<1>2. \A i \in Invoices : inv[i].status # "absent" => i <= born
  BY <1>1 DEF KeptFrom, Absent
\* The status of an issued invoice.
<1>3. ASSUME NEW i \in Invoices, NEW status \in {"sent", "paid"}, inv[i].status # "absent",
             inv' = [inv EXCEPT ![i].status = status], UNCHANGED <<ops, born>>,
             calls' \subseteq calls
      PROVE Goal
  <2> DEFINE rec == [inv[i] EXCEPT !.status = status]
  <2>1. inv' = [inv EXCEPT ![i] = rec] /\ rec.status = status
    BY <1>1, <1>3 DEF InvoiceRecords
  <2>2. IsIssued(rec) /\ rec.status # "canceled" /\ i <= born' /\ born' \in {born, born + 1}
    BY <1>2, <1>3, <2>1 DEF IsIssued
  <2> HIDE DEF rec
  <2>3. KeptFrom(inv, ops)'
    BY <1>3, <2>1, <2>2, RecordKept
  <2> QED
    BY <1>0, <1>3, <2>2, <2>3
<1>4. ASSUME NEW sel \in Selections, SaveDraft(sel) PROVE Goal
  <2> DEFINE i == born + 1
             rec == [status |-> "draft", num |-> NextNumber, sel |-> sel,
                     was |-> [t \in Tasks |-> 0]]
  <2>1. i \in Invoices
    BY <1>1, <1>4 DEF SaveDraft, Invoices
  <2>2. ~IsIssued(inv[i]) /\ rec.status # "canceled"
    BY <1>1, <2>1 DEF KeptFrom, Absent, IsIssued
  <2>3. inv' = [inv EXCEPT ![i] = rec] /\ born' = i /\ UNCHANGED <<ops, calls>>
    BY <1>4 DEF SaveDraft
  <2>4. i <= born' /\ born' \in {born, born + 1}
    BY <1>1, <2>3
  <2> HIDE DEF i, rec
  <2>5. KeptFrom(inv, ops)'
    BY <2>1, <2>2, <2>3, <2>4, RecordKept
  <2> QED
    BY <1>0, <2>3, <2>4, <2>5
<1>5. ASSUME NEW i \in Invoices, NEW sel \in Selections, RefreshDraft(i, sel) PROVE Goal
  <2> DEFINE rec == [inv[i] EXCEPT !.sel = sel]
  <2>1. inv' = [inv EXCEPT ![i] = rec] /\ UNCHANGED <<ops, calls, born>>
    BY <1>5 DEF RefreshDraft
  <2>2. rec.status = "draft" /\ inv[i].status = "draft"
    BY <1>1, <1>5 DEF RefreshDraft, InvoiceRecords
  <2>3. i <= born' /\ born' \in {born, born + 1} /\ ~IsIssued(inv[i]) /\ rec.status # "canceled"
    BY <1>2, <2>1, <2>2 DEF IsIssued
  <2> HIDE DEF rec
  <2>4. KeptFrom(inv, ops)'
    BY <2>1, <2>3, RecordKept
  <2> QED
    BY <1>0, <2>1, <2>3, <2>4
<1>6. ASSUME NEW i \in Invoices, DeleteDraft(i) PROVE Goal
  <2>1. inv' = [inv EXCEPT ![i] = Absent] /\ UNCHANGED <<ops, calls, born>>
        /\ inv[i].status = "draft"
    BY <1>6 DEF DeleteDraft
  <2>2. i <= born' /\ born' \in {born, born + 1} /\ ~IsIssued(inv[i]) /\ Absent.status # "canceled"
    BY <1>2, <2>1 DEF IsIssued, Absent
  <2>3. KeptFrom(inv, ops)'
    BY <2>1, <2>2, RecordKept
  <2> QED
    BY <1>0, <2>1, <2>2, <2>3
<1>7. ASSUME NEW n \in OpIds, NEW i \in Invoices, NEW sel \in Selections \cup {inv[i].sel},
             PrepareFinalize(n, i, sel)
      PROVE Goal
  <2> DEFINE op == FinalizeOp(i, sel)
  <2>1. op.state = "prepared" /\ op.kind = "finalize" /\ op.inv = i
    BY DEF FinalizeOp
  <2>2. i <= born' /\ born' \in {born, born + 1}
    BY <1>1, <1>2, <1>7 DEF PrepareFinalize
  <2>3. Journal(n, op) /\ inv' = inv /\ calls' = calls \cup {[kind |-> "apply", op |-> n]}
    BY <1>7 DEF PrepareFinalize
  <2> HIDE DEF op
  <2>4. KeptFrom(inv, ops)'
    BY <2>1, <2>2, <2>3, PlanKept
  <2> QED
    BY <1>0, <2>2, <2>3, <2>4
<1>8. ASSUME NEW i \in Invoices, BeginUndo(i) PROVE FALSE
  BY <1>8 DEF BeginUndo
<1>9. ASSUME NEW n \in OpIds, NEW c \in calls, PrepareUndo(n, c) PROVE FALSE
  BY <1>0, <1>9 DEF PrepareUndo
<1>10. ASSUME NEW n \in OpIds, NEW i \in Invoices, PrepareCancel(n, i) PROVE Goal
  <2> DEFINE op == ReleaseOp("cancel", i, inv[i], 0)
  <2>1. op.state = "prepared" /\ op.kind = "cancel" /\ op.inv = i
    BY DEF ReleaseOp
  <2>2. i <= born' /\ born' \in {born, born + 1}
    BY <1>1, <1>2, <1>10 DEF PrepareCancel
  <2>3. Journal(n, op) /\ inv' = inv /\ calls' = calls \cup {[kind |-> "apply", op |-> n]}
    BY <1>10 DEF PrepareCancel
  <2> HIDE DEF op
  <2>4. KeptFrom(inv, ops)'
    BY <2>1, <2>2, <2>3, PlanKept
  <2> QED
    BY <1>0, <2>2, <2>3, <2>4
<1>11. ASSUME NEW i \in Invoices, Pay(i) PROVE Goal
  BY <1>3, <1>11 DEF Pay, SetStatus
<1>12. ASSUME NEW i \in Invoices, MarkUnpaid(i) PROVE Goal
  BY <1>3, <1>12 DEF MarkUnpaid, SetStatus
<1>13. ASSUME NEW i \in Invoices, BeginPay(i) PROVE Goal
  <2>1. calls' = calls \cup {[kind |-> "pay", inv |-> i]} /\ UNCHANGED <<inv, ops, born>>
    BY <1>13 DEF BeginPay, coreVars
  <2> QED
    BY <1>0, <1>1, <2>1 DEF KeptFrom
<1>14. ASSUME NEW c \in calls, FinishPay(c) PROVE Goal
  <2>1. c.kind = "pay" /\ c.inv \in Invoices /\ calls' = calls \ {c} /\ UNCHANGED <<ops, born>>
    BY <1>1, <1>14 DEF FinishPay, SetStatus, Calls
  <2>2. CASE inv[c.inv].status = "absent"
    <3>1. inv' = inv
      BY <1>1, <1>14, <2>2 DEF FinishPay, SetStatus, InvoiceRecords
    <3> QED BY <1>0, <1>1, <2>1, <3>1 DEF KeptFrom
  <2>3. CASE inv[c.inv].status # "absent"
    <3>1. inv' = [inv EXCEPT ![c.inv].status = "paid"]
      BY <1>14, <2>3 DEF FinishPay, SetStatus
    <3> QED BY <1>3, <2>1, <2>3, <3>1
  <2> QED BY <2>2, <2>3
<1> HIDE DEF Goal
<1>15. Goal
  BY <1>4, <1>5, <1>6, <1>7, <1>8, <1>9, <1>10, <1>11, <1>12, <1>13, <1>14 DEF Command
<1> QED
  BY <1>15 DEF Goal

\* How a phase before the last leaves an owner.
LEMMA OwnerStep ==
  ASSUME TypeInv, ApplyPhase, NEW s \in Work
  PROVE  Owner(s)' = Owner(s) \/ Owner(s)' = NewOwner(s, Owner(s))
<1>1. /\ ents \in [Entries -> Owners] /\ charges \in [Expenses \cup Quotes -> Owners]
  BY DEF TypeInv, TypeOK
<1>2. CASE ApplyEntries
  BY <1>1, <1>2 DEF ApplyEntries, Owner, coreVars, Work
<1>3. CASE ApplyExpenses
  BY <1>1, <1>3 DEF ApplyExpenses, Owner, Work
<1>4. CASE ApplyTasks
  BY <1>1, <1>4 DEF ApplyTasks, Owner, Work
<1>5. CASE ApplyLinks \/ ApplyInvoice \/ Complete
  BY <1>5 DEF ApplyLinks, ApplyInvoice, Complete, Owner
<1> QED
  BY <1>2, <1>3, <1>4, <1>5 DEF ApplyPhase

\* A phase that releases reaches the work that the next one finds behind it.
LEMMA OwnerReached ==
  ASSUME TypeInv, ApplyPhase, ~Complete, NEW s \in Work, Reached(s)'
  PROVE  (Reached(s) /\ Owner(s)' = Owner(s)) \/ Owner(s)' = NewOwner(s, Owner(s))
<1>1. /\ ents \in [Entries -> Owners] /\ charges \in [Expenses \cup Quotes -> Owners]
      /\ run \in {Idle} \cup [op : OpIds, app : Operations, phase : Phases]
  BY DEF TypeInv, TypeOK
<1>2. run # Idle
  BY PhaseKeeps
<1>3. run \in [op : OpIds, app : Operations, phase : Phases]
  BY <1>1, <1>2
<1>4. CASE ApplyEntries
  <2>1. run.phase = "entries" /\ run'.phase = "expenses"
    BY <1>3, <1>4 DEF ApplyEntries, EnterPhase
  <2>2. s \in Entries
    BY <2>1 DEF Reached, Work
  <2> QED
    BY <1>1, <1>4, <2>2 DEF ApplyEntries, Owner
<1>5. CASE ApplyExpenses
  <2>1. run.phase = "expenses" /\ run'.phase = "tasks"
    BY <1>3, <1>5 DEF ApplyExpenses, EnterPhase
  <2>2. CASE s \in Entries
    BY <1>5, <2>1, <2>2 DEF ApplyExpenses, Owner, Reached
  <2>3. CASE s \in Expenses
    BY <1>1, <1>5, <2>3 DEF ApplyExpenses, Owner
  <2> QED
    BY <2>1, <2>2, <2>3 DEF Reached, Work
<1>6. CASE ApplyTasks
  <2>1. run.phase = "tasks" /\ run'.phase = "links"
    BY <1>3, <1>6 DEF ApplyTasks, EnterPhase
  <2>2. CASE s \in Entries
    BY <1>6, <2>1, <2>2 DEF ApplyTasks, Owner, Reached
  <2>3. CASE s \in Expenses
    BY <1>1, <1>6, <2>1, <2>3 DEF ApplyTasks, Owner, Reached
  <2>4. CASE s \in Quotes
    BY <1>1, <1>6, <2>4 DEF ApplyTasks, Owner
  <2> QED
    BY <2>2, <2>3, <2>4 DEF Work
<1>7. CASE ApplyLinks \/ ApplyInvoice
  <2>1. run.phase \in {"links", "invoice"}
    BY <1>7 DEF ApplyLinks, ApplyInvoice, EnterPhase
  <2>2. Owner(s)' = Owner(s)
    BY <1>7 DEF ApplyLinks, ApplyInvoice, Owner
  <2> QED
    BY <2>1, <2>2 DEF Reached, Work
<1> QED
  BY <1>4, <1>5, <1>6, <1>7 DEF ApplyPhase

\* The invoices, the journal and the released work, through the phases.
LEMMA PhaseHeals ==
  ASSUME HealInv, ApplyPhase
  PROVE  KeptFrom(inv, ops)' /\ RunGivesUp' /\ QuietHeals'
<1>1. /\ inv \in [Invoices -> InvoiceRecords] /\ KeptFrom(inv, ops) /\ RunGivesUp /\ QuietHeals
      /\ TypeInv
  BY DEF HealInv, ClaimsInv, TypeInv, TypeOK
<1>2. /\ run # Idle /\ UNCHANGED <<calls, replay, born>>
  BY <1>1, PhaseKeeps
<1>3. UNCHANGED quiet
  BY DEF ApplyPhase, ApplyEntries, ApplyExpenses, ApplyTasks, ApplyLinks, ApplyInvoice, Complete,
         EnterPhase
<1>4. /\ run.op \in OpIds /\ App \in Operations /\ App.inv \in Invoices
      /\ run \in [op : OpIds, app : Operations, phase : Phases]
  BY <1>1, <1>2, RunType DEF TypeInv, TypeOK, Operations
<1>5. App.kind = ops[run.op].kind /\ App.inv = ops[run.op].inv
  BY <1>2 DEF HealInv, ClaimsInv, RunIsJournaled
<1>6. CASE Complete
  <2>1. /\ run' = Idle /\ UNCHANGED <<inv, charges, ents>> /\ run.phase = "complete"
        /\ ops'[run.op] = [ops[run.op] EXCEPT !.state = "complete"]
        /\ ops[run.op] \in Operations
        /\ \A n \in OpIds : n # run.op => ops'[n] = ops[n]
    BY <1>1, <1>6, CompleteEffect DEF Complete
  <2>2. \A n \in OpIds :
          /\ ops'[n].kind = ops[n].kind /\ ops'[n].inv = ops[n].inv
          /\ n # run.op => ops'[n].state = ops[n].state
          /\ ops'[n].state = "prepared" => ops[n].state = "prepared"
    BY <2>1 DEF Operations
  <2>3. Finalizes(App) => IsIssued(inv[App.inv])
    BY <1>1, <1>2, <2>1 DEF RunGivesUp
  <2>4. KeptFrom(inv, ops)'
    <3>1. /\ \A i \in Invoices : i > born' => inv'[i] = Absent
          /\ \A n \in OpIds : ops'[n].inv <= born' /\ ops'[n].kind # "undo"
      BY <1>1, <1>2, <2>1, <2>2 DEF KeptFrom
    <3>2. \A n \in OpIds : Finalizes(ops'[n]) /\ ops'[n].state = "complete" =>
                             IsIssued(inv'[ops'[n].inv])
      BY <1>1, <1>5, <2>1, <2>2, <2>3 DEF KeptFrom, Finalizes
    <3>3. \A i \in Invoices : inv'[i].status = "canceled" =>
            \E n \in OpIds : ops'[n].kind = "cancel" /\ ops'[n].inv = i
      BY <1>1, <2>1, <2>2 DEF KeptFrom
    <3> QED
      BY <3>1, <3>2, <3>3 DEF KeptFrom
  <2>5. RunGivesUp'
    BY <2>1 DEF RunGivesUp
  <2>6. QuietHeals'
    <3> SUFFICES ASSUME quiet # "no" PROVE QuietHeals'
      BY <1>3 DEF QuietHeals
    <3>1. calls' = {} /\ replay'.todo \subseteq replay'.done /\ run' = Idle
      BY <1>1, <1>2, <2>1 DEF QuietHeals
    <3>2. Pending' = {}
      BY <1>1, <2>2 DEF QuietHeals, Pending
    <3>3. Live' = Live /\ \A s \in Work : Owner(s)' = Owner(s)
      BY <2>1 DEF Live, Owner
    <3>4. App.kind = "cancel" => \A s \in Work : Owner(s) # App.inv
      <4>1. \A s \in Work : Reached(s)
        BY <2>1 DEF Reached, Work
      <4> QED BY <1>1, <1>2, <4>1 DEF RunGivesUp
    <3>5. ASSUME NEW s \in Work, Owner(s) \in Invoices, Owner(s) \notin Live
          PROVE  quiet' = "passing" /\ ReleaseComes(Owner(s))'
      <4> DEFINE i == Owner(s)
      <4>1. quiet = "passing" /\ ReleaseComes(i)
        BY <1>1, <3>5 DEF QuietHeals
      <4>2. PICK n \in OpIds : /\ ops[n].kind = "cancel" /\ ops[n].inv = i
                               /\ n \in replay.todo \/ n = run.op
        BY <4>1 DEF ReleaseComes
      <4>3. n # run.op
        BY <1>5, <3>4, <4>2
      <4>4. \E m \in OpIds : ops'[m].kind = "cancel" /\ ops'[m].inv = i /\ m \in replay'.todo
        BY <1>2, <2>2, <4>2, <4>3
      <4>5. Owner(s)' = i
        BY <3>3
      <4> QED
        BY <1>3, <4>1, <4>4, <4>5 DEF ReleaseComes
    <3> QED
      BY <3>1, <3>2, <3>3, <3>5 DEF QuietHeals
  <2> QED
    BY <2>4, <2>5, <2>6
<1>7. CASE ~Complete
  <2>1. run' # Idle /\ run'.op = run.op /\ App' = App /\ ops' = ops
    BY <1>1, <1>7, PhaseEffect DEF App
  <2>2. App.kind = "cancel" => \A s \in Work : Owner(s)' = App.inv => Owner(s) = App.inv
    <3> SUFFICES ASSUME App.kind = "cancel", NEW s \in Work, Owner(s)' = App.inv
                 PROVE  Owner(s) = App.inv
      OBVIOUS
    <3>1. NewOwner(s, Owner(s)) \in {Owner(s), None}
      BY DEF NewOwner
    <3> QED
      BY <1>1, <1>4, <3>1, OwnerStep, NobodyIsNoInvoice
  <2>3. App.kind = "cancel" => \A s \in Work : Reached(s)' => Owner(s)' # App.inv
    <3> SUFFICES ASSUME App.kind = "cancel", NEW s \in Work, Reached(s)', Owner(s)' = App.inv
                 PROVE  FALSE
      OBVIOUS
    <3>1. Owner(s) = App.inv /\ s \in App.srcs
      BY <1>1, <1>2, <2>2 DEF RunGivesUp, OwnedBy
    <3>2. NewOwner(s, Owner(s)) = None
      BY <3>1 DEF NewOwner
    <3> QED
      BY <1>1, <1>2, <1>4, <1>7, <3>1, <3>2, OwnerReached, NobodyIsNoInvoice DEF RunGivesUp
  <2>4. App.kind = "cancel" => OwnedBy(App.inv)' \subseteq App.srcs
    BY <1>1, <1>2, <2>1, <2>2 DEF RunGivesUp, OwnedBy
  <2>5. CASE ApplyInvoice
    <3>1. /\ run.phase = "invoice" /\ inv' = [inv EXCEPT ![App.inv] = NewInvoice(inv[App.inv])]
          /\ UNCHANGED <<charges, ents>>
      BY <2>5 DEF ApplyInvoice, EnterPhase
    <3> DEFINE rec == inv[App.inv]
               new == NewInvoice(rec)
    <3>2. inv'[App.inv] = new /\ \A j \in Invoices : j # App.inv => inv'[j] = inv[j]
      BY <1>1, <1>4, <3>1
    <3>3. rec \in InvoiceRecords /\ App.kind \in {"finalize", "cancel"}
      BY <1>1, <1>4, <1>5 DEF KeptFrom, Operations
    <3>4. /\ App.kind = "finalize" => IsIssued(new)
          /\ IsIssued(rec) => IsIssued(new)
          /\ new.status = "canceled" => rec.status = "canceled" \/ App.kind = "cancel"
          /\ App.kind = "finalize" /\ rec.status \in {"sent", "paid"} => new = rec
      BY <3>3 DEF NewInvoice, IsIssued, InvoiceRecords, Statuses
    <3> HIDE DEF rec, new
    <3>5. KeptFrom(inv, ops)'
      <4>1. \A i \in Invoices : i > born' => inv'[i] = Absent
        <5>1. App.inv <= born
          BY <1>1, <1>4, <1>5 DEF KeptFrom
        <5>2. \A i \in Invoices : i > born => i # App.inv
          BY <1>1, <1>4, <5>1 DEF TypeInv, TypeOK, Invoices
        <5> QED BY <1>1, <1>2, <3>2, <5>2 DEF KeptFrom
      <4>2. \A n \in OpIds : Finalizes(ops[n]) /\ ops[n].state = "complete" =>
                               IsIssued(inv'[ops[n].inv])
        <5>1. \A n \in OpIds : Finalizes(ops[n]) => ops[n].inv \in Invoices
          BY <1>1, FinalizationsAreTyped
        <5> QED BY <1>1, <3>2, <3>4, <5>1 DEF KeptFrom, rec
      <4>3. \A i \in Invoices : inv'[i].status = "canceled" =>
              \E n \in OpIds : ops[n].kind = "cancel" /\ ops[n].inv = i
        BY <1>1, <1>4, <1>5, <3>2, <3>4 DEF KeptFrom, rec
      <4> QED
        BY <1>1, <1>2, <2>1, <4>1, <4>2, <4>3 DEF KeptFrom
    <3>6. RunGivesUp'
      BY <1>4, <2>1, <2>3, <2>4, <3>2, <3>4 DEF RunGivesUp, Finalizes
    <3>7. QuietHeals'
      <4> SUFFICES ASSUME quiet # "no" PROVE QuietHeals'
        BY <1>3 DEF QuietHeals
      <4>1. calls' = {} /\ replay'.todo \subseteq replay'.done /\ Pending' = {}
        BY <1>1, <1>2, <2>1 DEF QuietHeals, Pending
      <4>2. Finalizes(App) => inv' = inv
        <5>1. Finalizes(App) => new = rec
          BY <1>1, <1>2, <3>4 DEF QuietHeals, Live, Finalizes, rec
        <5> QED BY <1>1, <1>4, <3>1, <5>1 DEF new, rec
      <4>3. Finalizes(App)' => App'.inv \in Live'
        BY <1>1, <1>2, <2>1, <4>2 DEF QuietHeals, Live
      <4>4. \A s \in Work : Owner(s)' = Owner(s)
        BY <3>1 DEF Owner
      <4>5. \A s \in Work : Owner(s) \in Live => Owner(s)' \in Live'
        <5>1. CASE Finalizes(App)
          BY <4>2, <4>4, <5>1 DEF Live
        <5>2. CASE ~Finalizes(App)
          <6>1. \A s \in Work : Reached(s)
            BY <3>1 DEF Reached, Work
          <6>2. \A s \in Work : Owner(s) # App.inv
            BY <1>1, <1>2, <3>3, <5>2, <6>1 DEF RunGivesUp, Finalizes
          <6> QED BY <3>2, <4>4, <6>2 DEF Live
        <5> QED BY <5>1, <5>2
      <4>6. \A s \in Work : ReleaseComes(Owner(s)) => ReleaseComes(Owner(s))'
        BY <1>2, <2>1, <4>4 DEF ReleaseComes
      <4> QED
        BY <1>1, <1>3, <4>1, <4>3, <4>4, <4>5, <4>6 DEF QuietHeals
    <3> QED
      BY <3>5, <3>6, <3>7
  <2>6. CASE ~ApplyInvoice
    <3>1. inv' = inv
      BY <1>7, <2>6 DEF ApplyPhase, ApplyEntries, ApplyExpenses, ApplyTasks, ApplyLinks, coreVars
    <3>2. run'.phase # "complete"
      BY <1>4, <1>7, <2>6
      DEF ApplyPhase, ApplyEntries, ApplyExpenses, ApplyTasks, ApplyLinks, EnterPhase
    <3>3. KeptFrom(inv, ops)'
      BY <1>1, <1>2, <2>1, <3>1 DEF KeptFrom
    <3>4. RunGivesUp'
      BY <2>1, <2>3, <2>4, <3>2 DEF RunGivesUp
    <3>5. QuietHeals'
      <4> SUFFICES ASSUME quiet # "no" PROVE QuietHeals'
        BY <1>3 DEF QuietHeals
      <4>1. calls' = {} /\ replay'.todo \subseteq replay'.done /\ Pending' = {} /\ Live' = Live
        BY <1>1, <1>2, <2>1, <3>1 DEF QuietHeals, Pending, Live
      <4>2. Finalizes(App) => App.inv \in Live
        BY <1>1, <1>2 DEF QuietHeals
      <4>3. ASSUME NEW s \in Work, Owner(s)' \in Invoices
            PROVE  Owner(s)' \in Live' \/ (quiet' = "passing" /\ ReleaseComes(Owner(s))')
        <5>1. CASE Owner(s)' = Owner(s)
          BY <1>1, <1>2, <1>3, <2>1, <4>1, <4>3, <5>1 DEF QuietHeals, ReleaseComes
        <5>2. CASE Owner(s)' # Owner(s)
          <6>1. Owner(s)' = NewOwner(s, Owner(s)) /\ Owner(s)' # None
            BY <1>1, <4>3, <5>2, OwnerStep, NobodyIsNoInvoice
          <6>2. Owner(s)' = App.inv /\ Finalizes(App)
            BY <5>2, <6>1 DEF NewOwner, Finalizes
          <6> QED BY <4>1, <4>2, <6>2
        <5> QED BY <5>1, <5>2
      <4> QED
        BY <2>1, <4>1, <4>2, <4>3 DEF QuietHeals
    <3> QED
      BY <3>3, <3>4, <3>5
  <2> QED
    BY <2>5, <2>6
<1> QED
  BY <1>6, <1>7

\* An application starts, of its command or of a replay: a cancellation takes
\* all the work that its invoice owns.
LEMMA StartGivesUp ==
  ASSUME TypeInv, run = Idle, NEW n \in OpIds, ops[n] # NoOp, NEW known, Apply(n, known),
         UNCHANGED <<ents, charges>>
  PROVE  RunGivesUp'
<1>1. ops[n] \in Operations
  BY JournaledPlan DEF TypeInv
<1> DEFINE app == IF ops[n].kind = "cancel" THEN CancelReplay(ops[n]) ELSE ops[n]
<1>2. run' = Idle \/ run' = [op |-> n, phase |-> "entries", app |-> app]
  BY DEF Apply
<1>3. app.kind = ops[n].kind /\ app.inv = ops[n].inv
  BY <1>1, CancelReplayType DEF TypeInv
<1>4. app.kind = "cancel" => OwnedBy(app.inv) \subseteq app.srcs
  <2>1. CASE ops[n].kind = "cancel"
    <3>1. app.srcs = ops[n].srcs \cup OwnedBy(ops[n].inv)
      BY <1>1, <2>1 DEF CancelReplay, Operations
    <3> HIDE DEF app
    <3> QED BY <1>3, <3>1
  <2> HIDE DEF app
  <2> QED
    BY <1>3, <2>1
<1> HIDE DEF app
<1>5. CASE run' = [op |-> n, phase |-> "entries", app |-> app]
  <2>1. App' = app /\ run'.phase = "entries"
    BY <1>5 DEF App
  <2>2. \A s \in Work : ~Reached(s)'
    BY <2>1, WorkAssumption DEF Reached, Work
  <2>3. \A s \in Work : Owner(s)' = Owner(s)
    BY DEF Owner
  <2> QED
    BY <1>4, <2>1, <2>2, <2>3 DEF RunGivesUp, OwnedBy
<1> QED
  BY <1>2, <1>5 DEF RunGivesUp

\* A replay that no command runs into starts with nothing left to apply, and
\* whoever owns work is issued: charged, or canceled by a plan of the journal.
LEMMA QuietBegins ==
  ASSUME HealInv, StartReplay
  PROVE  QuietHeals'
<1>1. /\ TypeInv /\ ClaimsInv /\ AllAwaited /\ KeptFrom(inv, ops) /\ QuietHeals
  BY DEF HealInv, ClaimsInv
<1>2. /\ run = Idle /\ replay.mode = "none" /\ UNCHANGED <<inv, ops, ents, charges, calls, run>>
      /\ replay' = [mode |-> "sync", todo |-> {n \in OpIds : ops[n] # NoOp},
                    done |-> {n \in OpIds : ops[n].state = "complete"}]
      /\ quiet' = IF quiet = "no" /\ calls = {} THEN "passing" ELSE quiet
  BY DEF StartReplay, Ready, coreVars
<1>3. /\ Live' = Live /\ Pending' = Pending
      /\ \A s \in Work : Owner(s)' = Owner(s)
  BY <1>2 DEF Live, Pending, Owner
<1> SUFFICES ASSUME quiet' # "no" PROVE QuietHeals'
  BY DEF QuietHeals
<1>4. calls = {} /\ Pending = {}
  BY <1>1, <1>2 DEF QuietHeals, AllAwaited
<1>5. \A n \in OpIds : ops[n] # NoOp => ops[n].state = "complete"
  BY <1>1, <1>4 DEF Pending, TypeInv, TypeOK, Operations
<1>6. replay'.todo \subseteq replay'.done /\ \A n \in OpIds : ops[n] # NoOp => n \in replay'.todo
  BY <1>2, <1>5
<1>7. ASSUME NEW s \in Work, Owner(s) \in Invoices, quiet' = "passing"
      PROVE  Owner(s) \in Live \/ ReleaseComes(Owner(s))'
  <2> DEFINE i == Owner(s)
  <2>1. \E n \in OpIds : Finalizes(ops[n]) /\ ops[n].inv = i
    BY <1>1, <1>7, NobodyIsNoInvoice
    DEF ClaimsInv, AllBacked, Backed, TypeOK, TypeInv, Owner, Work, Finalizes
  <2>2. IsIssued(inv[i])
    <3>1. PICK n \in OpIds : Finalizes(ops[n]) /\ ops[n].inv = i
      BY <2>1
    <3>2. ops[n].state = "complete"
      BY <1>5, <3>1 DEF Finalizes, NoOp
    <3> QED BY <1>1, <3>1, <3>2 DEF KeptFrom
  <2>3. CASE inv[i].status = "canceled"
    <3>1. PICK n \in OpIds : ops[n].kind = "cancel" /\ ops[n].inv = i
      BY <1>1, <1>7, <2>3 DEF KeptFrom
    <3>2. n \in replay'.todo
      BY <1>6, <3>1 DEF NoOp
    <3>3. ops'[n].kind = "cancel" /\ ops'[n].inv = Owner(s)'
      BY <1>2, <1>3, <3>1
    <3> QED BY <3>2, <3>3 DEF ReleaseComes
  <2> QED
    BY <1>7, <2>2, <2>3 DEF IsIssued, Live
<1>8. quiet' = "passing" \/ (quiet = "yes" /\ quiet' = "yes")
  BY <1>1, <1>2 DEF TypeInv, TypeOK
<1>9. quiet' = "passing" => \A s \in Work : Owner(s)' \in Invoices =>
        Owner(s)' \in Live' \/ ReleaseComes(Owner(s))'
  BY <1>3, <1>7
<1>10. quiet' = "yes" => \A s \in Work : Owner(s)' \in Invoices => Owner(s)' \in Live'
  BY <1>1, <1>3, <1>8 DEF QuietHeals
<1> QED
  BY <1>2, <1>3, <1>4, <1>6, <1>8, <1>9, <1>10 DEF QuietHeals

\* The next plan of a replay: nobody loses the release that is to come.
LEMMA QuietGoesOn ==
  ASSUME HealInv, ReplayNext
  PROVE  QuietHeals'
<1>1. TypeInv /\ QuietHeals
  BY DEF HealInv, ClaimsInv
<1>2. PICK n \in replay.todo :
           /\ n \in OpIds /\ ops[n] # NoOp
           /\ Apply(n, IF n \in replay.done THEN "complete" ELSE "prepared")
           /\ replay'.todo = replay.todo \ {n}
           /\ replay'.mode = replay.mode /\ replay'.done = replay.done
  BY <1>1, ReplayNextEffect
<1>3. run = Idle /\ UNCHANGED <<inv, ops, ents, charges, calls, quiet>>
  BY DEF ReplayNext, coreVars
<1>4. Live' = Live /\ Pending' = Pending /\ \A s \in Work : Owner(s)' = Owner(s)
  BY <1>3 DEF Live, Pending, Owner
<1> SUFFICES ASSUME quiet # "no" PROVE QuietHeals'
  BY <1>3 DEF QuietHeals
<1>5. calls' = {} /\ Pending' = {} /\ replay'.todo \subseteq replay'.done /\ n \in replay.done
  BY <1>1, <1>2, <1>3, <1>4 DEF QuietHeals
<1>6. Apply(n, "complete")
  BY <1>2, <1>5, <1>1 DEF QuietHeals
<1>7. run' # Idle /\ Finalizes(App)' => App'.inv \in Live'
  <2> SUFFICES ASSUME run' # Idle, Finalizes(App)' PROVE App'.inv \in Live'
    OBVIOUS
  <2>1. ~Superseded(ops[n], "complete")
    BY <1>6 DEF Apply
  <2>2. run'.app.kind = ops[n].kind /\ run'.app.inv = ops[n].inv
    BY <1>1, <1>2, ApplyKeeps
  <2>3. Finalizes(ops[n])
    BY <2>2 DEF Finalizes, App
  <2>4. inv[ops[n].inv].status \in {"sent", "paid"} /\ ops[n].inv \in Invoices
    BY <1>1, <2>1, <2>3, FinalizationsAreTyped
    DEF Superseded, Finalizes, TypeInv, TypeOK, InvoiceRecords, Statuses
  <2> QED
    BY <1>3, <2>2, <2>4 DEF Live, App
<1>8. \A s \in Work : ReleaseComes(Owner(s)) => ReleaseComes(Owner(s))'
  <2> SUFFICES ASSUME NEW s \in Work, ReleaseComes(Owner(s)) PROVE ReleaseComes(Owner(s))'
    OBVIOUS
  <2>1. PICK m \in OpIds : /\ ops[m].kind = "cancel" /\ ops[m].inv = Owner(s)
                           /\ m \in replay.todo
    BY <1>3 DEF ReleaseComes
  <2>2. m = n => run' # Idle /\ run'.op = n
    <3> SUFFICES ASSUME m = n PROVE run' # Idle /\ run'.op = n
      OBVIOUS
    <3>1. ~Superseded(ops[n], "complete")
      BY <2>1 DEF Superseded
    <3>2. run'.op = n /\ run'.phase = "entries"
      BY <1>6, <3>1 DEF Apply
    <3> QED BY <3>2 DEF Idle
  <2>3. m \in replay'.todo \/ (run' # Idle /\ run'.op = m)
    BY <1>2, <2>1, <2>2
  <2> QED
    BY <1>3, <1>4, <2>1, <2>3 DEF ReleaseComes
<1> QED
  BY <1>1, <1>3, <1>4, <1>5, <1>7, <1>8 DEF QuietHeals

\* Every step heals, or keeps what is healed.
LEMMA NextHealInv ==
  ASSUME InOrder, "undo" \notin Features, HealInv, [Next]_vars
  PROVE  HealInv'
<1>1. ClaimsInv' /\ BootFirst' /\ AllAwaited'
  BY NextClaimsInv, NextBootFirst, NextAllAwaited DEF HealInv, ClaimsInv
<1> DEFINE Memory == KeptFrom(inv, ops)
           Disk == KeptFrom(coreDisk.inv, coreDisk.ops)
           NoUndo == \A c \in calls : c.kind # "undo"
<1>2. Memory /\ Disk /\ NoUndo /\ RunGivesUp /\ QuietHeals /\ TypeInv
  BY DEF HealInv, ClaimsInv
<1>3. ASSUME Memory', Disk', NoUndo', RunGivesUp', QuietHeals' PROVE HealInv'
  BY <1>1, <1>3 DEF HealInv
<1>4. CASE Command
  <2>1. Memory' /\ NoUndo' /\ born' \in {born, born + 1}
    BY <1>4, CommandKept
  <2>2. UNCHANGED coreDisk /\ run' = Idle /\ quiet' = "no"
    BY <1>2, <1>4, CommandKeeps, CommandQuiet
  <2>3. Disk'
    <3>1. born \in Nat /\ Invoices \subseteq Nat /\ \A n \in OpIds : coreDisk.ops[n].inv \in Nat
      BY <1>2 DEF TypeInv, TypeOK, CoreStates, Invoices, Operations, NoOp
    <3>2. \A i \in Nat : i > born' => i > born
      BY <2>1, <3>1
    <3>3. \A i \in Nat : i <= born => i <= born'
      BY <2>1, <3>1
    <3> QED
      BY <1>2, <2>2, <3>1, <3>2, <3>3 DEF KeptFrom
  <2>4. RunGivesUp' /\ QuietHeals'
    BY <2>2 DEF RunGivesUp, QuietHeals
  <2> HIDE DEF Memory, Disk, NoUndo
  <2> QED
    BY <1>3, <2>1, <2>3, <2>4
<1>5. CASE ApplyPhase
  <2>1. Memory' /\ RunGivesUp' /\ QuietHeals'
    BY <1>5, PhaseHeals
  <2>2. UNCHANGED <<coreDisk, calls, born>>
    BY <1>2, <1>5, PhaseKeeps
  <2>3. Disk' /\ NoUndo'
    BY <1>2, <2>2 DEF KeptFrom
  <2> HIDE DEF Memory, Disk, NoUndo
  <2> QED
    BY <1>3, <2>1, <2>3
<1>6. CASE (\E c \in calls : ApplyOwn(c)) \/ ReplayNext
  <2>1. /\ run = Idle /\ calls' \subseteq calls
        /\ UNCHANGED <<inv, ops, ents, charges, coreDisk, born>>
        /\ \E n \in OpIds : \E known : ops[n] # NoOp /\ Apply(n, known)
    BY <1>2, <1>6, StartKeeps
  <2>2. Memory' /\ Disk' /\ NoUndo'
    BY <1>2, <2>1 DEF KeptFrom
  <2>3. RunGivesUp'
    BY <1>2, <2>1, StartGivesUp
  <2>4. QuietHeals'
    <3>1. CASE ReplayNext
      BY <3>1, QuietGoesOn
    <3>2. CASE \E c \in calls : ApplyOwn(c)
      <4>1. quiet = "no" /\ quiet' = quiet
        BY <1>2, <3>2 DEF QuietHeals, ApplyOwn
      <4> QED BY <4>1 DEF QuietHeals
    <3> QED BY <1>6, <3>1, <3>2
  <2> HIDE DEF Memory, Disk, NoUndo
  <2> QED
    BY <1>3, <2>2, <2>3, <2>4
<1>7. CASE StartReplay \/ EndReplay
  <2>1. UNCHANGED <<inv, ops, ents, charges, coreDisk, calls, run, born>>
    BY <1>7, ReplayKeeps
  <2>2. Memory' /\ Disk' /\ NoUndo'
    BY <1>2, <2>1 DEF KeptFrom
  <2>3. RunGivesUp'
    BY <1>2, <2>1 DEF RunGivesUp, App, OwnedBy, Owner, Reached
  <2>4. QuietHeals'
    <3>1. CASE StartReplay
      BY <3>1, QuietBegins
    <3>2. CASE EndReplay
      <4>1. /\ run = Idle /\ replay.todo = {} /\ replay' = NoReplay
            /\ quiet' = IF quiet = "passing" THEN "yes" ELSE quiet
        BY <3>2 DEF EndReplay
      <4>2. \A s \in Work : ~ReleaseComes(Owner(s))
        BY <4>1 DEF ReleaseComes
      <4>3. Live' = Live /\ Pending' = Pending /\ \A s \in Work : Owner(s)' = Owner(s)
        BY <2>1 DEF Live, Pending, Owner
      <4> QED
        BY <1>2, <2>1, <4>1, <4>2, <4>3 DEF QuietHeals, NoReplay
    <3> QED BY <1>7, <3>1, <3>2
  <2> HIDE DEF Memory, Disk, NoUndo
  <2> QED
    BY <1>3, <2>2, <2>3, <2>4
<1>8. CASE Persist \/ UNCHANGED vars
  <2>1. UNCHANGED <<inv, ops, ents, charges, calls, run, replay, born, quiet>>
        /\ (coreDisk' = coreDisk \/ coreDisk' = Core)
    BY <1>8 DEF Persist, PersistBoth, PersistCore, PersistEntries, vars, coreVars
  <2>2. Disk'
    <3>1. CASE coreDisk' = coreDisk
      BY <1>2, <2>1, <3>1 DEF KeptFrom
    <3>2. CASE coreDisk' = Core
      <4>1. coreDisk'.inv = inv /\ coreDisk'.ops = ops
        BY <3>2 DEF Core
      <4> QED BY <1>2, <2>1, <4>1 DEF KeptFrom
    <3> QED BY <2>1, <3>1, <3>2
  <2>3. Memory' /\ NoUndo' /\ RunGivesUp'
    BY <1>2, <2>1 DEF KeptFrom, RunGivesUp, App, OwnedBy, Owner, Reached
  <2>4. QuietHeals'
    BY <1>2, <2>1 DEF QuietHeals, Pending, App, Live, Owner, ReleaseComes
  <2> HIDE DEF Memory, Disk, NoUndo
  <2> QED
    BY <1>3, <2>2, <2>3, <2>4
<1>9. CASE CrashAndRestart
  <2>1. /\ inv' = coreDisk.inv /\ ops' = coreDisk.ops /\ calls' = {} /\ run' = Idle
        /\ quiet' = "no" /\ UNCHANGED <<coreDisk, born>>
    BY <1>9 DEF CrashAndRestart, diskVars
  <2>2. Memory' /\ Disk' /\ NoUndo'
    BY <1>2, <2>1 DEF KeptFrom
  <2>3. RunGivesUp' /\ QuietHeals'
    BY <2>1 DEF RunGivesUp, QuietHeals
  <2> HIDE DEF Memory, Disk, NoUndo
  <2> QED
    BY <1>3, <2>2, <2>3
<1> QED
  BY <1>4, <1>5, <1>6, <1>7, <1>8, <1>9 DEF Next

\* Where the two databases are written in the order of the changes and no
\* invoice is undone, after a replay of the whole journal that no command ran
\* into, all work belongs to charged invoices or to nobody, whatever earlier
\* replays, payments, cancellations and crashes did and however many commands
\* were in flight: a replay may give work back to a canceled invoice, and its
\* cancellation, replayed too, takes it away again.
THEOREM ReplaysHeal ==
  ASSUME InOrder, "undo" \notin Features
  PROVE  Spec => []ReplayHeals
<1>1. Init => HealInv
  BY InitHealInv
<1>2. HealInv /\ [Next]_vars => HealInv'
  BY NextHealInv
<1>3. HealInv => ReplayHeals
  <2> SUFFICES ASSUME HealInv, quiet = "yes", NEW s \in Work, Owner(s) # None
               PROVE  Owner(s) \in Live
    BY DEF ReplayHeals
  <2>1. Owner(s) \in Invoices
    BY DEF HealInv, ClaimsInv, TypeInv, TypeOK, Owner, Owners, Work
  <2> QED
    BY <2>1 DEF HealInv, QuietHeals
<1> QED
  BY <1>1, <1>2, <1>3, PTL DEF Spec

-----------------------------------------------------------------------------
(* The cutoffs cover what is billed, where one command runs at a time.     *)

\* One plan at most is still to be completed.
LonePlan(journal) ==
  \A n, m \in OpIds : journal[n].state = "prepared" /\ journal[m].state = "prepared" => n = m

\* The cutoff of a task is not before an entry that is billed, unless a plan
\* for the invoice that bills it is still to be completed.
Covered(journal, owners, cuts) ==
  \A e \in Entries : owners[e] # None =>
    \/ EndOf[e] <= cuts[TaskOf[e]]
    \/ \E n \in OpIds : journal[n].state = "prepared" /\ journal[n].inv = owners[e]

\* A plan to finalize covers what it claims, and its invoice owns no more; a
\* plan to release covers what the other invoices own on its tasks.
PlansCover(journal, owners, cuts) ==
  \A n \in OpIds : journal[n].state = "prepared" =>
    /\ Finalizes(journal[n]) =>
         \A e \in Entries :
           /\ e \in journal[n].srcs =>
                \/ EndOf[e] <= cuts[TaskOf[e]]
                \/ EndOf[e] <= journal[n].cuts[TaskOf[e]]
           /\ owners[e] = journal[n].inv => e \in journal[n].srcs
    /\ Releases(journal[n]) =>
         \A e \in Entries :
           owners[e] \notin {None, journal[n].inv} /\ TaskOf[e] \in TasksOf(journal[n].sel) =>
             EndOf[e] <= journal[n].cuts[TaskOf[e]]

CoverFrom(journal, owners, cuts) ==
  LonePlan(journal) /\ Covered(journal, owners, cuts) /\ PlansCover(journal, owners, cuts)

\* The same of the plan as it is applied, and what the task phase made of it.
RunCovers ==
  run # Idle =>
    /\ Finalizes(App) => App.cuts = ops[run.op].cuts
    /\ Finalizes(App) /\ run.phase \in {"links", "invoice", "complete"} =>
         \A e \in Entries : ents[e] = App.inv => EndOf[e] <= cutoff[TaskOf[e]]
    /\ Releases(App) =>
         \A e \in Entries : ents[e] \notin {None, App.inv} /\ TaskOf[e] \in TasksOf(App.sel) =>
                              EndOf[e] <= App.cuts[TaskOf[e]]

CoverInv ==
  /\ WorkInv /\ AllAwaited /\ OneWait
  /\ CoverFrom(ops, ents, cutoff) /\ CoverFrom(coreDisk.ops, entsDisk, coreDisk.cutoff)
  /\ RunCovers

\* What the argument needs of the types.
LEMMA CoverTypes ==
  ASSUME TypeInv
  PROVE  /\ ops \in [OpIds -> Operations \cup {NoOp}] /\ calls \subseteq Calls
         /\ ents \in [Entries -> Owners] /\ cutoff \in [Tasks -> Nat]
         /\ \A e \in Entries : EndOf[e] \in Nat /\ TaskOf[e] \in Tasks
         /\ \A e \in Entries : Owner(e) = ents[e] /\ Own[e] = ents[e]
         /\ \A n \in OpIds : ops[n].state = "prepared" =>
                               ops[n] \in Operations /\ ops[n].cuts \in [Tasks -> Nat]
BY DEF TypeInv, TypeOK, Cutoffs, Owner, Own, Work, NoOp, Operations

\* The last end of the entries in a set is not before any of them.
LEMMA LatestEndBound ==
  ASSUME NEW S \in SUBSET Work, NEW e \in S \cap Entries
  PROVE  EndOf[e] <= LatestEnd(S, TaskOf[e])
<1> DEFINE t == TaskOf[e]
           E == {0} \cup {EndOf[f] : f \in {g \in S \cap Entries : TaskOf[g] = t}}
<1>1. E \in SUBSET Nat /\ E # {} /\ \A x \in E : x <= Horizon
  OBVIOUS
<1>2. \A x \in E : x <= Max(E)
  <2> HIDE DEF E
  <2> QED BY <1>1, BoundedMax
<1>3. EndOf[e] \in E
  OBVIOUS
<1> QED
  BY <1>2, <1>3 DEF LatestEnd

\* The cutoff a release falls back to is not before an entry of another
\* invoice.
LEMMA RestoredCutoffBound ==
  ASSUME NEW i, NEW was \in Cutoffs, NEW e \in Entries, ents[e] \notin {None, i}
  PROVE  EndOf[e] <= RestoredCutoff(i, was, TaskOf[e])
<1> DEFINE t == TaskOf[e]
           E == {was[t]} \cup {EndOf[f] : f \in {g \in Entries :
                                   TaskOf[g] = t /\ ents[g] \notin {None, i}}}
<1>1. E \in SUBSET Nat /\ E # {} /\ \A x \in E : x <= Horizon
  BY DEF Cutoffs
<1>2. \A x \in E : x <= Max(E)
  <2> HIDE DEF E
  <2> QED BY <1>1, BoundedMax
<1>3. EndOf[e] \in E
  OBVIOUS
<1> QED
  BY <1>2, <1>3 DEF RestoredCutoff

\* A finalization only raises a cutoff, and covers what its plan covers.
LEMMA RaisedCutoff ==
  ASSUME TypeOK, App \in Operations, Finalizes(App), NEW t \in Tasks
  PROVE  cutoff[t] <= NewCutoff(t) /\ App.cuts[t] <= NewCutoff(t)
<1> DEFINE E == {cutoff[t], App.cuts[t]}
<1>1. E \in SUBSET Nat /\ E # {} /\ \A x \in E : x <= Horizon
  BY DEF TypeOK, Operations, Cutoffs
<1>2. \A x \in E : x <= Max(E)
  <2> HIDE DEF E
  <2> QED BY <1>1, BoundedMax
<1>3. NewCutoff(t) = Max(E)
  BY DEF NewCutoff, Finalizes
<1> QED
  BY <1>2, <1>3

\* One command waits at a time, through every step.
LEMMA NextOneWait ==
  ASSUME MaxInFlight <= 1, TypeInv, AllAwaited, OneWait, [Next]_vars
  PROVE  OneWait'
<1>1. CASE calls' \subseteq calls
  BY <1>1 DEF OneWait
<1>2. CASE Command
  <2> DEFINE Goal == calls' \subseteq calls \/ \E c : calls' = {c}
  <2>1. MayStart => calls = {}
    BY NothingWaits
  <2>2. ASSUME NEW sel \in Selections, SaveDraft(sel) PROVE Goal
    BY <2>2 DEF SaveDraft
  <2>3. ASSUME NEW i \in Invoices, NEW sel \in Selections, RefreshDraft(i, sel) PROVE Goal
    BY <2>3 DEF RefreshDraft
  <2>4. ASSUME NEW i \in Invoices, DeleteDraft(i) PROVE Goal
    BY <2>4 DEF DeleteDraft
  <2>5. ASSUME NEW n \in OpIds, NEW i \in Invoices, NEW sel \in Selections \cup {inv[i].sel},
               PrepareFinalize(n, i, sel)
        PROVE Goal
    BY <2>1, <2>5 DEF PrepareFinalize
  <2>6. ASSUME NEW i \in Invoices, BeginUndo(i) PROVE Goal
    BY <2>1, <2>6 DEF BeginUndo
  <2>7. ASSUME NEW n \in OpIds, NEW c \in calls, PrepareUndo(n, c) PROVE Goal
    <3>1. calls = {c} /\ calls' = (calls \ {c}) \cup {[kind |-> "apply", op |-> n]}
      BY <2>7 DEF PrepareUndo, OneWait
    <3> QED BY <3>1
  <2>8. ASSUME NEW n \in OpIds, NEW i \in Invoices, PrepareCancel(n, i) PROVE Goal
    BY <2>1, <2>8 DEF PrepareCancel
  <2>9. ASSUME NEW i \in Invoices, Pay(i) \/ MarkUnpaid(i) PROVE Goal
    BY <2>9 DEF Pay, MarkUnpaid
  <2>10. ASSUME NEW i \in Invoices, BeginPay(i) PROVE Goal
    BY <2>1, <2>10 DEF BeginPay
  <2>11. ASSUME NEW c \in calls, FinishPay(c) PROVE Goal
    BY <2>11 DEF FinishPay
  <2> HIDE DEF Goal
  <2>12. Goal
    BY <1>2, <2>2, <2>3, <2>4, <2>5, <2>6, <2>7, <2>8, <2>9, <2>10, <2>11 DEF Command
  <2> QED
    BY <1>1, <2>12 DEF Goal, OneWait
<1>3. CASE ApplyPhase
  BY <1>1, <1>3, PhaseKeeps
<1>4. CASE (\E c \in calls : ApplyOwn(c)) \/ ReplayNext
  <2>1. calls' \in SUBSET calls
    BY <1>4, StartKeeps
  <2> QED BY <1>1, <2>1
<1>5. CASE StartReplay \/ EndReplay
  BY <1>1, <1>5, ReplayKeeps
<1>6. CASE Persist \/ UNCHANGED vars
  BY <1>1, <1>6 DEF Persist, PersistBoth, PersistCore, PersistEntries, vars
<1>7. CASE CrashAndRestart
  BY <1>1, <1>7 DEF CrashAndRestart
<1> QED
  BY <1>2, <1>3, <1>4, <1>5, <1>6, <1>7 DEF Next

\* An empty workspace bills nothing.
LEMMA InitCoverInv == Init => CoverInv
<1> SUFFICES ASSUME Init PROVE CoverInv
  OBVIOUS
<1>1. /\ \A n \in OpIds : ops[n].state # "prepared"
      /\ \A e \in Entries : ents[e] = None
      /\ calls = {} /\ run = Idle /\ Pending = {}
  BY DEF Init, NoOp, Pending
<1>2. coreDisk.ops = ops /\ entsDisk = ents /\ coreDisk.cutoff = cutoff
  BY DEF Init, Core
<1>3. CoverFrom(ops, ents, cutoff)
  BY <1>1 DEF CoverFrom, LonePlan, Covered, PlansCover
<1>4. AllAwaited /\ OneWait /\ RunCovers
  BY <1>1 DEF AllAwaited, OneWait, RunCovers
<1> QED
  BY <1>2, <1>3, <1>4, InitWorkInv DEF CoverInv

\* A plan is journaled where none is left to complete: it covers what it will
\* change.
LEMMA PlanCover ==
  ASSUME CoverInv, Pending = {}, NEW n \in OpIds, NEW op, Journal(n, op),
         UNCHANGED <<ents, cutoff>>,
         Finalizes(op) => \A e \in Entries :
           /\ e \in op.srcs => \/ EndOf[e] <= cutoff[TaskOf[e]]
                               \/ EndOf[e] <= op.cuts[TaskOf[e]]
           /\ ents[e] # op.inv,
         Releases(op) => \A e \in Entries :
           ents[e] \notin {None, op.inv} /\ TaskOf[e] \in TasksOf(op.sel) =>
             EndOf[e] <= op.cuts[TaskOf[e]]
  PROVE  CoverFrom(ops, ents, cutoff)'
<1>1. ops'[n] = op /\ \A m \in OpIds : m # n => ops'[m] = ops[m] /\ ops[m].state # "prepared"
  BY CoverTypes DEF Journal, Pending, CoverInv, WorkInv
<1>2. LonePlan(ops')
  BY <1>1 DEF LonePlan
<1>3. \A e \in Entries : ents[e] # None => EndOf[e] <= cutoff[TaskOf[e]]
  BY DEF CoverInv, CoverFrom, Covered, Pending
<1>4. Covered(ops', ents, cutoff)
  BY <1>3 DEF Covered
<1>5. PlansCover(ops', ents, cutoff)
  BY <1>1 DEF PlansCover
<1> QED
  BY <1>2, <1>4, <1>5 DEF CoverFrom

\* What the commands do.
LEMMA CommandCover ==
  ASSUME MaxInFlight <= 1, CoverInv, Command
  PROVE  CoverFrom(ops, ents, cutoff)'
<1> DEFINE Goal == CoverFrom(ops, ents, cutoff)'
<1>1. /\ CoverFrom(ops, ents, cutoff) /\ TypeInv /\ AllAwaited /\ OneWait
      /\ UNCHANGED <<ents, cutoff>> /\ inv \in [Invoices -> InvoiceRecords]
      /\ \A e \in Entries : EndOf[e] \in Nat /\ TaskOf[e] \in Tasks
      /\ cutoff \in [Tasks -> Nat]
  BY CommandKeeps, CoverTypes DEF CoverInv, WorkInv, TypeInv, TypeOK
<1>2. MayStart => Pending = {}
  BY <1>1, NothingWaits
<1>3. ASSUME UNCHANGED ops PROVE Goal
  BY <1>1, <1>3
\* A release, of an invoice recorded as rec.
<1>4. ASSUME NEW kind \in {"undo", "cancel"}, NEW n \in OpIds, NEW i \in Invoices,
             NEW rec \in InvoiceRecords, NEW to, Pending = {},
             Journal(n, ReleaseOp(kind, i, rec, to))
      PROVE Goal
  <2> DEFINE op == ReleaseOp(kind, i, rec, to)
  <2>1. op.kind = kind /\ op.inv = i /\ op.sel = rec.sel /\ rec.was \in Cutoffs
        /\ \A t \in TasksOf(rec.sel) \cap Tasks : op.cuts[t] = RestoredCutoff(i, rec.was, t)
    BY DEF ReleaseOp, InvoiceRecords
  <2>2. Journal(n, op)
    BY <1>4
  <2> HIDE DEF op
  <2>3. \A e \in Entries : ents[e] \notin {None, i} /\ TaskOf[e] \in TasksOf(rec.sel) =>
                             EndOf[e] <= op.cuts[TaskOf[e]]
    BY <1>1, <2>1, RestoredCutoffBound
  <2> QED
    BY <1>1, <1>4, <2>1, <2>2, <2>3, PlanCover DEF Finalizes
<1>5. ASSUME NEW sel \in Selections, SaveDraft(sel) PROVE Goal
  BY <1>3, <1>5 DEF SaveDraft
<1>6. ASSUME NEW i \in Invoices, NEW sel \in Selections, RefreshDraft(i, sel) PROVE Goal
  BY <1>3, <1>6 DEF RefreshDraft
<1>7. ASSUME NEW i \in Invoices, DeleteDraft(i) PROVE Goal
  BY <1>3, <1>7 DEF DeleteDraft
<1>8. ASSUME NEW n \in OpIds, NEW i \in Invoices, NEW sel \in Selections \cup {inv[i].sel},
             PrepareFinalize(n, i, sel)
      PROVE Goal
  <2> DEFINE op == FinalizeOp(i, sel)
  <2>1. op.kind = "finalize" /\ op.inv = i /\ op.srcs = sel
        /\ \A t \in Tasks : op.cuts[t] = IF LatestEnd(sel, t) > cutoff[t]
                                         THEN LatestEnd(sel, t) ELSE 0
    BY DEF FinalizeOp
  <2>2. Journal(n, op) /\ Pending = {} /\ inv[i].status \in {"draft", "absent"}
    BY <1>2, <1>8 DEF PrepareFinalize
  <2>3. sel \in SUBSET Work
    BY <1>1 DEF InvoiceRecords
  <2> HIDE DEF op
  <2>4. \A e \in Entries : e \in sel => \/ EndOf[e] <= cutoff[TaskOf[e]]
                                        \/ EndOf[e] <= op.cuts[TaskOf[e]]
    <3> SUFFICES ASSUME NEW e \in Entries, e \in sel
                 PROVE  EndOf[e] <= cutoff[TaskOf[e]] \/ EndOf[e] <= op.cuts[TaskOf[e]]
      OBVIOUS
    <3>1. EndOf[e] <= LatestEnd(sel, TaskOf[e]) /\ LatestEnd(sel, TaskOf[e]) \in 0..Horizon
      BY <1>1, <2>3, LatestEndBound, LatestEndType
    <3> QED
      BY <1>1, <2>1, <3>1
  <2>5. \A e \in Entries : ents[e] # i
    <3> SUFFICES ASSUME NEW e \in Entries, ents[e] = i PROVE FALSE
      OBVIOUS
    <3>1. Own[e] = i /\ e \in Work /\ i # None
      BY <1>1, CoverTypes, NobodyIsNoInvoice DEF Work
    <3>2. Finalizing(ops) = {} /\ Releasing(ops) = {}
      BY <2>2 DEF Pending, Finalizing, Releasing
    <3>3. Accounted(inv, ops, Own, Part)
      BY DEF CoverInv, WorkInv, WorkFrom
    <3>4. Charged(inv[i])
      BY <3>1, <3>2, <3>3 DEF Accounted
    <3> QED
      BY <2>2, <3>4 DEF Charged
  <2> QED
    BY <1>1, <2>1, <2>2, <2>4, <2>5, PlanCover DEF Releases
<1>9. ASSUME NEW i \in Invoices, BeginUndo(i) PROVE Goal
  BY <1>3, <1>9 DEF BeginUndo, coreVars
<1>10. ASSUME NEW n \in OpIds, NEW c \in calls, PrepareUndo(n, c) PROVE Goal
  <2>1. c.kind = "undo" /\ calls = {c} /\ Ready /\ c.inv \in Invoices /\ c.rec \in InvoiceRecords
    BY <1>1, <1>10 DEF PrepareUndo, OneWait, TypeInv, TypeOK, Calls
  <2>2. Pending = {}
    BY <1>1, <2>1 DEF AllAwaited, Ready
  <2> QED
    BY <1>4, <1>10, <2>1, <2>2 DEF PrepareUndo
<1>11. ASSUME NEW n \in OpIds, NEW i \in Invoices, PrepareCancel(n, i) PROVE Goal
  <2>1. Pending = {} /\ inv[i] \in InvoiceRecords
    BY <1>1, <1>2, <1>11 DEF PrepareCancel
  <2> QED
    BY <1>4, <1>11, <2>1 DEF PrepareCancel
<1>12. ASSUME NEW i \in Invoices, Pay(i) \/ MarkUnpaid(i) \/ BeginPay(i) PROVE Goal
  BY <1>3, <1>12 DEF Pay, MarkUnpaid, BeginPay, SetStatus, coreVars
<1>13. ASSUME NEW c \in calls, FinishPay(c) PROVE Goal
  BY <1>3, <1>13 DEF FinishPay, SetStatus
<1> HIDE DEF Goal
<1>14. Goal
  BY <1>5, <1>6, <1>7, <1>8, <1>9, <1>10, <1>11, <1>12, <1>13 DEF Command
<1> QED
  BY <1>14 DEF Goal

\* The plan being applied is the one left to complete.
LEMMA RunIsLone ==
  ASSUME CoverInv, run # Idle
  PROVE  /\ App \in Operations /\ run.op \in OpIds /\ App.inv = ops[run.op].inv
         /\ App.cuts \in [Tasks -> Nat]
         /\ run \in [op : OpIds, app : Operations, phase : Phases]
         /\ Finalizes(App) <=> ~Releases(App)
         /\ Finalizes(App) <=> Finalizes(ops[run.op])
         /\ Releases(App) <=> Releases(ops[run.op])
         /\ Finalizes(App) => App.srcs = ops[run.op].srcs /\ App.cuts = ops[run.op].cuts
         /\ \A n \in OpIds : ops[n].state = "prepared" <=> n = run.op
<1>1. WorkInv /\ LonePlan(ops) /\ RunCovers /\ TypeInv
  BY DEF CoverInv, CoverFrom, WorkInv
<1>2. run.op \in OpIds /\ App \in Operations /\ run.op \in Part
  BY <1>1, RunIsPart
<1>3. ops[run.op].state = "prepared"
  BY <1>2 DEF Part, Pending
<1>4. \A n \in OpIds : ops[n].state = "prepared" <=> n = run.op
  BY <1>1, <1>2, <1>3 DEF LonePlan
<1>5. Finalizes(App) => App.srcs = ops[run.op].srcs /\ App.cuts = ops[run.op].cuts
  BY <1>1, RunIsPart DEF RunCovers
<1>6. App.cuts \in [Tasks -> Nat] /\ run \in [op : OpIds, app : Operations, phase : Phases]
  BY <1>1, <1>2 DEF Operations, Cutoffs, TypeInv, TypeOK
<1>7. App.kind = ops[run.op].kind
  BY <1>1 DEF WorkInv, RunIsJournaled
<1>8. Finalizes(App) <=> ~Releases(App)
  BY <1>1, RunIsPart
<1>9. App.inv = ops[run.op].inv
  BY <1>1, RunIsPart
<1> QED
  BY <1>2, <1>4, <1>5, <1>6, <1>7, <1>8, <1>9 DEF Finalizes, Releases

\* The phase that writes the owners of the entries.
LEMMA EntriesCover ==
  ASSUME CoverInv, ApplyEntries
  PROVE  CoverFrom(ops, ents, cutoff)' /\ RunCovers'
<1>1. run # Idle /\ run.phase = "entries"
  BY RunIsOn DEF ApplyEntries, EnterPhase, Phases
<1>2. /\ App' = App /\ run'.op = run.op /\ run'.phase = "expenses"
      /\ UNCHANGED <<ops, cutoff>>
      /\ \A e \in Entries : ents'[e] = NewOwner(e, ents[e])
  BY <1>1, RunIsLone DEF ApplyEntries, EnterPhase, coreVars, App
<1>3. /\ LonePlan(ops) /\ Covered(ops, ents, cutoff) /\ PlansCover(ops, ents, cutoff) /\ RunCovers
  BY DEF CoverInv, CoverFrom
<1>4. \A e \in Entries :
        \/ ents'[e] = ents[e]
        \/ Finalizes(App) /\ ents'[e] = App.inv /\ e \in App.srcs
        \/ Releases(App) /\ ents'[e] = None
  BY <1>1, <1>2, RunIsLone DEF NewOwner, Finalizes
<1>5. Covered(ops, ents', cutoff)
  BY <1>1, <1>3, <1>4, RunIsLone DEF Covered
<1>6. PlansCover(ops, ents', cutoff)
  <2> SUFFICES ASSUME NEW n \in OpIds, ops[n].state = "prepared"
               PROVE  /\ Finalizes(ops[n]) =>
                           \A e \in Entries :
                             /\ e \in ops[n].srcs =>
                                  \/ EndOf[e] <= cutoff[TaskOf[e]]
                                  \/ EndOf[e] <= ops[n].cuts[TaskOf[e]]
                             /\ ents'[e] = ops[n].inv => e \in ops[n].srcs
                      /\ Releases(ops[n]) =>
                           \A e \in Entries :
                             ents'[e] \notin {None, ops[n].inv} /\ TaskOf[e] \in TasksOf(ops[n].sel) =>
                               EndOf[e] <= ops[n].cuts[TaskOf[e]]
    BY DEF PlansCover
  <2>1. /\ Finalizes(ops[n]) => Finalizes(App) /\ App.srcs = ops[n].srcs /\ ~Releases(App)
        /\ Releases(ops[n]) => Releases(App) /\ ~Finalizes(App)
        /\ App.inv = ops[n].inv
    BY <1>1, RunIsLone
  <2>2. CASE Finalizes(ops[n])
    <3>1. ~Releases(ops[n])
      BY <2>1, <2>2
    <3>2. \A e \in Entries : ents'[e] = ops[n].inv => e \in ops[n].srcs
      <4>1. \A e \in Entries : ents[e] = ops[n].inv => e \in ops[n].srcs
        BY <1>3, <2>2 DEF PlansCover
      <4> QED BY <1>4, <2>1, <2>2, <4>1
    <3> QED
      BY <1>3, <2>2, <3>1, <3>2 DEF PlansCover
  <2>3. CASE Releases(ops[n])
    <3>1. \A e \in Entries : ents'[e] = ents[e] \/ ents'[e] = None
      BY <1>4, <2>1, <2>3
    <3> QED
      BY <1>3, <2>1, <2>3, <3>1 DEF PlansCover
  <2> QED
    BY <2>2, <2>3
<1>7. RunCovers'
  <2>1. Finalizes(App) => App.cuts = ops[run.op].cuts
    BY <1>1, RunIsLone
  <2>2. Releases(App) =>
          \A e \in Entries : ents'[e] \notin {None, App.inv} /\ TaskOf[e] \in TasksOf(App.sel) =>
                               EndOf[e] <= App.cuts[TaskOf[e]]
    BY <1>1, <1>3, <1>4, RunIsLone DEF RunCovers
  <2> QED
    BY <1>2, <2>1, <2>2 DEF RunCovers
<1> QED
  BY <1>2, <1>3, <1>5, <1>6, <1>7 DEF CoverFrom

\* The phase that writes the cutoffs.
LEMMA TasksCover ==
  ASSUME CoverInv, ApplyTasks
  PROVE  CoverFrom(ops, ents, cutoff)' /\ RunCovers'
<1>1. run # Idle /\ run.phase = "tasks"
  BY RunIsOn DEF ApplyTasks, EnterPhase, Phases
<1>2. /\ App' = App /\ run'.op = run.op /\ run'.phase = "links"
      /\ UNCHANGED <<ops, ents>>
      /\ \A t \in Tasks : cutoff'[t] = NewCutoff(t)
  BY <1>1, RunIsLone DEF ApplyTasks, EnterPhase, App
<1>3. /\ LonePlan(ops) /\ Covered(ops, ents, cutoff) /\ PlansCover(ops, ents, cutoff) /\ RunCovers
      /\ cutoff \in [Tasks -> Nat]
      /\ \A e \in Entries : EndOf[e] \in Nat /\ TaskOf[e] \in Tasks
  BY CoverTypes DEF CoverInv, CoverFrom, WorkInv
<1>4. \A t \in Tasks : cutoff'[t] \in Nat
  BY <1>1, <1>2, NewCutoffType, RunIsLone DEF CoverInv, WorkInv, TypeInv
<1>5. CASE Finalizes(App)
  <2>1. \A t \in Tasks : cutoff[t] <= cutoff'[t] /\ App.cuts[t] <= cutoff'[t]
    BY <1>1, <1>2, <1>5, RunIsLone, RaisedCutoff DEF CoverInv, WorkInv, TypeInv
  <2>2. \A e \in Entries : EndOf[e] <= cutoff[TaskOf[e]] => EndOf[e] <= cutoff'[TaskOf[e]]
    BY <1>3, <1>4, <2>1
  <2>3. Covered(ops, ents, cutoff')
    BY <1>3, <2>2 DEF Covered
  <2>4. PlansCover(ops, ents, cutoff')
    BY <1>3, <2>2 DEF PlansCover
  <2>5. RunCovers'
    <3>1. Finalizes(ops[run.op]) /\ ops[run.op].state = "prepared" /\ App.inv = ops[run.op].inv
          /\ App.cuts = ops[run.op].cuts /\ ~Releases(App) /\ run.op \in OpIds
          /\ App.cuts \in [Tasks -> Nat]
      BY <1>1, <1>5, RunIsLone
    <3>2. \A e \in Entries : ents[e] = App.inv =>
            EndOf[e] <= cutoff[TaskOf[e]] \/ EndOf[e] <= App.cuts[TaskOf[e]]
      BY <1>3, <3>1 DEF PlansCover
    <3>3. \A e \in Entries : ents[e] = App.inv => EndOf[e] <= cutoff'[TaskOf[e]]
      BY <1>3, <1>4, <2>1, <3>1, <3>2
    <3> QED
      BY <1>2, <3>1, <3>3 DEF RunCovers
  <2> QED
    BY <1>2, <1>3, <2>3, <2>4, <2>5 DEF CoverFrom
<1>6. CASE Releases(App)
  <2>1. /\ ~Finalizes(App) /\ run.op \in OpIds /\ App.inv = ops[run.op].inv
        /\ \A n \in OpIds : ops[n].state = "prepared" <=> n = run.op
        /\ ~Finalizes(ops[run.op]) /\ App.cuts \in [Tasks -> Nat]
    BY <1>1, <1>6, RunIsLone
  <2>2. \A t \in Tasks : \/ cutoff'[t] = cutoff[t]
                         \/ t \in TasksOf(App.sel) /\ cutoff'[t] = App.cuts[t]
    BY <1>2, <2>1 DEF NewCutoff, Finalizes
  <2>3. Covered(ops, ents, cutoff')
    <3> SUFFICES ASSUME NEW e \in Entries, ents[e] # None, ents[e] # App.inv
                 PROVE  EndOf[e] <= cutoff'[TaskOf[e]]
      BY <2>1 DEF Covered
    <3>1. EndOf[e] <= cutoff[TaskOf[e]]
      BY <1>3, <2>1 DEF Covered
    <3>2. TaskOf[e] \in TasksOf(App.sel) => EndOf[e] <= App.cuts[TaskOf[e]]
      BY <1>1, <1>3, <1>6 DEF RunCovers
    <3> QED
      BY <1>3, <2>2, <3>1, <3>2
  <2>4. PlansCover(ops, ents, cutoff')
    BY <1>3, <2>1 DEF PlansCover
  <2>5. RunCovers'
    BY <1>1, <1>2, <1>3, <1>6, <2>1 DEF RunCovers
  <2> QED
    BY <1>2, <1>3, <2>3, <2>4, <2>5 DEF CoverFrom
<1> QED
  BY <1>1, <1>5, <1>6, RunIsLone

\* The phase that completes the plan: nothing is left to complete, and the
\* cutoffs cover all that is billed.
LEMMA CompleteCover ==
  ASSUME CoverInv, Complete
  PROVE  CoverFrom(ops, ents, cutoff)' /\ RunCovers'
<1>1. /\ run # Idle /\ run' = Idle /\ run.phase = "complete"
      /\ ops'[run.op] = [ops[run.op] EXCEPT !.state = "complete"] /\ ops[run.op] \in Operations
      /\ \A n \in OpIds : n # run.op => ops'[n] = ops[n]
      /\ UNCHANGED <<ents, cutoff>>
  BY CompleteEffect DEF Complete, CoverInv, WorkInv
<1>2. \A n \in OpIds : ops'[n].state # "prepared"
  <2>1. ops'[run.op].state = "complete"
    BY <1>1 DEF Operations
  <2> QED
    BY <1>1, <2>1, RunIsLone
<1>3. \A e \in Entries : ents[e] # None => EndOf[e] <= cutoff[TaskOf[e]]
  <2> SUFFICES ASSUME NEW e \in Entries, ents[e] # None PROVE EndOf[e] <= cutoff[TaskOf[e]]
    OBVIOUS
  <2>1. CASE ents[e] # App.inv
    BY <1>1, <2>1, RunIsLone DEF CoverInv, CoverFrom, Covered
  <2>2. CASE ents[e] = App.inv /\ Finalizes(App)
    BY <1>1, <2>2 DEF CoverInv, RunCovers
  <2>3. CASE ents[e] = App.inv /\ Releases(App)
    <3>1. RunFits /\ e \in Work /\ Owner(e) = ents[e]
      BY DEF CoverInv, WorkInv, Work, Owner
    <3>2. Reached(e)
      BY <1>1 DEF Reached
    <3> QED
      BY <1>1, <2>3, <3>1, <3>2 DEF RunFits
  <2> QED
    BY <1>1, <2>1, <2>2, <2>3, RunIsLone
<1>4. CoverFrom(ops, ents, cutoff)'
  BY <1>1, <1>2, <1>3 DEF CoverFrom, LonePlan, Covered, PlansCover
<1> QED
  BY <1>1, <1>4 DEF RunCovers

\* What the phases do.
LEMMA PhaseCover ==
  ASSUME CoverInv, ApplyPhase
  PROVE  CoverFrom(ops, ents, cutoff)' /\ RunCovers'
<1>1. CASE ApplyExpenses \/ ApplyLinks \/ ApplyInvoice
  <2>1. UNCHANGED <<ops, ents, cutoff>>
    BY <1>1 DEF ApplyExpenses, ApplyLinks, ApplyInvoice
  <2>2. run # Idle /\ run'.op = run.op /\ App' = App
    <3>1. ~Complete
      BY <1>1 DEF Complete, ApplyExpenses, ApplyLinks, ApplyInvoice, EnterPhase
    <3> QED BY <3>1, PhaseEffect DEF CoverInv, WorkInv, App
  <2>3. run'.phase \in {"links", "invoice", "complete"} =>
          run.phase \in {"links", "invoice", "complete"}
    <3>1. run \in [op : OpIds, app : Operations, phase : Phases]
      BY <2>2, RunIsLone
    <3> QED BY <1>1, <3>1 DEF ApplyExpenses, ApplyLinks, ApplyInvoice, EnterPhase
  <2>4. CoverFrom(ops, ents, cutoff)'
    BY <2>1 DEF CoverInv
  <2>5. RunCovers'
    BY <2>1, <2>2, <2>3 DEF CoverInv, RunCovers
  <2> QED
    BY <2>4, <2>5
<1> QED
  BY <1>1, EntriesCover, TasksCover, CompleteCover DEF ApplyPhase

\* A plan begins to be applied: a cancellation may set its cutoffs anew.
LEMMA StartCover ==
  ASSUME PostSync = FALSE, CoverInv, (\E c \in calls : ApplyOwn(c)) \/ ReplayNext, OnceEach'
  PROVE  CoverFrom(ops, ents, cutoff)' /\ RunCovers'
<1>1. /\ run = Idle /\ UNCHANGED <<ops, ents, cutoff>>
      /\ \E n \in OpIds : \E known : ops[n] # NoOp /\ Apply(n, known)
  BY StartKeeps DEF CoverInv, WorkInv
<1>2. PICK n \in OpIds : \E known : ops[n] # NoOp /\ Apply(n, known)
  BY <1>1
<1>3. PICK known : ops[n] # NoOp /\ Apply(n, known)
  BY <1>2
<1>4. CoverFrom(ops, ents, cutoff)'
  BY <1>1 DEF CoverInv
<1>5. CASE run' = Idle
  BY <1>4, <1>5 DEF RunCovers
<1>6. CASE run' # Idle
  <2> DEFINE app == IF ops[n].kind = "cancel" THEN CancelReplay(ops[n]) ELSE ops[n]
  <2>1. run' = [op |-> n, phase |-> "entries", app |-> app]
    BY <1>3, <1>6 DEF Apply
  <2>2. ops[n].state = "prepared" /\ ops[n] \in Operations
    <3>1. ops'[run'.op].state = "prepared" /\ run'.op = n
      BY <1>6, <2>1 DEF OnceEach
    <3> QED BY <1>1, <1>3, <3>1, CoverTypes DEF CoverInv, WorkInv
  <2>3. Finalizes(app) => app = ops[n] /\ Finalizes(ops[n])
    BY <2>2, CancelReplayType DEF CoverInv, WorkInv, TypeInv, Finalizes
  <2>4. Releases(app) => Releases(ops[n]) /\ app.inv = ops[n].inv /\ app.sel = ops[n].sel
    <3>1. CancelReplay(ops[n]).sel = ops[n].sel
      BY <2>2 DEF CancelReplay, Operations
    <3> QED
      BY <2>2, <3>1, CancelReplayType DEF CoverInv, WorkInv, TypeInv, Releases
  <2>5. \A t \in Tasks : \/ app.cuts[t] = ops[n].cuts[t]
                         \/ app.cuts[t] = RestoredCutoff(ops[n].inv, ops[n].was, t)
    BY <2>2 DEF CancelReplay, Operations
  <2> HIDE DEF app
  <2>6. ASSUME Releases(app), NEW e \in Entries, ents[e] \notin {None, app.inv},
               TaskOf[e] \in TasksOf(app.sel)
        PROVE  EndOf[e] <= app.cuts[TaskOf[e]]
    <3>1. EndOf[e] <= ops[n].cuts[TaskOf[e]]
      BY <2>2, <2>4, <2>6 DEF CoverInv, CoverFrom, PlansCover
    <3>2. EndOf[e] <= RestoredCutoff(ops[n].inv, ops[n].was, TaskOf[e])
      BY <2>2, <2>4, <2>6, RestoredCutoffBound DEF Operations
    <3> QED
      BY <2>5, <3>1, <3>2
  <2>7. App' = app /\ run'.op = n /\ run'.phase = "entries"
    BY <2>1 DEF App
  <2>8. RunCovers'
    BY <1>1, <2>3, <2>6, <2>7 DEF RunCovers
  <2> QED
    BY <1>4, <2>8
<1> QED
  BY <1>5, <1>6

\* Every step keeps the cutoffs behind what is billed.
LEMMA NextCoverInv ==
  ASSUME PostSync = FALSE, InOrder, MaxInFlight <= 1,
         "cancel" \notin Features \/ "payAfterRates" \notin Features,
         CoverInv, [Next]_vars
  PROVE  CoverInv'
<1> DEFINE Disk == CoverFrom(coreDisk.ops, entsDisk, coreDisk.cutoff)
           Memory == CoverFrom(ops, ents, cutoff)
<1>1. WorkInv' /\ AllAwaited' /\ OneWait'
  BY NextWorkInv, NextAllAwaited, NextOneWait DEF CoverInv, WorkInv
<1>2. Memory /\ Disk /\ RunCovers /\ TypeInv
  BY DEF CoverInv, WorkInv
<1>3. ASSUME Memory', Disk', RunCovers' PROVE CoverInv'
  BY <1>1, <1>3 DEF CoverInv
<1>4. ASSUME UNCHANGED <<coreDisk, entsDisk>> PROVE Disk'
  BY <1>2, <1>4
<1>5. CASE Command
  <2>1. Memory'
    BY <1>5, CommandCover
  <2>2. UNCHANGED <<coreDisk, entsDisk>> /\ run' = Idle
    BY <1>2, <1>5, CommandKeeps
  <2>3. RunCovers'
    BY <2>2 DEF RunCovers
  <2> HIDE DEF Memory, Disk
  <2> QED
    BY <1>3, <1>4, <2>1, <2>2, <2>3
<1>6. CASE ApplyPhase
  <2>1. Memory' /\ RunCovers'
    BY <1>6, PhaseCover
  <2>2. UNCHANGED <<coreDisk, entsDisk>>
    BY <1>2, <1>6, PhaseKeeps
  <2> HIDE DEF Memory, Disk
  <2> QED
    BY <1>3, <1>4, <2>1, <2>2
<1>7. CASE (\E c \in calls : ApplyOwn(c)) \/ ReplayNext
  <2>1. Memory' /\ RunCovers'
    BY <1>1, <1>7, StartCover DEF WorkInv
  <2>2. UNCHANGED <<coreDisk, entsDisk>>
    BY <1>2, <1>7, StartKeeps
  <2> HIDE DEF Memory, Disk
  <2> QED
    BY <1>3, <1>4, <2>1, <2>2
<1>8. CASE StartReplay \/ EndReplay
  <2>1. UNCHANGED <<ops, ents, cutoff, coreDisk, entsDisk, run>>
    BY <1>8, ReplayKeeps
  <2>2. Memory' /\ RunCovers'
    BY <1>2, <2>1 DEF RunCovers, App
  <2> HIDE DEF Memory, Disk
  <2> QED
    BY <1>3, <1>4, <2>1, <2>2
<1>9. CASE Persist \/ UNCHANGED vars
  <2>1. /\ UNCHANGED <<ops, ents, cutoff, run>>
        /\ \/ UNCHANGED <<coreDisk, entsDisk>>
           \/ coreDisk' = Core /\ entsDisk' = ents
    BY <1>9 DEF Persist, PersistBoth, PersistCore, PersistEntries, vars, coreVars
  <2>2. Memory' /\ RunCovers'
    BY <1>2, <2>1 DEF RunCovers, App
  <2>3. CASE coreDisk' = Core /\ entsDisk' = ents
    <3>1. coreDisk'.ops = ops /\ coreDisk'.cutoff = cutoff
      BY <2>3 DEF Core
    <3>2. Disk'
      BY <1>2, <2>3, <3>1
    <3> HIDE DEF Memory, Disk
    <3> QED
      BY <1>3, <2>2, <3>2
  <2> HIDE DEF Memory, Disk
  <2> QED
    BY <1>3, <1>4, <2>1, <2>2, <2>3
<1>10. CASE CrashAndRestart
  <2>1. /\ ops' = coreDisk.ops /\ ents' = entsDisk /\ cutoff' = coreDisk.cutoff
        /\ run' = Idle /\ UNCHANGED <<coreDisk, entsDisk>>
    BY <1>10 DEF CrashAndRestart, diskVars
  <2>2. Memory' /\ RunCovers'
    BY <1>2, <2>1 DEF RunCovers
  <2> HIDE DEF Memory, Disk
  <2> QED
    BY <1>3, <1>4, <2>1, <2>2
<1> QED
  BY <1>5, <1>6, <1>7, <1>8, <1>9, <1>10 DEF Next

\* One command at a time, with databases written in order and no replay after
\* a sync: once all has settled, the cutoff of a task is not before any entry
\* that is billed, whatever was drafted, undone, canceled or lost in a crash.
\* A finalization raises the cutoffs from those it read, and a release sets
\* back only what nothing has moved, so both rest on no other plan coming
\* between.
THEOREM CutoffsCoverBilledWork ==
  ASSUME PostSync = FALSE, InOrder, MaxInFlight <= 1,
         "cancel" \notin Features \/ "payAfterRates" \notin Features
  PROVE  Spec => []CutoffCoversBilledWork
<1>1. Init => CoverInv
  BY InitCoverInv
<1>2. CoverInv /\ [Next]_vars => CoverInv'
  BY NextCoverInv
<1>3. CoverInv => CutoffCoversBilledWork
  <2> SUFFICES ASSUME CoverInv, Settled, NEW e \in Entries, ents[e] \in Live
               PROVE  EndOf[e] <= cutoff[TaskOf[e]]
    BY DEF CutoffCoversBilledWork
  <2>1. ents[e] # None
    BY NobodyIsNoInvoice DEF Live
  <2>2. \A n \in OpIds : ops[n].state # "prepared"
    BY DEF Settled, Pending
  <2> QED
    BY <2>1, <2>2 DEF CoverInv, CoverFrom, Covered
<1> QED
  BY <1>1, <1>2, <1>3, PTL DEF Spec

====

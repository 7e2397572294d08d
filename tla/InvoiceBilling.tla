--------------------------- MODULE InvoiceBilling ---------------------------
(***************************************************************************)
(* Billing of tracked work on one device: draft, finalize, undo, cancel    *)
(* and pay an invoice, through the journal of billing operations that the  *)
(* store keeps in the core document.                                       *)
(*                                                                         *)
(* The data live in two Yjs documents, "core" (invoices, journal,          *)
(* expenses, tasks, template, project links) and the document of the time  *)
(* entries.  Each document is written to an IndexedDB database of its own  *)
(* some time after it changed in memory, so a tab that dies restarts from  *)
(* whatever was written.  A command checks its guard, writes a plan into   *)
(* the journal, waits for archived documents to load, and then applies the *)
(* plan in six phases without yielding.  A replay (at start-up, or after a *)
(* cloud sync) applies journaled plans again.                              *)
(*                                                                         *)
(* Timestamps are abstracted to identifiers: invoice ids are given in the  *)
(* order of createdAt, and the id of an operation is its createdAt.        *)
(***************************************************************************)
EXTENDS Integers, FiniteSets, FiniteSetsExt

CONSTANTS
  MaxInvoices,    \* bound: invoices ever created
  MaxOps,         \* bound: billing operations ever journaled
  MaxInFlight,    \* bound: commands in flight at once
  MaxCrashes,     \* bound: times the tab dies
  MaxNumber,      \* bound: sequential invoice numbers
  Horizon,        \* bound: instants at which entries end
  Entries,        \* time entries
  Expenses,       \* billable expenses
  Quotes,         \* quoted amounts of tasks
  Tasks,          \* tasks the work above belongs to
  TaskOf,         \* task of an entry or quote
  EndOf,          \* end instant of an entry
  Selections,     \* the sets of work a user may put on an invoice
  Features,       \* the optional commands that are in use
  PostSync,       \* a cloud provider is connected: replays after each sync
  InOrder,        \* the two databases are written in the order of the changes
  None            \* owner of work no invoice bills

Invoices == 1..MaxInvoices
OpIds == 1..MaxOps
Numbers == 0..MaxNumber
Work == Entries \cup Expenses \cup Quotes

ASSUME BoundsAssumption ==
  /\ MaxInvoices \in Nat /\ MaxOps \in Nat /\ MaxInFlight \in Nat
  /\ MaxCrashes \in Nat /\ MaxNumber \in Nat \ {0} /\ Horizon \in Nat
ASSUME WorkAssumption ==
  /\ Entries \cap (Expenses \cup Quotes) = {}
  /\ Expenses \cap Quotes = {}
  /\ TaskOf \in [Entries \cup Quotes -> Tasks]
  /\ EndOf \in [Entries -> 1..Horizon]
  /\ Selections \subseteq SUBSET Work
ASSUME FlagAssumption ==
  /\ PostSync \in BOOLEAN /\ InOrder \in BOOLEAN
  /\ Features \subseteq {"draft", "undo", "cancel", "pay", "payAfterRates"}
ASSUME NoneAssumption == None \notin Nat

VARIABLES
  inv,       \* core: the invoice records
  ops,       \* core: the journal, invoiceBillingOperations
  charges,   \* core: invoiceId of an expense, quotedAmountBilling of a task
  cutoff,    \* core: lastBilledAt of a task
  seq,       \* core: currentSequentialNumber of the template
  linked,    \* core: invoiceIds of the project
  ents,      \* entries document: billedInvoiceId of an entry
  coreDisk,  \* the core database
  entsDisk,  \* the entries database
  calls,     \* commands in flight, each waiting at an await
  run,       \* the plan being applied now, if one is
  replay,    \* the replay in progress, if one is
  born,      \* bookkeeping: invoices created so far
  crashes,   \* bookkeeping: crashes so far
  quiet      \* bookkeeping: has a full replay passed with no command since?

coreVars == <<inv, ops, charges, cutoff, seq, linked>>
diskVars == <<coreDisk, entsDisk>>
vars == <<inv, ops, charges, cutoff, seq, linked, ents, coreDisk, entsDisk,
          calls, run, replay, born, crashes, quiet>>

Owners == Invoices \cup {None}
Cutoffs == [Tasks -> 0..Horizon]
Statuses == {"absent", "draft", "sent", "paid", "canceled"}

\* was: billingStateSnapshot, the cutoffs finalization found;
\* sel: billingSelectionSnapshot, the work the invoice charges for.
InvoiceRecords ==
  [status : Statuses, num : Numbers, sel : SUBSET Work, was : Cutoffs]
Absent ==
  [status |-> "absent", num |-> 0, sel |-> {}, was |-> [t \in Tasks |-> 0]]

\* A journaled operation: the invoice as it was captured (num, sel, was) and
\* the plan: work to claim or release, cutoffs to set and the cutoffs they
\* expect to replace, and the sequence number to set (0: leave it alone).
Operations ==
  [state : {"prepared", "complete"}, kind : {"finalize", "undo", "cancel"},
   inv : Invoices, num : Numbers, sel : SUBSET Work, was : Cutoffs,
   srcs : SUBSET Work, cuts : Cutoffs, expect : Cutoffs,
   seqTo : 0..(MaxNumber + 1)]
NoOp ==
  [state |-> "none", kind |-> "none", inv |-> 0, num |-> 0, sel |-> {},
   was |-> [t \in Tasks |-> 0], srcs |-> {}, cuts |-> [t \in Tasks |-> 0],
   expect |-> [t \in Tasks |-> 0], seqTo |-> 0]

Phases == {"entries", "expenses", "tasks", "links", "invoice", "complete"}
Idle == [op |-> 0, app |-> NoOp, phase |-> "idle"]
NoReplay == [mode |-> "none", todo |-> {}, done |-> {}]

Core == [inv |-> inv, ops |-> ops, charges |-> charges, cutoff |-> cutoff,
         seq |-> seq, linked |-> linked]
CoreStates ==
  [inv : [Invoices -> InvoiceRecords], ops : [OpIds -> Operations \cup {NoOp}],
   charges : [Expenses \cup Quotes -> Owners], cutoff : Cutoffs,
   seq : 1..(MaxNumber + 1), linked : SUBSET Invoices]

Calls ==
  [kind : {"apply"}, op : OpIds]
    \cup [kind : {"pay"}, inv : Invoices]
    \cup [kind : {"undo"}, inv : Invoices, rec : InvoiceRecords, others : SUBSET Numbers]

TypeOK ==
  /\ inv \in [Invoices -> InvoiceRecords]
  /\ ops \in [OpIds -> Operations \cup {NoOp}]
  /\ charges \in [Expenses \cup Quotes -> Owners]
  /\ cutoff \in Cutoffs
  /\ seq \in 1..(MaxNumber + 1)
  /\ linked \in SUBSET Invoices
  /\ ents \in [Entries -> Owners]
  /\ coreDisk \in CoreStates
  /\ entsDisk \in [Entries -> Owners]
  /\ calls \in SUBSET Calls
  /\ run \in {Idle} \cup [op : OpIds, app : Operations, phase : Phases]
  /\ replay \in [mode : {"none", "boot", "sync"}, todo : SUBSET OpIds, done : SUBSET OpIds]
  /\ born \in 0..MaxInvoices
  /\ crashes \in 0..MaxCrashes
  /\ quiet \in {"no", "passing", "yes"}

-----------------------------------------------------------------------------
(* What the commands and the plans read. *)

Owner(s) == IF s \in Entries THEN ents[s] ELSE charges[s]
OwnedBy(i) == {s \in Work : Owner(s) = i}
TasksOf(S) == {TaskOf[s] : s \in S \ Expenses}
Issued == {i \in Invoices : inv[i].status \in {"sent", "paid", "canceled"}}
Live == {i \in Invoices : inv[i].status \in {"sent", "paid"}}
Pending == {n \in OpIds : ops[n].state = "prepared"}
LatestEnd(S, t) == Max({0} \cup {EndOf[e] : e \in {f \in S \cap Entries : TaskOf[f] = t}})

\* getNextSequentialNumberForTemplate: drafts do not count.
NextNumber == Max({seq} \cup {inv[i].num + 1 : i \in Issued})

\* Variant: promised numbers are overlooked.
UsedNumbers_IssuedOnly(i) == {inv[j].num : j \in Issued \ {i}}

\* Numbers finalization must not give again: those of the other issued
\* invoices and those promised by operations still to be applied.  Undo
\* operations promise none: they carry no desiredInvoice.
UsedNumbers(i) ==
  {inv[j].num : j \in Issued \ {i}}
    \cup {ops[n].num : n \in {m \in Pending : ops[m].kind # "undo"}}

\* Variant: only the snapshot counts.
RestoredCutoff_SnapshotOnly(i, was, t) == was[t]

\* Variant: no cutoff at all where no other billed entry is left.
RestoredCutoff_Dropped(i, was, t) ==
  IF \E e \in Entries : TaskOf[e] = t /\ ents[e] \notin {None, i} THEN was[t] ELSE None

\* planInvoiceSourceRelease: the cutoff a task falls back to when invoice i
\* gives up its entries.
RestoredCutoff(i, was, t) ==
  Max({was[t]} \cup {EndOf[e] : e \in {f \in Entries :
                                         TaskOf[f] = t /\ ents[f] \notin {None, i}}})

\* The operations of the journal are numbered in the order of createdAt.
NextOp(n) == ops[n] = NoOp /\ \A m \in OpIds : m < n => ops[m] # NoOp

Ready == replay.mode # "boot" /\ run = Idle

MayStart == Ready /\ Cardinality(calls) < MaxInFlight

\* assertCurrentDraft: nothing pending may still touch the invoice.
NoPendingFor(i) == \A n \in Pending : ops[n].inv # i

-----------------------------------------------------------------------------
(* Commands up to the journal write. *)

\* saveInvoiceDraft of a new draft: provisional number, work captured.
SaveDraft(sel) ==
  LET i == born + 1 IN
  /\ "draft" \in Features /\ Ready
  /\ born < MaxInvoices /\ NextNumber <= MaxNumber
  /\ \A s \in sel : Owner(s) = None
  /\ inv' = [inv EXCEPT ![i] = [status |-> "draft", num |-> NextNumber, sel |-> sel,
                                was |-> [t \in Tasks |-> 0]]]
  /\ born' = i
  /\ quiet' = "no"
  /\ UNCHANGED <<ops, charges, cutoff, seq, linked, ents, diskVars, calls, run, replay, crashes>>

\* refreshInvoiceDraft: the captured work is replaced by what is unbilled now.
RefreshDraft(i, sel) ==
  /\ "draft" \in Features /\ Ready
  /\ inv[i].status = "draft" /\ NoPendingFor(i)
  /\ \A s \in sel : Owner(s) = None
  /\ inv' = [inv EXCEPT ![i].sel = sel]
  /\ quiet' = "no"
  /\ UNCHANGED <<ops, charges, cutoff, seq, linked, ents, diskVars, calls, run, replay, born, crashes>>

DeleteDraft(i) ==
  /\ "draft" \in Features /\ Ready
  /\ inv[i].status = "draft" /\ NoPendingFor(i)
  /\ inv' = [inv EXCEPT ![i] = Absent]
  /\ quiet' = "no"
  /\ UNCHANGED <<ops, charges, cutoff, seq, linked, ents, diskVars, calls, run, replay, born, crashes>>

\* Variant: written as already complete.
Journal_Complete(n, op) ==
  /\ NextOp(n)
  /\ ops' = [ops EXCEPT ![n] = [op EXCEPT !.state = "complete"]]
  /\ quiet' = "no"

\* The operation a command journals, and the wait it then enters.
Journal(n, op) ==
  /\ NextOp(n)
  /\ ops' = [ops EXCEPT ![n] = op]
  /\ quiet' = "no"

\* Variant: plans still pending are overlooked.
Unreserved_Unchecked(sel) == TRUE

\* No finalization still to be applied has reserved the work.
Unreserved(sel) ==
  \A n \in Pending : ops[n].kind = "finalize" => ops[n].srcs \cap sel = {}

\* Variant: the sequence stays at the number just given.
FinalizeOp_NoAdvance(i, sel) ==
  LET num == Min({k \in NextNumber..(NextNumber + Cardinality(UsedNumbers(i))) :
                    k \notin UsedNumbers(i)})
  IN [state |-> "prepared", kind |-> "finalize", inv |-> i, num |-> num, sel |-> sel,
      was |-> cutoff, srcs |-> sel,
      cuts |-> [t \in Tasks |-> IF LatestEnd(sel, t) > cutoff[t] THEN LatestEnd(sel, t) ELSE 0],
      expect |-> cutoff, seqTo |-> num]

FinalizeOp(i, sel) ==
  LET num == Min({k \in NextNumber..(NextNumber + Cardinality(UsedNumbers(i))) :
                    k \notin UsedNumbers(i)})
  IN [state |-> "prepared", kind |-> "finalize", inv |-> i, num |-> num, sel |-> sel,
      was |-> cutoff, srcs |-> sel,
      cuts |-> [t \in Tasks |-> IF LatestEnd(sel, t) > cutoff[t] THEN LatestEnd(sel, t) ELSE 0],
      expect |-> cutoff, seqTo |-> num + 1]

\* finalizeSavedInvoice, of a saved draft or of a new invoice.
PrepareFinalize(n, i, sel) ==
  /\ MayStart
  /\ \/ inv[i].status = "draft" /\ sel = inv[i].sel /\ born' = born
     \/ i = born + 1 /\ inv[i].status = "absent" /\ sel \in Selections /\ born' = i
  /\ NoPendingFor(i)
  /\ \A s \in sel : Owner(s) = None
  /\ Unreserved(sel)
  /\ FinalizeOp(i, sel).num <= MaxNumber
  /\ Journal(n, FinalizeOp(i, sel))
  /\ calls' = calls \cup {[kind |-> "apply", op |-> n]}
  /\ UNCHANGED <<inv, charges, cutoff, seq, linked, ents, diskVars, run, replay, crashes>>

\* The plan that releases the work of invoice i, whose record is rec.
ReleaseOp(kind, i, rec, seqTo) ==
  [state |-> "prepared", kind |-> kind, inv |-> i, num |-> rec.num, sel |-> rec.sel,
   was |-> rec.was, srcs |-> OwnedBy(i),
   cuts |-> [t \in Tasks |-> IF t \in TasksOf(rec.sel)
                             THEN RestoredCutoff(i, rec.was, t) ELSE cutoff[t]],
   expect |-> cutoff, seqTo |-> seqTo]

\* Variant: canceled invoices are not excluded.
BeginUndo_Canceled(i) ==
  /\ "undo" \in Features /\ MayStart
  /\ inv[i].status \in {"sent", "canceled"}
  /\ \A j \in Issued : j <= i
  /\ calls' = calls \cup {[kind |-> "undo", inv |-> i, rec |-> inv[i],
                           others |-> {inv[j].num : j \in {k \in Invoices \ {i} :
                                                             inv[k].status # "absent"}}]}
  /\ quiet' = "no"
  /\ UNCHANGED <<coreVars, ents, diskVars, run, replay, born, crashes>>

\* Variant: paid invoices are not excluded.
BeginUndo_Paid(i) ==
  /\ "undo" \in Features /\ MayStart
  /\ inv[i].status \in {"sent", "paid"}
  /\ \A j \in Issued : j <= i
  /\ calls' = calls \cup {[kind |-> "undo", inv |-> i, rec |-> inv[i],
                           others |-> {inv[j].num : j \in {k \in Invoices \ {i} :
                                                             inv[k].status # "absent"}}]}
  /\ quiet' = "no"
  /\ UNCHANGED <<coreVars, ents, diskVars, run, replay, born, crashes>>

\* undoLatestInvoice: the checks are made and the invoices read before the
\* archives load ...
BeginUndo(i) ==
  /\ "undo" \in Features /\ MayStart
  /\ inv[i].status = "sent"
  /\ \A j \in Issued : j <= i
  /\ calls' = calls \cup {[kind |-> "undo", inv |-> i, rec |-> inv[i],
                           others |-> {inv[j].num : j \in {k \in Invoices \ {i} :
                                                             inv[k].status # "absent"}}]}
  /\ quiet' = "no"
  /\ UNCHANGED <<coreVars, ents, diskVars, run, replay, born, crashes>>

\* ... and the plan is made after, from the sources as they are then.  The
\* sequence goes back only past the number this invoice used.
PrepareUndo(n, c) ==
  LET back == seq = c.rec.num + 1 /\ \A k \in c.others : k < c.rec.num IN
  /\ Ready
  /\ c \in calls /\ c.kind = "undo"
  /\ Journal(n, ReleaseOp("undo", c.inv, c.rec, IF back THEN c.rec.num ELSE 0))
  /\ calls' = (calls \ {c}) \cup {[kind |-> "apply", op |-> n]}
  /\ UNCHANGED <<inv, charges, cutoff, seq, linked, ents, diskVars, run, replay, born, crashes>>

\* cancelInvoice and commitInvoiceCancellation, which checks again after the
\* archives have loaded: finalized, unpaid and not canceled.
PrepareCancel(n, i) ==
  /\ "cancel" \in Features /\ MayStart
  /\ inv[i].status = "sent"
  /\ Journal(n, ReleaseOp("cancel", i, inv[i], 0))
  /\ calls' = calls \cup {[kind |-> "apply", op |-> n]}
  /\ UNCHANGED <<inv, charges, cutoff, seq, linked, ents, diskVars, run, replay, born, crashes>>

-----------------------------------------------------------------------------
(* Payments, which touch the invoice record alone. *)

MayPay(i) == inv[i].status \in {"sent", "paid"}

SetStatus(i, status) ==
  /\ inv' = [inv EXCEPT ![i].status = status]
  /\ quiet' = "no"
  /\ UNCHANGED <<ops, charges, cutoff, seq, linked, ents, diskVars, run, replay, born, crashes>>

\* markInvoicePaidCommand: check and update in one turn.
Pay(i) ==
  /\ "pay" \in Features /\ Ready
  /\ inv[i].status = "sent"
  /\ SetStatus(i, "paid")
  /\ UNCHANGED calls

MarkUnpaid(i) ==
  /\ "pay" \in Features /\ Ready
  /\ inv[i].status = "paid"
  /\ SetStatus(i, "sent")
  /\ UNCHANGED calls

\* markAsPaid of the browser: checked before the exchange rates are fetched ...
BeginPay(i) ==
  /\ "payAfterRates" \in Features /\ MayStart
  /\ MayPay(i)
  /\ calls' = calls \cup {[kind |-> "pay", inv |-> i]}
  /\ quiet' = "no"
  /\ UNCHANGED <<coreVars, ents, diskVars, run, replay, born, crashes>>

\* ... and written after, to whatever the record has become.
FinishPay(c) ==
  /\ Ready
  /\ c \in calls /\ c.kind = "pay"
  /\ SetStatus(c.inv, IF inv[c.inv].status = "absent" THEN "absent" ELSE "paid")
  /\ calls' = calls \ {c}

-----------------------------------------------------------------------------
(* applyInvoiceBillingOperation: after its awaits, one turn in six phases. *)

\* A cancellation looks again for work its invoice owns, and restores the
\* cutoffs that still stand where the invoice put them.
CancelReplay(op) ==
  LET owned == OwnedBy(op.inv)
      Final(t) == LatestEnd(op.sel \cup owned, t)
      Again(t) == t \in TasksOf(op.sel) /\ Final(t) # 0 /\ cutoff[t] = Final(t)
  IN [op EXCEPT
        !.srcs = @ \cup owned,
        !.cuts = [t \in Tasks |-> IF Again(t) THEN RestoredCutoff(op.inv, op.was, t) ELSE @[t]],
        !.expect = [t \in Tasks |-> IF Again(t) THEN cutoff[t] ELSE @[t]]]

\* Completed finalization is not replayed over a later undo, cancellation or
\* new draft.  known is the state the caller read the operation in.
Superseded(op, known) ==
  /\ op.kind = "finalize" /\ known = "complete"
  /\ inv[op.inv].status \in {"absent", "canceled", "draft"}

Apply(n, known) ==
  run' = IF Superseded(ops[n], known) THEN Idle
         ELSE [op |-> n, phase |-> "entries",
               app |-> IF ops[n].kind = "cancel" THEN CancelReplay(ops[n]) ELSE ops[n]]

\* The awaits of a command's own application are over.
ApplyOwn(c) ==
  /\ run = Idle /\ replay.mode # "boot"
  /\ c \in calls /\ c.kind = "apply"
  /\ Apply(c.op, "prepared")
  /\ calls' = calls \ {c}
  /\ UNCHANGED <<coreVars, ents, diskVars, replay, born, crashes, quiet>>

App == run.app
Claims(owner) == owner \in {None, App.inv}

EnterPhase(from, to) ==
  /\ run.phase = from
  /\ run' = [run EXCEPT !.phase = to]
  /\ UNCHANGED <<diskVars, calls, replay, born, crashes, quiet>>

NewOwner(s, owner) ==
  IF s \notin App.srcs THEN owner
  ELSE IF App.kind = "finalize" THEN (IF Claims(owner) THEN App.inv ELSE owner)
  ELSE (IF owner = App.inv THEN None ELSE owner)

ApplyEntries ==
  /\ EnterPhase("entries", "expenses")
  /\ ents' = [e \in Entries |-> NewOwner(e, ents[e])]
  /\ UNCHANGED coreVars

ApplyExpenses ==
  /\ EnterPhase("expenses", "tasks")
  /\ charges' = [s \in Expenses \cup Quotes |->
                   IF s \in Expenses THEN NewOwner(s, charges[s]) ELSE charges[s]]
  /\ UNCHANGED <<inv, ops, cutoff, seq, linked, ents>>

\* A finalization only raises a cutoff; a release sets it back only where
\* nothing has moved it since the plan was made.
NewCutoff(t) ==
  IF App.kind = "finalize" THEN Max({cutoff[t], App.cuts[t]})
  ELSE IF t \in TasksOf(App.sel) /\ cutoff[t] = App.expect[t] THEN App.cuts[t]
  ELSE cutoff[t]

ApplyTasks ==
  /\ EnterPhase("tasks", "links")
  /\ cutoff' = [t \in Tasks |-> NewCutoff(t)]
  /\ charges' = [s \in Expenses \cup Quotes |->
                   IF s \in Quotes THEN NewOwner(s, charges[s]) ELSE charges[s]]
  /\ UNCHANGED <<inv, ops, seq, linked, ents>>

ApplyLinks ==
  /\ EnterPhase("links", "invoice")
  /\ CASE App.kind = "finalize" ->
             /\ linked' = linked \cup {App.inv}
             /\ seq' = Max({seq, App.seqTo})
       [] App.kind = "undo" ->
             /\ linked' = linked \ {App.inv}
             /\ seq' = IF App.seqTo # 0 /\ seq = App.seqTo + 1 THEN App.seqTo ELSE seq
       [] App.kind = "cancel" -> UNCHANGED <<linked, seq>>
  /\ UNCHANGED <<inv, ops, charges, cutoff, ents>>

\* Variant: finalization does not look at the status it replaces.
NewInvoice_Overwrite(rec) ==
  CASE App.kind = "undo" -> Absent
    [] App.kind = "cancel" ->
         IF rec.status = "absent" THEN rec ELSE [rec EXCEPT !.status = "canceled"]
    [] App.kind = "finalize" ->
         [status |-> "sent", num |-> App.num, sel |-> App.sel, was |-> App.was]

\* A saved draft gets its status and snapshots; its number stays as saved.
NewInvoice(rec) ==
  CASE App.kind = "undo" -> Absent
    [] App.kind = "cancel" ->
         IF rec.status = "absent" THEN rec ELSE [rec EXCEPT !.status = "canceled"]
    [] App.kind = "finalize" ->
         IF rec.status = "absent"
         THEN [status |-> "sent", num |-> App.num, sel |-> App.sel, was |-> App.was]
         ELSE IF rec.status = "draft"
         THEN [status |-> "sent", num |-> rec.num, sel |-> App.sel, was |-> App.was]
         ELSE rec

ApplyInvoice ==
  /\ EnterPhase("invoice", "complete")
  /\ inv' = [inv EXCEPT ![App.inv] = NewInvoice(@)]
  /\ UNCHANGED <<ops, charges, cutoff, seq, linked, ents>>

\* Variant: the record leaves the journal when it is done.
Complete_Forget ==
  /\ run.phase = "complete"
  /\ run' = Idle
  /\ ops' = [ops EXCEPT ![run.op] = NoOp]
  /\ UNCHANGED <<inv, charges, cutoff, seq, linked, ents, diskVars, calls, replay, born,
                 crashes, quiet>>

Complete ==
  /\ run.phase = "complete"
  /\ run' = Idle
  /\ ops' = [ops EXCEPT ![run.op].state = "complete"]
  /\ UNCHANGED <<inv, charges, cutoff, seq, linked, ents, diskVars, calls, replay, born,
                 crashes, quiet>>

ApplyPhase ==
  ApplyEntries \/ ApplyExpenses \/ ApplyTasks \/ ApplyLinks \/ ApplyInvoice \/ Complete

-----------------------------------------------------------------------------
(* reconcileInvoiceBillingOperations: the journal is read once, then its   *)
(* operations are applied in the order of createdAt, with awaits between.  *)

\* Variant: complete operations are left out after a sync.
StartReplay_PendingOnly ==
  /\ PostSync /\ Ready /\ replay.mode = "none"
  /\ replay' = [mode |-> "sync", todo |-> Pending, done |-> {}]
  /\ quiet' = IF quiet = "no" /\ calls = {} THEN "passing" ELSE quiet
  /\ UNCHANGED <<coreVars, ents, diskVars, calls, run, born, crashes>>

StartReplay ==
  /\ PostSync /\ Ready /\ replay.mode = "none"
  /\ replay' = [mode |-> "sync", todo |-> {n \in OpIds : ops[n] # NoOp},
                done |-> {n \in OpIds : ops[n].state = "complete"}]
  /\ quiet' = IF quiet = "no" /\ calls = {} THEN "passing" ELSE quiet
  /\ UNCHANGED <<coreVars, ents, diskVars, calls, run, born, crashes>>

ReplayNext ==
  /\ run = Idle /\ replay.todo # {}
  /\ LET n == Min(replay.todo) IN
       /\ Apply(n, IF n \in replay.done THEN "complete" ELSE "prepared")
       /\ replay' = [replay EXCEPT !.todo = @ \ {n}]
  /\ UNCHANGED <<coreVars, ents, diskVars, calls, born, crashes, quiet>>

EndReplay ==
  /\ run = Idle /\ replay.mode # "none" /\ replay.todo = {}
  /\ replay' = NoReplay
  /\ quiet' = IF quiet = "passing" THEN "yes" ELSE quiet
  /\ UNCHANGED <<coreVars, ents, diskVars, calls, run, born, crashes>>

-----------------------------------------------------------------------------
(* The databases, the death of the tab and the next start. *)

\* Written in order, what the databases hold is always a past state of memory.
PersistBoth ==
  /\ InOrder
  /\ <<coreDisk, entsDisk>> # <<Core, ents>>
  /\ coreDisk' = Core /\ entsDisk' = ents
  /\ UNCHANGED <<coreVars, ents, calls, run, replay, born, crashes, quiet>>

PersistCore ==
  /\ ~InOrder /\ coreDisk # Core
  /\ coreDisk' = Core
  /\ UNCHANGED <<entsDisk, coreVars, ents, calls, run, replay, born, crashes, quiet>>

PersistEntries ==
  /\ ~InOrder /\ entsDisk # ents
  /\ entsDisk' = ents
  /\ UNCHANGED <<coreDisk, coreVars, ents, calls, run, replay, born, crashes, quiet>>

Persist == PersistBoth \/ PersistCore \/ PersistEntries

\* Variant: start-up does not replay.
CrashAndRestart_NoReplay ==
  /\ crashes < MaxCrashes
  /\ crashes' = crashes + 1
  /\ inv' = coreDisk.inv /\ ops' = coreDisk.ops /\ charges' = coreDisk.charges
  /\ cutoff' = coreDisk.cutoff /\ seq' = coreDisk.seq /\ linked' = coreDisk.linked
  /\ ents' = entsDisk
  /\ calls' = {} /\ run' = Idle /\ replay' = NoReplay /\ quiet' = "no"
  /\ UNCHANGED <<diskVars, born>>

\* The tab dies and the app starts again: initialize loads the documents and
\* replays the operations that are not complete, before any command can run.
CrashAndRestart ==
  /\ crashes < MaxCrashes
  /\ crashes' = crashes + 1
  /\ inv' = coreDisk.inv /\ ops' = coreDisk.ops /\ charges' = coreDisk.charges
  /\ cutoff' = coreDisk.cutoff /\ seq' = coreDisk.seq /\ linked' = coreDisk.linked
  /\ ents' = entsDisk
  /\ calls' = {} /\ run' = Idle
  /\ replay' = [mode |-> "boot",
                todo |-> {n \in OpIds : coreDisk.ops[n].state = "prepared"}, done |-> {}]
  /\ quiet' = "no"
  /\ UNCHANGED <<diskVars, born>>

-----------------------------------------------------------------------------
Init ==
  /\ inv = [i \in Invoices |-> Absent]
  /\ ops = [n \in OpIds |-> NoOp]
  /\ charges = [s \in Expenses \cup Quotes |-> None]
  /\ cutoff = [t \in Tasks |-> 0]
  /\ seq = 1
  /\ linked = {}
  /\ ents = [e \in Entries |-> None]
  /\ coreDisk = Core /\ entsDisk = ents
  /\ calls = {} /\ run = Idle /\ replay = NoReplay
  /\ born = 0 /\ crashes = 0 /\ quiet = "no"

Command ==
  \/ \E sel \in Selections : SaveDraft(sel)
  \/ \E i \in Invoices, sel \in Selections : RefreshDraft(i, sel)
  \/ \E i \in Invoices : DeleteDraft(i)
  \/ \E n \in OpIds, i \in Invoices :
        \E sel \in Selections \cup {inv[i].sel} : PrepareFinalize(n, i, sel)
  \/ \E i \in Invoices : BeginUndo(i)
  \/ \E n \in OpIds, c \in calls : PrepareUndo(n, c)
  \/ \E n \in OpIds, i \in Invoices : PrepareCancel(n, i)
  \/ \E i \in Invoices : Pay(i) \/ MarkUnpaid(i) \/ BeginPay(i)
  \/ \E c \in calls : FinishPay(c)

Next ==
  \/ Command
  \/ \E c \in calls : ApplyOwn(c)
  \/ ApplyPhase
  \/ StartReplay \/ ReplayNext \/ EndReplay
  \/ Persist
  \/ CrashAndRestart

Spec == Init /\ [][Next]_vars

\* Awaited loads come back, the turn that applies a plan runs to its end, the
\* replay goes on to the next operation, and IndexedDB writes are not put off
\* for ever.  Nothing makes a user act, a sync happen or a tab die.  Strong
\* fairness for ApplyOwn: the event loop does not pass over a resolved await
\* each time a replay lets go of the turn.
Fairness ==
  /\ SF_vars(\E c \in calls : ApplyOwn(c))
  /\ WF_vars(ApplyPhase)
  /\ WF_vars(ReplayNext) /\ WF_vars(EndReplay)
  /\ WF_vars(Persist)

FairSpec == Spec /\ Fairness

-----------------------------------------------------------------------------
(* Properties. *)

\* Nothing is half done: no operation waits in the journal, none is being
\* applied, no command and no replay is in flight.
Settled == Pending = {} /\ run = Idle /\ calls = {} /\ replay.mode = "none"

\* No client is charged twice: no work is on two live invoices at once,
\* however commands, crashes and start-up replays interleave.  The guards that
\* read the markers of the work, the check against the plans still pending in
\* finalizeSavedInvoice and the order of the phases each carry a part of this.
NoDoubleBilling ==
  \A i, j \in Live : i # j => inv[i].sel \cap inv[j].sel = {}

\* When everything has settled, the work a live invoice charges for is marked
\* as billed by it, in both documents, so that no other invoice picks it up; and
\* work is never stranded, whoever owns it is a live invoice and not a draft, a
\* canceled invoice or one that was undone or lost in a crash.  The phases either
\* all took effect or were finished by a replay.
ClaimsMatchInvoices ==
  Settled =>
    /\ \A i \in Live : inv[i].sel \subseteq OwnedBy(i)
    /\ \A s \in Work : Owner(s) # None => Owner(s) \in Live

\* Every marker in memory has a journaled finalization of its invoice behind
\* it, which start-up can finish: commitInvoiceFinalization writes the journal
\* before any phase, and a crash never keeps a marker and loses its journal.
ClaimsAreJournaled ==
  \A s \in Work : Owner(s) # None =>
    \E n \in OpIds : ops[n].kind = "finalize" /\ ops[n].inv = Owner(s) /\ s \in ops[n].srcs

\* Once settled, the cutoff of a task (lastBilledAt) is not before an entry
\* that a live invoice bills: manual entries cannot be placed among billed
\* ones and billed time is not counted as unbilled.
CutoffCoversBilledWork ==
  Settled => \A e \in Entries : ents[e] \in Live => EndOf[e] <= cutoff[TaskOf[e]]

\* Once settled, the link phase and the invoice phase have taken effect together:
\* the invoices linked to the project are the issued ones, and the next number of
\* the template is beyond every number that was issued, canceled invoices
\* included.  Undo rewinds it only past a number that no invoice has.
LinksMatchInvoices ==
  Settled => Issued = linked /\ (\A i \in Issued : inv[i].num < seq)

\* No two issued invoices have the same number, the promise of the allocation
\* in finalizeSavedInvoice, whatever is lost in a crash or still in flight.
NumbersAreDistinct ==
  \A i, j \in Issued : i # j => inv[i].num # inv[j].num

\* What the rules of the domain say: a canceled invoice stays canceled, whatever
\* payment, undo, replay or retry comes; only a crash may lose the cancellation.
CanceledIsTerminal ==
  [][crashes' = crashes =>
       \A i \in Invoices : inv[i].status = "canceled" => inv'[i].status = "canceled"]_vars

\* A command of one of these kinds waits with its look at invoice i behind it,
\* or such an operation of invoice i is in the journal, done or not.
Awaited(kinds, i) == \E c \in calls : c.kind \in kinds /\ c.inv = i
Journaled(kinds, i) == \E n \in OpIds : ops[n].kind \in kinds /\ ops[n].inv = i

\* Invoice i is canceled, and nobody who looked at it before still has to write.
Rid(i) == inv[i].status = "canceled" /\ ~Awaited({"pay", "undo"}, i) /\ ~Journaled({"undo"}, i)

\* Invoice i is paid, and nothing that was planned before would release it.
Safe(i) ==
  inv[i].status = "paid" /\ ~Awaited({"undo"}, i) /\ ~Journaled({"undo", "cancel"}, i)

\* What the code does keep of it: a canceled invoice stays canceled, and no
\* payment or undo of it begins, once those that had looked at it before the
\* cancellation are over; so no later command, no replay of the finalization
\* it was canceled after, and no retry brings it back.
CanceledStays == [][crashes' = crashes => \A i \in Invoices : Rid(i) => Rid(i)']_vars

\* A paid invoice that no earlier plan releases is only ever marked unpaid, and
\* as long as it is paid nothing is planned that would cancel or remove it: the
\* guards of undo and cancellation and what a replay applies again agree on it.
PaidStays ==
  [][crashes' = crashes =>
       \A i \in Invoices :
         Safe(i) => /\ inv'[i].status \in {"paid", "sent"}
                    /\ inv'[i].status = "paid" => Safe(i)']_vars

\* Replays heal: after a replay of the whole journal that no command ran
\* into, no work belongs to a canceled invoice or to none that exists,
\* whatever earlier replays did.
ReplayHeals ==
  quiet = "yes" => \A s \in Work : Owner(s) # None => Owner(s) \in Live

\* What the journal on disk promises is done, on disk, in the end: whatever
\* the crash interrupted, start-up finishes it.
JournaledGetsDone ==
  \A n \in OpIds : coreDisk.ops[n].state = "prepared" ~> coreDisk.ops[n].state = "complete"
====================

----------------------- MODULE InvoiceBilling_proofs -----------------------
(***************************************************************************)
(* What holds of InvoiceBilling for every number of invoices, operations,  *)
(* commands in flight and crashes, and for all work and selections: types, *)
(* a journaled plan behind every marker, numbers that are given once, and  *)
(* a canceled invoice that stays canceled.  Each rests on an inductive     *)
(* invariant that says the same of memory and of the databases a crash     *)
(* restarts from.                                                          *)
(***************************************************************************)
EXTENDS InvoiceBilling, NumberFacts, FiniteSetTheorems, TLAPS

\* The assumptions on the constants are used throughout.
USE BoundsAssumption, WorkAssumption, FlagAssumption, NoneAssumption

-----------------------------------------------------------------------------
(* The operators of the model return what the records are typed with.      *)

\* The latest end of the entries of a task is an instant of the model.
LEMMA LatestEndType ==
  ASSUME NEW S \in SUBSET Work, NEW t \in Tasks
  PROVE  LatestEnd(S, t) \in 0..Horizon
<1> DEFINE E == {0} \cup {EndOf[e] : e \in {f \in S \cap Entries : TaskOf[f] = t}}
<1>1. E \in SUBSET Nat /\ E # {} /\ \A x \in E : x <= Horizon
  OBVIOUS
<1>2. Max(E) \in E
  <2> HIDE DEF E
  <2> QED BY <1>1, BoundedMax
<1> QED
  BY <1>1, <1>2 DEF LatestEnd

\* The cutoff a release falls back to is an instant of the model.
LEMMA RestoredCutoffType ==
  ASSUME NEW i, NEW was \in Cutoffs, NEW t \in Tasks
  PROVE  RestoredCutoff(i, was, t) \in 0..Horizon
<1> DEFINE E == {was[t]} \cup {EndOf[e] : e \in {f \in Entries :
                                   TaskOf[f] = t /\ ents[f] \notin {None, i}}}
<1>1. E \in SUBSET Nat /\ E # {} /\ \A x \in E : x <= Horizon
  BY DEF Cutoffs
<1>2. Max(E) \in E
  <2> HIDE DEF E
  <2> QED BY <1>1, BoundedMax
<1> QED
  BY <1>1, <1>2 DEF RestoredCutoff

\* The next sequential number is a natural number.
LEMMA NextNumberType ==
  ASSUME TypeOK
  PROVE  NextNumber \in Nat
<1> DEFINE E == {seq} \cup {inv[i].num + 1 : i \in Issued}
           B == MaxNumber + 1
<1>1. B \in Nat /\ E \in SUBSET Nat /\ E # {} /\ \A x \in E : x <= B
  BY DEF TypeOK, Issued, InvoiceRecords, Numbers
<1>2. Max(E) \in E
  <2> HIDE DEF E, B
  <2> QED BY <1>1, BoundedMax
<1> QED
  BY <1>1, <1>2 DEF NextNumber

\* The numbers in use are finitely many naturals, so a free one exists.
LEMMA UsedNumbersType ==
  ASSUME TypeOK, NEW i
  PROVE  UsedNumbers(i) \in SUBSET Nat /\ IsFiniteSet(UsedNumbers(i))
<1>1. UsedNumbers(i) \in SUBSET Numbers
  <2>1. \A j \in Issued : inv[j].num \in Numbers
    BY DEF TypeOK, Issued, InvoiceRecords
  <2>2. \A n \in Pending : ops[n].num \in Numbers
    BY DEF TypeOK, Pending, Operations, NoOp
  <2> QED
    BY <2>1, <2>2 DEF UsedNumbers
<1>2. IsFiniteSet(Numbers)
  BY FS_Interval DEF Numbers
<1> QED
  BY <1>1, <1>2, FS_Subset DEF Numbers

\* The number finalization gives is none of those in use.
LEMMA FinalizeOpNumber ==
  ASSUME TypeOK, NEW i, NEW sel
  PROVE  /\ FinalizeOp(i, sel).num \in Nat
         /\ FinalizeOp(i, sel).num \notin UsedNumbers(i)
         /\ FinalizeOp(i, sel).num >= NextNumber
<1> DEFINE F == {k \in NextNumber..(NextNumber + Cardinality(UsedNumbers(i))) :
                   k \notin UsedNumbers(i)}
<1>1. Min(F) \in F
  BY UsedNumbersType, NextNumberType, FreeNumber
<1>2. FinalizeOp(i, sel).num = Min(F)
  BY DEF FinalizeOp
<1>3. Min(F) \in Nat /\ Min(F) \notin UsedNumbers(i) /\ Min(F) >= NextNumber
  <2>1. \A x \in F : x \in Nat /\ x \notin UsedNumbers(i) /\ x >= NextNumber
    BY NextNumberType
  <2> HIDE DEF F
  <2> QED BY <1>1, <2>1
<1> QED
  BY <1>2, <1>3

\* The plan of a finalization is an operation of the journal.
LEMMA FinalizeOpType ==
  ASSUME TypeOK, NEW i \in Invoices, NEW sel \in SUBSET Work,
         FinalizeOp(i, sel).num <= MaxNumber
  PROVE  FinalizeOp(i, sel) \in Operations
<1> DEFINE num == FinalizeOp(i, sel).num
<1>1. num \in Numbers /\ num + 1 \in 0..(MaxNumber + 1)
  <2> HIDE DEF num
  <2> QED BY FinalizeOpNumber DEF num, Numbers
<1> DEFINE cuts == [t \in Tasks |-> IF LatestEnd(sel, t) > cutoff[t]
                                    THEN LatestEnd(sel, t) ELSE 0]
<1>2. cuts \in Cutoffs
  BY LatestEndType DEF Cutoffs
<1>3. FinalizeOp(i, sel) =
        [state |-> "prepared", kind |-> "finalize", inv |-> i, num |-> num, sel |-> sel,
         was |-> cutoff, srcs |-> sel, cuts |-> cuts, expect |-> cutoff, seqTo |-> num + 1]
  BY DEF FinalizeOp
<1>4. cutoff \in Cutoffs
  BY DEF TypeOK
<1> HIDE DEF num, cuts
<1> QED
  BY <1>1, <1>2, <1>3, <1>4 DEF Operations

\* What an invoice owns is work.
LEMMA OwnedByType == ASSUME NEW i PROVE OwnedBy(i) \in SUBSET Work
BY DEF OwnedBy

\* The plan of an undo or a cancellation is an operation of the journal.
LEMMA ReleaseOpType ==
  ASSUME TypeOK, NEW kind \in {"undo", "cancel"}, NEW i \in Invoices,
         NEW rec \in InvoiceRecords, NEW seqTo \in 0..(MaxNumber + 1)
  PROVE  ReleaseOp(kind, i, rec, seqTo) \in Operations
<1> DEFINE cuts == [t \in Tasks |-> IF t \in TasksOf(rec.sel)
                             THEN RestoredCutoff(i, rec.was, t) ELSE cutoff[t]]
<1>1. cutoff \in Cutoffs
  BY DEF TypeOK
<1>2. cuts \in Cutoffs
  BY <1>1, RestoredCutoffType DEF Cutoffs, InvoiceRecords
<1>3. rec.num \in Numbers /\ rec.sel \in SUBSET Work /\ rec.was \in Cutoffs
  BY DEF InvoiceRecords
<1>4. ReleaseOp(kind, i, rec, seqTo) =
        [state |-> "prepared", kind |-> kind, inv |-> i, num |-> rec.num, sel |-> rec.sel,
         was |-> rec.was, srcs |-> OwnedBy(i), cuts |-> cuts, expect |-> cutoff,
         seqTo |-> seqTo]
  BY DEF ReleaseOp
<1> HIDE DEF cuts
<1> QED
  BY <1>1, <1>2, <1>3, <1>4, OwnedByType DEF Operations

\* Looking for owned work again changes no more of a plan than the work it
\* releases and the cutoffs.
LEMMA CancelReplayType ==
  ASSUME TypeOK, NEW op \in Operations
  PROVE  /\ CancelReplay(op) \in Operations
         /\ CancelReplay(op).kind = op.kind /\ CancelReplay(op).inv = op.inv
         /\ CancelReplay(op).num = op.num
<1> DEFINE Final(t) == LatestEnd(op.sel \cup OwnedBy(op.inv), t)
           Again(t) == t \in TasksOf(op.sel) /\ Final(t) # 0 /\ cutoff[t] = Final(t)
           srcs == op.srcs \cup OwnedBy(op.inv)
           cuts == [t \in Tasks |-> IF Again(t) THEN RestoredCutoff(op.inv, op.was, t)
                                    ELSE op.cuts[t]]
           expect == [t \in Tasks |-> IF Again(t) THEN cutoff[t] ELSE op.expect[t]]
<1>1. cutoff \in Cutoffs /\ op.was \in Cutoffs /\ op.cuts \in Cutoffs
      /\ op.expect \in Cutoffs /\ op.srcs \in SUBSET Work
  BY DEF TypeOK, Operations
<1>2. srcs \in SUBSET Work
  BY <1>1, OwnedByType
<1>3. cuts \in Cutoffs
  <2> HIDE DEF Again
  <2> QED BY <1>1, RestoredCutoffType DEF Cutoffs
<1>4. expect \in Cutoffs
  <2> HIDE DEF Again
  <2> QED BY <1>1 DEF Cutoffs
<1>5. CancelReplay(op) = [op EXCEPT !.srcs = srcs, !.cuts = cuts, !.expect = expect]
  BY DEF CancelReplay
<1> HIDE DEF srcs, cuts, expect
<1> QED
  BY <1>2, <1>3, <1>4, <1>5, ZenonT(60) DEF Operations

\* A plan being applied is typed, and leaves what it computes typed.
LEMMA RunType ==
  ASSUME TypeOK, run # Idle
  PROVE  App \in Operations /\ run.op \in OpIds /\ run.phase \in Phases
BY DEF TypeOK, App

\* An application in one of the six phases is not idle.
LEMMA RunIsOn ==
  ASSUME NEW from \in Phases, run.phase = from
  PROVE  run # Idle
BY DEF Idle, Phases

\* The owner a phase writes is an invoice or nobody.
LEMMA NewOwnerType ==
  ASSUME App \in Operations, NEW s, NEW owner \in Owners
  PROVE  NewOwner(s, owner) \in Owners
BY DEF NewOwner, Operations, Owners, Claims

\* The cutoff the task phase writes is an instant of the model.
LEMMA NewCutoffType ==
  ASSUME TypeOK, App \in Operations, NEW t \in Tasks
  PROVE  NewCutoff(t) \in 0..Horizon
<1> DEFINE E == {cutoff[t], App.cuts[t]}
<1>1. cutoff[t] \in 0..Horizon /\ App.cuts[t] \in 0..Horizon
  BY DEF TypeOK, Operations, Cutoffs
<1>2. Max(E) \in E
  <2>1. E \in SUBSET Nat /\ E # {} /\ \A x \in E : x <= Horizon
    BY <1>1
  <2> HIDE DEF E
  <2> QED BY <2>1, BoundedMax
<1> QED
  BY <1>1, <1>2 DEF NewCutoff

\* The record the invoice phase writes is an invoice record.
LEMMA NewInvoiceType ==
  ASSUME App \in Operations, NEW rec \in InvoiceRecords
  PROVE  NewInvoice(rec) \in InvoiceRecords
<1>1. Absent \in InvoiceRecords
  BY DEF Absent, InvoiceRecords, Statuses, Numbers, Cutoffs
<1>2. App.kind \in {"finalize", "undo", "cancel"} /\ App.num \in Numbers
      /\ App.sel \in SUBSET Work /\ App.was \in Cutoffs
  BY DEF Operations
<1> QED
  BY <1>1, <1>2 DEF NewInvoice, InvoiceRecords, Statuses

\* The sequence a finalization writes stays in the range of the template.
LEMMA SequenceType ==
  ASSUME TypeOK, App \in Operations
  PROVE  Max({seq, App.seqTo}) \in 1..(MaxNumber + 1)
<1> DEFINE E == {seq, App.seqTo}
           B == MaxNumber + 1
<1>1. seq \in 1..B /\ App.seqTo \in 0..B /\ B \in Nat
  BY DEF TypeOK, Operations
<1>2. Max(E) \in E /\ \A x \in E : x <= Max(E)
  <2>1. E \in SUBSET Nat /\ E # {} /\ \A x \in E : x <= B
    BY <1>1
  <2> HIDE DEF E, B
  <2> QED BY <1>1, <2>1, BoundedMax
<1> QED
  BY <1>1, <1>2

-----------------------------------------------------------------------------
(* Types.  TypeOK alone is not inductive: an application or a replay turns *)
(* the number of an operation into a plan, so whatever is about to be      *)
(* applied must be in the journal.                                         *)

PlansAreJournaled ==
  /\ \A c \in calls : c.kind = "apply" => ops[c.op] # NoOp
  /\ \A n \in replay.todo : ops[n] # NoOp
  /\ run # Idle => ops[run.op] # NoOp

TypeInv == TypeOK /\ PlansAreJournaled

\* An empty workspace is typed.
LEMMA InitTypeInv == Init => TypeInv
<1> SUFFICES ASSUME Init PROVE TypeInv
  OBVIOUS
<1>1. Absent \in InvoiceRecords
  BY DEF Absent, InvoiceRecords, Statuses, Numbers, Cutoffs
<1>2. Core \in CoreStates
  BY <1>1 DEF Init, Core, CoreStates, Cutoffs, Owners
<1>3. TypeOK
  BY <1>1, <1>2 DEF Init, TypeOK, Cutoffs, Owners, NoReplay
<1>4. PlansAreJournaled
  BY DEF Init, PlansAreJournaled, NoReplay
<1> QED
  BY <1>3, <1>4 DEF TypeInv

\* A free place of the journal is not an operation.
LEMMA NoOpIsNoPlan == NoOp \notin Operations
BY DEF NoOp, Operations

\* The journal entry of an operation that is in the journal is a plan.
LEMMA JournaledPlan ==
  ASSUME TypeOK, NEW n \in OpIds, ops[n] # NoOp
  PROVE  ops[n] \in Operations
BY DEF TypeOK

\* Journaling a plan and waiting to apply it keeps the types.
LEMMA JournalStep ==
  ASSUME TypeInv, NEW n \in OpIds, NEW op \in Operations, Journal(n, op),
         NEW C \in SUBSET calls, calls' = C \cup {[kind |-> "apply", op |-> n]},
         born' \in 0..MaxInvoices,
         UNCHANGED <<inv, charges, cutoff, seq, linked, ents, diskVars, run, replay, crashes>>
  PROVE  TypeInv'
<1>1. [kind |-> "apply", op |-> n] \in Calls
  BY DEF Calls
<1>2. TypeOK'
  BY <1>1 DEF TypeInv, TypeOK, Journal, diskVars
<1>3. op # NoOp
  BY NoOpIsNoPlan
<1>4. \A m \in OpIds : ops[m] # NoOp => ops'[m] # NoOp
  BY <1>3 DEF TypeInv, TypeOK, Journal
<1>5. ops'[n] # NoOp
  BY <1>3 DEF TypeInv, TypeOK, Journal
<1>6. \A c \in calls : c.kind = "apply" => c.op \in OpIds
  BY DEF TypeInv, TypeOK, Calls
<1>7. run # Idle => run.op \in OpIds
  BY RunType DEF TypeInv
<1>8. replay.todo \in SUBSET OpIds
  BY DEF TypeInv, TypeOK
<1>9. PlansAreJournaled'
  BY <1>4, <1>5, <1>6, <1>7, <1>8 DEF TypeInv, PlansAreJournaled
<1> QED
  BY <1>2, <1>9 DEF TypeInv

\* Writing an invoice record and nothing the plans depend on.
LEMMA InvoiceStep ==
  ASSUME TypeInv, NEW i \in Invoices, NEW rec \in InvoiceRecords,
         inv' = [inv EXCEPT ![i] = rec], quiet' = "no", born' \in 0..MaxInvoices,
         calls' \in SUBSET calls,
         UNCHANGED <<ops, charges, cutoff, seq, linked, ents, diskVars, run, replay, crashes>>
  PROVE  TypeInv'
BY DEF TypeInv, TypeOK, PlansAreJournaled, diskVars

\* Waiting at an await that is followed by no application.
LEMMA WaitStep ==
  ASSUME TypeInv, NEW c \in Calls, c.kind # "apply", calls' = calls \cup {c}, quiet' = "no",
         UNCHANGED <<coreVars, ents, diskVars, run, replay, born, crashes>>
  PROVE  TypeInv'
BY DEF TypeInv, TypeOK, PlansAreJournaled, diskVars, coreVars

\* No command takes the state out of its types.
LEMMA CommandTypeInv == TypeInv /\ Command => TypeInv'
<1> SUFFICES ASSUME TypeInv, Command PROVE TypeInv'
  OBVIOUS
<1> USE DEF TypeInv
<1>1. ASSUME NEW sel \in Selections, SaveDraft(sel) PROVE TypeInv'
  <2> DEFINE i == born + 1
             rec == [status |-> "draft", num |-> NextNumber, sel |-> sel,
                     was |-> [t \in Tasks |-> 0]]
  <2>1. i \in Invoices /\ i \in 0..MaxInvoices
    BY <1>1 DEF SaveDraft, TypeOK, Invoices
  <2>2. NextNumber \in Numbers
    BY <1>1, NextNumberType DEF SaveDraft, Numbers
  <2>3. rec \in InvoiceRecords
    BY <2>2 DEF InvoiceRecords, Statuses, Cutoffs
  <2>4. inv' = [inv EXCEPT ![i] = rec] /\ born' = i
    BY <1>1 DEF SaveDraft
  <2> HIDE DEF i, rec
  <2> QED
    BY <1>1, <2>1, <2>3, <2>4, InvoiceStep DEF SaveDraft
<1>2. ASSUME NEW i \in Invoices, NEW sel \in Selections, RefreshDraft(i, sel) PROVE TypeInv'
  <2> DEFINE rec == [inv[i] EXCEPT !.sel = sel]
  <2>1. rec \in InvoiceRecords
    BY DEF TypeOK, InvoiceRecords
  <2>2. inv' = [inv EXCEPT ![i] = rec]
    BY <1>2 DEF RefreshDraft
  <2>3. born' \in 0..MaxInvoices
    BY <1>2 DEF RefreshDraft, TypeOK
  <2> HIDE DEF rec
  <2> QED
    BY <1>2, <2>1, <2>2, <2>3, InvoiceStep DEF RefreshDraft
<1>3. ASSUME NEW i \in Invoices, DeleteDraft(i) PROVE TypeInv'
  <2>1. Absent \in InvoiceRecords
    BY DEF Absent, InvoiceRecords, Statuses, Numbers, Cutoffs
  <2>2. born' \in 0..MaxInvoices
    BY <1>3 DEF DeleteDraft, TypeOK
  <2> QED
    BY <1>3, <2>1, <2>2, InvoiceStep DEF DeleteDraft
<1>4. ASSUME NEW n \in OpIds, NEW i \in Invoices, NEW sel \in Selections \cup {inv[i].sel},
             PrepareFinalize(n, i, sel)
      PROVE TypeInv'
  <2>1. sel \in SUBSET Work
    BY DEF TypeOK, InvoiceRecords
  <2>2. FinalizeOp(i, sel) \in Operations
    BY <1>4, <2>1, FinalizeOpType DEF PrepareFinalize
  <2>3. born' \in 0..MaxInvoices
    BY <1>4 DEF PrepareFinalize, TypeOK, Invoices
  <2> QED
    BY <1>4, <2>2, <2>3, JournalStep DEF PrepareFinalize
<1>5. ASSUME NEW i \in Invoices, BeginUndo(i) PROVE TypeInv'
  <2> DEFINE others == {inv[j].num : j \in {k \in Invoices \ {i} : inv[k].status # "absent"}}
             c == [kind |-> "undo", inv |-> i, rec |-> inv[i], others |-> others]
  <2>1. others \in SUBSET Numbers
    BY DEF TypeOK, InvoiceRecords
  <2>2. c \in Calls /\ c.kind # "apply"
    <3> HIDE DEF others
    <3> QED BY <2>1 DEF Calls, TypeOK
  <2>3. calls' = calls \cup {c} /\ quiet' = "no"
        /\ UNCHANGED <<coreVars, ents, diskVars, run, replay, born, crashes>>
    BY <1>5 DEF BeginUndo
  <2> HIDE DEF c
  <2> QED
    BY <2>2, <2>3, WaitStep
<1>6. ASSUME NEW n \in OpIds, NEW c \in calls, PrepareUndo(n, c) PROVE TypeInv'
  <2>1. c \in Calls /\ c.kind = "undo"
    BY <1>6 DEF PrepareUndo, TypeOK
  <2>2. c.inv \in Invoices /\ c.rec \in InvoiceRecords
    BY <2>1 DEF Calls
  <2> DEFINE back == seq = c.rec.num + 1 /\ \A k \in c.others : k < c.rec.num
             seqTo == IF back THEN c.rec.num ELSE 0
             op == ReleaseOp("undo", c.inv, c.rec, seqTo)
  <2>3. seqTo \in 0..(MaxNumber + 1)
    <3> HIDE DEF back
    <3> QED BY <2>2 DEF InvoiceRecords, Numbers
  <2>4. op \in Operations
    <3> HIDE DEF seqTo
    <3> QED BY <2>2, <2>3, ReleaseOpType
  <2>5. Journal(n, op) /\ calls' = (calls \ {c}) \cup {[kind |-> "apply", op |-> n]}
    BY <1>6 DEF PrepareUndo
  <2>6. born' \in 0..MaxInvoices
    BY <1>6 DEF PrepareUndo, TypeOK
  <2> DEFINE C == calls \ {c}
  <2>7. C \in SUBSET calls
    OBVIOUS
  <2>8. calls' = C \cup {[kind |-> "apply", op |-> n]}
    BY <2>5
  <2>9. UNCHANGED <<inv, charges, cutoff, seq, linked, ents, diskVars, run, replay, crashes>>
    BY <1>6 DEF PrepareUndo
  <2> HIDE DEF op, C
  <2> QED
    BY <2>4, <2>5, <2>6, <2>7, <2>8, <2>9, JournalStep
<1>7. ASSUME NEW n \in OpIds, NEW i \in Invoices, PrepareCancel(n, i) PROVE TypeInv'
  <2>1. ReleaseOp("cancel", i, inv[i], 0) \in Operations
    BY ReleaseOpType DEF TypeOK
  <2>2. born' \in 0..MaxInvoices
    BY <1>7 DEF PrepareCancel, TypeOK
  <2> QED
    BY <1>7, <2>1, <2>2, JournalStep DEF PrepareCancel
<1>8. ASSUME NEW i \in Invoices, NEW status \in Statuses, SetStatus(i, status),
             calls' \in SUBSET calls
      PROVE TypeInv'
  <2> DEFINE rec == [inv[i] EXCEPT !.status = status]
  <2>1. rec \in InvoiceRecords
    BY DEF TypeOK, InvoiceRecords
  <2>2. inv' = [inv EXCEPT ![i] = rec]
    BY <1>8 DEF SetStatus
  <2>3. born' \in 0..MaxInvoices
    BY <1>8 DEF SetStatus, TypeOK
  <2> HIDE DEF rec
  <2> QED
    BY <1>8, <2>1, <2>2, <2>3, InvoiceStep DEF SetStatus
<1>9. ASSUME NEW i \in Invoices, Pay(i) \/ MarkUnpaid(i) PROVE TypeInv'
  BY <1>8, <1>9 DEF Pay, MarkUnpaid, Statuses
<1>10. ASSUME NEW i \in Invoices, BeginPay(i) PROVE TypeInv'
  <2>1. [kind |-> "pay", inv |-> i] \in Calls
    BY DEF Calls
  <2> QED
    BY <1>10, <2>1, WaitStep DEF BeginPay
<1>11. ASSUME NEW c \in calls, FinishPay(c) PROVE TypeInv'
  <2>1. c.inv \in Invoices
    BY <1>11 DEF FinishPay, TypeOK, Calls
  <2> QED
    BY <1>8, <1>11, <2>1 DEF FinishPay, Statuses
<1> QED
  BY <1>1, <1>2, <1>3, <1>4, <1>5, <1>6, <1>7, <1>9, <1>10, <1>11 DEF Command

-----------------------------------------------------------------------------
(* Applications, replays, writes and restarts keep the types.              *)

\* What is applied next is a typed plan from the journal.
LEMMA ApplyStep ==
  ASSUME TypeInv, NEW n \in OpIds, ops[n] # NoOp, NEW known, Apply(n, known)
  PROVE  /\ run' \in {Idle} \cup [op : OpIds, app : Operations, phase : Phases]
         /\ run' # Idle => ops[run'.op] # NoOp
<1>1. ops[n] \in Operations
  BY JournaledPlan DEF TypeInv
<1>2. CancelReplay(ops[n]) \in Operations
  BY <1>1, CancelReplayType DEF TypeInv
<1> DEFINE app == IF ops[n].kind = "cancel" THEN CancelReplay(ops[n]) ELSE ops[n]
<1>3. app \in Operations
  BY <1>1, <1>2
<1>4. run' = Idle \/ run' = [op |-> n, phase |-> "entries", app |-> app]
  BY DEF Apply
<1> HIDE DEF app
<1> QED
  BY <1>3, <1>4 DEF Phases

\* A command that starts applying its plan keeps the types.
LEMMA ApplyOwnTypeInv ==
  ASSUME TypeInv, NEW c \in calls, ApplyOwn(c)
  PROVE  TypeInv'
<1>1. c.op \in OpIds /\ ops[c.op] # NoOp
  BY DEF TypeInv, TypeOK, PlansAreJournaled, ApplyOwn, Calls
<1>2. /\ run' \in {Idle} \cup [op : OpIds, app : Operations, phase : Phases]
      /\ run' # Idle => ops[run'.op] # NoOp
  BY <1>1, ApplyStep DEF ApplyOwn
<1>3. calls' \in SUBSET calls
  BY DEF ApplyOwn
<1>4. UNCHANGED <<coreVars, ents, diskVars, replay, born, crashes, quiet>>
  BY DEF ApplyOwn
<1> QED
  BY <1>2, <1>3, <1>4 DEF TypeInv, TypeOK, PlansAreJournaled, coreVars, diskVars

\* A phase moves the application on and leaves the journal as it is.
LEMMA PhaseStep ==
  ASSUME TypeInv, NEW from \in Phases, NEW to \in Phases, EnterPhase(from, to), ops' = ops
  PROVE  /\ run' \in [op : OpIds, app : Operations, phase : Phases]
         /\ PlansAreJournaled'
         /\ App \in Operations
         /\ UNCHANGED <<coreDisk, entsDisk, calls, replay, born, crashes, quiet>>
<1>1. run # Idle
  BY RunIsOn DEF EnterPhase
<1>2. run \in [op : OpIds, app : Operations, phase : Phases]
  BY <1>1 DEF TypeInv, TypeOK
<1>3. run' = [run EXCEPT !.phase = to]
  BY DEF EnterPhase
<1>4. run' \in [op : OpIds, app : Operations, phase : Phases] /\ run'.op = run.op
  BY <1>2, <1>3
<1>5. UNCHANGED <<coreDisk, entsDisk, calls, replay, born, crashes, quiet>>
  BY DEF EnterPhase, diskVars
<1>6. PlansAreJournaled'
  BY <1>1, <1>4, <1>5 DEF TypeInv, PlansAreJournaled
<1>7. App \in Operations
  BY <1>2 DEF App
<1> QED
  BY <1>4, <1>5, <1>6, <1>7

\* Each of the six phases keeps the types.
LEMMA ApplyPhaseTypeInv == TypeInv /\ ApplyPhase => TypeInv'
<1> SUFFICES ASSUME TypeInv, ApplyPhase PROVE TypeInv'
  OBVIOUS
<1> USE DEF TypeInv
<1>1. CASE ApplyEntries
  <2>1. ops' = ops /\ EnterPhase("entries", "expenses")
    BY <1>1 DEF ApplyEntries, coreVars
  <2>2. App \in Operations /\ PlansAreJournaled'
    BY <2>1, PhaseStep DEF Phases
  <2>3. ents' \in [Entries -> Owners]
    BY <1>1, <2>2, NewOwnerType DEF ApplyEntries, TypeOK
  <2> QED
    BY <1>1, <2>1, <2>2, <2>3, PhaseStep DEF ApplyEntries, TypeOK, coreVars, Phases
<1>2. CASE ApplyExpenses
  <2>1. ops' = ops /\ EnterPhase("expenses", "tasks")
    BY <1>2 DEF ApplyExpenses
  <2>2. App \in Operations /\ PlansAreJournaled'
    BY <2>1, PhaseStep DEF Phases
  <2>3. charges' \in [Expenses \cup Quotes -> Owners]
    BY <1>2, <2>2, NewOwnerType DEF ApplyExpenses, TypeOK
  <2> QED
    BY <1>2, <2>1, <2>2, <2>3, PhaseStep DEF ApplyExpenses, TypeOK, Phases
<1>3. CASE ApplyTasks
  <2>1. ops' = ops /\ EnterPhase("tasks", "links")
    BY <1>3 DEF ApplyTasks
  <2>2. App \in Operations /\ PlansAreJournaled'
    BY <2>1, PhaseStep DEF Phases
  <2>3. charges' \in [Expenses \cup Quotes -> Owners]
    BY <1>3, <2>2, NewOwnerType DEF ApplyTasks, TypeOK
  <2>4. cutoff' \in Cutoffs
    BY <1>3, <2>2, NewCutoffType DEF ApplyTasks, Cutoffs
  <2> QED
    BY <1>3, <2>1, <2>2, <2>3, <2>4, PhaseStep DEF ApplyTasks, TypeOK, Phases
<1>4. CASE ApplyLinks
  <2>1. ops' = ops /\ EnterPhase("links", "invoice")
    BY <1>4 DEF ApplyLinks
  <2>2. App \in Operations /\ PlansAreJournaled'
    BY <2>1, PhaseStep DEF Phases
  <2>3. App.inv \in Invoices /\ App.kind \in {"finalize", "undo", "cancel"}
        /\ App.seqTo \in 0..(MaxNumber + 1)
    BY <2>2 DEF Operations
  <2>4. Max({seq, App.seqTo}) \in 1..(MaxNumber + 1)
    BY <2>2, SequenceType
  <2>5. seq' \in 1..(MaxNumber + 1) /\ linked' \in SUBSET Invoices
    <3>1. seq \in 1..(MaxNumber + 1) /\ linked \in SUBSET Invoices
      BY DEF TypeOK
    <3>2. CASE App.kind = "finalize"
      BY <1>4, <2>3, <2>4, <3>1, <3>2 DEF ApplyLinks
    <3>3. CASE App.kind = "undo"
      BY <1>4, <2>3, <3>1, <3>3 DEF ApplyLinks
    <3>4. CASE App.kind = "cancel"
      BY <1>4, <3>1, <3>4 DEF ApplyLinks
    <3> QED
      BY <2>3, <3>2, <3>3, <3>4
  <2> QED
    BY <1>4, <2>1, <2>2, <2>5, PhaseStep DEF ApplyLinks, TypeOK, Phases
<1>5. CASE ApplyInvoice
  <2>1. ops' = ops /\ EnterPhase("invoice", "complete")
    BY <1>5 DEF ApplyInvoice
  <2>2. App \in Operations /\ PlansAreJournaled'
    BY <2>1, PhaseStep DEF Phases
  <2>3. App.inv \in Invoices
    BY <2>2 DEF Operations
  <2>4. NewInvoice(inv[App.inv]) \in InvoiceRecords
    BY <2>2, <2>3, NewInvoiceType DEF TypeOK
  <2>5. inv' \in [Invoices -> InvoiceRecords]
    BY <1>5, <2>3, <2>4 DEF ApplyInvoice, TypeOK
  <2> QED
    BY <1>5, <2>1, <2>2, <2>5, PhaseStep DEF ApplyInvoice, TypeOK, Phases
<1>6. CASE Complete
  <2>1. run # Idle
    BY <1>6, RunIsOn DEF Complete, Phases
  <2>2. run.op \in OpIds /\ ops[run.op] \in Operations
    BY <2>1, RunType, JournaledPlan DEF PlansAreJournaled
  <2> DEFINE op == [ops[run.op] EXCEPT !.state = "complete"]
  <2>3. op \in Operations
    BY <2>2 DEF Operations
  <2>4. ops' = [ops EXCEPT ![run.op] = op] /\ run' = Idle
    BY <1>6 DEF Complete
  <2>5. \A m \in OpIds : ops[m] # NoOp => ops'[m] # NoOp
    <3> HIDE DEF op
    <3> QED BY <2>2, <2>3, <2>4, NoOpIsNoPlan DEF TypeOK
  <2> HIDE DEF op
  <2>6. ops' \in [OpIds -> Operations \cup {NoOp}]
    BY <2>2, <2>3, <2>4 DEF TypeOK
  <2>7. UNCHANGED <<inv, charges, cutoff, seq, linked, ents, coreDisk, entsDisk, calls, replay,
                    born, crashes, quiet>>
    BY <1>6 DEF Complete, diskVars
  <2>8. TypeOK'
    BY <2>4, <2>6, <2>7 DEF TypeOK
  <2>9. PlansAreJournaled'
    BY <2>4, <2>5, <2>7 DEF TypeOK, PlansAreJournaled, Calls
  <2> QED
    BY <2>8, <2>9
<1> QED
  BY <1>1, <1>2, <1>3, <1>4, <1>5, <1>6 DEF ApplyPhase

\* A replay that starts, applies its next operation or ends keeps the types.
LEMMA ReplayTypeInv == TypeInv /\ (StartReplay \/ ReplayNext \/ EndReplay) => TypeInv'
<1> SUFFICES ASSUME TypeInv, StartReplay \/ ReplayNext \/ EndReplay PROVE TypeInv'
  OBVIOUS
<1> USE DEF TypeInv
<1>1. CASE StartReplay
  <2>1. replay' \in [mode : {"none", "boot", "sync"}, todo : SUBSET OpIds, done : SUBSET OpIds]
    BY <1>1 DEF StartReplay
  <2>2. \A n \in replay'.todo : ops[n] # NoOp
    BY <1>1 DEF StartReplay
  <2>3. quiet' \in {"no", "passing", "yes"}
    BY <1>1 DEF StartReplay, TypeOK
  <2> QED
    BY <1>1, <2>1, <2>2, <2>3
    DEF StartReplay, TypeOK, PlansAreJournaled, coreVars, diskVars
<1>2. CASE ReplayNext
  <2> DEFINE n == Min(replay.todo)
             known == IF n \in replay.done THEN "complete" ELSE "prepared"
  <2>1. replay.todo \in SUBSET OpIds /\ replay.todo # {}
    BY <1>2 DEF ReplayNext, TypeOK
  <2>2. n \in replay.todo
    <3>1. replay.todo \in SUBSET Nat
      BY <2>1 DEF OpIds
    <3> QED BY <2>1, <3>1, NaturalMin
  <2>3. Apply(n, known) /\ replay' = [replay EXCEPT !.todo = @ \ {n}]
    BY <1>2 DEF ReplayNext
  <2>4. n \in OpIds /\ ops[n] # NoOp
    BY <2>1, <2>2 DEF PlansAreJournaled
  <2> HIDE DEF n, known
  <2>5. /\ run' \in {Idle} \cup [op : OpIds, app : Operations, phase : Phases]
        /\ run' # Idle => ops[run'.op] # NoOp
    BY <2>3, <2>4, ApplyStep
  <2>6. replay' \in [mode : {"none", "boot", "sync"}, todo : SUBSET OpIds, done : SUBSET OpIds]
        /\ replay'.todo \in SUBSET replay.todo
    BY <2>3 DEF TypeOK
  <2>7. UNCHANGED <<coreVars, ents, diskVars, calls, born, crashes, quiet>>
    BY <1>2 DEF ReplayNext
  <2> QED
    BY <2>5, <2>6, <2>7 DEF TypeOK, PlansAreJournaled, coreVars, diskVars
<1>3. CASE EndReplay
  BY <1>3 DEF EndReplay, NoReplay, TypeOK, PlansAreJournaled, coreVars, diskVars
<1> QED
  BY <1>1, <1>2, <1>3

\* A write to the databases keeps the types.
LEMMA PersistTypeInv == TypeInv /\ Persist => TypeInv'
<1> SUFFICES ASSUME TypeInv, Persist PROVE TypeInv'
  OBVIOUS
<1>1. Core \in CoreStates
  BY DEF TypeInv, TypeOK, Core, CoreStates
<1>2. coreDisk' \in CoreStates /\ entsDisk' \in [Entries -> Owners]
  BY <1>1 DEF Persist, PersistBoth, PersistCore, PersistEntries, TypeInv, TypeOK
<1>3. UNCHANGED <<coreVars, ents, calls, run, replay, born, crashes, quiet>>
  BY DEF Persist, PersistBoth, PersistCore, PersistEntries
<1> QED
  BY <1>2, <1>3 DEF TypeInv, TypeOK, PlansAreJournaled, coreVars

\* A restart from the databases keeps the types, and what start-up is to
\* replay is in the journal it loaded.
LEMMA CrashTypeInv == TypeInv /\ CrashAndRestart => TypeInv'
<1> SUFFICES ASSUME TypeInv, CrashAndRestart PROVE TypeInv'
  OBVIOUS
<1>1. coreDisk \in CoreStates
  BY DEF TypeInv, TypeOK
<1>2. /\ inv' \in [Invoices -> InvoiceRecords]
      /\ ops' \in [OpIds -> Operations \cup {NoOp}]
      /\ charges' \in [Expenses \cup Quotes -> Owners]
      /\ cutoff' \in Cutoffs /\ seq' \in 1..(MaxNumber + 1) /\ linked' \in SUBSET Invoices
  BY <1>1 DEF CrashAndRestart, CoreStates
<1>3. ops' = coreDisk.ops /\ calls' = {} /\ run' = Idle /\ quiet' = "no"
  BY DEF CrashAndRestart
<1>4. replay' = [mode |-> "boot",
                 todo |-> {n \in OpIds : coreDisk.ops[n].state = "prepared"}, done |-> {}]
  BY DEF CrashAndRestart
<1>5. replay' \in [mode : {"none", "boot", "sync"}, todo : SUBSET OpIds, done : SUBSET OpIds]
  BY <1>4
<1>6. \A n \in replay'.todo : ops'[n] # NoOp
  BY <1>3, <1>4 DEF NoOp
<1>7. crashes' \in 0..MaxCrashes
  BY DEF CrashAndRestart, TypeInv, TypeOK
<1>8. ents' = entsDisk /\ UNCHANGED <<coreDisk, entsDisk, born>>
  BY DEF CrashAndRestart, diskVars
<1>9. TypeOK'
  BY <1>2, <1>3, <1>5, <1>7, <1>8 DEF TypeInv, TypeOK
<1>10. PlansAreJournaled'
  BY <1>3, <1>6 DEF PlansAreJournaled
<1> QED
  BY <1>9, <1>10 DEF TypeInv

\* Every step of the specification keeps the types.
LEMMA NextTypeInv == TypeInv /\ [Next]_vars => TypeInv'
<1> SUFFICES ASSUME TypeInv, [Next]_vars PROVE TypeInv'
  OBVIOUS
<1>1. CASE UNCHANGED vars
  BY <1>1 DEF TypeInv, TypeOK, PlansAreJournaled, vars, coreVars, diskVars
<1>2. CASE Next
  BY <1>2, CommandTypeInv, ApplyOwnTypeInv, ApplyPhaseTypeInv, ReplayTypeInv, PersistTypeInv,
     CrashTypeInv DEF Next
<1> QED
  BY <1>1, <1>2

\* The state is always typed: whatever the commands, replays, writes and
\* crashes, no invoice, plan, marker, cutoff or sequence number leaves its
\* range, and only plans that are in the journal are ever applied.
THEOREM TypeCorrect == Spec => []TypeOK
<1>1. Init => TypeInv
  BY InitTypeInv
<1>2. TypeInv /\ [Next]_vars => TypeInv'
  BY NextTypeInv
<1>3. TypeInv => TypeOK
  BY DEF TypeInv
<1> QED
  BY <1>1, <1>2, <1>3, PTL DEF Spec

-----------------------------------------------------------------------------
(* The journal only grows, and a plan being applied agrees with it.        *)

\* What a plan says of itself is the same in two journals.
SamePlan(p, q) == p.kind = q.kind /\ p.inv = q.inv /\ p.num = q.num /\ p.srcs = q.srcs

Extended(journal, later) ==
  \A n \in OpIds : journal[n] # NoOp => SamePlan(later[n], journal[n])

\* A plan being applied agrees with the journal on what it claims.
RunIsJournaled ==
  run # Idle => /\ App.kind = ops[run.op].kind /\ App.inv = ops[run.op].inv
                /\ App.num = ops[run.op].num
                /\ App.kind = "finalize" => App.srcs = ops[run.op].srcs

\* Commands run between applications and at most add one plan.
LEMMA CommandKeeps ==
  ASSUME TypeInv, Command
  PROVE  /\ run = Idle
         /\ UNCHANGED <<charges, cutoff, seq, linked, ents, coreDisk, entsDisk, run, replay,
                        crashes>>
         /\ \A m \in OpIds : ops[m] # NoOp => ops'[m] = ops[m]
<1> DEFINE Kept == /\ run = Idle
                   /\ UNCHANGED <<charges, cutoff, seq, linked, ents, coreDisk, entsDisk, run,
                                  replay, crashes>>
                   /\ \A m \in OpIds : ops[m] # NoOp => ops'[m] = ops[m]
<1>1. ASSUME NEW n \in OpIds, NEW op, Journal(n, op)
      PROVE  \A m \in OpIds : ops[m] # NoOp => ops'[m] = ops[m]
  BY <1>1 DEF Journal, NextOp, TypeInv, TypeOK
<1>2. ASSUME NEW sel \in Selections, SaveDraft(sel) PROVE Kept
  BY <1>2 DEF SaveDraft, Ready, diskVars
<1>3. ASSUME NEW i \in Invoices, NEW sel \in Selections, RefreshDraft(i, sel) PROVE Kept
  BY <1>3 DEF RefreshDraft, Ready, diskVars
<1>4. ASSUME NEW i \in Invoices, DeleteDraft(i) PROVE Kept
  BY <1>4 DEF DeleteDraft, Ready, diskVars
<1>5. ASSUME NEW n \in OpIds, NEW i \in Invoices, NEW sel \in Selections \cup {inv[i].sel},
             PrepareFinalize(n, i, sel)
      PROVE Kept
  BY <1>1, <1>5 DEF PrepareFinalize, MayStart, Ready, diskVars
<1>6. ASSUME NEW i \in Invoices, BeginUndo(i) PROVE Kept
  BY <1>6 DEF BeginUndo, MayStart, Ready, coreVars, diskVars
<1>7. ASSUME NEW n \in OpIds, NEW c \in calls, PrepareUndo(n, c) PROVE Kept
  BY <1>1, <1>7 DEF PrepareUndo, Ready, diskVars
<1>8. ASSUME NEW n \in OpIds, NEW i \in Invoices, PrepareCancel(n, i) PROVE Kept
  BY <1>1, <1>8 DEF PrepareCancel, MayStart, Ready, diskVars
<1>9. ASSUME NEW i \in Invoices, Pay(i) \/ MarkUnpaid(i) \/ BeginPay(i) PROVE Kept
  BY <1>9 DEF Pay, MarkUnpaid, BeginPay, SetStatus, MayStart, Ready, coreVars, diskVars
<1>10. ASSUME NEW c \in calls, FinishPay(c) PROVE Kept
  BY <1>10 DEF FinishPay, SetStatus, Ready, diskVars
<1> QED
  BY <1>2, <1>3, <1>4, <1>5, <1>6, <1>7, <1>8, <1>9, <1>10 DEF Command

\* A phase keeps the plan that is applied; only the last touches the journal.
LEMMA PhaseKeeps ==
  ASSUME TypeInv, ApplyPhase
  PROVE  /\ run # Idle
         /\ run' = Idle \/ (run' # Idle /\ run'.op = run.op /\ run'.app = run.app /\ ops' = ops)
         /\ Extended(ops, ops')
         /\ UNCHANGED <<coreDisk, entsDisk, calls, replay, born, crashes>>
<1>1. ASSUME NEW from \in Phases, NEW to \in Phases, EnterPhase(from, to)
      PROVE  /\ run # Idle /\ run' # Idle /\ run'.op = run.op /\ run'.app = run.app
             /\ UNCHANGED <<coreDisk, entsDisk, calls, replay, born, crashes>>
  <2>1. run # Idle
    BY <1>1, RunIsOn DEF EnterPhase
  <2>2. run \in [op : OpIds, app : Operations, phase : Phases]
    BY <2>1 DEF TypeInv, TypeOK
  <2>3. run' = [run EXCEPT !.phase = to]
    BY <1>1 DEF EnterPhase
  <2>4. run'.op = run.op /\ run'.app = run.app /\ run'.phase = to
    BY <2>2, <2>3
  <2>5. run' # Idle
    BY <2>4 DEF Idle, Phases
  <2> QED
    BY <1>1, <2>1, <2>4, <2>5 DEF EnterPhase, diskVars
<1>2. CASE ops' = ops /\ \E from, to \in Phases : EnterPhase(from, to)
  BY <1>1, <1>2 DEF Extended, SamePlan
<1>3. CASE Complete
  <2>1. run # Idle
    BY <1>3, RunIsOn DEF Complete, Phases
  <2>2. run.op \in OpIds /\ ops[run.op] \in Operations
    BY <2>1, RunType, JournaledPlan DEF TypeInv, PlansAreJournaled
  <2>3. ops' = [ops EXCEPT ![run.op].state = "complete"]
    BY <1>3 DEF Complete
  <2>4. Extended(ops, ops')
    BY <2>2, <2>3 DEF Extended, SamePlan, Operations, TypeInv, TypeOK
  <2> QED
    BY <1>3, <2>1, <2>4 DEF Complete, diskVars
<1> QED
  BY <1>2, <1>3
  DEF ApplyPhase, ApplyEntries, ApplyExpenses, ApplyTasks, ApplyLinks, ApplyInvoice, Phases,
      coreVars

\* An application starts from the plan in the journal.
LEMMA ApplyKeeps ==
  ASSUME TypeInv, NEW n \in OpIds, ops[n] # NoOp, NEW known, Apply(n, known)
  PROVE  run' = Idle \/
           /\ run'.op = n /\ run'.phase = "entries"
           /\ run'.app.kind = ops[n].kind /\ run'.app.inv = ops[n].inv
           /\ run'.app.num = ops[n].num
           /\ run'.app.kind = "finalize" => run'.app = ops[n]
<1>1. ops[n] \in Operations
  BY JournaledPlan DEF TypeInv
<1>2. /\ CancelReplay(ops[n]).kind = ops[n].kind /\ CancelReplay(ops[n]).inv = ops[n].inv
      /\ CancelReplay(ops[n]).num = ops[n].num
  BY <1>1, CancelReplayType DEF TypeInv
<1> DEFINE app == IF ops[n].kind = "cancel" THEN CancelReplay(ops[n]) ELSE ops[n]
<1>3. /\ app.kind = ops[n].kind /\ app.inv = ops[n].inv /\ app.num = ops[n].num
      /\ app.kind = "finalize" => app = ops[n]
  BY <1>2
<1>4. run' = Idle \/ run' = [op |-> n, phase |-> "entries", app |-> app]
  BY DEF Apply
<1> HIDE DEF app
<1> QED
  BY <1>3, <1>4

\* The two ways an application starts, by its command and by a replay.
LEMMA StartKeeps ==
  ASSUME TypeInv, (\E c \in calls : ApplyOwn(c)) \/ ReplayNext
  PROVE  /\ run = Idle
         /\ \E n \in OpIds : \E known : ops[n] # NoOp /\ Apply(n, known)
         /\ calls' \in SUBSET calls
         /\ UNCHANGED <<inv, ops, charges, cutoff, seq, linked, ents, coreDisk, entsDisk, born,
                        crashes>>
<1>1. CASE \E c \in calls : ApplyOwn(c)
  <2>1. PICK c \in calls : ApplyOwn(c)
    BY <1>1
  <2>2. c.op \in OpIds /\ ops[c.op] # NoOp
    BY <2>1 DEF TypeInv, TypeOK, PlansAreJournaled, ApplyOwn, Calls
  <2> QED
    BY <2>1, <2>2 DEF ApplyOwn, coreVars, diskVars
<1>2. CASE ReplayNext
  <2>1. replay.todo \in SUBSET OpIds /\ replay.todo # {}
    BY <1>2 DEF ReplayNext, TypeInv, TypeOK
  <2>2. Min(replay.todo) \in replay.todo
    <3>1. replay.todo \in SUBSET Nat
      BY <2>1 DEF OpIds
    <3> QED BY <2>1, <3>1, NaturalMin
  <2>3. Min(replay.todo) \in OpIds /\ ops[Min(replay.todo)] # NoOp
    BY <2>1, <2>2 DEF TypeInv, PlansAreJournaled
  <2> QED
    BY <1>2, <2>3 DEF ReplayNext, coreVars, diskVars
<1> QED
  BY <1>1, <1>2

\* Starting and ending a replay change nothing but the replay.
LEMMA ReplayKeeps ==
  ASSUME StartReplay \/ EndReplay
  PROVE  UNCHANGED <<inv, ops, charges, cutoff, seq, linked, ents, coreDisk, entsDisk, calls,
                     run, born, crashes>>
BY DEF StartReplay, EndReplay, coreVars, diskVars

\* Except for a crash, a step keeps every plan that is in the journal.
LEMMA JournalGrows ==
  ASSUME TypeInv, [Next]_vars, ~CrashAndRestart
  PROVE  Extended(ops, ops')
<1>1. CASE Command
  BY <1>1, CommandKeeps DEF Extended, SamePlan
<1>2. CASE ApplyPhase
  BY <1>2, PhaseKeeps
<1>3. CASE (\E c \in calls : ApplyOwn(c)) \/ ReplayNext
  BY <1>3, StartKeeps DEF Extended, SamePlan
<1>4. CASE StartReplay \/ EndReplay
  BY <1>4, ReplayKeeps DEF Extended, SamePlan
<1>5. CASE Persist \/ UNCHANGED vars
  BY <1>5 DEF Persist, PersistBoth, PersistCore, PersistEntries, vars, coreVars, Extended,
     SamePlan
<1> QED
  BY <1>1, <1>2, <1>3, <1>4, <1>5 DEF Next

\* Every step keeps a plan being applied in agreement with the journal.
LEMMA RunStaysJournaled ==
  ASSUME TypeInv, RunIsJournaled, [Next]_vars
  PROVE  RunIsJournaled'
<1>1. CASE Command
  BY <1>1, CommandKeeps DEF RunIsJournaled
<1>2. CASE ApplyPhase
  BY <1>2, PhaseKeeps DEF RunIsJournaled, App
<1>3. CASE (\E c \in calls : ApplyOwn(c)) \/ ReplayNext
  BY <1>3, StartKeeps, ApplyKeeps DEF RunIsJournaled, App
<1>4. CASE StartReplay \/ EndReplay
  BY <1>4, ReplayKeeps DEF RunIsJournaled, App
<1>5. CASE Persist \/ UNCHANGED vars
  BY <1>5 DEF Persist, PersistBoth, PersistCore, PersistEntries, vars, coreVars, RunIsJournaled,
     App
<1>6. CASE CrashAndRestart
  BY <1>6 DEF CrashAndRestart, RunIsJournaled
<1> QED
  BY <1>1, <1>2, <1>3, <1>4, <1>5, <1>6 DEF Next

-----------------------------------------------------------------------------
(* Every marker has a journaled finalization behind it.                    *)

\* The journaled finalization behind a marker.
Backed(s, owner, journal) ==
  owner # None =>
    \E n \in OpIds : /\ journal[n].kind = "finalize"
                     /\ journal[n].inv = owner /\ s \in journal[n].srcs

AllBacked(owners, journal) == \A s \in DOMAIN owners : Backed(s, owners[s], journal)

ClaimsInv ==
  /\ TypeInv /\ RunIsJournaled
  /\ AllBacked(ents, ops) /\ AllBacked(charges, ops)
  /\ AllBacked(entsDisk, coreDisk.ops) /\ AllBacked(coreDisk.charges, coreDisk.ops)

\* A journal that grew backs whatever it backed before.
LEMMA BackedStays ==
  ASSUME TypeInv, Extended(ops, ops'), NEW f, AllBacked(f, ops)
  PROVE  AllBacked(f, ops')
<1>1. \A n \in OpIds : ops[n].kind = "finalize" => ops[n] # NoOp
  BY DEF NoOp
<1> QED
  BY <1>1 DEF AllBacked, Backed, Extended, SamePlan

\* A phase gives work to the invoice of a finalization that claims it, or to
\* nobody, or leaves its owner alone.
LEMMA NewOwnerBacked ==
  ASSUME TypeInv, RunIsJournaled, run # Idle,
         NEW s, NEW owner, Backed(s, owner, ops)
  PROVE  Backed(s, NewOwner(s, owner), ops)
<1>1. run.op \in OpIds /\ App \in Operations
  BY RunType DEF TypeInv
<1>2. CASE s \in App.srcs /\ App.kind = "finalize" /\ Claims(owner)
  <2>1. NewOwner(s, owner) = App.inv
    BY <1>2 DEF NewOwner
  <2>2. ops[run.op].kind = "finalize" /\ ops[run.op].inv = App.inv /\ s \in ops[run.op].srcs
    BY <1>2 DEF RunIsJournaled
  <2> QED
    BY <1>1, <2>1, <2>2 DEF Backed
<1>3. CASE ~(s \in App.srcs /\ App.kind = "finalize" /\ Claims(owner))
  <2>1. NewOwner(s, owner) = owner \/ NewOwner(s, owner) = None
    BY <1>3 DEF NewOwner
  <2> QED
    BY <2>1 DEF Backed
<1> QED
  BY <1>2, <1>3

\* After any of the six phases every marker is still backed.
LEMMA PhaseBacked ==
  ASSUME ClaimsInv, ApplyPhase
  PROVE  AllBacked(ents', ops') /\ AllBacked(charges', ops')
<1>1. run # Idle /\ Extended(ops, ops')
  BY PhaseKeeps DEF ClaimsInv
<1>2. \A s \in Entries : Backed(s, ents[s], ops) /\ Backed(s, NewOwner(s, ents[s]), ops)
  BY <1>1, NewOwnerBacked DEF ClaimsInv, AllBacked, TypeInv, TypeOK
<1>3. \A s \in Expenses \cup Quotes :
        Backed(s, charges[s], ops) /\ Backed(s, NewOwner(s, charges[s]), ops)
  BY <1>1, NewOwnerBacked DEF ClaimsInv, AllBacked, TypeInv, TypeOK
<1>4. AllBacked(ents', ops)
  <2>1. CASE ApplyEntries
    BY <1>2, <2>1 DEF ApplyEntries, AllBacked
  <2>2. CASE ents' = ents
    BY <2>2 DEF ClaimsInv
  <2> QED
    BY <2>1, <2>2
    DEF ApplyPhase, ApplyExpenses, ApplyTasks, ApplyLinks, ApplyInvoice, Complete
<1>5. AllBacked(charges', ops)
  <2>1. CASE ApplyExpenses
    BY <1>3, <2>1 DEF ApplyExpenses, AllBacked
  <2>2. CASE ApplyTasks
    BY <1>3, <2>2 DEF ApplyTasks, AllBacked
  <2>3. CASE charges' = charges
    BY <2>3 DEF ClaimsInv
  <2> QED
    BY <2>1, <2>2, <2>3
    DEF ApplyPhase, ApplyEntries, ApplyLinks, ApplyInvoice, Complete, coreVars
<1> QED
  BY <1>1, <1>4, <1>5, BackedStays DEF ClaimsInv

\* An empty workspace has no marker to back.
LEMMA InitClaimsInv == Init => ClaimsInv
<1> SUFFICES ASSUME Init PROVE ClaimsInv
  OBVIOUS
<1>1. \A s \in Entries : ents[s] = None
  BY DEF Init
<1>2. \A s \in Expenses \cup Quotes : charges[s] = None
  BY DEF Init
<1>3. AllBacked(ents, ops) /\ AllBacked(charges, ops)
  BY <1>1, <1>2 DEF AllBacked, Backed, Init
<1>4. entsDisk = ents /\ coreDisk.charges = charges /\ coreDisk.ops = ops
  BY DEF Init, Core
<1>5. RunIsJournaled
  BY DEF Init, RunIsJournaled
<1> QED
  BY <1>3, <1>4, <1>5, InitTypeInv DEF ClaimsInv

\* Every step keeps the markers backed, in memory and on disk: a write in
\* order takes both documents from one state of memory.
LEMMA NextClaimsInv == InOrder /\ ClaimsInv /\ [Next]_vars => ClaimsInv'
<1> SUFFICES ASSUME InOrder, ClaimsInv, [Next]_vars PROVE ClaimsInv'
  OBVIOUS
<1>1. TypeInv' /\ RunIsJournaled'
  BY NextTypeInv, RunStaysJournaled DEF ClaimsInv
<1> DEFINE Memory == AllBacked(ents, ops) /\ AllBacked(charges, ops)
           Disk == AllBacked(entsDisk, coreDisk.ops)
                   /\ AllBacked(coreDisk.charges, coreDisk.ops)
<1>2. Memory /\ Disk
  BY DEF ClaimsInv
<1>3. ASSUME ~CrashAndRestart PROVE Extended(ops, ops')
  BY <1>3, JournalGrows DEF ClaimsInv
<1>4. CASE Command
  <2>1. UNCHANGED <<ents, charges, coreDisk, entsDisk>>
    BY <1>4, CommandKeeps DEF ClaimsInv
  <2>2. Extended(ops, ops')
    BY <1>4, CommandKeeps DEF ClaimsInv, Extended, SamePlan
  <2>3. Memory'
    BY <1>2, <2>1, <2>2, BackedStays DEF ClaimsInv
  <2> QED
    BY <1>1, <1>2, <2>1, <2>3 DEF ClaimsInv
<1>5. CASE ApplyPhase
  <2>1. Memory'
    BY <1>5, PhaseBacked
  <2>2. UNCHANGED <<coreDisk, entsDisk>>
    BY <1>5, PhaseKeeps DEF ClaimsInv
  <2> QED
    BY <1>1, <1>2, <2>1, <2>2 DEF ClaimsInv
<1>6. CASE (\E c \in calls : ApplyOwn(c)) \/ ReplayNext
  BY <1>1, <1>2, <1>6, StartKeeps DEF ClaimsInv
<1>7. CASE StartReplay \/ EndReplay
  BY <1>1, <1>2, <1>7, ReplayKeeps DEF ClaimsInv
<1>8. CASE Persist
  <2>1. coreDisk' = Core /\ entsDisk' = ents /\ UNCHANGED <<coreVars, ents>>
    BY <1>8 DEF Persist, PersistBoth, PersistCore, PersistEntries
  <2>2. coreDisk'.ops = ops /\ coreDisk'.charges = charges
    BY <2>1 DEF Core
  <2> QED
    BY <1>1, <1>2, <2>1, <2>2 DEF ClaimsInv, coreVars
<1>9. CASE CrashAndRestart
  BY <1>1, <1>2, <1>9 DEF CrashAndRestart, ClaimsInv, diskVars
<1>10. CASE UNCHANGED vars
  BY <1>1, <1>2, <1>10 DEF ClaimsInv, vars, coreVars, diskVars
<1> QED
  BY <1>4, <1>5, <1>6, <1>7, <1>8, <1>9, <1>10 DEF Next

\* Where the two databases are written in the order of the changes, every
\* marker on an entry, an expense or a quote is that of an invoice whose
\* finalization is in the journal and claims that very work, through any
\* interleaving of commands, replays and crashes: start-up can always finish
\* what a crash interrupted.
THEOREM MarkersAreJournaled ==
  ASSUME InOrder
  PROVE  Spec => []ClaimsAreJournaled
<1>1. Init => ClaimsInv
  BY InitClaimsInv
<1>2. ClaimsInv /\ [Next]_vars => ClaimsInv'
  BY NextClaimsInv
<1>3. ClaimsInv => ClaimsAreJournaled
  BY DEF ClaimsInv, ClaimsAreJournaled, AllBacked, Backed, TypeInv, TypeOK, Owner, Work
<1> QED
  BY <1>1, <1>2, <1>3, PTL DEF Spec

-----------------------------------------------------------------------------
(* A canceled invoice stays canceled and a paid one stays billed, once     *)
(* what looked at it before has written.                                   *)

\* Nothing is known of an invoice that was never created.
NothingBeyond(invs, journal) ==
  /\ \A i \in Invoices : i > born => invs[i] = Absent
  /\ \A n \in OpIds : journal[n].inv <= born

StandInv ==
  /\ TypeInv /\ RunIsJournaled
  /\ NothingBeyond(inv, ops)
  /\ NothingBeyond(coreDisk.inv, coreDisk.ops)
  /\ \A c \in calls : c.kind = "undo" => c.inv <= born

\* What a step that is no crash does to the invoices that stand.
RidStays == \A i \in Invoices : Rid(i) => Rid(i)'

SafeStays ==
  \A i \in Invoices :
    Safe(i) => /\ inv'[i].status \in {"paid", "sent"}
               /\ inv'[i].status = "paid" => Safe(i)'

\* An empty workspace has no invoice and no plan.
LEMMA InitStandInv == Init => StandInv
<1> SUFFICES ASSUME Init PROVE StandInv
  OBVIOUS
<1>1. NothingBeyond(inv, ops)
  BY DEF Init, NothingBeyond, NoOp
<1>2. coreDisk.inv = inv /\ coreDisk.ops = ops
  BY DEF Init, Core
<1> QED
  BY <1>1, <1>2, InitTypeInv DEF StandInv, RunIsJournaled, Init

\* What a command does to the invoices and the journal.
LEMMA CommandStands ==
  ASSUME StandInv, Command
  PROVE  /\ born' >= born
         /\ \A c \in calls' : c.kind = "undo" => c.inv <= born'
         /\ NothingBeyond(inv, ops)'
         /\ RidStays /\ SafeStays
<1> DEFINE Waits == \A c \in calls' : c.kind = "undo" => c.inv <= born'
           Goal == /\ born' >= born
                   /\ Waits
                   /\ NothingBeyond(inv, ops)'
                   /\ RidStays /\ SafeStays
<1>1. /\ inv \in [Invoices -> InvoiceRecords] /\ born \in Nat
      /\ ops \in [OpIds -> Operations \cup {NoOp}]
      /\ \A n \in OpIds : ops[n].inv \in Nat
  BY DEF StandInv, TypeInv, TypeOK, Operations, NoOp, Invoices
<1>2. /\ NothingBeyond(inv, ops) /\ \A c \in calls : c.kind = "undo" => c.inv <= born
      /\ \A c \in calls : c.kind \in {"undo", "pay"} => c.inv \in Invoices
  BY DEF StandInv, TypeInv, TypeOK, Calls
<1>3. Invoices \subseteq Nat
  BY DEF Invoices
<1>4. \A i \in Invoices : inv[i].status # "absent" => i <= born
  BY <1>1, <1>2, <1>3 DEF NothingBeyond, Absent
\* A record that is written to, of an invoice that neither stands canceled nor
\* stays paid but is marked unpaid.
<1>5. ASSUME NEW i \in Invoices, NEW rec, inv' = [inv EXCEPT ![i] = rec],
             i <= born' \/ rec = Absent, born' \in {born, born + 1}, ops' = ops,
             calls' \subseteq calls,
             ~Rid(i), Safe(i) => rec.status \in {"paid", "sent"}
      PROVE Goal
  <2>1. RidStays
    BY <1>1, <1>5 DEF RidStays, Rid, Awaited, Journaled
  <2>2. SafeStays
    BY <1>1, <1>5 DEF SafeStays, Safe, Awaited, Journaled
  <2>3. \A j \in Invoices : j > born' => inv'[j] = Absent
    BY <1>1, <1>2, <1>3, <1>5 DEF NothingBeyond
  <2>4. \A n \in OpIds : ops'[n].inv <= born'
    BY <1>1, <1>2, <1>5 DEF NothingBeyond
  <2>5. Waits
    <3> SUFFICES ASSUME NEW c \in calls', c.kind = "undo" PROVE c.inv <= born'
      OBVIOUS
    <3>1. c \in calls
      BY <1>5
    <3>2. c.inv \in Invoices /\ c.inv <= born
      BY <1>2, <3>1
    <3>3. c.inv \in Nat
      BY <1>3, <3>2
    <3> QED
      BY <1>1, <1>5, <3>2, <3>3
  <2> QED
    BY <1>1, <1>5, <2>1, <2>2, <2>3, <2>4, <2>5 DEF NothingBeyond
\* A plan that is journaled, and the command that waits to apply it.
<1>6. ASSUME NEW n \in OpIds, NEW op, Journal(n, op), op.inv \in Invoices, op.inv <= born',
             born' \in {born, born + 1}, inv' = inv,
             calls' \subseteq calls \cup {[kind |-> "apply", op |-> n]},
             op.kind = "undo" => ~Rid(op.inv),
             op.kind \in {"undo", "cancel"} => ~Safe(op.inv)
      PROVE Goal
  <2>1. \A c \in calls' : c.kind \in {"undo", "pay"} => c \in calls
    BY <1>6
  <2>2. ops' = [ops EXCEPT ![n] = op]
    BY <1>6 DEF Journal
  <2>3. \A m \in OpIds : ops'[m] = ops[m] \/ ops'[m] = op
    BY <1>1, <2>2
  <2>4. RidStays
    BY <1>6, <2>1, <2>3 DEF RidStays, Rid, Awaited, Journaled
  <2>5. SafeStays
    <3> SUFFICES ASSUME NEW i \in Invoices, Safe(i)
                 PROVE  inv'[i].status \in {"paid", "sent"} /\ Safe(i)'
      BY DEF SafeStays
    <3>1. ~Awaited({"undo"}, i)'
      BY <2>1 DEF Safe, Awaited
    <3>2. ~Journaled({"undo", "cancel"}, i)'
      BY <1>6, <2>3 DEF Safe, Journaled
    <3> QED
      BY <1>6, <3>1, <3>2 DEF Safe
  <2>6. \A j \in Invoices : j > born' => inv'[j] = Absent
    BY <1>1, <1>2, <1>3, <1>6 DEF NothingBeyond
  <2>7. \A m \in OpIds : ops'[m].inv <= born'
    BY <1>1, <1>2, <1>3, <1>6, <2>3 DEF NothingBeyond
  <2>8. Waits
    <3> SUFFICES ASSUME NEW c \in calls', c.kind = "undo" PROVE c.inv <= born'
      OBVIOUS
    <3>1. c \in calls
      BY <2>1
    <3>2. c.inv \in Invoices /\ c.inv <= born
      BY <1>2, <3>1
    <3>3. c.inv \in Nat
      BY <1>3, <3>2
    <3> QED
      BY <1>1, <1>6, <3>2, <3>3
  <2> QED
    BY <1>1, <1>6, <2>4, <2>5, <2>6, <2>7, <2>8 DEF NothingBeyond
\* A command that begins to wait.
<1>7. ASSUME NEW call, calls' = calls \cup {call}, inv' = inv, ops' = ops, born' = born,
             call.kind \in {"undo", "pay"}, call.inv \in Invoices, call.inv <= born,
             inv[call.inv].status # "canceled",
             call.kind = "undo" => inv[call.inv].status # "paid"
      PROVE Goal
  <2>1. RidStays
    BY <1>7 DEF RidStays, Rid, Awaited, Journaled
  <2>2. SafeStays
    BY <1>7 DEF SafeStays, Safe, Awaited, Journaled
  <2> QED
    BY <1>1, <1>2, <1>7, <2>1, <2>2 DEF NothingBeyond
<1>8. ASSUME NEW sel \in Selections, SaveDraft(sel) PROVE Goal
  <2> DEFINE i == born + 1
             rec == [status |-> "draft", num |-> NextNumber, sel |-> sel,
                     was |-> [t \in Tasks |-> 0]]
  <2>1. i \in Invoices
    BY <1>1, <1>8 DEF SaveDraft, Invoices
  <2>2. ~Rid(i) /\ ~Safe(i)
    BY <1>1, <1>2, <2>1 DEF NothingBeyond, Absent, Rid, Safe
  <2>3. inv' = [inv EXCEPT ![i] = rec] /\ born' = i
    BY <1>8 DEF SaveDraft
  <2>4. i <= born' /\ born' \in {born, born + 1}
    BY <1>1, <2>3
  <2> HIDE DEF i, rec, Goal
  <2> QED
    BY <1>5, <1>8, <2>1, <2>2, <2>3, <2>4 DEF SaveDraft
<1>9. ASSUME NEW i \in Invoices, NEW sel \in Selections, RefreshDraft(i, sel) PROVE Goal
  <2> DEFINE rec == [inv[i] EXCEPT !.sel = sel]
  <2>1. inv' = [inv EXCEPT ![i] = rec] /\ ~Rid(i) /\ ~Safe(i)
    BY <1>9 DEF RefreshDraft, Rid, Safe
  <2> HIDE DEF rec, Goal
  <2> QED
    BY <1>4, <1>5, <1>9, <2>1 DEF RefreshDraft
<1>10. ASSUME NEW i \in Invoices, DeleteDraft(i) PROVE Goal
  <2>1. ~Rid(i) /\ ~Safe(i)
    BY <1>10 DEF DeleteDraft, Rid, Safe
  <2> HIDE DEF Goal
  <2> QED
    BY <1>4, <1>5, <1>10, <2>1 DEF DeleteDraft
<1>11. ASSUME NEW n \in OpIds, NEW i \in Invoices, NEW sel \in Selections \cup {inv[i].sel},
              PrepareFinalize(n, i, sel)
       PROVE Goal
  <2>1. FinalizeOp(i, sel).kind = "finalize" /\ FinalizeOp(i, sel).inv = i
    BY DEF FinalizeOp
  <2>2. i <= born' /\ born' \in {born, born + 1}
    BY <1>1, <1>3, <1>4, <1>11 DEF PrepareFinalize
  <2> HIDE DEF Goal
  <2> QED
    BY <1>6, <1>11, <2>1, <2>2 DEF PrepareFinalize
<1>12. ASSUME NEW n \in OpIds, NEW i \in Invoices, PrepareCancel(n, i) PROVE Goal
  <2> DEFINE op == ReleaseOp("cancel", i, inv[i], 0)
  <2>1. op.kind = "cancel" /\ op.inv = i
    BY DEF ReleaseOp
  <2>2. Journal(n, op) /\ i <= born' /\ born' = born /\ ~Safe(i)
    BY <1>4, <1>12 DEF PrepareCancel, Safe
  <2> HIDE DEF op, Goal
  <2> QED
    BY <1>6, <1>12, <2>1, <2>2 DEF PrepareCancel
<1>13. ASSUME NEW n \in OpIds, NEW c \in calls, PrepareUndo(n, c) PROVE Goal
  <2>1. PICK to : Journal(n, ReleaseOp("undo", c.inv, c.rec, to))
    BY <1>13 DEF PrepareUndo
  <2> DEFINE op == ReleaseOp("undo", c.inv, c.rec, to)
  <2>2. op.kind = "undo" /\ op.inv = c.inv
    BY DEF ReleaseOp
  <2>3. c.kind = "undo" /\ c.inv \in Invoices /\ c.inv <= born /\ born' = born
    BY <1>2, <1>13 DEF PrepareUndo
  <2>4. ~Rid(c.inv) /\ ~Safe(c.inv)
    BY <2>3 DEF Rid, Safe, Awaited
  <2>5. Journal(n, op)
    BY <2>1
  <2>6. calls' \subseteq calls \cup {[kind |-> "apply", op |-> n]} /\ inv' = inv
    BY <1>13 DEF PrepareUndo
  <2> HIDE DEF op, Goal
  <2> QED
    BY <1>6, <2>2, <2>3, <2>4, <2>5, <2>6
<1>14. ASSUME NEW i \in Invoices, Pay(i) \/ MarkUnpaid(i) PROVE Goal
  <2>1. PICK status \in {"paid", "sent"} : inv' = [inv EXCEPT ![i].status = status]
    BY <1>14 DEF Pay, MarkUnpaid, SetStatus
  <2> DEFINE rec == [inv[i] EXCEPT !.status = status]
  <2>2. inv' = [inv EXCEPT ![i] = rec] /\ rec.status = status
    BY <1>1, <2>1 DEF InvoiceRecords
  <2>3. inv[i].status \in {"sent", "paid"} /\ ~Rid(i)
    BY <1>14 DEF Pay, MarkUnpaid, Rid
  <2>4. ops' = ops /\ calls' = calls /\ born' = born
    BY <1>14 DEF Pay, MarkUnpaid, SetStatus
  <2> HIDE DEF rec, Goal
  <2> QED
    BY <1>4, <1>5, <2>2, <2>3, <2>4
<1>15. ASSUME NEW i \in Invoices, BeginUndo(i) \/ BeginPay(i) PROVE Goal
  <2>1. PICK call : /\ calls' = calls \cup {call} /\ call.kind \in {"undo", "pay"}
                    /\ call.inv = i /\ inv[i].status \in {"sent", "paid"}
                    /\ call.kind = "undo" => inv[i].status = "sent"
    <3>1. CASE BeginUndo(i)
      <4> DEFINE call == [kind |-> "undo", inv |-> i, rec |-> inv[i],
                          others |-> {inv[j].num : j \in {k \in Invoices \ {i} :
                                                             inv[k].status # "absent"}}]
      <4>1. call.kind = "undo" /\ call.inv = i
        OBVIOUS
      <4>2. calls' = calls \cup {call} /\ inv[i].status = "sent"
        BY <3>1 DEF BeginUndo
      <4> HIDE DEF call
      <4> QED
        BY <4>1, <4>2
    <3>2. CASE BeginPay(i)
      <4> DEFINE call == [kind |-> "pay", inv |-> i]
      <4>1. call.kind = "pay" /\ call.inv = i
        OBVIOUS
      <4>2. calls' = calls \cup {call} /\ inv[i].status \in {"sent", "paid"}
        BY <3>2 DEF BeginPay, MayPay
      <4> HIDE DEF call
      <4> QED
        BY <4>1, <4>2
    <3> QED
      BY <1>15, <3>1, <3>2
  <2>2. inv' = inv /\ ops' = ops /\ born' = born
    BY <1>15 DEF BeginUndo, BeginPay, coreVars
  <2> HIDE DEF Goal
  <2> QED
    BY <1>4, <1>7, <2>1, <2>2
<1>16. ASSUME NEW c \in calls, FinishPay(c) PROVE Goal
  <2> DEFINE i == c.inv
             status == IF inv[i].status = "absent" THEN "absent" ELSE "paid"
             rec == [inv[i] EXCEPT !.status = status]
  <2>1. c.kind = "pay" /\ i \in Invoices
    BY <1>2, <1>16 DEF FinishPay
  <2>2. inv' = [inv EXCEPT ![i] = rec] /\ ops' = ops /\ born' = born /\ calls' \subseteq calls
    BY <1>16 DEF FinishPay, SetStatus
  <2>3. ~Rid(i)
    BY <2>1 DEF Rid, Awaited
  <2>4. Safe(i) => rec.status \in {"paid", "sent"}
    BY <1>1, <2>1 DEF Safe, InvoiceRecords
  <2>5. i > born => rec = Absent
    <3>1. i > born => inv[i] = Absent
      BY <1>2, <2>1 DEF NothingBeyond
    <3> QED
      BY <3>1 DEF Absent
  <2>6. i <= born' \/ rec = Absent
    <3>1. i \in Nat /\ born \in Nat
      BY <1>1, <1>3, <2>1
    <3> HIDE DEF i, rec
    <3> QED
      BY <2>2, <2>5, <3>1
  <2> HIDE DEF i, rec, Goal
  <2> QED
    BY <1>5, <2>1, <2>2, <2>3, <2>4, <2>6
<1> HIDE DEF Goal
<1>17. Goal
  BY <1>8, <1>9, <1>10, <1>11, <1>12, <1>13, <1>14, <1>15, <1>16 DEF Command
<1> QED
  BY <1>17 DEF Goal

\* A plan that is applied leaves canceled invoices canceled and paid ones paid,
\* unless it is their own release, and touches none that was never created.
LEMMA PhaseStands ==
  ASSUME StandInv, ApplyPhase
  PROVE  born' = born /\ NothingBeyond(inv, ops)' /\ RidStays /\ SafeStays
<1>1. run # Idle /\ calls' = calls /\ born' = born
  BY PhaseKeeps DEF StandInv
<1>2. run.op \in OpIds /\ App \in Operations
  BY <1>1, RunType DEF StandInv, TypeInv
<1>3. /\ App.kind \in {"finalize", "cancel", "undo"} /\ App.inv \in Invoices /\ App.inv <= born
      /\ App.kind = ops[run.op].kind /\ App.inv = ops[run.op].inv
  BY <1>1, <1>2 DEF StandInv, RunIsJournaled, NothingBeyond, Operations
<1>4. \A n \in OpIds : ops'[n].inv = ops[n].inv /\ ops'[n].kind = ops[n].kind
  <2>1. CASE ops' = ops
    BY <2>1
  <2>2. CASE Complete
    <3>1. ops' = [ops EXCEPT ![run.op].state = "complete"]
      BY <2>2 DEF Complete
    <3>2. ops \in [OpIds -> Operations \cup {NoOp}] /\ ops[run.op] \in Operations
      BY <1>1, <1>2, JournaledPlan DEF StandInv, TypeInv, TypeOK, PlansAreJournaled
    <3> QED
      BY <1>2, <3>1, <3>2 DEF Operations
  <2> QED
    BY <2>1, <2>2
    DEF ApplyPhase, ApplyEntries, ApplyExpenses, ApplyTasks, ApplyLinks, ApplyInvoice, coreVars
<1>5. \A kinds, i : /\ Journaled(kinds, i)' <=> Journaled(kinds, i)
                    /\ Awaited(kinds, i)' <=> Awaited(kinds, i)
  BY <1>1, <1>4 DEF Journaled, Awaited
<1>6. \A n \in OpIds : ops'[n].inv <= born
  BY <1>4 DEF StandInv, NothingBeyond
<1>7. CASE inv' = inv
  <2>1. RidStays /\ SafeStays
    BY <1>5, <1>7 DEF RidStays, SafeStays, Rid, Safe
  <2> QED
    BY <1>1, <1>6, <1>7, <2>1 DEF StandInv, NothingBeyond
<1>8. CASE ApplyInvoice
  <2> DEFINE rec == NewInvoice(inv[App.inv])
  <2>1. inv' = [inv EXCEPT ![App.inv] = rec]
    BY <1>8 DEF ApplyInvoice
  <2>2. inv \in [Invoices -> InvoiceRecords] /\ born \in Nat /\ Invoices \subseteq Nat
    BY DEF StandInv, TypeInv, TypeOK, Invoices
  <2>3. inv[App.inv] \in InvoiceRecords
    BY <1>3, <2>2
  <2>4. inv[App.inv].status = "canceled" /\ App.kind # "undo" => rec.status = "canceled"
    BY <1>3, <2>3 DEF NewInvoice, InvoiceRecords
  <2>5. inv[App.inv].status = "paid" /\ App.kind = "finalize" => rec.status = "paid"
    BY <2>3 DEF NewInvoice, InvoiceRecords
  <2>6. /\ App.kind = "undo" => Journaled({"undo"}, App.inv)
        /\ App.kind \in {"undo", "cancel"} => Journaled({"undo", "cancel"}, App.inv)
    BY <1>2, <1>3 DEF Journaled
  <2> HIDE DEF rec
  <2>7. RidStays
    <3> SUFFICES ASSUME NEW i \in Invoices, Rid(i) PROVE Rid(i)'
      BY DEF RidStays
    <3>1. inv'[i].status = "canceled"
      BY <2>1, <2>2, <2>4, <2>6 DEF Rid
    <3> QED
      BY <1>5, <3>1 DEF Rid
  <2>8. SafeStays
    <3> SUFFICES ASSUME NEW i \in Invoices, Safe(i) PROVE inv'[i].status = "paid" /\ Safe(i)'
      BY DEF SafeStays
    <3>1. inv'[i].status = "paid"
      BY <1>3, <2>1, <2>2, <2>5, <2>6 DEF Safe
    <3> QED
      BY <1>5, <3>1 DEF Safe
  <2>9. \A j \in Invoices : j > born => inv'[j] = Absent
    BY <1>3, <2>1, <2>2 DEF StandInv, NothingBeyond
  <2> QED
    BY <1>1, <1>6, <2>7, <2>8, <2>9 DEF NothingBeyond
<1> QED
  BY <1>7, <1>8
  DEF ApplyPhase, ApplyEntries, ApplyExpenses, ApplyTasks, ApplyLinks, Complete, coreVars

\* The step as a whole: the invariant is kept, and only a crash takes back
\* what stands.
LEMMA NextStandInv ==
  ASSUME StandInv, [Next]_vars
  PROVE  StandInv' /\ ((RidStays /\ SafeStays) \/ crashes' # crashes)
<1>1. TypeInv' /\ RunIsJournaled'
  BY NextTypeInv, RunStaysJournaled DEF StandInv
<1> DEFINE Disk == NothingBeyond(coreDisk.inv, coreDisk.ops)
           Waits == \A c \in calls : c.kind = "undo" => c.inv <= born
<1>2. NothingBeyond(inv, ops) /\ Disk /\ Waits
  BY DEF StandInv
<1>3. /\ born \in Nat /\ Invoices \subseteq Nat
      /\ \A n \in OpIds : coreDisk.ops[n].inv \in Nat
  BY DEF StandInv, TypeInv, TypeOK, CoreStates, Invoices, Operations, NoOp
<1>4. CASE Command
  <2>1. born' \in Nat /\ born' >= born
    BY <1>1, <1>4, CommandStands DEF TypeInv, TypeOK
  <2>2. UNCHANGED coreDisk
    BY <1>4, CommandKeeps DEF StandInv
  <2>3. Disk'
    <3>1. \A i \in Nat : i > born' => i > born
      BY <1>3, <2>1
    <3>2. \A n \in OpIds : coreDisk.ops[n].inv <= born => coreDisk.ops[n].inv <= born'
      BY <1>3, <2>1
    <3> QED
      BY <1>2, <1>3, <2>2, <3>1, <3>2 DEF NothingBeyond
  <2> QED
    BY <1>1, <1>4, <2>3, CommandStands DEF StandInv
<1>5. CASE ApplyPhase
  <2>1. UNCHANGED <<coreDisk, calls>>
    BY <1>5, PhaseKeeps DEF StandInv
  <2>2. born' = born /\ NothingBeyond(inv, ops)' /\ RidStays /\ SafeStays
    BY <1>5, PhaseStands
  <2>3. Disk' /\ Waits'
    BY <1>2, <2>1, <2>2 DEF NothingBeyond
  <2> QED
    BY <1>1, <2>2, <2>3 DEF StandInv
<1>6. CASE \/ \E c \in calls : ApplyOwn(c)
           \/ ReplayNext \/ StartReplay \/ EndReplay \/ Persist \/ UNCHANGED vars
  <2>1. UNCHANGED <<inv, ops, born>> /\ calls' \in SUBSET calls
    BY <1>6, StartKeeps, ReplayKeeps
    DEF StandInv, Persist, PersistBoth, PersistCore, PersistEntries, vars, coreVars
  <2>2. coreDisk' = coreDisk \/ coreDisk' = Core
    BY <1>6, StartKeeps, ReplayKeeps
    DEF StandInv, Persist, PersistBoth, PersistCore, PersistEntries, vars, diskVars
  <2>3. Disk'
    <3>1. CASE coreDisk' = coreDisk
      BY <1>2, <2>1, <3>1 DEF NothingBeyond
    <3>2. CASE coreDisk' = Core
      <4>1. coreDisk'.inv = inv /\ coreDisk'.ops = ops
        BY <3>2 DEF Core
      <4> QED BY <1>2, <2>1, <4>1 DEF NothingBeyond
    <3> QED BY <2>2, <3>1, <3>2
  <2>4. NothingBeyond(inv, ops)' /\ Waits'
    BY <1>2, <2>1 DEF NothingBeyond
  <2>5. RidStays /\ SafeStays
    BY <2>1 DEF RidStays, SafeStays, Rid, Safe, Awaited, Journaled
  <2> QED
    BY <1>1, <2>3, <2>4, <2>5 DEF StandInv
<1>7. CASE CrashAndRestart
  <2>1. inv' = coreDisk.inv /\ ops' = coreDisk.ops /\ calls' = {} /\ UNCHANGED <<coreDisk, born>>
    BY <1>7 DEF CrashAndRestart, diskVars
  <2>2. crashes' # crashes
    BY <1>7 DEF CrashAndRestart, StandInv, TypeInv, TypeOK
  <2>3. NothingBeyond(inv, ops)' /\ Disk'
    BY <1>2, <2>1 DEF NothingBeyond
  <2> QED
    BY <1>1, <2>1, <2>2, <2>3 DEF StandInv
<1> QED
  BY <1>4, <1>5, <1>6, <1>7 DEF Next

\* Whatever commands, replays, writes and crashes interleave: once the payments
\* and undos that had looked at a canceled invoice are over, it stays canceled,
\* and nothing that would change it begins.  Whoever looked at it before is
\* excluded with reason: a payment that waits for its exchange rates is written
\* over the cancellation, as the run billing_late_payment shows.
THEOREM CanceledStaysCanceled == Spec => CanceledStays
<1>1. Init => StandInv
  BY InitStandInv
<1>2. StandInv /\ [Next]_vars => StandInv'
  BY NextStandInv
<1>3. StandInv /\ [Next]_vars =>
        [crashes' = crashes => \A i \in Invoices : Rid(i) => Rid(i)']_vars
  BY NextStandInv DEF RidStays
<1> QED
  BY <1>1, <1>2, <1>3, PTL DEF Spec, CanceledStays

\* Under the same conditions, none but those of the specification: a paid
\* invoice that no plan or waiting undo had decided to release before is only
\* ever marked unpaid, and as long as it is paid nothing plans to release it.
THEOREM PaidStaysBilled == Spec => PaidStays
<1>1. Init => StandInv
  BY InitStandInv
<1>2. StandInv /\ [Next]_vars => StandInv'
  BY NextStandInv
<1>3. StandInv /\ [Next]_vars =>
        [crashes' = crashes =>
           \A i \in Invoices :
             Safe(i) => /\ inv'[i].status \in {"paid", "sent"}
                        /\ inv'[i].status = "paid" => Safe(i)']_vars
  BY NextStandInv DEF SafeStays
<1> QED
  BY <1>1, <1>2, <1>3, PTL DEF Spec, PaidStays

-----------------------------------------------------------------------------
(* Numbers are given once, where invoices are finalized without a saved    *)
(* draft and not undone.  The journal never forgets a number it promised,  *)
(* and a finalization that is complete has issued its invoice with it.     *)

IsIssued(rec) == rec.status \in {"sent", "paid", "canceled"}

Finalizes(plan) == plan.kind = "finalize"

\* The invoices and the journal of one state, of memory or of the database.
NumbersFrom(invs, journal) ==
  /\ \A i \in Invoices : invs[i].status # "draft"
  /\ \A n \in OpIds : journal[n].kind # "undo"
  /\ \A n \in OpIds : Finalizes(journal[n]) => journal[n].inv <= born
  /\ \A n, m \in OpIds :
       n # m /\ Finalizes(journal[n]) /\ Finalizes(journal[m]) =>
         journal[n].inv # journal[m].inv /\ journal[n].num # journal[m].num
  /\ \A i \in Invoices : IsIssued(invs[i]) =>
       \E n \in OpIds : /\ Finalizes(journal[n])
                        /\ journal[n].inv = i /\ journal[n].num = invs[i].num
  /\ \A n \in OpIds :
       Finalizes(journal[n]) /\ journal[n].state = "complete" =>
         IsIssued(invs[journal[n].inv]) /\ invs[journal[n].inv].num = journal[n].num

\* An application that has reached its last phase has issued its invoice.
RunHasIssued ==
  run # Idle /\ Finalizes(App) /\ run.phase = "complete" =>
    IsIssued(inv[App.inv]) /\ inv[App.inv].num = App.num

NumbersInv ==
  /\ TypeInv /\ RunIsJournaled /\ RunHasIssued
  /\ \A c \in calls : c.kind # "undo"
  /\ NumbersFrom(inv, ops)
  /\ NumbersFrom(coreDisk.inv, coreDisk.ops)

\* An empty workspace has given no number.
LEMMA InitNumbersInv == Init => NumbersInv
<1> SUFFICES ASSUME Init PROVE NumbersInv
  OBVIOUS
<1>1. NumbersFrom(inv, ops)
  BY DEF Init, NumbersFrom, NoOp, Absent, IsIssued, Finalizes
<1>2. coreDisk.inv = inv /\ coreDisk.ops = ops
  BY DEF Init, Core
<1> QED
  BY <1>1, <1>2, InitTypeInv DEF NumbersInv, RunIsJournaled, RunHasIssued, Init

\* A step that gives no number and takes none back.
LEMMA SameNumbers ==
  ASSUME NumbersFrom(inv, ops), ops' = ops, born' = born,
         \A i \in Invoices : /\ inv'[i].num = inv[i].num /\ inv'[i].status # "draft"
                             /\ IsIssued(inv'[i]) <=> IsIssued(inv[i]),
         \A n \in OpIds : Finalizes(ops[n]) => ops[n].inv \in Invoices
  PROVE  NumbersFrom(inv, ops)'
BY DEF NumbersFrom

\* A finalization in the journal is an operation on an invoice.
LEMMA FinalizationsAreTyped ==
  ASSUME TypeInv, NEW n \in OpIds, Finalizes(ops[n])
  PROVE  ops[n] \in Operations /\ ops[n].inv \in Invoices /\ ops[n].num \in Numbers
BY DEF TypeInv, TypeOK, NoOp, Operations, Finalizes

\* The heart of the argument: a new finalization takes a number that no
\* finalization in the journal has, whether it is still to be applied, and
\* has promised its number, or complete, and has issued it.
LEMMA NewNumberIsFree ==
  ASSUME NumbersInv, NEW i \in Invoices, i = born + 1, NEW sel,
         NEW m \in OpIds, Finalizes(ops[m])
  PROVE  ops[m].inv # i /\ ops[m].num # FinalizeOp(i, sel).num
<1>1. ops[m] \in Operations /\ ops[m].inv \in Invoices
  BY FinalizationsAreTyped DEF NumbersInv
<1>2. ops[m].inv <= born /\ born \in Nat
  BY DEF NumbersInv, NumbersFrom, TypeInv, TypeOK
<1>3. ops[m].inv # i
  BY <1>1, <1>2 DEF Invoices
<1>4. ops[m].num \in UsedNumbers(i)
  <2>1. CASE ops[m].state = "prepared"
    <3>1. m \in Pending /\ ops[m].kind # "undo"
      BY <2>1 DEF Pending, Finalizes
    <3> QED BY <3>1 DEF UsedNumbers
  <2>2. CASE ops[m].state = "complete"
    <3>1. ops[m].inv \in Issued \ {i} /\ inv[ops[m].inv].num = ops[m].num
      BY <1>1, <1>3, <2>2 DEF NumbersInv, NumbersFrom, IsIssued, Issued
    <3> QED BY <3>1 DEF UsedNumbers
  <2> QED
    BY <1>1, <2>1, <2>2 DEF Operations
<1>5. FinalizeOp(i, sel).num \notin UsedNumbers(i)
  BY FinalizeOpNumber DEF NumbersInv, TypeInv
<1> QED
  BY <1>3, <1>4, <1>5

\* Journaling a finalization keeps the numbers distinct.
LEMMA FinalizeNumbers ==
  ASSUME NumbersInv, NEW n \in OpIds, NEW i \in Invoices, NEW sel,
         PrepareFinalize(n, i, sel)
  PROVE  NumbersFrom(inv, ops)'
<1> DEFINE op == FinalizeOp(i, sel)
<1>1. NumbersFrom(inv, ops) /\ born \in Nat /\ ops \in [OpIds -> Operations \cup {NoOp}]
  BY DEF NumbersInv, TypeInv, TypeOK
<1>2. i = born + 1 /\ born' = i /\ inv' = inv
  BY <1>1 DEF PrepareFinalize, NumbersFrom
<1>3. op.kind = "finalize" /\ op.state = "prepared" /\ op.inv = i
  BY DEF FinalizeOp
<1>4. \A m \in OpIds : Finalizes(ops[m]) => ops[m].inv # i /\ ops[m].num # op.num
  BY <1>2, NewNumberIsFree
<1>5. ops[n] = NoOp /\ ops' = [ops EXCEPT ![n] = op]
  BY DEF PrepareFinalize, Journal, NextOp
<1> HIDE DEF op
<1>6. ops'[n] = op /\ \A m \in OpIds : m # n => ops'[m] = ops[m]
  BY <1>1, <1>5
<1>7. ~Finalizes(ops[n])
  BY <1>5 DEF Finalizes, NoOp
<1>8. \A m \in OpIds : Finalizes(ops'[m]) => ops'[m].inv <= born'
  <2>1. \A m \in OpIds : Finalizes(ops[m]) => ops[m].inv <= born /\ ops[m].inv \in Nat
    BY <1>1, FinalizationsAreTyped DEF NumbersInv, NumbersFrom, Invoices
  <2>2. i <= born' /\ \A k \in Nat : k <= born => k <= born'
    BY <1>1, <1>2
  <2> QED
    BY <1>3, <1>6, <2>1, <2>2
<1>9. \A k, m \in OpIds :
        k # m /\ Finalizes(ops'[k]) /\ Finalizes(ops'[m]) =>
          ops'[k].inv # ops'[m].inv /\ ops'[k].num # ops'[m].num
  BY <1>1, <1>3, <1>4, <1>6 DEF NumbersFrom
<1>10. \A j \in Invoices : IsIssued(inv[j]) =>
         \E m \in OpIds : Finalizes(ops'[m]) /\ ops'[m].inv = j /\ ops'[m].num = inv[j].num
  BY <1>1, <1>6, <1>7 DEF NumbersFrom
<1>11. \A m \in OpIds :
         Finalizes(ops'[m]) /\ ops'[m].state = "complete" =>
           IsIssued(inv[ops'[m].inv]) /\ inv[ops'[m].inv].num = ops'[m].num
  BY <1>1, <1>3, <1>6 DEF NumbersFrom
<1>12. \A m \in OpIds : ops'[m].kind # "undo"
  BY <1>1, <1>3, <1>6 DEF NumbersFrom
<1>13. \A j \in Invoices : inv[j].status # "draft"
  BY <1>1 DEF NumbersFrom
<1> QED
  BY <1>2, <1>8, <1>9, <1>10, <1>11, <1>12, <1>13 DEF NumbersFrom

\* No other command gives a number or takes one back.
LEMMA CommandNumbers ==
  ASSUME "draft" \notin Features, "undo" \notin Features, NumbersInv, Command
  PROVE  /\ NumbersFrom(inv, ops)'
         /\ \A c \in calls' : c.kind # "undo"
         /\ born' \in {born, born + 1}
<1> DEFINE Goal == /\ NumbersFrom(inv, ops)'
                   /\ \A c \in calls' : c.kind # "undo"
                   /\ born' \in {born, born + 1}
<1>1. NumbersFrom(inv, ops) /\ \A c \in calls : c.kind # "undo"
  BY DEF NumbersInv
<1>2. /\ inv \in [Invoices -> InvoiceRecords] /\ ops \in [OpIds -> Operations \cup {NoOp}]
      /\ \A i \in Invoices : inv[i].status # "draft"
  BY DEF NumbersInv, NumbersFrom, TypeInv, TypeOK
<1>3. \A n \in OpIds : Finalizes(ops[n]) => ops[n].inv \in Invoices
  BY FinalizationsAreTyped DEF NumbersInv
<1>4. ASSUME NEW i \in Invoices, NEW status, SetStatus(i, status),
             status # "draft", IsIssued([status |-> status]) <=> IsIssued(inv[i])
      PROVE NumbersFrom(inv, ops)'
  <2>1. inv' = [inv EXCEPT ![i].status = status] /\ ops' = ops /\ born' = born
    BY <1>4 DEF SetStatus
  <2>2. \A j \in Invoices : /\ inv'[j].num = inv[j].num /\ inv'[j].status # "draft"
                            /\ IsIssued(inv'[j]) <=> IsIssued(inv[j])
    BY <1>2, <1>4, <2>1 DEF IsIssued, InvoiceRecords
  <2> QED
    BY <1>1, <1>3, <2>1, <2>2, SameNumbers
<1>5. ASSUME NEW sel \in Selections, SaveDraft(sel) PROVE FALSE
  BY <1>5 DEF SaveDraft
<1>6. ASSUME NEW i \in Invoices, NEW sel \in Selections, RefreshDraft(i, sel) PROVE FALSE
  BY <1>6 DEF RefreshDraft
<1>7. ASSUME NEW i \in Invoices, DeleteDraft(i) \/ BeginUndo(i) PROVE FALSE
  BY <1>7 DEF DeleteDraft, BeginUndo
<1>8. ASSUME NEW n \in OpIds, NEW c \in calls, PrepareUndo(n, c) PROVE FALSE
  BY <1>1, <1>8 DEF PrepareUndo
<1>9. ASSUME NEW n \in OpIds, NEW i \in Invoices, NEW sel \in Selections \cup {inv[i].sel},
             PrepareFinalize(n, i, sel)
      PROVE Goal
  <2>1. NumbersFrom(inv, ops)'
    BY <1>9, FinalizeNumbers
  <2> QED
    BY <1>1, <1>9, <2>1 DEF PrepareFinalize
<1>10. ASSUME NEW n \in OpIds, NEW i \in Invoices, PrepareCancel(n, i) PROVE Goal
  <2> DEFINE op == ReleaseOp("cancel", i, inv[i], 0)
  <2>1. op.kind = "cancel"
    BY DEF ReleaseOp
  <2>2. ops[n] = NoOp /\ ops' = [ops EXCEPT ![n] = op] /\ inv' = inv /\ born' = born
    BY <1>10 DEF PrepareCancel, Journal, NextOp
  <2> HIDE DEF op
  <2>3. ops'[n] = op /\ \A m \in OpIds : m # n => ops'[m] = ops[m]
    BY <1>2, <2>2
  <2>4. ~Finalizes(ops'[n]) /\ ~Finalizes(ops[n]) /\ ops'[n].kind # "undo"
    BY <2>1, <2>2, <2>3 DEF Finalizes, NoOp
  <2>5. \A m \in OpIds : Finalizes(ops'[m]) => ops'[m] = ops[m]
    BY <2>3, <2>4
  <2>6. \A m \in OpIds : Finalizes(ops[m]) => ops'[m] = ops[m]
    BY <2>3, <2>4
  <2>7. \A m \in OpIds : ops'[m].kind # "undo"
    BY <1>1, <2>3, <2>4 DEF NumbersFrom
  <2>8. NumbersFrom(inv, ops)'
    <3>1. \A m \in OpIds : Finalizes(ops'[m]) <=> Finalizes(ops[m])
      BY <2>5, <2>6
    <3> QED
      BY <1>1, <2>2, <2>5, <2>7, <3>1 DEF NumbersFrom
  <2> QED
    BY <1>1, <1>10, <2>8 DEF PrepareCancel
<1>11. ASSUME NEW i \in Invoices, Pay(i) \/ MarkUnpaid(i) PROVE Goal
  <2>1. NumbersFrom(inv, ops)'
    <3>1. CASE Pay(i)
      BY <1>4, <3>1 DEF Pay, IsIssued
    <3>2. CASE MarkUnpaid(i)
      BY <1>4, <3>2 DEF MarkUnpaid, IsIssued
    <3> QED BY <1>11, <3>1, <3>2
  <2> QED
    BY <1>1, <1>11, <2>1 DEF Pay, MarkUnpaid, SetStatus
<1>12. ASSUME NEW i \in Invoices, BeginPay(i) PROVE Goal
  <2>1. inv' = inv /\ ops' = ops /\ born' = born
        /\ calls' = calls \cup {[kind |-> "pay", inv |-> i]}
    BY <1>12 DEF BeginPay, coreVars
  <2>2. NumbersFrom(inv, ops)'
    BY <1>1, <2>1 DEF NumbersFrom
  <2> QED
    BY <1>1, <2>1, <2>2
<1>13. ASSUME NEW c \in calls, FinishPay(c) PROVE Goal
  <2>1. c.inv \in Invoices
    BY <1>13 DEF FinishPay, NumbersInv, TypeInv, TypeOK, Calls
  <2> DEFINE status == IF inv[c.inv].status = "absent" THEN "absent" ELSE "paid"
  <2>2. /\ status # "draft"
        /\ IsIssued([status |-> status]) <=> IsIssued(inv[c.inv])
    BY <1>2, <2>1 DEF IsIssued, InvoiceRecords, Statuses
  <2>3. SetStatus(c.inv, status) /\ calls' = calls \ {c} /\ born' = born
    BY <1>13 DEF FinishPay, SetStatus
  <2> HIDE DEF status
  <2>4. NumbersFrom(inv, ops)'
    BY <1>4, <2>1, <2>2, <2>3
  <2> QED
    BY <1>1, <2>3, <2>4
<1> HIDE DEF Goal
<1>14. Goal
  BY <1>5, <1>6, <1>7, <1>8, <1>9, <1>10, <1>11, <1>12, <1>13 DEF Command
<1> QED
  BY <1>14 DEF Goal

\* Applying a plan issues its invoice under the number the journal promised.
LEMMA PhaseNumbers ==
  ASSUME NumbersInv, ApplyPhase
  PROVE  NumbersFrom(inv, ops)' /\ RunHasIssued'
<1>1. /\ run # Idle /\ UNCHANGED <<coreDisk, calls, born>>
      /\ run' = Idle \/ (run' # Idle /\ run'.op = run.op /\ run'.app = run.app /\ ops' = ops)
  BY PhaseKeeps DEF NumbersInv
<1>2. run.op \in OpIds /\ App \in Operations /\ App.inv \in Invoices
      /\ run \in [op : OpIds, app : Operations, phase : Phases]
  BY <1>1, RunType DEF NumbersInv, TypeInv, TypeOK, Operations, App
<1>3. /\ App.kind = ops[run.op].kind /\ App.inv = ops[run.op].inv
      /\ App.num = ops[run.op].num
  BY <1>1 DEF NumbersInv, RunIsJournaled
<1>4. NumbersFrom(inv, ops) /\ inv \in [Invoices -> InvoiceRecords]
      /\ ops \in [OpIds -> Operations \cup {NoOp}]
  BY DEF NumbersInv, TypeInv, TypeOK
<1>5. \A n \in OpIds : Finalizes(ops[n]) => ops[n].inv \in Invoices
  BY FinalizationsAreTyped DEF NumbersInv
<1>6. CASE ApplyEntries \/ ApplyExpenses \/ ApplyTasks \/ ApplyLinks
  <2>1. inv' = inv /\ ops' = ops
    BY <1>6 DEF ApplyEntries, ApplyExpenses, ApplyTasks, ApplyLinks, coreVars
  <2>2. run'.phase \in Phases \ {"complete"}
    BY <1>2, <1>6 DEF ApplyEntries, ApplyExpenses, ApplyTasks, ApplyLinks, EnterPhase, Phases
  <2>3. NumbersFrom(inv, ops)'
    BY <1>1, <1>4, <2>1 DEF NumbersFrom
  <2> QED
    BY <2>2, <2>3 DEF RunHasIssued
<1>7. CASE ApplyInvoice
  <2> DEFINE rec == inv[App.inv]
  <2>1. inv' = [inv EXCEPT ![App.inv] = NewInvoice(rec)] /\ ops' = ops
    BY <1>7 DEF ApplyInvoice
  <2>2. rec \in InvoiceRecords /\ rec.status # "draft" /\ App.kind # "undo"
    BY <1>2, <1>3, <1>4 DEF NumbersFrom
  <2>3. \A j \in Invoices : j # App.inv => inv'[j] = inv[j]
    BY <1>2, <1>4, <2>1
  <2>4. inv'[App.inv] = NewInvoice(rec)
    BY <1>2, <1>4, <2>1
  <2>5. App' = App /\ run'.phase = "complete"
    BY <1>2, <1>7 DEF ApplyInvoice, EnterPhase, App, Phases
  <2>6. CASE rec.status = "absent" /\ Finalizes(App)
    <3>1. NewInvoice(rec).num = App.num /\ NewInvoice(rec).status = "sent"
      BY <2>6 DEF NewInvoice, Finalizes
    <3>2. \A n \in OpIds : Finalizes(ops[n]) /\ ops[n].state = "complete" => ops[n].inv # App.inv
      BY <1>4, <2>6 DEF NumbersFrom, IsIssued
    <3>3. NumbersFrom(inv, ops)'
      <4>1. \A j \in Invoices : inv'[j].status # "draft"
        BY <1>4, <2>3, <2>4, <3>1 DEF NumbersFrom
      <4>2. \A j \in Invoices : IsIssued(inv'[j]) =>
              \E n \in OpIds : Finalizes(ops[n]) /\ ops[n].inv = j /\ ops[n].num = inv'[j].num
        <5>1. Finalizes(ops[run.op]) /\ ops[run.op].inv = App.inv
              /\ ops[run.op].num = inv'[App.inv].num
          BY <1>3, <2>4, <2>6, <3>1 DEF Finalizes
        <5> QED BY <1>2, <1>4, <2>3, <5>1 DEF NumbersFrom
      <4>3. \A n \in OpIds :
              Finalizes(ops[n]) /\ ops[n].state = "complete" =>
                IsIssued(inv'[ops[n].inv]) /\ inv'[ops[n].inv].num = ops[n].num
        BY <1>4, <1>5, <2>3, <3>2 DEF NumbersFrom
      <4> QED
        BY <1>1, <1>4, <2>1, <4>1, <4>2, <4>3 DEF NumbersFrom
    <3> QED
      BY <2>4, <2>5, <3>1, <3>3 DEF RunHasIssued, IsIssued
  <2>7. CASE rec.status # "absent" \/ ~Finalizes(App)
    <3>1. /\ NewInvoice(rec).num = rec.num /\ NewInvoice(rec).status # "draft"
          /\ IsIssued(NewInvoice(rec)) <=> IsIssued(rec)
      BY <1>2, <2>2, <2>7
      DEF NewInvoice, Finalizes, IsIssued, InvoiceRecords, Statuses, Operations
    <3>2. NumbersFrom(inv, ops)'
      <4>1. \A j \in Invoices : /\ inv'[j].num = inv[j].num /\ inv'[j].status # "draft"
                                /\ IsIssued(inv'[j]) <=> IsIssued(inv[j])
        BY <1>4, <2>3, <2>4, <3>1 DEF NumbersFrom
      <4> QED
        BY <1>1, <1>4, <1>5, <2>1, <4>1, SameNumbers
    <3>3. ASSUME Finalizes(App) PROVE IsIssued(inv'[App.inv]) /\ inv'[App.inv].num = App.num
      <4>1. IsIssued(rec)
        BY <2>2, <2>7, <3>3 DEF IsIssued, InvoiceRecords, Statuses
      <4>2. PICK n \in OpIds : Finalizes(ops[n]) /\ ops[n].inv = App.inv /\ ops[n].num = rec.num
        BY <1>2, <1>4, <4>1 DEF NumbersFrom
      <4>3. n = run.op
        <5>1. Finalizes(ops[run.op]) /\ ops[run.op].inv = ops[n].inv
          BY <1>3, <3>3, <4>2 DEF Finalizes
        <5> QED BY <1>2, <1>4, <4>2, <5>1 DEF NumbersFrom
      <4> QED
        BY <1>3, <2>4, <3>1, <4>1, <4>2, <4>3
    <3> QED
      BY <2>5, <3>2, <3>3 DEF RunHasIssued
  <2> QED
    BY <2>6, <2>7
<1>8. CASE Complete
  <2>1. run' = Idle /\ inv' = inv /\ run.phase = "complete"
        /\ ops' = [ops EXCEPT ![run.op].state = "complete"]
    BY <1>8 DEF Complete
  <2>2. ops[run.op] \in Operations
    BY <1>1, <1>2, JournaledPlan DEF NumbersInv, TypeInv, PlansAreJournaled
  <2>3. /\ \A n \in OpIds : n # run.op => ops'[n] = ops[n]
        /\ ops'[run.op] = [ops[run.op] EXCEPT !.state = "complete"]
    BY <1>2, <1>4, <2>1
  <2>4. \A n \in OpIds : /\ ops'[n].kind = ops[n].kind /\ ops'[n].inv = ops[n].inv
                         /\ ops'[n].num = ops[n].num
                         /\ n # run.op => ops'[n].state = ops[n].state
    BY <2>2, <2>3 DEF Operations
  <2>5. Finalizes(ops[run.op]) =>
          IsIssued(inv[ops[run.op].inv]) /\ inv[ops[run.op].inv].num = ops[run.op].num
    BY <1>1, <1>3, <2>1 DEF NumbersInv, RunHasIssued, Finalizes
  <2>6. \A n \in OpIds :
          Finalizes(ops'[n]) /\ ops'[n].state = "complete" =>
            IsIssued(inv[ops'[n].inv]) /\ inv[ops'[n].inv].num = ops'[n].num
    BY <1>4, <2>4, <2>5 DEF NumbersFrom, Finalizes
  <2>7. NumbersFrom(inv, ops)'
    BY <1>1, <1>4, <2>1, <2>4, <2>6 DEF NumbersFrom, Finalizes
  <2> QED
    BY <2>1, <2>7 DEF RunHasIssued
<1> QED
  BY <1>6, <1>7, <1>8 DEF ApplyPhase

\* Every step keeps the numbers distinct, in memory and on disk.
LEMMA NextNumbersInv ==
  ASSUME "draft" \notin Features, "undo" \notin Features, NumbersInv, [Next]_vars
  PROVE  NumbersInv'
<1>1. TypeInv' /\ RunIsJournaled'
  BY NextTypeInv, RunStaysJournaled DEF NumbersInv
<1> DEFINE Disk == NumbersFrom(coreDisk.inv, coreDisk.ops)
<1>2. NumbersFrom(inv, ops) /\ Disk /\ RunHasIssued /\ \A c \in calls : c.kind # "undo"
  BY DEF NumbersInv
<1>3. CASE Command
  <2>1. /\ NumbersFrom(inv, ops)' /\ \A c \in calls' : c.kind # "undo"
        /\ born' \in {born, born + 1}
    BY <1>3, CommandNumbers
  <2>2. UNCHANGED coreDisk /\ run' = Idle
    BY <1>3, CommandKeeps DEF NumbersInv
  <2>3. \A n \in OpIds : coreDisk.ops[n].inv <= born => coreDisk.ops[n].inv <= born'
    <3>1. born \in Nat /\ \A n \in OpIds : coreDisk.ops[n].inv \in Nat
      BY DEF NumbersInv, TypeInv, TypeOK, CoreStates, Invoices, Operations, NoOp
    <3>2. \A k \in Nat : k <= born => k <= born'
      <4>1. born \in Nat
        BY <3>1
      <4> QED BY <2>1, <4>1
    <3> QED BY <3>1, <3>2
  <2>4. Disk'
    BY <1>2, <2>2, <2>3 DEF NumbersFrom
  <2> QED
    BY <1>1, <2>1, <2>2, <2>4 DEF NumbersInv, RunHasIssued
<1>4. CASE ApplyPhase
  <2>1. UNCHANGED <<coreDisk, calls, born>>
    BY <1>4, PhaseKeeps DEF NumbersInv
  <2>2. Disk'
    BY <1>2, <2>1 DEF NumbersFrom
  <2> QED
    BY <1>1, <1>2, <1>4, <2>1, <2>2, PhaseNumbers DEF NumbersInv
<1>5. CASE (\E c \in calls : ApplyOwn(c)) \/ ReplayNext
  <2>1. UNCHANGED <<inv, ops, coreDisk, born>> /\ calls' \in SUBSET calls
    BY <1>5, StartKeeps DEF NumbersInv
  <2>2. run' = Idle \/ run'.phase = "entries"
    BY <1>5, StartKeeps, ApplyKeeps DEF NumbersInv, Apply
  <2>3. NumbersFrom(inv, ops)' /\ Disk'
    BY <1>2, <2>1 DEF NumbersFrom
  <2> QED
    BY <1>1, <1>2, <2>1, <2>2, <2>3 DEF NumbersInv, RunHasIssued
<1>6. CASE StartReplay \/ EndReplay \/ Persist \/ UNCHANGED vars
  <2>1. UNCHANGED <<inv, ops, born, run, calls>>
    BY <1>6, ReplayKeeps DEF Persist, PersistBoth, PersistCore, PersistEntries, vars, coreVars
  <2>2. coreDisk' = coreDisk \/ coreDisk' = Core
    BY <1>6, ReplayKeeps DEF Persist, PersistBoth, PersistCore, PersistEntries, vars, diskVars
  <2>3. NumbersFrom(inv, ops)'
    BY <1>2, <2>1 DEF NumbersFrom
  <2>4. Disk'
    <3>1. CASE coreDisk' = coreDisk
      BY <1>2, <2>1, <3>1 DEF NumbersFrom
    <3>2. CASE coreDisk' = Core
      <4>1. coreDisk'.inv = inv /\ coreDisk'.ops = ops
        BY <3>2 DEF Core
      <4> QED BY <1>2, <2>1, <4>1 DEF NumbersFrom
    <3> QED BY <2>2, <3>1, <3>2
  <2>5. RunHasIssued'
    BY <1>2, <2>1 DEF RunHasIssued, App
  <2> QED
    BY <1>1, <1>2, <2>1, <2>3, <2>4, <2>5 DEF NumbersInv
<1>7. CASE CrashAndRestart
  <2>1. /\ inv' = coreDisk.inv /\ ops' = coreDisk.ops /\ calls' = {} /\ run' = Idle
        /\ UNCHANGED <<coreDisk, born>>
    BY <1>7 DEF CrashAndRestart, diskVars
  <2>2. NumbersFrom(inv, ops)' /\ Disk'
    BY <1>2, <2>1 DEF NumbersFrom
  <2> QED
    BY <1>1, <2>1, <2>2 DEF NumbersInv, RunHasIssued
<1> QED
  BY <1>3, <1>4, <1>5, <1>6, <1>7 DEF Next

\* Where invoices are finalized without a saved draft and none is undone, no
\* two issued invoices have the same number: not the canceled ones, not those
\* finalized while another finalization waits for archives to load, not after
\* any number of crashes, in whichever order the databases were written, and
\* not through the replays after a sync.  With saved drafts it does not hold:
\* two drafts may have the same provisional number.
THEOREM NumbersAreGivenOnce ==
  ASSUME "draft" \notin Features, "undo" \notin Features
  PROVE  Spec => []NumbersAreDistinct
<1>1. Init => NumbersInv
  BY InitNumbersInv
<1>2. NumbersInv /\ [Next]_vars => NumbersInv'
  BY NextNumbersInv
<1>3. NumbersInv => NumbersAreDistinct
  BY DEF NumbersInv, NumbersFrom, NumbersAreDistinct, Issued, IsIssued
<1> QED
  BY <1>1, <1>2, <1>3, PTL DEF Spec
=============================================================================

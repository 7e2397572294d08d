------------------------- MODULE RecurringExpenses -------------------------
(***************************************************************************)
(* Recurring expenses: a recurrence is a template, and the periods that    *)
(* are due get an expense each, whose identity is made of the recurrence   *)
(* and the period.  Several callers make them, each of which works from    *)
(* what it saw when it began and awaits the archive and the exchange rates *)
(* before each expense: the application once a day, the page of expenses,  *)
(* the view of a period that is due, the dialog of a new recurrence.       *)
(* Periods are counted from 1 and fall due one a day.                      *)
(***************************************************************************)
EXTENDS Naturals, FiniteSets

CONSTANTS
  Count,      \* recurrences that may be created, in this order
  Last,       \* the last period of each: its end date
  InDialog,   \* those created in the dialog, the others by the agent
  AutoPaid,       \* those paid automatically in another currency: they need rates
  Batch,      \* periods that one generation catches up with (24)
  Age,        \* days after which a paid expense is archived (90)
  MaxDay, MaxEvents  \* bounds

ConstantsAssumption ==
  /\ {Count, Batch, Age, MaxDay, MaxEvents} \subseteq Nat
  /\ Last \in [1..Count -> Nat] /\ InDialog \union AutoPaid \subseteq 1..Count

Recs == 1..Count
Expenses == Recs \X (1..MaxDay)
Page == 0                     \* the generation of the page of expenses
Runs == {Page} \union 1..MaxDay \* and the application's, one for each day

VARIABLES
  work,    \* the documents: the recurrences, the active and the archived expenses;
           \* bookkeeping (made): the expenses ever made, the periods passed over
  day,
  runs,    \* the generations in flight
  doneFor, \* lastExpenseGenerationDayRef
  viewing, adding, \* the view and the dialog while they wait for an expense
  events           \* bookkeeping: reloads, and deeds of the user

vars == <<work, day, runs, doneFor, viewing, adding, events>>

Nothing == <<0, 0>>
NoRun == [at |-> Nothing]

Live(w) == {r \in Recs : w.recs[r].state = "there"}
Active(w) == {x \in Expenses : w.copies[x] # "none"}

\* assertEntityIdentityAvailable, with the archive that createExpenseWithPaymentSnapshot
\* has loaded.
Taken(x) == x \in Active(work) \union work.archived

\* buildExpenseFromRecurrence and createExpense.
With(w, x) ==
  [w EXCEPT !.copies[x] = IF x[1] \in AutoPaid THEN "paid" ELSE "unpaid", !.made = @ \union {x}]

\* useYjsCollection.update does nothing for a recurrence that was deleted.
Marked(w, r, p) == IF r \in Live(w) THEN [w EXCEPT !.recs[r].last = p] ELSE w

-----------------------------------------------------------------------------
(* generatePendingExpenses.                                                *)

LeastOf(S) == CHOOSE n \in S : \A k \in S : n <= k

\* getPendingPeriods, of the recurrence as it was when the run began.
Pending(run, r) ==
  run.last[r] + 1 .. LeastOf({day, Last[r], run.last[r] + Batch})

Before(x, y) == x[1] < y[1] \/ (x[1] = y[1] /\ x[2] < y[2])

\* The last period of r in a run that has got to the expense x.
Until(run, x, r) == IF r = x[1] THEN run.until ELSE run.last[r] + Cardinality(Pending(run, r))

\* The recurrences with pending periods that a run is through with when it goes
\* from the expense x to one of the recurrence r.  Variant: those that it begins.
Through_AtStart(run, x, r) == {s \in run.recs : x[1] < s /\ s <= r /\ Pending(run, s) # {}}

Through(run, x, r) ==
  {s \in run.recs : x[1] <= s /\ s < r /\ (s = x[1] \/ Pending(run, s) # {})}

\* From the expense x a run goes on to the next that it does not know, and marks
\* the recurrences that it is through with up to their last period.
GoOn(id, run, x, w) ==
  LET open == {y \in Expenses \ run.known : /\ Before(x, y)
                 /\ \/ y[1] = x[1] /\ y[2] <= run.until
                    \/ y[1] # x[1] /\ y[1] \in run.recs /\ y[2] \in Pending(run, y[1])}
      next == IF open = {} THEN <<Count + 1, 0>>
              ELSE CHOOSE y \in open : \A z \in open \ {y} : Before(y, z)
      marked == Through(run, x, next[1]) \intersect Live(w)
  IN /\ work' = [w EXCEPT !.recs =
          [r \in Recs |-> IF r \in marked THEN [@[r] EXCEPT !.last = Until(run, x, r)] ELSE @[r]]]
     /\ runs' = [runs EXCEPT ![id] =
          IF open = {} THEN NoRun
          ELSE [run EXCEPT !.at = next, !.until = Until(run, x, next[1])]]
     /\ doneFor' = IF open = {} /\ id # Page THEN id ELSE doneFor

\* The page, whenever it is opened, knows the archived expenses; the application,
\* until it has done the day, only the active ones.
Begin(id) ==
  /\ runs[id] = NoRun
  /\ id # Page => id = day /\ doneFor # day
  /\ LET run == [at    |-> Nothing, until |-> 0,
                 recs  |-> {r \in Live(work) : work.recs[r].active},
                 last  |-> [r \in Recs |-> work.recs[r].last],
                 known |-> Active(work) \union (IF id = Page THEN work.archived ELSE {})]
     IN GoOn(id, run, Nothing, work)
  /\ UNCHANGED <<day, viewing, adding, events>>

\* createExpense after its awaits.  A failure ends the run: the expense exists,
\* or there are no rates.
Generate(id) ==
  LET run == runs[id]
      x == run.at
  IN /\ run # NoRun /\ ~Taken(x)
     /\ GoOn(id, [run EXCEPT !.known = @ \union {x}], x, With(work, x))
     /\ UNCHANGED <<day, viewing, adding, events>>

GenerateFails(id) ==
  /\ runs[id] # NoRun /\ (Taken(runs[id].at) \/ runs[id].at[1] \in AutoPaid)
  /\ runs' = [runs EXCEPT ![id] = NoRun]
  /\ UNCHANGED <<work, day, doneFor, viewing, adding, events>>

-----------------------------------------------------------------------------
(* The view of a period that is due and has no expense yet.                *)

View(x) ==
  /\ viewing.at = Nothing /\ x[1] \in Live(work) /\ x \notin Active(work)
  /\ x[2] <= LeastOf({day, Last[x[1]]})
  /\ viewing' = [at |-> x, last |-> work.recs[x[1]].last]
  /\ UNCHANGED <<work, day, runs, doneFor, adding, events>>

\* The mark passes over what was not made before the period that is viewed.
Passes(w, x) ==
  IF x[1] \in Live(w)
  THEN [w EXCEPT !.made = @ \union ({x[1]} \X (w.recs[x[1]].last + 1 .. x[2] - 1))]
  ELSE w

Viewed ==
  LET x == viewing.at IN
  /\ x # Nothing /\ ~Taken(x)
  /\ work' = IF viewing.last < x[2] THEN Marked(Passes(With(work, x), x), x[1], x[2])
             ELSE With(work, x)
  /\ viewing' = [at |-> Nothing, last |-> 0]
  /\ UNCHANGED <<day, runs, doneFor, adding, events>>

ViewFails ==
  /\ viewing.at # Nothing /\ (Taken(viewing.at) \/ viewing.at[1] \in AutoPaid)
  /\ viewing' = [at |-> Nothing, last |-> 0]
  /\ UNCHANGED <<work, day, runs, doneFor, adding, events>>

-----------------------------------------------------------------------------
(* A new recurrence, in the dialog or by the agent, which prepares its      *)
(* first expense before it writes either.                                  *)

NextRec ==
  {r \in Recs : work.recs[r].state = "absent"
                /\ \A k \in 1 .. r - 1 : work.recs[k].state # "absent"}

Created(r, last) == [work EXCEPT !.recs[r] = [state |-> "there", last |-> last, active |-> TRUE]]

AddInDialog(r) ==
  /\ adding = 0 /\ r \in NextRec \intersect InDialog
  /\ work' = Created(r, 0)
  /\ adding' = IF day >= 1 THEN r ELSE 0
  /\ UNCHANGED <<day, runs, doneFor, viewing, events>>

Added ==
  /\ adding # 0 /\ ~Taken(<<adding, 1>>)
  /\ work' = Marked(With(work, <<adding, 1>>), adding, 1)
  /\ adding' = 0
  /\ UNCHANGED <<day, runs, doneFor, viewing, events>>

\* The recurrence is deleted again.
AddFails ==
  /\ adding # 0 /\ (Taken(<<adding, 1>>) \/ adding \in AutoPaid)
  /\ work' = [work EXCEPT !.recs[adding].state = "gone"]
  /\ adding' = 0
  /\ UNCHANGED <<day, runs, doneFor, viewing, events>>

AddByAgent(r) ==
  /\ r \in NextRec \ InDialog
  /\ work' = IF day >= 1 THEN With(Created(r, 1), <<r, 1>>) ELSE Created(r, 0)
  /\ UNCHANGED <<day, runs, doneFor, viewing, adding, events>>

-----------------------------------------------------------------------------
(* What the user does to recurrences and expenses.                         *)

SetActive(r, active) ==
  /\ events < MaxEvents /\ events' = events + 1
  /\ r \in Live(work) /\ work.recs[r].active # active
  /\ work' = [work EXCEPT !.recs[r].active = active]
  /\ UNCHANGED <<day, runs, doneFor, viewing, adding>>

DeleteRecurrence(r) ==
  /\ events < MaxEvents /\ events' = events + 1
  /\ r \in Live(work)
  /\ work' = [work EXCEPT !.recs[r].state = "gone"]
  /\ UNCHANGED <<day, runs, doneFor, viewing, adding>>

MarkPaid(x) ==
  /\ events < MaxEvents /\ events' = events + 1
  /\ work.copies[x] = "unpaid"
  /\ work' = [work EXCEPT !.copies[x] = "paid"]
  /\ UNCHANGED <<day, runs, doneFor, viewing, adding>>

\* findExpenseMap: the active copy if there is one, else the archived one.
DeleteExpense(x) ==
  /\ events < MaxEvents /\ events' = events + 1
  /\ Taken(x)
  /\ work' = IF work.copies[x] # "none" THEN [work EXCEPT !.copies[x] = "none"]
             ELSE [work EXCEPT !.archived = @ \ {x}]
  /\ UNCHANGED <<day, runs, doneFor, viewing, adding>>

-----------------------------------------------------------------------------
Awaited ==
  ({runs[id].at : id \in Runs} \union {viewing.at, <<adding, 1>>}) \intersect Expenses

NextDay ==
  /\ day < MaxDay /\ day' = day + 1
  /\ UNCHANGED <<work, runs, doneFor, viewing, adding, events>>

\* The page is loaded again, at the latest when an expense is in the database and
\* its recurrence is not yet marked; what is lost of the last writes is as if it
\* had been loaded before them.  Before it is ready, old paid expenses (which are
\* not to be billed) are archived: archiveOldExpenses.
Reload ==
  \E w \in {work} \union {With(work, x) : x \in Awaited \ (Active(work) \union work.archived)} :
    LET old == {x \in Expenses : w.copies[x] = "paid" /\ x[2] + Age <= day} IN
    /\ events < MaxEvents /\ events' = events + 1
    /\ work' = [w EXCEPT !.copies = [x \in Expenses |-> IF x \in old THEN "none" ELSE @[x]],
                         !.archived = @ \union old]
    /\ runs' = [id \in Runs |-> NoRun]
    /\ doneFor' = 0 /\ adding' = 0 /\ viewing' = [at |-> Nothing, last |-> 0]
    /\ UNCHANGED <<day>>

Init ==
  /\ work = [recs |-> [r \in Recs |-> [state |-> "absent", last |-> 0, active |-> FALSE]],
             copies |-> [x \in Expenses |-> "none"], archived |-> {}, made |-> {}]
  /\ day = 0
  /\ runs = [id \in Runs |-> NoRun]
  /\ doneFor = 0 /\ adding = 0 /\ viewing = [at |-> Nothing, last |-> 0]
  /\ events = 0

Next ==
  \/ \E id \in Runs : Begin(id) \/ Generate(id) \/ GenerateFails(id)
  \/ \E x \in Expenses : View(x) \/ MarkPaid(x) \/ DeleteExpense(x)
  \/ Viewed \/ ViewFails \/ Added \/ AddFails
  \/ \E r \in Recs : AddInDialog(r) \/ AddByAgent(r) \/ DeleteRecurrence(r)
  \/ \E r \in Recs, active \in BOOLEAN : SetActive(r, active)
  \/ NextDay \/ Reload

Spec == Init /\ [][Next]_vars

-----------------------------------------------------------------------------
\* Each period up to the one that a recurrence is marked with was made, whichever
\* callers overtake each other and whenever one is cut short, unless the view of a
\* later period passed over it (lastGeneratedDate).
NoPeriodIsSkipped ==
  \A r \in Live(work) : {r} \X (1..work.recs[r].last) \subseteq work.made

\* An expense is not made again next to its archived copy
\* (createExpenseWithPaymentSnapshot).
OneCopy == Active(work) \intersect work.archived = {}

\* Every period that no view passed over has its expense, and none has two.
EveryPeriodOnce ==
  /\ NoPeriodIsSkipped
  /\ OneCopy
=============================================================================

----------------------------- MODULE TaskOrder -----------------------------
(***************************************************************************)
(* The manual order of tasks in a list, or of subtasks under their parents *)
(* (taskOrderingUtils): a rank between the neighbours' for the task that   *)
(* was dropped, and new ranks for the whole list when there is no room or  *)
(* a neighbour has none.  Ranks are counted in the least gap, so that a    *)
(* midpoint is rounded, as a floating point number is.                     *)
(***************************************************************************)
EXTENDS Integers, SequencesExt

CONSTANTS
  Tasks, Lists,
  Step,      \* TASK_ORDER_STEP in units of TASK_ORDER_MIN_GAP
  NoRank, Nowhere,
  MaxDrags   \* bound

ConstantsAssumption ==
  /\ Step \in Nat /\ Step > 1 /\ MaxDrags \in Nat
  /\ NoRank \notin Int /\ Nowhere \notin Lists

VARIABLES
  rank,    \* sortOrder
  place,   \* the list that a task is in, if it exists
  archived,
  recent,  \* the tasks by lastActive, the latest first: the order of those without rank
  meant,   \* each list as the user last saw or made it
  drags    \* bookkeeping: the drops

vars == <<rank, place, archived, recent, meant, drags>>

Position(s, t) == CHOOSE n \in DOMAIN s : s[n] = t

\* sortTasksByManualOrder of the tasks of the list c.
Precedes(a, b, r, by) ==
  IF r[a] # NoRank /\ r[b] # NoRank /\ r[a] # r[b] THEN r[a] < r[b]
  ELSE IF (r[a] = NoRank) # (r[b] = NoRank) THEN r[b] = NoRank
  ELSE Position(by, a) < Position(by, b)

Sorted(c, r, at, hidden, by) ==
  SetToSortSeq({t \in Tasks \ hidden : at[t] = c}, LAMBDA a, b : Precedes(a, b, r, by))

-----------------------------------------------------------------------------
(* The ranks for a list as it shall be, in which t was moved.              *)

Rebalanced(s, r) == [t \in Tasks |-> IF Contains(s, t) THEN Position(s, t) * Step ELSE r[t]]

\* getTaskRankBetween, for the neighbours there are.
\* Variant: however near they are.
Between_NoGap(lower, upper, r) ==
  CASE lower # {} /\ upper # {} ->
         UNION {{r[a] + (r[b] - r[a]) \div 2 : b \in upper} : a \in lower}
    [] lower # {} /\ upper = {} -> {r[a] + Step : a \in lower}
    [] lower = {} /\ upper # {} -> {r[b] - Step : b \in upper}
    [] OTHER -> {Step}

Between(lower, upper, r) ==
  CASE lower # {} /\ upper # {} ->
         UNION {{r[a] + (r[b] - r[a]) \div 2 : b \in {x \in upper : r[x] - r[a] > 1}} : a \in lower}
    [] lower # {} /\ upper = {} -> {r[a] + Step : a \in lower}
    [] lower = {} /\ upper # {} -> {r[b] - Step : b \in upper}
    [] OTHER -> {Step}

\* buildTaskMoveOrderUpdates.
MoveRanks(s, t, r) ==
  LET n == Position(s, t)
      lower == {s[k] : k \in DOMAIN s \intersect {n - 1}}
      upper == {s[k] : k \in DOMAIN s \intersect {n + 1}}
      ranks == Between(lower, upper, r)
  IN IF (\E x \in lower \union upper : r[x] = NoRank) \/ ranks = {} THEN Rebalanced(s, r)
     ELSE [r EXCEPT ![t] = CHOOSE x \in ranks : TRUE]

\* buildTaskAppendOrderPlan.
AppendRanks(s, t, r) ==
  IF s # <<>> /\ \E x \in ToSet(s) : r[x] = NoRank THEN Rebalanced(Append(s, t), r)
  ELSE [r EXCEPT ![t] = IF s = <<>> THEN Step ELSE r[Last(s)] + Step]

-----------------------------------------------------------------------------
Shown(c) == Sorted(c, rank, place, archived, recent)
ShownTasks == {t \in Tasks \ archived : place[t] # Nowhere}
Gone(t) == [c \in Lists |-> Remove(meant[c], t)]

\* A task is dropped on another, on the list that it is in, or on another list
\* (reorderTaskItems, insertTaskItem).
Drop(t, c, s) ==
  /\ drags < MaxDrags /\ drags' = drags + 1
  /\ t \in ShownTasks
  /\ rank' = MoveRanks(s, t, rank)
  /\ place' = [place EXCEPT ![t] = c]
  /\ meant' = [Gone(t) EXCEPT ![c] = s]
  /\ UNCHANGED <<archived, recent>>

DropOnTask(t, over) ==
  LET c == place[over]
      s == Shown(c)
  IN /\ over \in ShownTasks \ {t}
     /\ Drop(t, c, InsertAt(Remove(s, t), Position(s, over), t))

DropOnList(t, c) == Drop(t, c, Append(Remove(Shown(c), t), t))

Latest(t) == <<t>> \o Remove(recent, t)

\* A new task: at the end if the list is shown in the manual order, else unranked.
Create(t, c, manual) ==
  /\ place[t] = Nowhere
  /\ recent' = Latest(t)
  /\ place' = [place EXCEPT ![t] = c]
  /\ rank' = IF manual THEN AppendRanks(Shown(c), t, rank) ELSE rank
  /\ meant' = [meant EXCEPT ![c] = IF manual THEN Append(Shown(c), t)
                                   ELSE Sorted(c, rank, place', archived, recent')]
  /\ UNCHANGED <<archived, drags>>

\* Work on a task: the tasks without rank are shown in another order.
Touch(t) ==
  /\ t \in ShownTasks /\ Latest(t) # recent
  /\ recent' = Latest(t)
  /\ meant' = [meant EXCEPT ![place[t]] = Sorted(place[t], rank, place, archived, recent')]
  /\ UNCHANGED <<rank, place, archived, drags>>

\* A task is archived, and comes back with the rank that it had.
Archive(t) ==
  /\ t \in ShownTasks
  /\ archived' = archived \union {t}
  /\ meant' = Gone(t)
  /\ UNCHANGED <<rank, place, recent, drags>>

Unarchive(t) ==
  /\ t \in archived
  /\ archived' = archived \ {t}
  /\ meant' = [meant EXCEPT ![place[t]] = Sorted(place[t], rank, place, archived', recent)]
  /\ UNCHANGED <<rank, place, recent, drags>>

Init ==
  /\ rank = [t \in Tasks |-> NoRank]
  /\ place = [t \in Tasks |-> Nowhere]
  /\ archived = {} /\ recent = <<>>
  /\ meant = [c \in Lists |-> <<>>]
  /\ drags = 0

Next ==
  \/ \E t, over \in Tasks : DropOnTask(t, over)
  \/ \E t \in Tasks, c \in Lists : DropOnList(t, c)
  \/ \E t \in Tasks, c \in Lists, manual \in BOOLEAN : Create(t, c, manual)
  \/ \E t \in Tasks : Touch(t) \/ Archive(t) \/ Unarchive(t)

Spec == Init /\ [][Next]_vars

-----------------------------------------------------------------------------
\* A list is shown in the order in which the user left it, however often tasks
\* were dropped into the same gap and whichever of them had no rank yet
\* (buildTaskMoveOrderUpdates, buildTaskAppendOrderPlan).
OrderIsKept == \A c \in Lists : Shown(c) = meant[c]
=============================================================================

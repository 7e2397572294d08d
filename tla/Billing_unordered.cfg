\* The two databases are written in any order; journaled operations are finished.
SPECIFICATION FairSpec
CONSTANTS
  MaxInvoices = 2
  MaxOps = 4
  MaxInFlight = 1
  MaxCrashes = 1
  MaxNumber = 3
  Horizon = 2
  e1 = e1
  e2 = e2
  x1 = x1
  q1 = q1
  t1 = t1
  None = None
  Entries = {e1, e2}
  Expenses = {x1}
  Quotes = {q1}
  Tasks = {t1}
  TaskOf <- MCTaskOf
  EndOf <- MCEndOf
  Selections <- MCSelections
  Features = {"undo", "cancel"}
  PostSync = FALSE
  InOrder = FALSE
CHECK_DEADLOCK FALSE
INVARIANTS
  LinksMatchInvoices
  CutoffCoversBilledWork
PROPERTIES
  JournaledGetsDone

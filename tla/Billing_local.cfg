\* Two commands at once, with crashes, no provider connected.
SPECIFICATION Spec
CONSTANTS
  MaxInvoices = 2
  MaxOps = 3
  MaxInFlight = 2
  MaxCrashes = 1
  MaxNumber = 3
  Horizon = 2
  e1 = e1
  e2 = e2
  x1 = x1
  q1 = q1
  t1 = t1
  None = None
  Entries = {e1, e2}
  Expenses = {x1}
  Quotes = {q1}
  Tasks = {t1}
  TaskOf <- MCTaskOf
  EndOf <- MCEndOf
  Selections <- MCSelections
  Features = {"cancel", "pay"}
  PostSync = FALSE
  InOrder = TRUE
CHECK_DEADLOCK FALSE
INVARIANTS
  TypeOK
  NoDoubleBilling
  ClaimsMatchInvoices
  ClaimsAreJournaled
  NumbersAreDistinct

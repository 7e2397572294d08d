\* A provider is connected: replays between and during two commands at once,
\* with drafts, undo, cancellation and the slow payments of the browser.
SPECIFICATION Spec
CONSTANTS
  MaxInvoices = 2
  MaxOps = 3
  MaxInFlight = 2
  MaxCrashes = 0
  MaxNumber = 3
  Horizon = 2
  e1 = e1
  e2 = e2
  x1 = x1
  q1 = q1
  t1 = t1
  None = None
  Entries = {e1, e2}
  Expenses = {x1}
  Quotes = {q1}
  Tasks = {t1}
  TaskOf <- MCTaskOf
  EndOf <- MCEndOf
  Selections <- MCOneSelection
  Features = {"draft", "cancel", "undo", "payAfterRates"}
  PostSync = TRUE
  InOrder = TRUE
CHECK_DEADLOCK FALSE
INVARIANTS
  ReplayHeals
PROPERTIES
  CanceledStays
  PaidStays

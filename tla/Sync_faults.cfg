\* Sync mode, devices in turns, one fault, one lost session, one Sync Now or page exit.
SPECIFICATION Spec
CONSTANTS
  d1 = d1
  d2 = d2
  t1 = t1
  t2 = t2
  Tabs = {t1, t2}
  Devices = {d1, d2}
  DeviceOf <- MCOne
  Mode = "sync"
  Conditional = FALSE
  Serial = TRUE
  QuietConnect = TRUE
  Threshold = 2
  MaxEdits = 2
  MaxLosses = 1
  MaxFaults = 1
  MaxForced = 1
  MaxDeltas = 3
INVARIANTS
  UnsentIsMarked
  NoDanglingReference

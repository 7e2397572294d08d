\* Backup mode, passes of two devices overlap, a store with conditional writes. A quiet workspace has nothing to back up.
SPECIFICATION Spec
CONSTANTS
  d1 = d1
  d2 = d2
  t1 = t1
  t2 = t2
  Tabs = {t1, t2}
  Devices = {d1, d2}
  DeviceOf <- MCOne
  Mode = "backup"
  Conditional = TRUE
  Serial = FALSE
  QuietConnect = TRUE
  Threshold = 2
  MaxEdits = 2
  MaxLosses = 1
  MaxFaults = 0
  MaxForced = 0
  MaxDeltas = 3
CHECK_DEADLOCK FALSE
INVARIANTS
  WorkIsRecoverable

\* Sync mode, devices in turns, a compaction at two deltas, one lost session.
SPECIFICATION FairSpec
CONSTANTS
  d1 = d1
  d2 = d2
  t1 = t1
  t2 = t2
  Tabs = {t1, t2}
  Devices = {d1, d2}
  DeviceOf <- MCOne
  Mode = "sync"
  Conditional = FALSE
  Serial = TRUE
  QuietConnect = TRUE
  Threshold = 2
  MaxEdits = 2
  MaxLosses = 1
  MaxFaults = 0
  MaxForced = 0
  MaxDeltas = 3
INVARIANTS
  SyncedIsComplete
PROPERTIES
  ImplementsShared
  Converges

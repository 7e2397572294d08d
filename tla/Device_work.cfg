\* One tab: a restore with a rollback, one deletion among ten records, and two
\* attempts to send one invoice with room for one; and two tabs that connect to
\* the bridge twice in all, with two commands that need an approval; and four
\* connections to a cloud provider for two selections; a file of a name at Google
\* Drive or Dropbox (the code makes three more attempts, and two are enough to come
\* back to a file); two accounts with a paid plan, and four changes of account,
\* connection or plan; two recurring expenses over two days, with a reload or a
\* change by the user; and three tasks in two lists, dropped three times.
SPECIFICATION MCSpec
CONSTANTS
  tab = tab
  t1 = t1
  t2 = t2
  i1 = i1
  k1 = k1
  k2 = k2
  l1 = l1
  l2 = l2
  None = None
  Records <- MCRecords
  Kind <- MCKind
  Refs <- MCRefs
  TieOf <- MCTies
  FirstRecords = {"c", "p", "k", "s", "e", "x"}
  FirstTies <- MCFirstTies
  Roots = {"c", "p", "k"}
  Invoices = {i1}
  Capacity = 1
  Tabs = {t1, t2}
  Sensitive = {1, 2}
  Keys = {k1, k2}
  Recoveries = 2
  Lives = {k1, k2}
  Refreshes = 1
  Count = 2
  Last <- MCLast
  InDialog = {1}
  AutoPaid = {1}
  Batch = 2
  Age = 1
  Tasks = {1, 2, 3}
  Lists = {l1, l2}
  Step = 4
  MaxRestores = 2
  MaxEdits = 1
  MaxFaults = 3
  MaxCrashes = 3
  MaxDeletions = 1
  MaxDeaths = 1
  MaxFailures = 1
  MaxAttempts = 2
  MaxLate = 1
  MaxConns = 2
  MaxCommands = 2
  MaxTries = 4
  Brands = {"google", "dropbox"}
  Retries = 2
  MaxIds = 3
  MaxBodies = 3
  MaxEvents = 2
  MaxTroubles = 3
  MaxRuns = 2
  MaxChanges = 4
  MaxTime = 2
  MaxDay = 2
  MaxDeeds = 1
  MaxDrags = 3
CHECK_DEADLOCK FALSE
INVARIANTS
  HomeIsKept
  NoOrphans
  NotSentTwice
  CommandsFindATab
  OnlyApprovedIsDone
  ShownIsReal
  AcknowledgedIsStored
  OneFilePerName
  GrantedIsCurrent
  StatusIsHeard
  EveryPeriodOnce
  OrderIsKept
PROPERTIES
  DeliveredIsShown

\* Two devices, a crash, sync passes of each document.
SPECIFICATION FairSpec
CONSTANTS
  d1 = d1
  d2 = d2
  Devices = {d1, d2}
  FirstClients <- MCTwoFirst
  MaxClient = 3
  MaxIds = 2
  MaxCommands = 3
  MaxInFlight = 1
  MaxCrashes = 1
  Horizon = 0
  Spans = {}
  Features = {}
  Online = TRUE
  SavedFirst = TRUE
CHECK_DEADLOCK FALSE
INVARIANTS
  WorkIsKept
PROPERTIES
  GhostsGo

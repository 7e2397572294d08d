\* One device, a crash at any point, no provider.
SPECIFICATION Spec
CONSTANTS
  d1 = d1
  d2 = d2
  Devices = {d1}
  FirstClients <- MCOneFirst
  MaxClient = 2
  MaxIds = 2
  MaxCommands = 5
  MaxInFlight = 1
  MaxCrashes = 1
  Horizon = 2
  Spans <- MCSpans
  Features = {"edit", "pause", "pauseAt", "manual", "clear", "delete"}
  Online = FALSE
  SavedFirst = TRUE
CHECK_DEADLOCK FALSE
INVARIANTS
  TypeOK
  PauseEndIsReal
  NoOverlap

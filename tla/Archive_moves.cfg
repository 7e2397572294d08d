\* Two devices, one of which moves the record and is reloaded; tasks and expenses.
SPECIFICATION FairSpec
CONSTANTS
  d1 = d1
  d2 = d2
  Devices = {d1, d2}
  Movers = {d1}
  Kinds = {"task", "expense"}
  FirstClients <- MCFirst
  MaxClient = 3
  MaxCommands = 2
  MaxReloads = 1
CHECK_DEADLOCK FALSE
PROPERTIES
  SettlesInPlace

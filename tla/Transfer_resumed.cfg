\* One transfer with a failed request, a reload and a sign-out.
SPECIFICATION FairSpec
CONSTANTS
  google = google
  dropbox = dropbox
  None = None
  Source = google
  Target = dropbox
  TargetKinds = {"empty", "ours", "foreign", "unbound"}
  OtherGens = {1}
  Attempts = 2
  MaxEdits = 2
  MaxTransfers = 1
  MaxFaults = 1
  MaxCrashes = 1
  MaxQuits = 1
CHECK_DEADLOCK FALSE
INVARIANTS
  FencedIsComplete
PROPERTIES
  ForeignIsUntouched
  InterruptedFinishes

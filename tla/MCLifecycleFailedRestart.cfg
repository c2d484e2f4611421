SPECIFICATION Spec
CONSTANTS
  Names = {n1}
  NoObj = NoObj
  NoItem = NoItem
  Priorities = {0}
  MaxRetries = 1
  MaxRetryCycles = 1
  Workers = {w1}
  Ids = {i1, i2, i3, i4}
  Specs = {1}
  Size = 1
  Verdicts = {"ok", "error"}
  Bare = {}
  Unplaced = {}
  Upgraded = FALSE
  MaxEdits = 1
  MaxResumes = 0
  MaxDeletes = 0
  MaxCrashes = 1
  MaxFaults = 0
  MaxTampers = 0
INVARIANTS FailedOwned
CHECK_DEADLOCK FALSE

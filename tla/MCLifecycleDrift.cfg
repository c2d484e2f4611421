SPECIFICATION DriftSpec
CONSTANTS
  Names = {n1}
  NoObj = NoObj
  NoItem = NoItem
  Priorities = {0}
  MaxRetries = 1
  MaxRetryCycles = 1
  Workers = {w1}
  Ids = {1, 2, 3}
  Specs = {1, 2}
  Size = 3
  Verdicts = {"ok", "reject", "error"}
  Bare = {2}
  Unplaced = {3}
  Upgraded = TRUE
  MaxEdits = 2
  MaxResumes = 0
  MaxDeletes = 0
  MaxCrashes = 0
  MaxFaults = 1
  MaxTampers = 2
PROPERTIES DriftRepaired UsesQueue
CHECK_DEADLOCK FALSE

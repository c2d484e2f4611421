SPECIFICATION FairSpec
CONSTANTS
  Names = {n1}
  NoObj = NoObj
  NoItem = NoItem
  Priorities = {0}
  MaxRetries = 1
  MaxRetryCycles = 1
  Workers = {w1}
  Ids = {i1}
  Specs = {1, 2}
  Size = 1
  Verdicts = {"ok"}
  Bare = {}
  Unplaced = {}
  Upgraded = FALSE
  MaxEdits = 1
  MaxResumes = 0
  MaxDeletes = 0
  MaxCrashes = 0
  MaxFaults = 0
  MaxTampers = 1
PROPERTIES EventuallyInSync
CHECK_DEADLOCK FALSE

SPECIFICATION SafeSpec
CONSTANTS
  Names = {n1}
  NoObj = NoObj
  NoItem = NoItem
  Priorities = {0}
  MaxRetries = 1
  MaxRetryCycles = 1
  Workers = {w1, w2}
  Ids = {1, 2, 3, 4}
  Specs = {1, 2}
  Size = 1
  Verdicts = {"error", "replace"}
  Bare = {}
  Unplaced = {}
  Upgraded = FALSE
  MaxEdits = 2
  MaxResumes = 0
  MaxDeletes = 1
  MaxCrashes = 1
  MaxFaults = 1
  MaxTampers = 0
SYMMETRY Symmetry
INVARIANTS TypeOK UnfinishedOwned FailedOwnedUntilRestart
PROPERTIES ImplementsStatus HashedIsRun
CHECK_DEADLOCK FALSE

SPECIFICATION StorySpec
CONSTANTS
  Names = {n1}
  NoObj = NoObj
  NoItem = NoItem
  Priorities = {0}
  MaxRetries = 1
  MaxRetryCycles = 1
  Workers = {w1}
  Ids = {1, 2, 3}
  Specs = {1, 2}
  Size = 1
  Verdicts = {"ok", "error", "reject", "replace", "skip"}
  Bare = {}
  Unplaced = {}
  Upgraded = FALSE
  MaxEdits = 3
  MaxResumes = 1
  MaxDeletes = 0
  MaxCrashes = 0
  MaxFaults = 0
  MaxTampers = 0
PROPERTIES Converges ResumeHonoured Finishes
CHECK_DEADLOCK FALSE

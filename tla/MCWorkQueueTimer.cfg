SPECIFICATION LiveSpec
CONSTANTS
  Names = {n1}
  Priorities = {0}
  MaxRetries = 2
  MaxRetryCycles = 1
  Workers = {w1}
  Ids = {i1}
  NoItem = NoItem
  NoTimer = NoTimer
  InitialRetryDelay = 1
  MaxRetryDelay = 2
  DurationLimit = 8
  MaxTime = 4
  EnqueueBudget = 1
  MayShutDown = FALSE
PROPERTIES DueRetryTaken
CHECK_DEADLOCK FALSE

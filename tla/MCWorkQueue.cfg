SPECIFICATION LiveSpec
CONSTANTS
  Names = {n1, n2}
  Priorities = {0}
  MaxRetries = 2
  MaxRetryCycles = 1
  Workers = {w1, w2}
  Ids = {i1, i2}
  NoItem = NoItem
  NoTimer = NoTimer
  InitialRetryDelay = 1
  MaxRetryDelay = 2
  DurationLimit = 8
  MaxTime = 3
  EnqueueBudget = 3
  MayShutDown = TRUE
INVARIANTS TypeOK FreshNeverStranded NoWaitAfterShutdown
PROPERTIES ImplementsRetryQueue BackoffBounded FreshEventuallyTaken ShutdownStopsWorkers
CHECK_DEADLOCK FALSE

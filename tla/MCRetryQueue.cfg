SPECIFICATION BudgetSpec
CONSTANTS
  Names = {n1, n2}
  Priorities = {0, 1}
  MaxRetries = 1
  MaxRetryCycles = 1
  Workers = {w1, w2}
  Ids = {i1, i2, i3}
  NoItem = NoItem
  EnqueueBudget = 3
INVARIANTS MapPointsIntoHeap SingleOwner GaugeExact
PROPERTIES RetryBudget Drains
CHECK_DEADLOCK FALSE

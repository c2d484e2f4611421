SPECIFICATION FairSpec
CONSTANTS
  Policies = {p1, p2}
  OperatorPolicies = {p1, p2}
  Namespaces = {a, b}
  NoNamespace = NoNamespace
  Readers = {r1}
  NoPolicy = NoPolicy
  NoEntry = NoEntry
  Error = Error
  Idle = Idle
  MaxChanges = 2
INVARIANTS TypeOK WatchedEntriesCurrent
PROPERTIES EventuallyRight

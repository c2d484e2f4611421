SPECIFICATION StorySpec
CONSTANTS
  None = None
  Whole = Whole
  Null = Null
  Missing = Missing
  Broken = Broken
  Home = Home
  Other = Other
  sA = sA
  sB = sB
  EmptyString = sEmpty
  Strings = {sA, sB, sEmpty}
  MaxTemplates = 2
  Names = {k1, k2}
  Handlers = {h1, h2}
  Specs <- MCSpecs
  Policies <- MCPolicies
  Idle = Idle
  NoObject = NoObject
  MaxRequests = 2
  Gone = Gone
  MaxTouches = 1
  MaxFaults = 1
INVARIANTS CleanupTypeOK VerdictsRight AdmittedIsApplied NamespaceTended
PROPERTIES NeverAddedLate ListedAreDeleted NamespaceGoes
CHECK_DEADLOCK FALSE

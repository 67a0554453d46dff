SPECIFICATION Spec
CONSTANTS
  Clients = {ip1}
  Paths <- MCPaths
  Limit <- MCLimit
  Window = 2
  MaxTime = 3
  Emails = {e1}
  Calls = {c1, c2, c3}
  None = None
  TokenLife = 1
SYMMETRY MCSymmetry
INVARIANTS
  AtMostLimitPerWindow
  RefusedOnlyWhenFull
  RetryAfterSuffices
  RegistrationHolds
  TrailIsTruthful
CHECK_DEADLOCK FALSE

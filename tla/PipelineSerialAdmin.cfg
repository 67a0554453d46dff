\* One admin at a time, three attempts within the timeout, one crash.
CONSTANTS
  Docs = {d1}
  Jobs = {j1, j2, j3}
  Requests = {r1}
  Providers = {pa}
  None = None
  Faults = FALSE
  SlowTasks = FALSE
  MaxCrashes = 1
SPECIFICATION FairSpec
INVARIANTS OneActiveJob AttemptsDistinct
PROPERTIES AttemptsSettle DocumentsSettle
CHECK_DEADLOCK FALSE

\* One crash, then the stale sweep.
CONSTANTS
  Docs = {d1}
  Jobs = {j1, j2}
  Requests = {r1}
  Providers = {pa}
  None = None
  Faults = FALSE
  SlowTasks = FALSE
  MaxCrashes = 1
SPECIFICATION Spec
INVARIANTS ProcessingIsOwned
CHECK_DEADLOCK FALSE

\* Two attempts of one document index it at the same time.
CONSTANTS
  Docs = {d1}
  Jobs = {j1, j2, j3}
  Requests = {r1, r2}
  Providers = {pa}
  None = None
  Faults = FALSE
  SlowTasks = FALSE
  MaxCrashes = 0
SPECIFICATION Spec
INVARIANTS RunningHasTask
CHECK_DEADLOCK FALSE

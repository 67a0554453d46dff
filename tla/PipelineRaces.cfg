\* Two concurrent requests and tasks, failures, slow tasks, one restart.
CONSTANTS
  Docs = {d1}
  Jobs = {j1, j2}
  Requests = {r1, r2}
  Providers = {pa, pb}
  None = None
  Faults = TRUE
  SlowTasks = TRUE
  MaxCrashes = 1
SPECIFICATION Spec
INVARIANTS TypeOK CompletedIsIndexed SearchableVectorsMatch
PROPERTIES ImplementsLifecycle ImplementsIndex
CHECK_DEADLOCK FALSE

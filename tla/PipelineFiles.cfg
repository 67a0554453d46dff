\* Two concurrent requests and slow tasks, one crash; calls to the storage succeed.
CONSTANTS
  Docs = {d1}
  Jobs = {j1, j2}
  Requests = {r1, r2}
  Providers = {pa}
  None = None
  Faults = FALSE
  SlowTasks = TRUE
  MaxCrashes = 1
SPECIFICATION Spec
SYMMETRY Symmetry
INVARIANTS DocumentHasFile ProcessingIsOwnedUntilCrash NoLeakUntilCrash
CHECK_DEADLOCK FALSE

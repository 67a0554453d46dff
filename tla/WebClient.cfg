SPECIFICATION Spec
CONSTANTS
  Users = {u1, u2}
  None = None
  MaxLogins = 2
  MaxRuns = 2
  MaxTrouble = 1
  Convs = {c1, c2}
  MaxAsks = 1
  MaxRev = 5
INVARIANTS
  TabPairsUp
  ShownIsStored
  BusyWhileWriting
  ThreadOfActive
  BubblesGo
  QuestionKept
PROPERTIES
  LoadingEnds
  PageCatchesUp
CHECK_DEADLOCK FALSE

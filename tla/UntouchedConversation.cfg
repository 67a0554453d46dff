\* A conversation whose title was given at its creation.
SPECIFICATION Spec
CONSTANTS
  Docs = {d1}
  Chunks = {k1, k2}
  Convs = {c1}
  Asks = {a1, a2}
  Titles = {New, Other}
  Default = New
  None = None
SYMMETRY Symmetry
INVARIANT AnswerTouches
CHECK_DEADLOCK FALSE

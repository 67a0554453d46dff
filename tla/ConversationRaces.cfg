\* Two overlapping questions while a document is reprocessed and deleted.
SPECIFICATION Spec
CONSTANTS
  Docs = {d1, d2}
  Chunks = {k1, k2}
  Convs = {c1}
  Asks = {a1, a2}
  Titles = {New, A, B}
  Default = New
  None = None
SYMMETRY Symmetry
INVARIANTS AnswerFollowsQuestion CitationsResolve AnswerKeepsSources DeletedStaysEmpty
PROPERTIES NamesAreEarned
CHECK_DEADLOCK FALSE

SPECIFICATION Spec
CONSTANTS
  MaxParts = 2
  Letters <- MCLetters
  Nfkc <- MCNfkc
  Texts <- MCTexts
  Sizes <- MCSizes
  Overlaps <- MCOverlaps
  BatchSize = 3
  MaxRetries = 2
  Date = Date
  Absent = Absent
  RetryAfter <- MCRetryAfter
  Chunks = {c1, c2, c3}
  Scores <- MCScores
  MaxTerms = 1
  TopK = 2
  MinScore = 50
  MinSupporting = 2
  MinOverlap = 1
INVARIANTS
  RateLimitIsRetried
CHECK_DEADLOCK FALSE

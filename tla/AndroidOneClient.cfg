SPECIFICATION Spec
CONSTANTS
  t1 = t1
  t2 = t2
  None = None
  Threads <- MCThreads
  MaxQuestions = 2
  MayOverlap = TRUE
INVARIANTS
  OneClient
CHECK_DEADLOCK FALSE

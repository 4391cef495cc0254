SPECIFICATION FairSpec
CONSTANTS
  t1 = t1
  t2 = t2
  None = None
  Threads <- MCThreads
  MaxQuestions = 2
  MayOverlap = FALSE
INVARIANTS
  TypeOK
  PipeOfClient
PROPERTIES
  StopEndsClient
CHECK_DEADLOCK FALSE

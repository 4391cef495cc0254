SPECIFICATION FairSpec
CONSTANTS
  Parms <- MCParms
  SeqRange = 4
  EchoLife = 4
  MaxSignals = 1
INVARIANTS
  TypeOK
  EngineOutlivesThread
  OutcomeKept
  EventListSound
  TimeoutEarned
  DeadTunnelFound
PROPERTIES
  LoopEnds
CHECK_DEADLOCK FALSE

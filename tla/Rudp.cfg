SPECIFICATION FairSpec
CONSTANTS
  h1 = h1
  h2 = h2
  NoAddr = NoAddr
  Hosts <- MCHosts
  TMIN = 1
  TMAX = 2
  MAXRTT = 3
  MAXRT = 8
  HZ = 2
  MaxCalls = 2
  MaxDups = 2
INVARIANTS
  TypeOK
  RetriesCountThisRequest
  WaitNeverExtended
  CacheDiesWithEngine
PROPERTIES
  ImplementsRequestReply
  ExchangeEnds

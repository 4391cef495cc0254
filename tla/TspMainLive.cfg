\* Sessions that retry: what must eventually happen.
CONSTANTS
  orig = orig
  b4 = b4
  b6 = b6
  Original = orig
  NoAddr = NoAddr
  NoFile = NoFile
  Addrs <- MCAddrs
  V6Addrs <- MCV6Addrs
  Confs <- LiveConfs
  RedirectMsgs <- LiveRedirectMsgs
  BrokerFiles <- LiveBrokerFiles
  LastServers <- LiveLastServers
  MaxList = 2
  UINT8 = 2
  Statuses <- LoopStatuses
  MallocMayFail = TRUE
SPECIFICATION FairSpec
PROPERTIES StopEnds OriginalRetried

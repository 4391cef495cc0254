\* A broker list is neither gone through nor left: see ConnectFailureMovesOn.
CONSTANTS
  orig = orig
  b4 = b4
  b6 = b6
  Original = orig
  NoAddr = NoAddr
  NoFile = NoFile
  Addrs <- MCAddrs
  V6Addrs <- MCV6Addrs
  Confs <- MCConfs
  RedirectMsgs <- MCRedirectMsgs
  BrokerFiles <- MCBrokerFiles
  LastServers <- MCLastServers
  MaxList = 2
  UINT8 = 4
  Statuses <- AnyStatus
  MallocMayFail = FALSE
SPECIFICATION Spec
PROPERTY ConnectFailureMovesOn

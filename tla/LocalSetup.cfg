SPECIFICATION FairSpec
CONSTANTS
    a = a
    b = b
    none = none
    unset = unset
    Alike <- MCAlike
    NoPrefix = none
    Unset = unset
    Platforms <- AllPlatforms
    Confs <- MCConfs
    Tunnels <- MCTunnels
    MaxSessions = 2
    MaxStarts = 2
INVARIANT DeviceFollowsClient
PROPERTIES TeardownUndoesSetup HangupEndsClient
CHECK_DEADLOCK FALSE

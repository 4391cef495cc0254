SPECIFICATION Spec
CONSTANTS
  s1 = s1
  s2 = s2
  bad = bad
  a1 = a1
  a2 = a2
  k1 = k1
  k2 = k2
  NoAddr = NoAddr
  AutoAddr = AutoAddr
  Servers <- MCServers
  Malformed <- MCMalformed
  Addrs <- MCAddrs
  Keys <- MCKeys
  Confs <- MCConfs
  Caps <- MCCaps
  Keyfiles <- MCKeyfiles
  MaxSessions = 2
INVARIANTS
  TypeOK
  TunnelAgreed
  SocketReleased
  KeyPinned
PROPERTIES
  ImplementsSession
CHECK_DEADLOCK FALSE

---------------------------- MODULE GogocStatus ----------------------------
(***************************************************************************)
(* The statuses of gogoc_status.h that a session returns, by what the      *)
(* connection loop does with them and by how far the session had come.     *)
(***************************************************************************)

\* Statuses that end the connection loop: connected = 0.
FatalStatuses ==
  {"AUTHENTICATION_FAILURE", "NO_COMMON_AUTHENTICATION", "INTERFACE_SETUP_FAILED",
   "TSP_GENERIC_ERROR", "MEMORY_STARVATION", "TUNMODE_NOT_AVAILABLE",
   "BAD_TUNNEL_PARAM", "INVAL_GOGOC_ADDRESS", "FAIL_RESOLV_ADDR",
   "INVAL_CLIENT_ADDR"}

AllStatuses == FatalStatuses \cup
  {"SUCCESS", "KEEPALIVE_TIMEOUT", "KEEPALIVE_ERROR", "TUNNEL_IO",
   "TUN_LEASE_EXPIRED", "INVAL_TSP_VERSION", "SOCKET_IO", "TSP_SERVER_TOO_BUSY",
   "FAIL_SOCKET_CONNECT", "EVNT_BROKER_REDIRECTION", "ERR_BROKER_REDIRECTION"}

\* Statuses a session returns before it has reached a TSP listener.
UnreachedStatuses ==
  {"INVAL_GOGOC_ADDRESS", "FAIL_RESOLV_ADDR", "FAIL_SOCKET_CONNECT"}

\* Statuses a session returns after it negotiated a tunnel.
TunnelStatuses ==
  {"SUCCESS", "KEEPALIVE_TIMEOUT", "KEEPALIVE_ERROR", "TUNNEL_IO",
   "TUN_LEASE_EXPIRED", "INTERFACE_SETUP_FAILED", "BAD_TUNNEL_PARAM"}
=============================================================================

----------------------------- MODULE MCTspMain -----------------------------
(***************************************************************************)
(* Instances of TspMain for TLC.  Brokers b4 (IPv4 literal) and b6 (IPv6   *)
(* literal) stand for the two forms FormatBrokerListAddr() tells apart;    *)
(* lists of one to three of them pass, reach and exceed MaxList = 2.       *)
(***************************************************************************)
EXTENDS TspMain

CONSTANTS orig, b4, b6

MCAddrs == {orig, b4, b6}
MCV6Addrs == {b6}

B4 == [address |-> b4, address_type |-> "IPV4"]
B6 == [address |-> b6, address_type |-> "IPV6"]

MCRedirectMsgs == {<<B6>>, <<B4, B6>>, <<B4, B4, B6>>}
MCBrokerFiles == {NoFile, <<b4, b6, b4>>}
MCLastServers == {NullText, Text(b6, TRUE)}

Conf(mode, boot, auto, same, d, max) ==
  [tunnel_mode |-> mode, boot_mode |-> boot, auto_retry_connect |-> auto,
   always_use_same_server |-> same, last_server_file |-> same,
   broker_list_file |-> TRUE, retry_delay |-> d, retry_delay_max |-> max]

\* Every tunnel mode; booting; no auto-retry; the last server; delays that reach
\* the cap (2 doubles past 3) and that are zero.  The last-server file is only read,
\* hence only named, where the same server is to be used again.
MCConfs ==
  {Conf("V6UDPV4", FALSE, TRUE, FALSE, 0, 0), Conf("V6ANYV4", FALSE, FALSE, FALSE, 0, 0),
   Conf("V6V4", FALSE, TRUE, TRUE, 2, 3), Conf("V4V6", TRUE, TRUE, FALSE, 0, 1)}

\* For the liveness run: one transport; two transports, no files; booting; the last server.
LiveConfs ==
  {Conf("V6UDPV4", FALSE, TRUE, FALSE, 0, 0), Conf("V4V6", TRUE, TRUE, FALSE, 0, 0),
   Conf("V6V4", FALSE, FALSE, TRUE, 0, 0),
   [Conf("V6ANYV4", FALSE, TRUE, FALSE, 1, 1) EXCEPT !.broker_list_file = FALSE]}
LiveRedirectMsgs == {<<B4>>, <<B4, B6>>}
LiveBrokerFiles == {NoFile, <<b4, b6>>}
LiveLastServers == {NullText, Text(b4, FALSE)}

\* One fatal status of each kind: before the server is reached, during the session,
\* and with the tunnel negotiated.  The loop treats the others like them.
AnyStatus == (AllStatuses \ FatalStatuses) \cup
  {"INVAL_GOGOC_ADDRESS", "AUTHENTICATION_FAILURE", "BAD_TUNNEL_PARAM"}
\* One status for each way the loop goes on after a session.
LoopStatuses ==
  {"FAIL_SOCKET_CONNECT", "EVNT_BROKER_REDIRECTION", "ERR_BROKER_REDIRECTION",
   "TSP_SERVER_TOO_BUSY", "TUN_LEASE_EXPIRED", "INVAL_TSP_VERSION", "KEEPALIVE_TIMEOUT",
   "SOCKET_IO", "AUTHENTICATION_FAILURE"}
=============================================================================

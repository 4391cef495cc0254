------------------------------ MODULE TspMain ------------------------------
(***************************************************************************)
(* The connection loop of the TSP client: tspMain() in tsp_client.c, with  *)
(* the part of tspHandleRedirect() that it depends on.                     *)
(*                                                                         *)
(* tspMain() tries the configured server, falls back to another transport, *)
(* to an older protocol version, to the brokers of a redirection list, and *)
(* waits between attempts.  One TSP session (tspSetupTunnel) is one step   *)
(* that returns any status the session can return.                         *)
(*                                                                         *)
(* broker_list is a C linked list: here the sequence of its elements, the  *)
(* NULL list being <<>>.  current is the pointer current_broker_in_list:   *)
(* an index in broker_list, Null, or Dangling once the list it points into *)
(* has been freed.                                                         *)
(***************************************************************************)
EXTENDS Integers, Sequences, GogocStatus

CONSTANTS
  Confs,          \* the configurations (tConf) to start from
  Addrs,          \* broker addresses
  V6Addrs,        \* the IPv6 literals among them
  Original,       \* the address of the 'server' directive
  NoAddr,         \* the NULL string, and an absent last-server line
  NoFile,         \* an absent broker-list file
  RedirectMsgs,   \* the lists redirection messages carry
  BrokerFiles,    \* what the broker-list file may hold at start
  LastServers,    \* what the last-server file may hold at start
  MaxList,        \* MAX_REDIRECT_BROKERS_IN_LIST
  UINT8,          \* the range of consec_retry: 2^8; less reaches the wrap sooner
  Statuses,       \* the statuses sessions return in this instance
  MallocMayFail   \* whether allocations may fail

TunnelModes == {"V6UDPV4", "V6ANYV4", "V6V4", "V4V6"}

ConfType ==
  [tunnel_mode : TunnelModes, boot_mode : BOOLEAN, auto_retry_connect : BOOLEAN,
   always_use_same_server : BOOLEAN, last_server_file : BOOLEAN,
   broker_list_file : BOOLEAN, retry_delay : Nat, retry_delay_max : Nat]

BrokerType == {"IPV4", "IPV6", "FQDN", "NONE"}
Broker == [address : Addrs, address_type : BrokerType]

\* The bounds are those GOGOCConfig validates.
ASSUME ConfsAssumption ==
  /\ Confs \subseteq ConfType
  /\ \A c \in Confs : c.retry_delay <= c.retry_delay_max /\ c.retry_delay_max <= 3600

ASSUME AddrsAssumption ==
  /\ V6Addrs \subseteq Addrs
  /\ Original \in Addrs
  /\ NoAddr \notin Addrs

ASSUME ListsAssumption ==
  /\ MaxList \in Nat \ {0}
  /\ RedirectMsgs \subseteq Seq(Broker)
  /\ BrokerFiles \subseteq Seq(Addrs) \cup {NoFile}
  /\ NoFile \notin Seq(Addrs)
  /\ LastServers \subseteq [address : Addrs \cup {NoAddr}, bracketed : BOOLEAN]
  /\ Statuses \subseteq AllStatuses
  /\ MallocMayFail \in BOOLEAN
  /\ UINT8 \in Nat \ {0, 1}

VARIABLES
  conf,                    \* tConf, fixed once read
  pc,                      \* where tspMain is
  server,                  \* c.server: an address, with or without brackets
  broker_list, current,    \* the list and the pointer into it
  trying_broker_list,
  trying_original_server,
  read_last_server,
  cycle, version_index, tsp_version_fallback, transport,
  effective_retry_delay,   \* uint16_t
  consec_retry,            \* uint8_t
  loop_delay,
  sleepTime,
  gStatusInfo,             \* what RetrieveStatusInfo() would answer
  stop,                    \* the stop flag behind tspCheckForStopOrWait()
  brokerFile, lastServer   \* the two files kept between runs

listVars  == <<server, broker_list, current, trying_broker_list, trying_original_server>>
xportVars == <<cycle, version_index, tsp_version_fallback, transport>>
retryVars == <<effective_retry_delay, consec_retry>>
fileVars  == <<brokerFile, lastServer>>
fixedVars == <<conf, read_last_server>>
vars == <<conf, pc, server, broker_list, current, trying_broker_list,
          trying_original_server, read_last_server, cycle, version_index,
          tsp_version_fallback, transport, effective_retry_delay, consec_retry,
          loop_delay, sleepTime, gStatusInfo, stop, brokerFile, lastServer>>

----------------------------------------------------------------------------
Null == 0
Dangling == -1

CURRENT == 0           \* CLIENT_VERSION_INDEX_CURRENT
V2_0_0 == 2            \* CLIENT_VERSION_INDEX_2_0_0
OLDEST == 3            \* CLIENT_VERSION_INDEX_OLDEST, version 1.0.1
CONSEC_RETRY_TO_DOUBLE_WAIT == 3
UINT16 == 65536

Text(a, b) == [address |-> a, bracketed |-> b]
NullText == Text(NoAddr, FALSE)

\* How the operator writes the server directive: IPv6 literals in brackets.
OriginalText == Text(Original, Original \in V6Addrs)

\* parse_addr_port(): an IPv6 literal without brackets is cut at its first colon.
Parseable(s) == s.address # NoAddr /\ (s.address \in V6Addrs => s.bracketed)

\* Freeing the list leaves every pointer into it dangling.
Freed(ptr) == IF ptr = Null THEN Null ELSE Dangling

\* FormatBrokerListAddr(): the outcomes, each the value returned and *ppAddr.
FormatBrokerListAddr(b) ==
  {[ret |-> 0, addr |-> Text(b.address, b.address_type = "IPV6")]} \cup
  (IF MallocMayFail
   THEN {[ret |-> IF b.address_type = "IPV6" THEN 1 ELSE 0, addr |-> NullText]}
   ELSE {})

Status(e, n) == [eStatus |-> e, nStatus |-> n]

QuickCycle ==
  \/ conf.tunnel_mode \in {"V6ANYV4", "V6V4"} /\ transport = "RUDP"
  \/ conf.tunnel_mode = "V4V6" /\ transport = "RUDP6"

\* The transport for a cycle; any other cycle number counts as 0.
Cycle == IF conf.tunnel_mode # "V6UDPV4" /\ cycle = 1 THEN 1 ELSE 0
TransportOf(cyc) ==
  IF conf.tunnel_mode = "V4V6" THEN IF cyc = 0 THEN "RUDP6" ELSE "TCP6"
                               ELSE IF cyc = 0 THEN "RUDP" ELSE "TCP"

\* The oldest protocol version that offers the tunnel mode.
OldestVersion ==
  IF conf.tunnel_mode \in {"V6UDPV4", "V4V6"} THEN V2_0_0 ELSE OLDEST

Capped(d) == IF d > conf.retry_delay_max THEN conf.retry_delay_max ELSE d

\* What tspReadBrokerListFromFile() makes of the lines of the file.
FileBrokers(lines) ==
  [i \in 1..Len(lines) |-> [address |-> lines[i], address_type |-> "NONE"]]

\* What tspSortBrokerList() may leave: the distances are measured, so any order.
Orders(n) ==
  {p \in [1..n -> 1..n] : \A i, j \in 1..n : p[i] = p[j] => i = j}

\* What tspWriteBrokerListToFile() may leave: fopen may fail, and so may any
\* fprintf after it.
WrittenFiles(list) ==
  {brokerFile} \cup {[i \in 1..k |-> list[i].address] : k \in 0..Len(list)}

----------------------------------------------------------------------------
\* Mutant: trying_broker_list is declared outside the loop and survives it.
InnerLoopInitKeepsTrying ==
  /\ version_index' = CURRENT /\ cycle' = 0 /\ tsp_version_fallback' = FALSE
  /\ current' = Null /\ UNCHANGED trying_broker_list
  /\ effective_retry_delay' = 0 /\ consec_retry' = 0

\* The locals of the do-while body.
InnerLoopInit ==
  /\ version_index' = CURRENT /\ cycle' = 0 /\ tsp_version_fallback' = FALSE
  /\ current' = Null /\ trying_broker_list' = FALSE
  /\ effective_retry_delay' = 0 /\ consec_retry' = 0

Init ==
  /\ conf \in Confs
  /\ pc = "start"
  /\ server = OriginalText
  /\ broker_list = <<>> /\ current = Null
  /\ trying_broker_list = FALSE /\ trying_original_server = FALSE
  /\ read_last_server = FALSE
  /\ cycle = 0 /\ version_index = CURRENT /\ tsp_version_fallback = FALSE
  /\ transport = "RUDP"
  /\ effective_retry_delay = 0 /\ consec_retry = 0
  /\ loop_delay = 0 /\ sleepTime = 0
  /\ gStatusInfo = Status("DISCONNECTEDIDLE", "NOERROR")
  /\ stop = FALSE
  /\ brokerFile \in BrokerFiles
  /\ lastServer \in LastServers
  /\ ~conf.last_server_file => lastServer = NullText

\* tspInitialize() or InitLogSystem() fails: nothing is tried.
StartFails ==
  /\ pc = "start"
  /\ pc' = "end"
  /\ gStatusInfo' = [gStatusInfo EXCEPT !.nStatus = "ERRCFGDATA"]
  /\ UNCHANGED <<listVars, xportVars, retryVars, fileVars, fixedVars, loop_delay,
                 sleepTime, stop>>

\* Choose between the last server and the configured one, then enter the loop.
Start ==
  LET useLast == /\ conf.always_use_same_server /\ conf.last_server_file
                 /\ lastServer # NullText
  IN
  /\ pc = "start"
  /\ server' = IF useLast THEN lastServer ELSE server
  /\ read_last_server' = useLast
  /\ trying_original_server' = ~useLast
  /\ loop_delay' = conf.retry_delay
  /\ InnerLoopInit
  /\ pc' = "top"
  /\ UNCHANGED <<conf, broker_list, transport, sleepTime, gStatusInfo, stop,
                 fileVars>>

\* connected = 0: leave the connection loop and sleep loop_delay seconds.
Disconnect == pc' = "outersleep" /\ sleepTime' = loop_delay

TopStop ==
  /\ pc = "top" /\ stop
  /\ pc' = "end"
  /\ UNCHANGED <<listVars, xportVars, retryVars, fileVars, fixedVars, loop_delay,
                 sleepTime, gStatusInfo, stop>>

\* The protocol versions that offer the tunnel mode are used up.
VersionsExhausted ==
  /\ pc = "top" /\ ~stop
  /\ tsp_version_fallback /\ version_index >= OldestVersion
  /\ cycle' = Cycle
  /\ Disconnect
  /\ UNCHANGED <<listVars, version_index, tsp_version_fallback, transport,
                 retryVars, fileVars, fixedVars, loop_delay, gStatusInfo, stop>>

\* Mutant: the stop flag is not read between two attempts.
AttemptUnstoppable ==
  /\ pc = "top"
  /\ ~(tsp_version_fallback /\ version_index >= OldestVersion)
  /\ cycle' = Cycle
  /\ transport' = TransportOf(Cycle)
  /\ version_index' = IF tsp_version_fallback THEN version_index + 1 ELSE CURRENT
  /\ tsp_version_fallback' = FALSE
  /\ gStatusInfo' = Status("CONNECTING", "NOERROR")
  /\ pc' = "setup"
  /\ UNCHANGED <<listVars, retryVars, fileVars, fixedVars, loop_delay, sleepTime, stop>>

\* Choose the transport and version, and begin a session.
Attempt ==
  /\ pc = "top" /\ ~stop
  /\ ~(tsp_version_fallback /\ version_index >= OldestVersion)
  /\ cycle' = Cycle
  /\ transport' = TransportOf(Cycle)
  /\ version_index' = IF tsp_version_fallback THEN version_index + 1 ELSE CURRENT
  /\ tsp_version_fallback' = FALSE
  /\ gStatusInfo' = Status("CONNECTING", "NOERROR")
  /\ pc' = "setup"
  /\ UNCHANGED <<listVars, retryVars, fileVars, fixedVars, loop_delay, sleepTime, stop>>

----------------------------------------------------------------------------
\* tspSetupTunnel() returns st; a negotiated tunnel has saved the server first.
SessionReturns(st) ==
  /\ pc = "setup"
  /\ st \in Statuses
  /\ Parseable(server) \/ st \in UnreachedStatuses
  /\ IF st \in TunnelStatuses /\ conf.last_server_file
     THEN lastServer' \in {lastServer, server, NullText}
     ELSE UNCHANGED lastServer

\* The status with which each session ending leaves the switch.
StatusAfter(st) ==
  CASE st = "SUCCESS"           -> Status("DISCONNECTEDIDLE", "NOERROR")
    [] st = "TUN_LEASE_EXPIRED" -> Status("DISCONNECTEDIDLE", st)
    [] st = "KEEPALIVE_TIMEOUT" /\ ~conf.auto_retry_connect
                                -> Status("DISCONNECTEDNORETRY", st)
    [] OTHER                    -> Status("DISCONNECTEDERROR", st)

\* SUCCESS, every fatal status, and a keepalive timeout without auto-retry.
SessionEnds ==
  /\ \E st \in FatalStatuses \cup {"SUCCESS", "KEEPALIVE_TIMEOUT"} :
       /\ st = "KEEPALIVE_TIMEOUT" => ~conf.auto_retry_connect
       /\ SessionReturns(st)
       /\ gStatusInfo' = StatusAfter(st)
       /\ consec_retry' = IF st = "KEEPALIVE_TIMEOUT" THEN 0 ELSE consec_retry
  /\ Disconnect
  /\ UNCHANGED <<listVars, xportVars, effective_retry_delay, brokerFile, fixedVars,
                 loop_delay, stop>>

\* The lease ended: reconnect at once.
LeaseExpired ==
  /\ SessionReturns("TUN_LEASE_EXPIRED")
  /\ gStatusInfo' = StatusAfter("TUN_LEASE_EXPIRED")
  /\ pc' = "top"
  /\ UNCHANGED <<listVars, xportVars, retryVars, brokerFile, fixedVars, loop_delay,
                 sleepTime, stop>>

\* Mutant: the fallback to the oldest version keeps the transport.
InvalidVersionSameTransport ==
  /\ SessionReturns("INVAL_TSP_VERSION")
  /\ gStatusInfo' = StatusAfter("INVAL_TSP_VERSION")
  /\ tsp_version_fallback' = TRUE
  /\ pc' = "top"
  /\ UNCHANGED <<listVars, cycle, version_index, transport, retryVars, brokerFile, fixedVars,
                 loop_delay, sleepTime, stop>>

\* The server does not speak this version: try the next one at once (after
\* TSP_VERSION_FALLBACK_DELAY over UDP), the oldest one over TCP only.
InvalidVersion ==
  /\ SessionReturns("INVAL_TSP_VERSION")
  /\ gStatusInfo' = StatusAfter("INVAL_TSP_VERSION")
  /\ tsp_version_fallback' = TRUE
  /\ cycle' = IF version_index = V2_0_0 THEN 1 ELSE cycle
  /\ pc' = "top"
  /\ UNCHANGED <<listVars, version_index, transport, retryVars, brokerFile, fixedVars,
                 loop_delay, sleepTime, stop>>

\* The tunnel or the session broke: reconnect, the first time without waiting.
ConnectionLost ==
  /\ \E st \in {"KEEPALIVE_TIMEOUT", "KEEPALIVE_ERROR", "TUNNEL_IO", "SOCKET_IO"} :
       /\ st = "KEEPALIVE_TIMEOUT" => conf.auto_retry_connect
       /\ SessionReturns(st)
       /\ gStatusInfo' = StatusAfter(st)
       /\ pc' = IF st = "SOCKET_IO" /\ QuickCycle THEN "top" ELSE "wait"
  /\ consec_retry' = 0
  /\ UNCHANGED <<listVars, xportVars, effective_retry_delay, brokerFile, fixedVars,
                 loop_delay, sleepTime, stop>>

\* effective_retry_delay = c.retry_delay; consec_retry = 1
ForceWait ==
  /\ effective_retry_delay' = conf.retry_delay % UINT16
  /\ consec_retry' = 1

ServerTooBusy ==
  /\ SessionReturns("TSP_SERVER_TOO_BUSY")
  /\ gStatusInfo' = StatusAfter("TSP_SERVER_TOO_BUSY")
  /\ ForceWait
  /\ pc' = "wait"
  /\ UNCHANGED <<listVars, xportVars, brokerFile, fixedVars, loop_delay, sleepTime,
                 stop>>

----------------------------------------------------------------------------
\* ERR_FAIL_SOCKET_CONNECT while booting: give up.
ConnectFailedBoot ==
  /\ SessionReturns("FAIL_SOCKET_CONNECT") /\ conf.boot_mode
  /\ Disconnect
  /\ UNCHANGED <<listVars, xportVars, retryVars, brokerFile, fixedVars, loop_delay,
                 gStatusInfo, stop>>

\* Another transport is left for this server.
ConnectFailedQuick ==
  /\ SessionReturns("FAIL_SOCKET_CONNECT") /\ ~conf.boot_mode
  /\ QuickCycle
  /\ cycle' = cycle + 1
  /\ pc' = "top"
  /\ UNCHANGED <<listVars, version_index, tsp_version_fallback, transport, retryVars,
                 brokerFile, fixedVars, loop_delay, sleepTime, gStatusInfo, stop>>

\* Always the same server: only the transport changes.
ConnectFailedLast ==
  /\ SessionReturns("FAIL_SOCKET_CONNECT") /\ ~conf.boot_mode
  /\ ~QuickCycle /\ read_last_server
  /\ cycle' = cycle + 1
  /\ pc' = "wait"
  /\ UNCHANGED <<listVars, version_index, tsp_version_fallback, transport, retryVars,
                 brokerFile, fixedVars, loop_delay, sleepTime, gStatusInfo, stop>>

\* What the remaining cases of ERR_FAIL_SOCKET_CONNECT share.
AllTransportsFailed ==
  /\ SessionReturns("FAIL_SOCKET_CONNECT") /\ ~conf.boot_mode
  /\ ~QuickCycle /\ ~read_last_server
  /\ ForceWait
  /\ UNCHANGED <<version_index, tsp_version_fallback, transport, brokerFile, fixedVars,
                 loop_delay, sleepTime, stop>>

ConnectError == Status("DISCONNECTEDERROR", "FAIL_SOCKET_CONNECT")

\* The original server failed and no broker list can be read.
OriginalFailedNoList ==
  /\ AllTransportsFailed
  /\ trying_original_server
  /\ \/ ~conf.broker_list_file
     \/ brokerFile \in {NoFile, <<>>}
     \/ brokerFile # NoFile /\ (Len(brokerFile) > MaxList \/ MallocMayFail)
  /\ broker_list' = <<>> /\ current' = Freed(current)
  /\ gStatusInfo' = ConnectError
  /\ cycle' = cycle + 1
  /\ pc' = "wait"
  /\ UNCHANGED <<server, trying_broker_list, trying_original_server>>

\* The original server failed: go through the list of the broker-list file.
\* FormatBrokerListAddr() returns an error for type IPV6 only, which no element
\* read from the file has.
OriginalFailedReadList ==
  /\ AllTransportsFailed
  /\ trying_original_server
  /\ conf.broker_list_file /\ brokerFile # NoFile
  /\ Len(brokerFile) \in 1..MaxList
  /\ trying_broker_list' = TRUE
  /\ trying_original_server' = FALSE
  /\ broker_list' = FileBrokers(brokerFile)
  /\ current' = 1
  /\ \E f \in FormatBrokerListAddr(broker_list'[1]) : server' = f.addr
  /\ gStatusInfo' = ConnectError
  /\ cycle' = 0
  /\ pc' = "top"

\* Mutant: the end of the list does not go back to the configured server's name.
ListEndServerKept ==
  /\ AllTransportsFailed
  /\ ~trying_original_server /\ trying_broker_list
  /\ broker_list # <<>> /\ current = Len(broker_list)
  /\ trying_original_server' = TRUE
  /\ cycle' = 0
  /\ gStatusInfo' = ConnectError
  /\ pc' = "wait"
  /\ UNCHANGED <<server, broker_list, current, trying_broker_list>>

\* Mutant: the end of the list does not set trying_original_server.
ListEndFlagForgotten ==
  /\ AllTransportsFailed
  /\ ~trying_original_server /\ trying_broker_list
  /\ broker_list # <<>> /\ current = Len(broker_list)
  /\ server' = OriginalText
  /\ cycle' = 0
  /\ gStatusInfo' = ConnectError
  /\ pc' = "wait"
  /\ UNCHANGED <<trying_original_server, broker_list, current, trying_broker_list>>

\* A broker of the list failed and it was the last one.
ListEnd ==
  /\ AllTransportsFailed
  /\ ~trying_original_server /\ trying_broker_list
  /\ broker_list # <<>> /\ current = Len(broker_list)
  /\ server' = OriginalText
  /\ trying_original_server' = TRUE
  /\ cycle' = 0
  /\ gStatusInfo' = ConnectError
  /\ pc' = "wait"
  /\ UNCHANGED <<broker_list, current, trying_broker_list>>

\* A broker of the list failed: try the next one at once.
ListNext ==
  /\ AllTransportsFailed
  /\ ~trying_original_server /\ trying_broker_list
  /\ current \in 1..(Len(broker_list) - 1)
  /\ \E f \in FormatBrokerListAddr(broker_list[current + 1]) :
       /\ server' = f.addr
       /\ IF f.ret = 0
          THEN /\ current' = current + 1
               /\ gStatusInfo' = ConnectError
               /\ cycle' = 0
               /\ pc' = "top"
               /\ UNCHANGED broker_list
          ELSE /\ broker_list' = <<>>
               /\ current' = Dangling
               /\ gStatusInfo' = Status("DISCONNECTEDERROR", "ERR_BROKER_REDIRECTION")
               /\ UNCHANGED cycle
               /\ pc' = "end"
  /\ UNCHANGED <<trying_broker_list, trying_original_server>>

\* Neither flag is set: wait and try the same server again.
NeitherFlag ==
  /\ AllTransportsFailed
  /\ ~trying_original_server /\ ~trying_broker_list
  /\ gStatusInfo' = ConnectError
  /\ pc' = "wait"
  /\ UNCHANGED <<listVars, cycle>>

----------------------------------------------------------------------------
\* tspHandleRedirect() succeeded: the new list replaces the old one.
Redirected ==
  /\ SessionReturns("EVNT_BROKER_REDIRECTION")
  /\ \E m \in RedirectMsgs : \E p \in Orders(Len(m)) :
       /\ Len(m) \in 1..MaxList
       /\ broker_list' = [i \in 1..Len(m) |-> m[p[i]]]
       /\ IF Len(m) > 1 /\ conf.broker_list_file
          THEN brokerFile' \in WrittenFiles(broker_list')
          ELSE UNCHANGED brokerFile
  /\ trying_broker_list' = TRUE
  /\ trying_original_server' = FALSE
  /\ current' = 1
  /\ cycle' = 0
  /\ \E f \in FormatBrokerListAddr(broker_list'[1]) :
       /\ server' = f.addr
       /\ IF f.ret = 0
          THEN /\ gStatusInfo' = Status("DISCONNECTEDIDLE", "EVNT_BROKER_REDIRECTION")
               /\ pc' = "top"
               /\ UNCHANGED sleepTime
          ELSE /\ gStatusInfo' = Status("DISCONNECTEDERROR", "ERR_BROKER_REDIRECTION")
               /\ Disconnect
  /\ UNCHANGED <<version_index, tsp_version_fallback, transport, retryVars, fixedVars,
                 loop_delay, stop>>

\* tspHandleRedirect() failed: the list is freed, here or before.
RedirectFailed ==
  /\ SessionReturns("ERR_BROKER_REDIRECTION")
  /\ gStatusInfo' = StatusAfter("ERR_BROKER_REDIRECTION")
  /\ broker_list' = <<>> /\ current' = Freed(current)
  /\ Disconnect
  /\ UNCHANGED <<server, trying_broker_list, trying_original_server, xportVars,
                 retryVars, brokerFile, fixedVars, loop_delay, stop>>

----------------------------------------------------------------------------
\* After a failure that does not retry at once: report it, then choose a delay.
WaitFirst ==
  /\ pc = "wait" /\ consec_retry = 0
  /\ consec_retry' = 1
  /\ effective_retry_delay' = conf.retry_delay % UINT16
  /\ pc' = "top"
  /\ UNCHANGED <<listVars, xportVars, fileVars, fixedVars, loop_delay, sleepTime,
                 gStatusInfo, stop>>

\* Mutant: consec_retry is counted past the width of a uint8_t.
WaitAgainWide ==
  /\ pc = "wait" /\ consec_retry > 0
  /\ effective_retry_delay' =
       IF consec_retry % CONSEC_RETRY_TO_DOUBLE_WAIT = 0
       THEN Capped((2 * effective_retry_delay) % UINT16)
       ELSE effective_retry_delay
  /\ consec_retry' = consec_retry + 1
  /\ sleepTime' = effective_retry_delay'
  /\ pc' = "sleep"
  /\ UNCHANGED <<listVars, xportVars, fileVars, fixedVars, loop_delay, gStatusInfo, stop>>

WaitAgain ==
  /\ pc = "wait" /\ consec_retry > 0
  /\ effective_retry_delay' =
       IF consec_retry % CONSEC_RETRY_TO_DOUBLE_WAIT = 0
       THEN Capped((2 * effective_retry_delay) % UINT16)
       ELSE effective_retry_delay
  /\ consec_retry' = (consec_retry + 1) % UINT8
  /\ sleepTime' = effective_retry_delay'
  /\ pc' = "sleep"
  /\ UNCHANGED <<listVars, xportVars, fileVars, fixedVars, loop_delay, gStatusInfo, stop>>

\* while( sleepTime-- > 0 && tspCheckForStopOrWait(1000) == 0 );
Tick ==
  /\ pc \in {"sleep", "outersleep"}
  /\ sleepTime > 0 /\ ~stop
  /\ sleepTime' = sleepTime - 1
  /\ UNCHANGED <<pc, listVars, xportVars, retryVars, fileVars, fixedVars, loop_delay,
                 gStatusInfo, stop>>

SleepDone ==
  /\ pc = "sleep" /\ (sleepTime = 0 \/ stop)
  /\ pc' = "top"
  /\ UNCHANGED <<listVars, xportVars, retryVars, fileVars, fixedVars, loop_delay,
                 sleepTime, gStatusInfo, stop>>

\* The outer loop: start over with the locals of its body, except when booting.
OuterLoop ==
  /\ pc = "outersleep" /\ (sleepTime = 0 \/ stop)
  /\ loop_delay' = Capped(2 * loop_delay)
  /\ IF conf.boot_mode
     THEN /\ pc' = "end"
          /\ UNCHANGED <<current, trying_broker_list, cycle, version_index,
                         tsp_version_fallback, retryVars>>
     ELSE /\ pc' = "top"
          /\ InnerLoopInit
  /\ UNCHANGED <<server, broker_list, trying_original_server, transport, fileVars,
                 fixedVars, sleepTime, gStatusInfo, stop>>

\* endtspc: report, free the list, return.
End ==
  /\ pc = "end"
  /\ broker_list' = <<>> /\ current' = Freed(current)
  /\ pc' = "done"
  /\ UNCHANGED <<server, trying_broker_list, trying_original_server, xportVars,
                 retryVars, fileVars, fixedVars, loop_delay, sleepTime, gStatusInfo,
                 stop>>

\* The user stops the client: a signal, or the service's stop button.
RequestStop ==
  /\ pc # "done" /\ ~stop
  /\ stop' = TRUE
  /\ UNCHANGED <<pc, listVars, xportVars, retryVars, fileVars, fixedVars, loop_delay,
                 sleepTime, gStatusInfo>>

\* main() is called again; only the files survive.
Restart ==
  /\ pc = "done"
  /\ pc' = "start"
  /\ server' = OriginalText
  /\ broker_list' = <<>> /\ InnerLoopInit
  /\ trying_original_server' = FALSE /\ read_last_server' = FALSE
  /\ transport' = "RUDP"
  /\ loop_delay' = 0 /\ sleepTime' = 0
  /\ gStatusInfo' = Status("DISCONNECTEDIDLE", "NOERROR")
  /\ stop' = FALSE
  /\ UNCHANGED <<conf, fileVars>>

SessionStep ==
  \/ SessionEnds \/ LeaseExpired \/ InvalidVersion \/ ConnectionLost
  \/ ServerTooBusy \/ ConnectFailedBoot \/ ConnectFailedQuick \/ ConnectFailedLast
  \/ OriginalFailedNoList \/ OriginalFailedReadList \/ ListEnd \/ ListNext
  \/ NeitherFlag \/ Redirected \/ RedirectFailed

LoopStep ==
  \/ StartFails \/ Start \/ TopStop \/ VersionsExhausted \/ Attempt
  \/ WaitFirst \/ WaitAgain \/ Tick \/ SleepDone \/ OuterLoop \/ End

Next == LoopStep \/ SessionStep \/ RequestStop \/ Restart

Spec == Init /\ [][Next]_vars

\* Fairness: tspMain never blocks between two sessions, and every session ends.  Over
\* RUDP its exchanges have time limits (Rudp), over TCP the server must answer or close
\* the connection, for recv() has none; and the tunnel loop ends on a stop.
FairSpec == Spec /\ WF_vars(LoopStep) /\ WF_vars(SessionStep)

----------------------------------------------------------------------------
PCs == {"start", "top", "setup", "wait", "sleep", "outersleep", "end", "done"}
Texts == [address : Addrs \cup {NoAddr}, bracketed : BOOLEAN]

\* Types of the loop's state; consec_retry and effective_retry_delay keep the
\* widths of uint8_t and uint16_t.
TypeOK ==
  /\ conf \in Confs
  /\ pc \in PCs
  /\ server \in Texts
  /\ broker_list \in Seq(Broker)
  /\ current \in Int
  /\ trying_broker_list \in BOOLEAN
  /\ trying_original_server \in BOOLEAN
  /\ read_last_server \in BOOLEAN
  /\ cycle \in Nat
  /\ version_index \in CURRENT..OLDEST
  /\ tsp_version_fallback \in BOOLEAN
  /\ transport \in {"RUDP", "TCP", "RUDP6", "TCP6"}
  /\ effective_retry_delay \in Nat /\ effective_retry_delay < UINT16
  /\ consec_retry \in Nat /\ consec_retry < UINT8
  /\ loop_delay \in Nat
  /\ sleepTime \in Nat
  /\ stop \in BOOLEAN
  /\ brokerFile \in Seq(Addrs) \cup {NoFile}
  /\ lastServer \in Texts

\* Where tspMain may still read current_broker_in_list.
InLoop == pc \in {"top", "setup", "wait", "sleep"}

\* While the client goes through a broker list, current_broker_in_list points into
\* the live list, never to a freed element, and c.server is that element's address
\* as FormatBrokerListAddr() writes it (or NULL when an allocation failed).
\* tspHandleRedirect() frees the list behind the pointer's back.
ListCursorValid ==
  InLoop /\ trying_broker_list /\ ~trying_original_server =>
    /\ current \in 1..Len(broker_list)
    /\ \E f \in FormatBrokerListAddr(broker_list[current]) : server = f.addr

\* trying_original_server tells the truth: when it is set, c.server is the server
\* of the configuration file, whatever list was gone through before.
OriginalFlagTruthful == trying_original_server => server = OriginalText

\* No wait exceeds retry_delay_max ("It MUST NOT exceed configured
\* retry_delay_max"), neither in the connection loop nor between two runs of it,
\* and the uint16_t delay never wraps.
DelayBounded ==
  /\ effective_retry_delay <= conf.retry_delay_max
  /\ loop_delay <= conf.retry_delay_max
  /\ sleepTime <= conf.retry_delay_max

\* Version 1.0.1 of the protocol is only ever spoken over TCP, and only for tunnel
\* modes it offers: the fallback from 2.0.0 has to have moved the transport cycle.
OldestVersionOverTcp ==
  pc = "setup" /\ version_index = OLDEST =>
    transport = "TCP" /\ conf.tunnel_mode \in {"V6ANYV4", "V6V4"}

\* Whatever the sessions return, a stop request ends tspMain.
StopEnds == stop ~> pc = "done"

ConnectFailed ==
  \/ ConnectFailedBoot \/ ConnectFailedQuick \/ ConnectFailedLast
  \/ OriginalFailedNoList \/ OriginalFailedReadList \/ ListEnd \/ ListNext
  \/ NeitherFlag

\* A session that ends with a fatal status, or with the last protocol version refused,
\* while the client is at a broker of a list: the outer loop forgets the list and keeps
\* the broker (see ConnectFailureMovesOn).
Stranded == ~trying_original_server /\ ~trying_broker_list /\ ~read_last_server

\* If from some time on no server can be connected to, the configured server is
\* tried again and again: a list is gone through to its end and never left half-way.
\* The exceptions are the server of the last session, which always_use_same_server asks
\* for, and a broker the client is stranded at.
OriginalRetried ==
  <>[][SessionStep => ConnectFailed]_vars =>
    \/ []<>(stop \/ pc = "done" \/ (pc = "setup" /\ trying_original_server))
    \/ <>[](read_last_server \/ Stranded)

\* "We'll try a different transport to the same server. If that fails too, we'll go
\* through the broker list (if any)": after a failure to connect with a broker list
\* at hand, the transport cycle or the server changes.
ConnectFailureMovesOn ==
  [][ConnectFailed /\ ~conf.boot_mode /\ broker_list # <<>> =>
       cycle' # cycle \/ server' # server]_vars
=============================================================================

---------------------------- MODULE TspSession ----------------------------
(***************************************************************************)
(* One TSP session after another: tspSetupTunnel() of tsp_client.c with    *)
(* tspGetCapabilities(), tspAuthenticate(), tspUpdateSourceAddr(),         *)
(* tspTunnelNegotiation() and tspStartLocal() of the Android build.        *)
(*                                                                         *)
(* The transport is a RequestReply: a call of nt->netsendrecv() is a Call  *)
(* and a Return, an error an Abort.  Over TCP nt->netsend() only writes;   *)
(* over RUDP it is an exchange whose answer is thrown away.  Over TCP the  *)
(* server may also close the connection, which recv() reports as an answer *)
(* of no bytes and which the code mostly does not tell from an answer.     *)
(*                                                                         *)
(* The build is Android's: without V4V6_SUPPORT, with OpenSSL (Android.mk   *)
(* allows both; a build without it is one where nobody has PASSDSS).       *)
(*                                                                         *)
(* conf->client_v4 is clientAddr.  Messages are abstracted to what the     *)
(* client makes of them, digests and signatures to right or wrong.  srv is *)
(* what the server at the other end did in this session, which the client  *)
(* cannot see.                                                             *)
(***************************************************************************)
EXTENDS Naturals, Sequences, GogocStatus

CONSTANTS
  Confs,        \* the configurations to start from
  Servers,      \* the values of conf->server
  Malformed,    \* those parse_addr_port() rejects
  NoAddr,       \* an absent last-server line
  Addrs,        \* the addresses this host may have
  AutoAddr,     \* the address 'auto' of the configuration
  Keys,         \* DSA keys of servers
  Caps,         \* the capabilities servers announce
  Keyfiles,     \* what the key file may hold at start
  MaxSessions   \* bound of the model: sessions

TunnelModes == {"V6V4", "V6UDPV4", "V6ANYV4"}
Methods == {"PASSDSS", "DIGEST", "PLAIN", "ANONYMOUS"}

ConfType == [tunnel_mode : TunnelModes, auth_method : Methods \cup {"any"},
             client : Addrs \cup {AutoAddr}, last_server_file : BOOLEAN]
Types == {"V6V4", "V6UDPV4", "V4V6", "other", "unreadable"}
Capability == [tunnels : SUBSET {"V6V4", "V6UDPV4"}, auths : SUBSET Methods]
ServerSide == [heard : BOOLEAN, authenticated : BOOLEAN, offered : BOOLEAN, acked : BOOLEAN]

\* A line of the key file.  Broken is a key cut short.
None == "none"
Broken == "broken"
Line == [host : Servers, key : Keys \cup {Broken}]

\* What stands after the last newline, which freadline() does not see: nothing, less than
\* a host and the beginning of a key, or a line that lacks its newline.
Ended == [host |-> None, key |-> None]
Fragment == [host |-> None, key |-> Broken]
Keyfile == [lines : Seq(Line), torn : Line \cup {Ended, Fragment}]

\* No host has two lines.
OneLineEach(file) ==
  /\ \A i, j \in 1..Len(file.lines) : file.lines[i].host = file.lines[j].host => i = j
  /\ \A i \in 1..Len(file.lines) : file.lines[i].host # file.torn.host

ASSUME SessionAssumption ==
  /\ Confs \subseteq ConfType
  /\ Caps \subseteq Capability
  /\ Keyfiles \subseteq Keyfile
  /\ \A file \in Keyfiles : OneLineEach(file)
  /\ None \notin Servers /\ Broken \notin Keys
  /\ Malformed \subseteq Servers
  /\ AutoAddr \notin Addrs /\ "none" \notin Addrs
  /\ NoAddr \notin Servers
  /\ MaxSessions \in Nat

VARIABLES
  conf,                        \* what the sessions read of tConf
  clientAddr,                  \* conf->client_v4, which they write
  keyfile, lastServer,         \* the two files sessions write
  spoiled,                     \* whether this session's line of the first was cut or joined
  pc,                          \* where tspSetupTunnel() is
  server, transport, version,  \* its arguments
  sessions,                    \* how many there were
  phase, call, result,         \* the connection, see RequestReply
  sockAddr,                    \* its local address
  cap, mech, step, key,        \* capabilities, authentication method and progress
  tunnel,                      \* the type of the tunnel offered
  closes,                      \* calls of nt->netclose() in this session
  status,                      \* what tspSetupTunnel() returns
  srv                          \* what the server did in this session

conn == <<phase, call, result>>
args == <<conf, server, transport, version, sessions>>
auth == <<cap, mech, step, key>>
pins == <<keyfile, spoiled>>
vars == <<conf, clientAddr, keyfile, lastServer, spoiled, pc, server, transport, version,
          sessions, phase, call, result, sockAddr, cap, mech, step, key, tunnel,
          closes, status, srv>>

RR == INSTANCE RequestReply

----------------------------------------------------------------------------
Udp == transport = "RUDP"
TransportsOf(mode) == IF mode = "V6UDPV4" THEN {"RUDP"} ELSE {"RUDP", "TCP"}

\* The bits of conf->tunnel_mode.
TunnelsOf(mode) == IF mode = "V6ANYV4" THEN {"V6V4", "V6UDPV4"} ELSE {mode}

\* The mechanisms of conf->auth_method; "any" leaves out ANONYMOUS.
Mechanism(method) == IF method = "any" THEN Methods \ {"ANONYMOUS"} ELSE {method}

\* The order in which tspAuthenticate() tries them: the most secure first.
Order == [m \in Methods |->
  CASE m = "PASSDSS" -> 1 [] m = "DIGEST" -> 2 [] m = "PLAIN" -> 3 [] OTHER -> 4]
MostSecure(S) == CHOOSE m \in S : \A n \in S : Order[m] <= Order[n]

\* The messages of a method, the last of which the server answers with its verdict.
Steps == [m \in Methods |->
  CASE m = "PASSDSS" -> 3 [] m = "DIGEST" -> 3 [] m = "PLAIN" -> 2 [] OTHER -> 1]

\* The first message of PLAIN and PASSDSS goes out by nt->netsend().
Netsend == mech \in {"PLAIN", "PASSDSS"} /\ step = 1

Redirections == {"EVNT_BROKER_REDIRECTION", "ERR_BROKER_REDIRECTION"}

\* The statuses for an answer that does not authenticate, at each step.
Verdicts(m) == Redirections \cup {"TSP_GENERIC_ERROR"} \cup
  (IF m = "ANONYMOUS" THEN {} ELSE {"AUTHENTICATION_FAILURE"})
Refusals ==
  IF step = Steps[mech] THEN Verdicts(mech)
  ELSE {"AUTHENTICATION_FAILURE"} \cup (IF mech = "DIGEST" THEN Redirections ELSE {})

\* is_dsakey_in_keyfile(): the last line of the host decides.
Known(lines, h) == \E i \in 1..Len(lines) : lines[i].host = h
Matches(lines, h, k) ==
  \E i \in 1..Len(lines) :
    /\ lines[i] = [host |-> h, key |-> k]
    /\ \A j \in i + 1..Len(lines) : lines[j].host # h

\* The session fails: every such path closes the socket.
Fail(st) == pc' = "close" /\ status' = st

\* A NULL pointer is followed, or exit() called: the process ends.
Die == pc' = "dead" /\ status' = None

\* A call that fails, on a connection that may have been closed before.
Lose == IF phase = "failed" THEN UNCHANGED conn ELSE RR!Abort
Ask(next) ==
  /\ pc' = next
  /\ IF phase = "failed" THEN UNCHANGED conn ELSE RR!Call
Hear == RR!Return /\ srv' = [srv EXCEPT !.heard = TRUE]

----------------------------------------------------------------------------
Init ==
  /\ conf \in Confs
  /\ clientAddr = conf.client
  /\ keyfile \in Keyfiles /\ spoiled = FALSE
  /\ lastServer \in Servers \cup {NoAddr}
  /\ pc = "idle"
  /\ server \in Servers
  /\ transport \in TransportsOf(conf.tunnel_mode) /\ version = "current"
  /\ sessions = 0
  /\ RR!Init
  /\ sockAddr = None
  /\ cap = [tunnels |-> {}, auths |-> {}] /\ mech = None /\ step = 0 /\ key = None
  /\ tunnel = None /\ closes = 0 /\ status = None
  /\ srv = [heard |-> FALSE, authenticated |-> FALSE, offered |-> FALSE, acked |-> FALSE]

\* Mutant: the count of closes goes on from the session before.
BeginUncleared ==
  /\ pc = "idle" /\ sessions < MaxSessions
  /\ server' \in Servers
  /\ transport' \in TransportsOf(conf.tunnel_mode)
  /\ version' \in {"current", "oldest"}
  /\ version' = "oldest" =>
       transport' = "TCP" /\ conf.tunnel_mode \in {"V6V4", "V6ANYV4"}
  /\ sessions' = sessions + 1
  /\ pc' = "connect"
  /\ sockAddr' = None
  /\ cap' = [tunnels |-> {}, auths |-> {}] /\ mech' = None /\ step' = 0 /\ key' = None
  /\ tunnel' = None /\ status' = None
  /\ srv' = [heard |-> FALSE, authenticated |-> FALSE, offered |-> FALSE, acked |-> FALSE]
  /\ spoiled' = FALSE
  /\ UNCHANGED <<conf, clientAddr, keyfile, lastServer, conn, closes>>

\* tspMain() calls tspSetupTunnel(); it speaks the oldest version only over TCP.
Begin ==
  /\ pc = "idle" /\ sessions < MaxSessions
  /\ server' \in Servers
  /\ transport' \in TransportsOf(conf.tunnel_mode)
  /\ version' \in {"current", "oldest"}
  /\ version' = "oldest" =>
       transport' = "TCP" /\ conf.tunnel_mode \in {"V6V4", "V6ANYV4"}
  /\ sessions' = sessions + 1
  /\ pc' = "connect"
  /\ sockAddr' = None
  /\ cap' = [tunnels |-> {}, auths |-> {}] /\ mech' = None /\ step' = 0 /\ key' = None
  /\ tunnel' = None /\ closes' = 0 /\ status' = None
  /\ srv' = [heard |-> FALSE, authenticated |-> FALSE, offered |-> FALSE, acked |-> FALSE]
  /\ spoiled' = FALSE
  /\ UNCHANGED <<conf, clientAddr, keyfile, lastServer, conn>>

\* tspConnect() gives a socket with an address of this host.
Connect ==
  /\ pc = "connect" /\ server \notin Malformed
  /\ RR!Open
  /\ sockAddr' \in Addrs
  /\ pc' = "capabilities"
  /\ UNCHANGED <<args, auth, clientAddr, pins, lastServer, tunnel, closes, status, srv>>

\* No socket was opened, and none is closed.
ConnectFails ==
  /\ pc = "connect"
  /\ status' \in IF server \in Malformed THEN {"INVAL_GOGOC_ADDRESS"}
                 ELSE {"FAIL_RESOLV_ADDR", "FAIL_SOCKET_CONNECT"}
  /\ pc' = "idle"
  /\ UNCHANGED <<args, auth, clientAddr, pins, lastServer, conn, sockAddr, tunnel,
                 closes, srv>>

----------------------------------------------------------------------------
\* The steps of a session that touch neither the connection's address nor the files.
Frame == UNCHANGED <<args, clientAddr, pins, lastServer, sockAddr, closes>>

SendVersion ==
  /\ pc = "capabilities"
  /\ Ask("capabilitiesWait")
  /\ Frame /\ UNCHANGED <<auth, tunnel, status, srv>>

\* Mutant: the socket is left open when the server does not offer the tunnel mode.
CapabilitiesLeftOpen ==
  /\ pc = "capabilitiesWait"
  /\ Hear
  /\ cap' \in Caps
  /\ IF TunnelsOf(conf.tunnel_mode) \cap cap'.tunnels = {}
     THEN pc' = "idle" /\ status' = "TUNMODE_NOT_AVAILABLE"
     ELSE pc' = "authenticate" /\ UNCHANGED status
  /\ Frame /\ UNCHANGED <<mech, step, key, tunnel>>

\* The server announces its capabilities.
Capabilities ==
  /\ pc = "capabilitiesWait"
  /\ Hear
  /\ cap' \in Caps
  /\ IF TunnelsOf(conf.tunnel_mode) \cap cap'.tunnels = {}
     THEN Fail("TUNMODE_NOT_AVAILABLE")
     ELSE pc' = "authenticate" /\ UNCHANGED status
  /\ Frame /\ UNCHANGED <<mech, step, key, tunnel>>

CapabilitiesRefused ==
  /\ pc = "capabilitiesWait"
  /\ Hear
  /\ \E st \in Redirections \cup {"TSP_SERVER_TOO_BUSY", "INVAL_TSP_VERSION",
                                  "TSP_GENERIC_ERROR"} : Fail(st)
  /\ Frame /\ UNCHANGED <<auth, tunnel>>

\* The empty answer of a closed connection has no status the code knows.
CapabilitiesClosed ==
  /\ pc = "capabilitiesWait" /\ ~Udp
  /\ Lose
  /\ Fail("TSP_GENERIC_ERROR")
  /\ Frame /\ UNCHANGED <<auth, tunnel, srv>>

\* Over RUDP no answer means that nobody listens.
CapabilitiesFail ==
  /\ pc = "capabilitiesWait"
  /\ Lose
  /\ Fail(IF Udp THEN "FAIL_SOCKET_CONNECT" ELSE "SOCKET_IO")
  /\ Frame /\ UNCHANGED <<auth, tunnel, srv>>

----------------------------------------------------------------------------
\* The most secure method that the configuration allows and the server has.
tspAuthenticate ==
  LET common == Mechanism(conf.auth_method) \cap cap.auths IN
  /\ pc = "authenticate"
  /\ IF common = {}
     THEN Fail("NO_COMMON_AUTHENTICATION") /\ UNCHANGED <<mech, step>>
     ELSE /\ mech' = MostSecure(common) /\ step' = 1
          /\ pc' = "auth" /\ UNCHANGED status
  /\ Frame /\ UNCHANGED <<cap, key, conn, tunnel, srv>>

\* Over TCP the next message follows what nt->netsend() has written.
AuthSend ==
  /\ pc = "auth"
  /\ IF Netsend /\ ~Udp
     THEN step' = 2 /\ UNCHANGED <<pc, conn>>
     ELSE Ask("authWait") /\ UNCHANGED step
  /\ Frame /\ UNCHANGED <<cap, mech, key, tunnel, status, srv>>

\* An answer before the last: thrown away (netsend), a challenge, or the server's key.
AuthGoesOn ==
  /\ pc = "authWait" /\ step < Steps[mech]
  /\ Hear
  /\ IF mech = "PASSDSS" /\ step = 2
     THEN key' \in Keys /\ pc' = "key" /\ UNCHANGED step
     ELSE step' = step + 1 /\ pc' = "auth" /\ UNCHANGED key
  /\ Frame /\ UNCHANGED <<cap, mech, tunnel, status>>

AuthAccepted ==
  /\ pc = "authWait" /\ step = Steps[mech]
  /\ RR!Return /\ srv' = [srv EXCEPT !.heard = TRUE, !.authenticated = TRUE]
  /\ pc' = "address"
  /\ Frame /\ UNCHANGED <<auth, tunnel, status>>

AuthRejected ==
  /\ pc = "authWait" /\ ~Netsend
  /\ Hear
  /\ \E st \in Refusals : Fail(st)
  /\ Frame /\ UNCHANGED <<auth, tunnel>>

\* An answer without the fields of a challenge or a key.
AuthUnreadable ==
  /\ pc = "authWait" /\ ~Netsend /\ step < Steps[mech]
  /\ Hear
  /\ Die
  /\ Frame /\ UNCHANGED <<auth, tunnel>>

\* The server closes the connection.  ANONYMOUS and PLAIN then read a status from an
\* uninitialised buffer; DIGEST and PASSDSS look for fields that are not there.
AuthClosed ==
  /\ pc = "authWait" /\ ~Udp
  /\ Lose
  /\ IF mech \in {"ANONYMOUS", "PLAIN"}
     THEN \/ pc' = "address" /\ UNCHANGED status
          \/ \E st \in Refusals : Fail(st)
     ELSE IF step < Steps[mech] THEN Die ELSE Fail("TSP_GENERIC_ERROR")
  /\ Frame /\ UNCHANGED <<auth, tunnel, srv>>

\* Mutant: a failure to authenticate over RUDP is taken for a missing listener too.
AuthFailsUnreached ==
  /\ pc = "authWait" \/ (pc = "auth" /\ Netsend /\ ~Udp)
  /\ Lose
  /\ Fail(IF Udp THEN "FAIL_SOCKET_CONNECT" ELSE "SOCKET_IO")
  /\ Frame /\ UNCHANGED <<auth, tunnel, srv>>

AuthFails ==
  /\ pc = "authWait" \/ (pc = "auth" /\ Netsend /\ ~Udp)
  /\ Lose
  /\ Fail("SOCKET_IO")
  /\ Frame /\ UNCHANGED <<auth, tunnel, srv>>

\* An allocation fails, or for PASSDSS the generation of a key.
AuthFailsLocally ==
  /\ \/ pc = "auth" /\ mech = "DIGEST" /\ step > 1
     \/ pc = "auth" /\ mech = "PASSDSS" /\ step = 1
     \/ pc = "key"
  /\ \/ Fail("MEMORY_STARVATION")
     \/ mech = "PASSDSS" /\ Fail("AUTHENTICATION_FAILURE")
  /\ Frame /\ UNCHANGED <<auth, conn, tunnel, srv>>

----------------------------------------------------------------------------
\* fprintf() of a line.  After a torn line both are one, which is read as the first.
WithLine(file, l) ==
  [lines |-> IF file.torn = Ended THEN Append(file.lines, l)
             ELSE IF file.torn = Fragment THEN file.lines
             ELSE Append(file.lines, file.torn),
   torn |-> Ended]

\* What a full disk leaves of it: part of the line, if the one before was complete.
CutLine(file, l) ==
  {file} \cup
  (IF file.torn = Ended
   THEN {[file EXCEPT !.torn = t] : t \in {Fragment, [l EXCEPT !.key = Broken], l}}
   ELSE {})

\* What add_dsakey_to_keyfile() leaves and returns for a key of its own line's host.
Accepted(file, cut) == [ret |-> TRUE, file |-> file, cut |-> cut]
Rejected == [ret |-> FALSE, file |-> keyfile, cut |-> FALSE]
Appended ==
  LET l == [host |-> server, key |-> key] IN
  {Accepted(WithLine(keyfile, l), keyfile.torn # Ended)} \cup
    {Accepted(file, TRUE) : file \in CutLine(keyfile, l)}

\* Mutant: a key that does not match is added like a new one.
AddedKeyAnyway ==
  IF Matches(keyfile.lines, server, key) THEN {Accepted(keyfile, FALSE)}
  ELSE {Rejected} \cup Appended

\* The outcomes of add_dsakey_to_keyfile(): what it returns, and the file.  A new key
\* is asked about unless no_questions is set, and appended if the file opens: either
\* may fail, so that the setting makes no difference here.  Neither fprintf() nor
\* fclose() is looked at.  A key file that can be written can be read.
AddedKey ==
  CASE Matches(keyfile.lines, server, key) -> {Accepted(keyfile, FALSE)}
    [] Known(keyfile.lines, server) /\ ~Matches(keyfile.lines, server, key) -> {Rejected}
    [] OTHER -> {Rejected} \cup Appended

\* buffer_get_bignum() finds less than a number in the line of the host and calls exit().
KeyUnreadable ==
  /\ pc = "key"
  /\ \E i \in 1..Len(keyfile.lines) : keyfile.lines[i] = [host |-> server, key |-> Broken]
  /\ Die
  /\ Frame /\ UNCHANGED <<auth, conn, tunnel, srv>>

\* The key is looked up and added before the signature is verified.
CheckKey ==
  /\ pc = "key"
  /\ \E added \in AddedKey :
       /\ keyfile' = added.file /\ spoiled' = added.cut
       /\ \/ added.ret /\ step' = 3 /\ pc' = "auth" /\ UNCHANGED status
          \/ Fail("AUTHENTICATION_FAILURE") /\ UNCHANGED step
  /\ UNCHANGED <<args, clientAddr, lastServer, conn, sockAddr, cap, mech, key, tunnel,
                 closes, srv>>

----------------------------------------------------------------------------
\* 'auto' is replaced in the configuration by the address of this session's socket.
tspUpdateSourceAddr ==
  /\ pc = "address"
  /\ \/ clientAddr # AutoAddr /\ pc' = "negotiate" /\ UNCHANGED <<clientAddr, status>>
     \/ clientAddr = AutoAddr /\ clientAddr' = sockAddr /\ pc' = "negotiate" /\ UNCHANGED status
     \/ clientAddr = AutoAddr /\ Fail("INVAL_CLIENT_ADDR") /\ UNCHANGED clientAddr
  /\ UNCHANGED <<args, auth, pins, lastServer, conn, sockAddr, tunnel, closes, srv>>

SendRequest ==
  /\ pc = "negotiate"
  /\ \/ Ask("negotiateWait") /\ UNCHANGED status
     \/ Fail("MEMORY_STARVATION") /\ UNCHANGED conn
  /\ Frame /\ UNCHANGED <<auth, tunnel, srv>>

\* The server offers a tunnel of any type: nothing compares it with what was asked for
\* or announced.  What XML the client cannot parse leaves no type.
Negotiated ==
  /\ pc = "negotiateWait"
  /\ RR!Return /\ srv' = [srv EXCEPT !.heard = TRUE, !.offered = TRUE]
  /\ tunnel' \in Types
  /\ pc' = IF version = "oldest" THEN "save" ELSE "acknowledge"
  /\ Frame /\ UNCHANGED <<auth, status>>

NegotiationRefused ==
  /\ pc = "negotiateWait"
  /\ Hear
  /\ \E st \in Redirections \cup {"TSP_GENERIC_ERROR", "SOCKET_IO"} : Fail(st)
  /\ Frame /\ UNCHANGED <<auth, tunnel>>

\* The stream ends before Content-length bytes: PROTOCOL_ERROR is 1, not an error to
\* the caller, who finds no status in the part that came.
AnswerCut ==
  /\ pc = "negotiateWait" /\ ~Udp
  /\ phase # "failed"
  /\ Lose
  /\ srv' = [srv EXCEPT !.heard = TRUE]
  /\ Fail("TSP_GENERIC_ERROR")
  /\ Frame /\ UNCHANGED <<auth, tunnel>>

NegotiationFails ==
  /\ pc = "negotiateWait"
  /\ Lose
  /\ Fail("SOCKET_IO")
  /\ Frame /\ UNCHANGED <<auth, tunnel, srv>>

Acknowledge ==
  /\ pc = "acknowledge"
  /\ IF Udp THEN Ask("acknowledgeWait") ELSE pc' = "save" /\ UNCHANGED conn
  /\ Frame /\ UNCHANGED <<auth, tunnel, status, srv>>

Acknowledged ==
  /\ pc = "acknowledgeWait"
  /\ RR!Return /\ srv' = [srv EXCEPT !.acked = TRUE]
  /\ pc' = "save"
  /\ Frame /\ UNCHANGED <<auth, tunnel, status>>

\* Mutant: the result of the acknowledgement is not looked at.
AcknowledgeFailsUnseen ==
  /\ pc = "acknowledgeWait" \/ (pc = "acknowledge" /\ ~Udp)
  /\ Lose
  /\ pc' = "save" /\ UNCHANGED status
  /\ Frame /\ UNCHANGED <<auth, tunnel, srv>>

AcknowledgeFails ==
  /\ pc = "acknowledgeWait" \/ (pc = "acknowledge" /\ ~Udp)
  /\ Lose
  /\ Fail("SOCKET_IO")
  /\ Frame /\ UNCHANGED <<auth, tunnel, srv>>

----------------------------------------------------------------------------
\* fopen() may fail and leave the file, fprintf() may leave it empty.
SaveLastServer ==
  /\ pc = "save"
  /\ lastServer' \in IF conf.last_server_file THEN {lastServer, server, NoAddr}
                     ELSE {lastServer}
  /\ pc' = "start"
  /\ UNCHANGED <<args, auth, clientAddr, pins, conn, sockAddr, tunnel, closes, status,
                 srv>>

\* tspStartLocal(): no IPv6, no tunnel device or V4V6, which the platform does not have;
\* or the tunnel loop begins.  A type it does not know is no error: there is no loop for
\* it, and the session ends as one whose tunnel was stopped.
StartLocal ==
  /\ pc = "start"
  /\ \/ Fail("INTERFACE_SETUP_FAILED")
     \/ tunnel = "unreadable" /\ Die
     \/ tunnel = "other" /\ Fail("SUCCESS")
     \/ tunnel \in {"V6UDPV4", "V6V4"} /\ pc' = "tunnel" /\ UNCHANGED status
  /\ Frame /\ UNCHANGED <<auth, conn, tunnel, srv>>

\* TunMainLoop() returns; tspPerformTunnelLoop() without a keepalive only on a stop.
TunnelEnds ==
  /\ pc = "tunnel"
  /\ status' \in IF tunnel = "V6UDPV4"
                 THEN {"SUCCESS", "TUNNEL_IO", "INTERFACE_SETUP_FAILED"} ELSE {"SUCCESS"}
  /\ pc' = IF tunnel = "V6UDPV4" THEN "closeTunnel" ELSE "close"
  /\ Frame /\ UNCHANGED <<auth, conn, tunnel, srv>>

\* tspStartLocal() closes the session's socket itself.
CloseTunnel ==
  /\ pc = "closeTunnel"
  /\ RR!Close
  /\ closes' = closes + 1
  /\ pc' = "close"
  /\ UNCHANGED <<args, auth, clientAddr, pins, lastServer, sockAddr, tunnel, status, srv>>

\* tspSetupTunnel() closes the socket and returns.
Close ==
  /\ pc = "close"
  /\ IF phase = "closed" THEN UNCHANGED conn ELSE RR!Close
  /\ closes' = closes + 1
  /\ pc' = "idle"
  /\ UNCHANGED <<args, auth, clientAddr, pins, lastServer, sockAddr, tunnel, status, srv>>

\* The application starts again and reads its configuration anew.
Restart ==
  /\ pc = "dead"
  /\ RR!Close
  /\ clientAddr' = conf.client
  /\ pc' = "idle"
  /\ sockAddr' = None
  /\ UNCHANGED <<args, auth, pins, lastServer, tunnel, closes, status, srv>>

Next ==
  \/ Begin \/ Connect \/ ConnectFails
  \/ SendVersion \/ Capabilities \/ CapabilitiesRefused \/ CapabilitiesClosed
  \/ CapabilitiesFail
  \/ tspAuthenticate \/ AuthSend \/ AuthGoesOn \/ AuthAccepted \/ AuthRejected
  \/ AuthUnreadable \/ AuthClosed \/ AuthFails \/ AuthFailsLocally \/ CheckKey
  \/ KeyUnreadable
  \/ tspUpdateSourceAddr \/ SendRequest \/ Negotiated \/ NegotiationRefused
  \/ AnswerCut \/ NegotiationFails \/ Acknowledge \/ Acknowledged \/ AcknowledgeFails
  \/ SaveLastServer \/ StartLocal \/ TunnelEnds \/ CloseTunnel \/ Close \/ Restart

Spec == Init /\ [][Next]_vars

----------------------------------------------------------------------------
Pcs == {"idle", "connect", "capabilities", "capabilitiesWait", "authenticate", "auth",
        "authWait", "key", "address", "negotiate", "negotiateWait", "acknowledge",
        "acknowledgeWait", "save", "start", "tunnel", "closeTunnel", "close", "dead"}

\* The types of the session's state and of the files it writes.
TypeOK ==
  /\ conf \in Confs /\ clientAddr \in Addrs \cup {AutoAddr}
  /\ keyfile \in Keyfile /\ spoiled \in BOOLEAN /\ lastServer \in Servers \cup {NoAddr}
  /\ pc \in Pcs /\ server \in Servers
  /\ transport \in TransportsOf(conf.tunnel_mode) /\ version \in {"current", "oldest"}
  /\ sessions \in 0..MaxSessions
  /\ RR!TypeOK
  /\ sockAddr \in Addrs \cup {None}
  /\ cap \in Capability /\ mech \in Methods \cup {None} /\ step \in 0..3
  /\ key \in Keys \cup {None}
  /\ tunnel \in Types \cup {None}
  /\ closes \in 0..2 /\ status \in AllStatuses \cup {None}
  /\ srv \in ServerSide

\* Where a tunnel has been agreed on.
Agreed == pc \in {"save", "start", "tunnel", "closeTunnel"}

\* The client sets up a tunnel only if, in this very session, the server accepted its
\* credentials under a method both sides allow and offered a tunnel, and knows that
\* the offer was taken; over TCP, and in the oldest version, it need not know.  This is
\* not plain from the code: a closed TCP connection can pass for a success of ANONYMOUS
\* and PLAIN, and the result of nt->netsend() says nothing of the server.  That the
\* tunnel is of a type that was asked for, it does not say: the code never looks.
TunnelAgreed ==
  Agreed =>
    /\ srv.authenticated /\ srv.offered
    /\ mech \in Mechanism(conf.auth_method) \cap cap.auths
    /\ Udp => srv.acked

\* Whatever path tspSetupTunnel() takes, the socket it opened is closed when it returns,
\* and is closed a second time only after a V6UDPV4 tunnel (tspStartLocal() closed it).
SocketReleased ==
  /\ pc \in {"idle", "connect"} => phase = "closed"
  /\ pc = "idle" /\ status # None =>
       /\ sockAddr = None <=> closes = 0
       /\ closes = 2 => tunnel = "V6UDPV4"

\* A server keeps the key it was first accepted with: the key file never holds two lines
\* of one host, whatever sessions, refusals, restarts and cut writes come after, and a
\* session that PASSDSS authenticated used the key in the file.  This fails, as the code
\* does not look at its write, in a session whose own line was cut or joined a cut one.
KeyPinned ==
  /\ OneLineEach(keyfile)
  /\ Agreed /\ mech = "PASSDSS" /\ ~spoiled => Matches(keyfile.lines, server, key)

\* What the connection loop relies on (see Session): a status of an unreached server is
\* returned only if no server answered, one of a tunnel only if a tunnel was offered,
\* and the last-server file names a server only after it offered one.
Stage ==
  IF pc \in {"idle", "dead"} THEN "idle"
  ELSE IF srv.offered THEN "negotiated"
  ELSE IF srv.heard THEN "reached" ELSE "unreached"
Abstract == INSTANCE Session WITH
  stage <- Stage, status <- IF pc = "idle" THEN status ELSE None
ImplementsSession == Abstract!Spec

=============================================================================

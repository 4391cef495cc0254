-------------------------- MODULE TspSessionProofs --------------------------
(***************************************************************************)
(* Proofs about one TSP session after another, for any servers, keys,      *)
(* addresses, configurations and announced capabilities.                   *)
(***************************************************************************)
EXTENDS TspSession, TLAPS

\* Positions after the capabilities, after the authentication, after the offer.
Offered == {"acknowledge", "acknowledgeWait", "save", "start", "tunnel", "closeTunnel"}
Addressed == {"address", "negotiate", "negotiateWait"}
Authenticating == {"authenticate", "auth", "authWait", "key"}

\* The oldest version is spoken over TCP only.
OldestOverTcp == version = "oldest" => transport = "TCP"

\* The socket is open from tspConnect() to the close; a count of one at the last close
\* means that the tunnel loop has closed it before.
Socket ==
  /\ pc \in {"idle", "connect"} => phase = "closed"
  /\ pc \notin {"idle", "connect", "close"} => phase # "closed"
  /\ pc = "connect" => sockAddr = None
  /\ pc \notin {"idle", "connect", "dead"} => sockAddr \in Addrs
  /\ pc \notin {"idle", "close"} => closes = 0
  /\ pc = "close" => closes = IF phase = "closed" THEN 1 ELSE 0
  /\ pc = "close" /\ phase = "closed" => tunnel = "V6UDPV4"
  /\ pc = "closeTunnel" => tunnel = "V6UDPV4"
  /\ pc = "idle" /\ status # None =>
       /\ sockAddr = None <=> closes = 0
       /\ closes = 2 => tunnel = "V6UDPV4"
  /\ pc = "dead" => status = None

\* The statuses a session may end with, by how far it came.
Ends ==
  IF srv.offered THEN TunnelStatuses \cup {"SOCKET_IO"}
  ELSE IF srv.heard THEN AllStatuses \ (UnreachedStatuses \cup TunnelStatuses)
  ELSE UnreachedStatuses \cup {"SOCKET_IO", "TSP_GENERIC_ERROR"}

\* How far the session came, and the status it is about to return.
Progress ==
  /\ pc \in {"connect", "capabilities", "capabilitiesWait"} => ~srv.heard /\ ~srv.offered
  /\ pc \in Authenticating \cup Addressed => srv.heard /\ ~srv.offered
  /\ pc \in Offered => srv.offered
  /\ pc \in {"close", "closeTunnel"} => status \in Ends

\* The method in use is one that both sides allow.
Common == mech \in Mechanism(conf.auth_method) \cap cap.auths
Method ==
  /\ pc \in {"auth", "authWait", "key"} \cup Addressed \cup Offered => Common
  /\ pc = "key" => mech = "PASSDSS" /\ key \in Keys

\* A session goes on without an authentication only on a connection that has failed.
Granted ==
  /\ pc \in Addressed => phase = "failed" \/ srv.authenticated
  /\ pc \in Offered => srv.authenticated
  /\ Agreed /\ Udp => srv.acked

\* The last message of PASSDSS, and what follows, is sent under the key in the file,
\* unless its line could not be written.
Pinned ==
  /\ OneLineEach(keyfile)
  /\ mech = "PASSDSS" /\ ~spoiled
       /\ (\/ pc \in {"auth", "authWait"} /\ step = 3
           \/ pc \in Addressed \cup Offered) =>
       Matches(keyfile.lines, server, key)

\* What the session keeps besides the types.
Discipline == OldestOverTcp /\ Socket /\ Progress /\ Method /\ Granted /\ Pinned

IInv == TypeOK /\ Discipline

----------------------------------------------------------------------------
\* What the server does in a session is recorded in fields of its own.
LEMMA ServerSideTypes ==
  /\ [heard |-> FALSE, authenticated |-> FALSE, offered |-> FALSE, acked |-> FALSE]
       \in ServerSide
  /\ \A s \in ServerSide :
       /\ [s EXCEPT !.heard = TRUE] \in ServerSide
       /\ [s EXCEPT !.heard = TRUE, !.authenticated = TRUE] \in ServerSide
       /\ [s EXCEPT !.heard = TRUE, !.offered = TRUE] \in ServerSide
       /\ [s EXCEPT !.acked = TRUE] \in ServerSide
BY DEF ServerSide

\* Of the methods both sides allow, the most secure is one.
LEMMA MostSecureIsOne ==
  ASSUME NEW S \in SUBSET Methods, S # {}
  PROVE  MostSecure(S) \in S
<1>1. \E m \in S : \A n \in S : Order[m] <= Order[n]
  <2>1. CASE "PASSDSS" \in S
    BY <2>1 DEF Methods, Order
  <2>2. CASE "PASSDSS" \notin S /\ "DIGEST" \in S
    BY <2>2 DEF Methods, Order
  <2>3. CASE S \subseteq {"PLAIN", "ANONYMOUS"} /\ "PLAIN" \in S
    BY <2>3 DEF Methods, Order
  <2>4. CASE S = {"ANONYMOUS"}
    BY <2>4 DEF Methods, Order
  <2> QED
    BY <2>1, <2>2, <2>3, <2>4 DEF Methods
<1> QED
  BY <1>1 DEF MostSecure

\* A line of a host that has none yet, whether written whole, cut or joined to a cut
\* one, is the only one of its host.
LEMMA AppendedPins ==
  ASSUME keyfile \in Keyfile, OneLineEach(keyfile), server \in Servers, key \in Keys,
         ~Known(keyfile.lines, server), NEW added \in Appended
  PROVE  /\ added.file \in Keyfile /\ OneLineEach(added.file)
         /\ added.ret /\ added.cut \in BOOLEAN
         /\ ~added.cut => Matches(added.file.lines, server, key)
<1> DEFINE l == [host |-> server, key |-> key]
<1>1. /\ keyfile = [lines |-> keyfile.lines, torn |-> keyfile.torn]
      /\ keyfile.lines \in Seq(Line) /\ keyfile.torn \in Line \cup {Ended, Fragment}
      /\ l \in Line /\ [host |-> server, key |-> Broken] \in Line
  BY DEF Keyfile, Line
<1>2. \A i \in 1..Len(keyfile.lines) : keyfile.lines[i].host # server
  BY DEF Known
<1>6. \A i \in 1..Len(keyfile.lines) : keyfile.lines[i].host # None
  <2>1. None \notin Servers
    BY SessionAssumption
  <2>2. \A i \in 1..Len(keyfile.lines) : keyfile.lines[i] \in Line
    BY <1>1
  <2> QED
    BY <2>1, <2>2 DEF Line
<1>3. ASSUME NEW more \in Line,
             \A i \in 1..Len(keyfile.lines) : keyfile.lines[i].host # more.host
      PROVE  LET file == [lines |-> Append(keyfile.lines, more), torn |-> Ended] IN
             /\ file \in Keyfile /\ OneLineEach(file)
             /\ file.lines[Len(keyfile.lines) + 1] = more
             /\ Len(file.lines) = Len(keyfile.lines) + 1
  <2> DEFINE lines == Append(keyfile.lines, more)
  <2>1. /\ lines \in Seq(Line) /\ Len(lines) = Len(keyfile.lines) + 1
        /\ lines[Len(keyfile.lines) + 1] = more
        /\ \A i \in 1..Len(keyfile.lines) : lines[i] = keyfile.lines[i]
    BY <1>1
  <2>2. \A i \in 1..Len(lines) : lines[i] \in Line
    BY <2>1
  <2>3. \A i, j \in 1..Len(lines) : lines[i].host = lines[j].host => i = j
    BY <1>1, <1>3, <2>1 DEF OneLineEach
  <2>4. \A i \in 1..Len(lines) : lines[i].host # Ended.host
    BY <2>2, SessionAssumption DEF Line, Ended
  <2> HIDE DEF lines
  <2>5. [lines |-> lines, torn |-> Ended] \in Keyfile
    BY <2>1 DEF Keyfile
  <2> QED
    BY <2>1, <2>3, <2>4, <2>5 DEF OneLineEach, lines
<1>4. CASE added = Accepted(WithLine(keyfile, l), keyfile.torn # Ended)
  <2>1. CASE keyfile.torn = Ended
    <3>1. added.file = [lines |-> Append(keyfile.lines, l), torn |-> Ended]
      BY <1>4, <2>1 DEF Accepted, WithLine
    <3>2. /\ added.file \in Keyfile /\ OneLineEach(added.file)
          /\ added.file.lines[Len(keyfile.lines) + 1] = l
          /\ Len(added.file.lines) = Len(keyfile.lines) + 1
      BY <1>1, <1>2, <1>3, <3>1
    <3>3. Matches(added.file.lines, server, key)
      BY <1>1, <3>2 DEF Matches
    <3> QED
      BY <1>4, <3>2, <3>3 DEF Accepted
  <2>2. CASE keyfile.torn = Fragment /\ keyfile.torn # Ended
    <3>1. added.file = [lines |-> keyfile.lines, torn |-> Ended]
      BY <1>4, <2>2 DEF Accepted, WithLine
    <3>2. \A i \in 1..Len(keyfile.lines) : keyfile.lines[i].host # Ended.host
      BY <1>6 DEF Ended
    <3>3. added.file \in Keyfile /\ OneLineEach(added.file)
      BY <1>1, <3>1, <3>2 DEF OneLineEach, Keyfile
    <3> QED
      BY <1>4, <2>2, <3>3 DEF Accepted
  <2>3. CASE keyfile.torn # Ended /\ keyfile.torn # Fragment
    <3>1. added.file = [lines |-> Append(keyfile.lines, keyfile.torn), torn |-> Ended]
      BY <1>4, <2>3 DEF Accepted, WithLine
    <3>2. \A i \in 1..Len(keyfile.lines) : keyfile.lines[i].host # keyfile.torn.host
      BY DEF OneLineEach
    <3>3. added.file \in Keyfile /\ OneLineEach(added.file)
      BY <1>1, <1>3, <2>3, <3>1, <3>2
    <3> QED
      BY <1>4, <2>3, <3>3 DEF Accepted
  <2> QED
    BY <2>1, <2>2, <2>3
<1>5. CASE \E file \in CutLine(keyfile, l) : added = Accepted(file, TRUE)
  <2>1. PICK file \in CutLine(keyfile, l) : added = Accepted(file, TRUE)
    BY <1>5
  <2>2. ASSUME NEW t \in {Fragment, [host |-> server, key |-> Broken], l}
        PROVE  /\ [lines |-> keyfile.lines, torn |-> t] \in Keyfile
               /\ OneLineEach([lines |-> keyfile.lines, torn |-> t])
    <3>1. \A i \in 1..Len(keyfile.lines) :
            keyfile.lines[i].host # None /\ keyfile.lines[i].host # server
      BY <1>2, <1>6
    <3>2. t.host = None \/ t.host = server
      BY <2>2 DEF Fragment
    <3> QED
      BY <1>1, <2>2, <3>1, <3>2 DEF OneLineEach, Keyfile
  <2>3. \/ file = keyfile
        \/ \E t \in {Fragment, [host |-> server, key |-> Broken], l} :
             file = [lines |-> keyfile.lines, torn |-> t]
    BY <1>1, <2>1 DEF CutLine
  <2>4. file \in Keyfile /\ OneLineEach(file)
    BY <2>2, <2>3
  <2> QED
    BY <2>1, <2>4 DEF Accepted
<1> QED
  BY <1>4, <1>5 DEF Appended

\* add_dsakey_to_keyfile() adds no second line of a host, and accepts only the key of
\* the file.
LEMMA AddedKeyPins ==
  ASSUME IInv, pc = "key", NEW added \in AddedKey
  PROVE  /\ added.file \in Keyfile /\ OneLineEach(added.file)
         /\ added.cut \in BOOLEAN
         /\ added.ret /\ ~added.cut => Matches(added.file.lines, server, key)
<1>1. /\ keyfile \in Keyfile /\ OneLineEach(keyfile)
      /\ server \in Servers /\ key \in Keys
  BY DEF IInv, Discipline, TypeOK, Method, Pinned
<1>2. Matches(keyfile.lines, server, key) => Known(keyfile.lines, server)
  BY DEF Known, Matches
<1>3. \/ added = Accepted(keyfile, FALSE) /\ Matches(keyfile.lines, server, key)
      \/ added = Rejected
      \/ added \in Appended /\ ~Known(keyfile.lines, server)
  BY <1>2 DEF AddedKey
<1>4. CASE added = Accepted(keyfile, FALSE) /\ Matches(keyfile.lines, server, key)
  BY <1>1, <1>4 DEF Accepted
<1>5. CASE added = Rejected
  BY <1>1, <1>5 DEF Rejected
<1>6. CASE added \in Appended /\ ~Known(keyfile.lines, server)
  BY <1>1, <1>6, AppendedPins
<1> QED
  BY <1>3, <1>4, <1>5, <1>6

----------------------------------------------------------------------------
\* IInv holds at the start.
LEMMA InitIInv == Init => IInv
<1> SUFFICES ASSUME Init PROVE IInv
  OBVIOUS
<1>1. /\ clientAddr \in Addrs \cup {AutoAddr} /\ keyfile \in Keyfile
      /\ srv \in ServerSide /\ cap \in Capability
  BY SessionAssumption, ServerSideTypes DEF Init, ConfType, Capability
<1>5. sessions \in 0..MaxSessions
  BY SessionAssumption DEF Init
<1>6. tunnel \in Types \cup {None}
  BY DEF Init
<1>7. spoiled \in BOOLEAN
  BY DEF Init
<1>2. TypeOK
  BY <1>1, <1>5, <1>6, <1>7 DEF Init, RR!Init, TypeOK, RR!TypeOK, Pcs, None
<1>3. OneLineEach(keyfile)
  BY SessionAssumption DEF Init
<1>4. Discipline
  BY <1>3
  DEF Init, RR!Init, Discipline, OldestOverTcp, Socket, Progress, Method, Granted, Pinned,
      Authenticating, Addressed, Offered, Agreed, None
<1> QED
  BY <1>2, <1>4 DEF IInv

\* The connection.
LEMMA OpeningKeepsIInv ==
  ASSUME IInv,
         Begin \/ Connect \/ ConnectFails
  PROVE  IInv'
<1> USE DEF IInv, Discipline, OldestOverTcp, Socket, Progress, Method, Common, Granted,
        Pinned, Matches, Authenticating, Addressed, Offered, Agreed, Udp, Frame, args, auth,
        conn, pins, None, Steps
<1>1. CASE Begin
  <2>1. srv' \in ServerSide /\ cap' \in Capability
    BY <1>1, ServerSideTypes DEF Begin, Capability
  <2>4. sessions' \in 0..MaxSessions
    BY <1>1, SessionAssumption DEF Begin, TypeOK
  <2>5. spoiled' \in BOOLEAN
    BY <1>1 DEF Begin
  <2>2. TypeOK'
    BY <1>1, <2>1, <2>4, <2>5 DEF Begin, TypeOK, RR!TypeOK, Pcs
  <2>3. Discipline'
    BY <1>1, <2>1, SessionAssumption DEF Begin, TypeOK
  <2> QED
    BY <2>2, <2>3
<1>2. CASE Connect
  <2>1. TypeOK'
    BY <1>2 DEF Connect, RR!Open, TypeOK, RR!TypeOK, Pcs
  <2>2. Discipline'
    BY <1>2, SessionAssumption DEF Connect, RR!Open
  <2> QED
    BY <2>1, <2>2
<1>3. CASE ConnectFails
  <2>1. TypeOK'
    BY <1>3 DEF ConnectFails, TypeOK, RR!TypeOK, Pcs, AllStatuses, FatalStatuses
  <2>2. Discipline'
    BY <1>3 DEF ConnectFails
  <2> QED
    BY <2>1, <2>2
<1> QED
  BY <1>1, <1>2, <1>3

\* The capabilities.
LEMMA CapabilitiesKeepIInv ==
  ASSUME IInv,
         SendVersion \/ Capabilities \/ CapabilitiesRefused \/
         CapabilitiesClosed \/ CapabilitiesFail
  PROVE  IInv'
<1> USE DEF IInv, Discipline, OldestOverTcp, Socket, Progress, Method, Common, Granted,
        Pinned, Matches, Authenticating, Addressed, Offered, Agreed, Udp, Frame, args, auth,
        conn, pins, None, Steps
<1>1. CASE SendVersion
  <2>1. TypeOK'
    BY <1>1 DEF SendVersion, Ask, RR!Call, TypeOK, RR!TypeOK, Pcs
  <2>2. Discipline'
    BY <1>1 DEF SendVersion, Ask, RR!Call
  <2> QED
    BY <2>1, <2>2
<1>2. CASE Capabilities
  <2>1. srv' \in ServerSide
    BY <1>2, ServerSideTypes DEF Capabilities, TypeOK, Hear
  <2>2. cap' \in Capability
    BY <1>2, SessionAssumption DEF Capabilities
  <2>3. TypeOK'
    BY <1>2, <2>1, <2>2
    DEF Capabilities, Hear, RR!Return, Fail, TypeOK, RR!TypeOK, Pcs, AllStatuses,
        FatalStatuses, Capability
  <2>4. Discipline'
    BY <1>2, <2>1, <2>2
    DEF Capabilities, Hear, RR!Return, Fail, Ends, AllStatuses, FatalStatuses,
        UnreachedStatuses, TunnelStatuses, TypeOK
  <2> QED
    BY <2>3, <2>4
<1>3. CASE CapabilitiesRefused
  <2>1. srv' \in ServerSide
    BY <1>3, ServerSideTypes DEF CapabilitiesRefused, TypeOK, Hear
  <2>2. TypeOK'
    BY <1>3, <2>1
    DEF CapabilitiesRefused, Hear, RR!Return, Fail, Redirections, TypeOK, RR!TypeOK, Pcs,
        AllStatuses, FatalStatuses
  <2>3. Discipline'
    BY <1>3, <2>1
    DEF CapabilitiesRefused, Hear, RR!Return, Fail, Redirections, Ends, AllStatuses,
        FatalStatuses, UnreachedStatuses, TunnelStatuses, TypeOK
  <2> QED
    BY <2>2, <2>3
<1>4. CASE CapabilitiesClosed
  <2>1. TypeOK'
    BY <1>4
    DEF CapabilitiesClosed, Lose, RR!Abort, Fail, TypeOK, RR!TypeOK, Pcs, AllStatuses,
        FatalStatuses
  <2>2. Discipline'
    BY <1>4
    DEF CapabilitiesClosed, Lose, RR!Abort, Fail, Ends, AllStatuses, FatalStatuses,
        UnreachedStatuses, TunnelStatuses
  <2> QED
    BY <2>1, <2>2
<1>5. CASE CapabilitiesFail
  <2>1. TypeOK'
    BY <1>5
    DEF CapabilitiesFail, Lose, RR!Abort, Fail, TypeOK, RR!TypeOK, Pcs, AllStatuses,
        FatalStatuses
  <2>2. Discipline'
    BY <1>5
    DEF CapabilitiesFail, Lose, RR!Abort, Fail, Ends, AllStatuses, FatalStatuses,
        UnreachedStatuses, TunnelStatuses
  <2> QED
    BY <2>1, <2>2
<1> QED
  BY <1>1, <1>2, <1>3, <1>4, <1>5

\* The authentication.
LEMMA AuthenticationKeepsIInv ==
  ASSUME IInv,
         tspAuthenticate \/ AuthSend \/ AuthGoesOn \/ AuthAccepted \/
         AuthRejected \/ AuthUnreadable \/ AuthClosed \/ AuthFails \/
         AuthFailsLocally \/ CheckKey \/ KeyUnreadable
  PROVE  IInv'
<1> USE DEF IInv, Discipline, OldestOverTcp, Socket, Progress, Method, Common, Granted,
        Pinned, Matches, Authenticating, Addressed, Offered, Agreed, Udp, Frame, args, auth,
        conn, pins, None, Steps
<1>1. CASE tspAuthenticate
  <2>1. Mechanism(conf.auth_method) \cap cap.auths \in SUBSET Methods
    BY <1>1 DEF tspAuthenticate, TypeOK, Capability
  <2>2. /\ mech' = mech \/ mech' \in Methods
        /\ pc' = "auth" => mech' \in Mechanism(conf.auth_method) \cap cap.auths
    BY <1>1, <2>1, MostSecureIsOne DEF tspAuthenticate, Fail
  <2>3. TypeOK'
    BY <1>1, <2>2
    DEF tspAuthenticate, Fail, TypeOK, RR!TypeOK, Pcs, AllStatuses, FatalStatuses
  <2>4. Discipline'
    BY <1>1, <2>2
    DEF tspAuthenticate, Fail, Ends, AllStatuses, FatalStatuses, UnreachedStatuses,
        TunnelStatuses
  <2> QED
    BY <2>3, <2>4
<1>2. CASE AuthSend
  <2>1. TypeOK'
    BY <1>2 DEF AuthSend, Ask, RR!Call, Netsend, TypeOK, RR!TypeOK, Pcs
  <2>2. Discipline'
    BY <1>2 DEF AuthSend, Ask, RR!Call, Netsend
  <2> QED
    BY <2>1, <2>2
<1>3. CASE AuthGoesOn
  <2>1. srv' \in ServerSide
    BY <1>3, ServerSideTypes DEF AuthGoesOn, TypeOK, Hear
  <2>2. mech \in Methods /\ step \in 0..3
    BY <1>3 DEF AuthGoesOn, TypeOK, Capability, Method, Common
  <2>3. step' \in 0..3
    BY <1>3, <2>2 DEF AuthGoesOn, Methods
  <2>4. TypeOK'
    BY <1>3, <2>1, <2>3 DEF AuthGoesOn, Hear, RR!Return, TypeOK, RR!TypeOK, Pcs
  <2>5. Discipline'
    BY <1>3, <2>1, <2>3 DEF AuthGoesOn, Hear, RR!Return, TypeOK
  <2> QED
    BY <2>4, <2>5
<1>4. CASE AuthAccepted
  <2>1. srv' \in ServerSide
    BY <1>4, ServerSideTypes DEF AuthAccepted, TypeOK
  <2>2. TypeOK'
    BY <1>4, <2>1 DEF AuthAccepted, RR!Return, TypeOK, RR!TypeOK, Pcs
  <2>3. Discipline'
    BY <1>4, <2>1 DEF AuthAccepted, RR!Return, TypeOK
  <2> QED
    BY <2>2, <2>3
<1>5. CASE AuthRejected
  <2>1. srv' \in ServerSide
    BY <1>5, ServerSideTypes DEF AuthRejected, TypeOK, Hear
  <2>2. TypeOK'
    BY <1>5, <2>1
    DEF AuthRejected, Hear, RR!Return, Refusals, Verdicts, Redirections, Fail, TypeOK,
        RR!TypeOK, Pcs, AllStatuses, FatalStatuses
  <2>3. Discipline'
    BY <1>5, <2>1
    DEF AuthRejected, Hear, RR!Return, Refusals, Verdicts, Redirections, Fail, Ends,
        AllStatuses, FatalStatuses, UnreachedStatuses, TunnelStatuses, TypeOK
  <2> QED
    BY <2>2, <2>3
<1>6. CASE AuthUnreadable
  <2>1. srv' \in ServerSide
    BY <1>6, ServerSideTypes DEF AuthUnreadable, TypeOK, Hear
  <2>2. TypeOK'
    BY <1>6, <2>1 DEF AuthUnreadable, Hear, RR!Return, Die, TypeOK, RR!TypeOK, Pcs
  <2>3. Discipline'
    BY <1>6, <2>1 DEF AuthUnreadable, Hear, RR!Return, Die, TypeOK
  <2> QED
    BY <2>2, <2>3
<1>7. CASE AuthClosed
  <2>1. TypeOK'
    BY <1>7
    DEF AuthClosed, Lose, RR!Abort, Refusals, Verdicts, Redirections, Fail, Die, TypeOK,
        RR!TypeOK, Pcs, AllStatuses, FatalStatuses
  <2>2. Discipline'
    BY <1>7
    DEF AuthClosed, Lose, RR!Abort, Refusals, Verdicts, Redirections, Fail, Die, Ends,
        AllStatuses, FatalStatuses, UnreachedStatuses, TunnelStatuses
  <2> QED
    BY <2>1, <2>2
<1>8. CASE AuthFails
  <2>1. TypeOK'
    BY <1>8
    DEF AuthFails, Lose, RR!Abort, Fail, TypeOK, RR!TypeOK, Pcs, AllStatuses, FatalStatuses
  <2>2. Discipline'
    BY <1>8
    DEF AuthFails, Lose, RR!Abort, Fail, Ends, AllStatuses, FatalStatuses,
        UnreachedStatuses, TunnelStatuses
  <2> QED
    BY <2>1, <2>2
<1>9. CASE AuthFailsLocally
  <2>1. TypeOK'
    BY <1>9 DEF AuthFailsLocally, Fail, TypeOK, RR!TypeOK, Pcs, AllStatuses, FatalStatuses
  <2>2. Discipline'
    BY <1>9
    DEF AuthFailsLocally, Fail, Ends, AllStatuses, FatalStatuses, UnreachedStatuses,
        TunnelStatuses
  <2> QED
    BY <2>1, <2>2
<1>10. CASE CheckKey
  <2>1. keyfile' \in Keyfile /\ spoiled' \in BOOLEAN /\ Pinned'
    BY <1>10, AddedKeyPins DEF CheckKey, Fail, Pinned, Addressed, Offered, Matches
  <2>2. TypeOK'
    BY <1>10, <2>1
    DEF CheckKey, Fail, TypeOK, RR!TypeOK, Pcs, AllStatuses, FatalStatuses
  <2>3. Discipline'
    BY <1>10, <2>1
    DEF CheckKey, Fail, Ends, AllStatuses, FatalStatuses, UnreachedStatuses, TunnelStatuses
  <2> QED
    BY <2>2, <2>3
<1>11. CASE KeyUnreadable
  <2>1. TypeOK'
    BY <1>11 DEF KeyUnreadable, Die, TypeOK, RR!TypeOK, Pcs
  <2>2. Discipline'
    BY <1>11 DEF KeyUnreadable, Die
  <2> QED
    BY <2>1, <2>2
<1> QED
  BY <1>1, <1>2, <1>3, <1>4, <1>5, <1>6, <1>7, <1>8, <1>9, <1>10, <1>11

\* The source address and the negotiation.
LEMMA NegotiationKeepsIInv ==
  ASSUME IInv,
         tspUpdateSourceAddr \/ SendRequest \/ Negotiated \/ NegotiationRefused
         \/ AnswerCut \/ NegotiationFails \/ Acknowledge \/
         Acknowledged \/ AcknowledgeFails
  PROVE  IInv'
<1> USE DEF IInv, Discipline, OldestOverTcp, Socket, Progress, Method, Common, Granted,
        Pinned, Matches, Authenticating, Addressed, Offered, Agreed, Udp, Frame, args, auth,
        conn, pins, None, Steps
<1>1. CASE tspUpdateSourceAddr
  <2>1. TypeOK'
    BY <1>1
    DEF tspUpdateSourceAddr, Fail, TypeOK, RR!TypeOK, Pcs, AllStatuses, FatalStatuses,
        Socket
  <2>2. Discipline'
    BY <1>1
    DEF tspUpdateSourceAddr, Fail, Ends, AllStatuses, FatalStatuses, UnreachedStatuses,
        TunnelStatuses
  <2> QED
    BY <2>1, <2>2
<1>2. CASE SendRequest
  <2>1. TypeOK'
    BY <1>2
    DEF SendRequest, Ask, RR!Call, Fail, TypeOK, RR!TypeOK, Pcs, AllStatuses, FatalStatuses
  <2>2. Discipline'
    BY <1>2
    DEF SendRequest, Ask, RR!Call, Fail, Ends, AllStatuses, FatalStatuses,
        UnreachedStatuses, TunnelStatuses
  <2> QED
    BY <2>1, <2>2
<1>3. CASE Negotiated
  <2>1. srv' \in ServerSide
    BY <1>3, ServerSideTypes DEF Negotiated, TypeOK
  <2>2. tunnel' \in Types
    BY <1>3 DEF Negotiated
  <2>3. TypeOK'
    BY <1>3, <2>1, <2>2 DEF Negotiated, RR!Return, TypeOK, RR!TypeOK, Pcs
  <2>4. Discipline'
    BY <1>3, <2>1, <2>2 DEF Negotiated, RR!Return, TypeOK
  <2> QED
    BY <2>3, <2>4
<1>4. CASE NegotiationRefused
  <2>1. srv' \in ServerSide
    BY <1>4, ServerSideTypes DEF NegotiationRefused, TypeOK, Hear
  <2>2. TypeOK'
    BY <1>4, <2>1
    DEF NegotiationRefused, Hear, RR!Return, Fail, Redirections, TypeOK, RR!TypeOK, Pcs,
        AllStatuses, FatalStatuses
  <2>3. Discipline'
    BY <1>4, <2>1
    DEF NegotiationRefused, Hear, RR!Return, Fail, Redirections, Ends, AllStatuses,
        FatalStatuses, UnreachedStatuses, TunnelStatuses, TypeOK
  <2> QED
    BY <2>2, <2>3
<1>5. CASE AnswerCut
  <2>1. srv' \in ServerSide
    BY <1>5, ServerSideTypes DEF AnswerCut, TypeOK
  <2>2. TypeOK'
    BY <1>5, <2>1
    DEF AnswerCut, Lose, RR!Abort, Fail, TypeOK, RR!TypeOK, Pcs, AllStatuses, FatalStatuses
  <2>3. Discipline'
    BY <1>5, <2>1
    DEF AnswerCut, Lose, RR!Abort, Fail, Ends, AllStatuses, FatalStatuses,
        UnreachedStatuses, TunnelStatuses, TypeOK
  <2> QED
    BY <2>2, <2>3
<1>6. CASE NegotiationFails
  <2>1. TypeOK'
    BY <1>6
    DEF NegotiationFails, Lose, RR!Abort, Fail, TypeOK, RR!TypeOK, Pcs, AllStatuses,
        FatalStatuses
  <2>2. Discipline'
    BY <1>6
    DEF NegotiationFails, Lose, RR!Abort, Fail, Ends, AllStatuses, FatalStatuses,
        UnreachedStatuses, TunnelStatuses
  <2> QED
    BY <2>1, <2>2
<1>7. CASE Acknowledge
  <2>1. TypeOK'
    BY <1>7 DEF Acknowledge, Ask, RR!Call, TypeOK, RR!TypeOK, Pcs
  <2>2. Discipline'
    BY <1>7 DEF Acknowledge, Ask, RR!Call
  <2> QED
    BY <2>1, <2>2
<1>8. CASE Acknowledged
  <2>1. srv' \in ServerSide
    BY <1>8, ServerSideTypes DEF Acknowledged, TypeOK
  <2>2. TypeOK'
    BY <1>8, <2>1 DEF Acknowledged, RR!Return, TypeOK, RR!TypeOK, Pcs
  <2>3. Discipline'
    BY <1>8, <2>1 DEF Acknowledged, RR!Return, TypeOK
  <2> QED
    BY <2>2, <2>3
<1>9. CASE AcknowledgeFails
  <2>1. TypeOK'
    BY <1>9
    DEF AcknowledgeFails, Lose, RR!Abort, Fail, TypeOK, RR!TypeOK, Pcs, AllStatuses,
        FatalStatuses
  <2>2. Discipline'
    BY <1>9
    DEF AcknowledgeFails, Lose, RR!Abort, Fail, Ends, AllStatuses, FatalStatuses,
        UnreachedStatuses, TunnelStatuses
  <2> QED
    BY <2>1, <2>2
<1> QED
  BY <1>1, <1>2, <1>3, <1>4, <1>5, <1>6, <1>7, <1>8, <1>9

\* The tunnel and the end of the session.
LEMMA EndKeepsIInv ==
  ASSUME IInv,
         SaveLastServer \/ StartLocal \/ TunnelEnds \/ CloseTunnel \/ Close \/
         Restart
  PROVE  IInv'
<1> USE DEF IInv, Discipline, OldestOverTcp, Socket, Progress, Method, Common, Granted,
        Pinned, Matches, Authenticating, Addressed, Offered, Agreed, Udp, Frame, args, auth,
        conn, pins, None, Steps
<1>1. CASE SaveLastServer
  <2>1. TypeOK'
    BY <1>1 DEF SaveLastServer, TypeOK, RR!TypeOK, Pcs
  <2>2. Discipline'
    BY <1>1 DEF SaveLastServer
  <2> QED
    BY <2>1, <2>2
<1>2. CASE StartLocal
  <2>1. TypeOK'
    BY <1>2 DEF StartLocal, Fail, Die, TypeOK, RR!TypeOK, Pcs, AllStatuses, FatalStatuses
  <2>2. Discipline'
    BY <1>2
    DEF StartLocal, Fail, Die, Ends, AllStatuses, FatalStatuses, UnreachedStatuses,
        TunnelStatuses
  <2> QED
    BY <2>1, <2>2
<1>3. CASE TunnelEnds
  <2>1. TypeOK'
    BY <1>3 DEF TunnelEnds, TypeOK, RR!TypeOK, Pcs, AllStatuses, FatalStatuses
  <2>2. Discipline'
    BY <1>3
    DEF TunnelEnds, Ends, AllStatuses, FatalStatuses, UnreachedStatuses, TunnelStatuses
  <2> QED
    BY <2>1, <2>2
<1>4. CASE CloseTunnel
  <2>1. TypeOK'
    BY <1>4 DEF CloseTunnel, RR!Close, TypeOK, RR!TypeOK, Pcs, Socket
  <2>2. Discipline'
    BY <1>4 DEF CloseTunnel, RR!Close, Ends, TypeOK
  <2> QED
    BY <2>1, <2>2
<1>5. CASE Close
  <2>1. TypeOK'
    BY <1>5 DEF Close, RR!Close, TypeOK, RR!TypeOK, Pcs, Socket
  <2>2. Discipline'
    BY <1>5, SessionAssumption DEF Close, RR!Close, TypeOK
  <2> QED
    BY <2>1, <2>2
<1>6. CASE Restart
  <2>1. clientAddr' \in Addrs \cup {AutoAddr}
    BY <1>6, SessionAssumption DEF Restart, TypeOK, ConfType
  <2>2. TypeOK'
    BY <1>6, <2>1 DEF Restart, RR!Close, TypeOK, RR!TypeOK, Pcs
  <2>3. Discipline'
    BY <1>6, <2>1 DEF Restart, RR!Close
  <2> QED
    BY <2>2, <2>3
<1> QED
  BY <1>1, <1>2, <1>3, <1>4, <1>5, <1>6

\* Every step keeps IInv.
LEMMA NextIInv == IInv /\ [Next]_vars => IInv'
<1> SUFFICES ASSUME IInv, [Next]_vars PROVE IInv'
  OBVIOUS
<1>1. CASE UNCHANGED vars
  BY <1>1
  DEF vars, IInv, Discipline, TypeOK, RR!TypeOK, OldestOverTcp, Socket, Progress, Ends,
      Method, Common, Granted, Pinned, Matches, Agreed, Udp
<1> QED
  BY <1>1, OpeningKeepsIInv, CapabilitiesKeepIInv, AuthenticationKeepsIInv,
     NegotiationKeepsIInv, EndKeepsIInv
  DEF Next

\* In every state of every behaviour IInv holds.
THEOREM Inductive == Spec => []IInv
BY InitIInv, NextIInv, PTL DEF Spec

\* The state of the sessions and of the files they write keeps its types.
THEOREM TypeCorrect == Spec => []TypeOK
<1>1. IInv => TypeOK
  BY DEF IInv
<1> QED
  BY <1>1, Inductive, PTL

\* A tunnel is set up only if in this session the server accepted the credentials under a
\* method both sides allow and offered one: see tspAuthenticate() and
\* tspTunnelNegotiation().
THEOREM TunnelIsAgreed == Spec => []TunnelAgreed
<1>1. ASSUME IInv, Agreed PROVE Common
  BY <1>1 DEF IInv, Discipline, Method, Agreed, Offered
<1>2. ASSUME IInv, Agreed
      PROVE  srv.authenticated /\ srv.offered /\ (Udp => srv.acked)
  BY <1>2 DEF IInv, Discipline, Granted, Progress, Agreed, Offered
<1>3. IInv => TunnelAgreed
  BY <1>1, <1>2 DEF TunnelAgreed, Common
<1> QED
  BY <1>3, Inductive, PTL

\* Every path through tspSetupTunnel() closes the socket it opened, and only a V6UDPV4
\* tunnel closes it twice.
THEOREM SocketIsReleased == Spec => []SocketReleased
<1>1. IInv => SocketReleased
  BY DEF IInv, Discipline, Socket, SocketReleased
<1> QED
  BY <1>1, Inductive, PTL

\* No sequence of sessions, refusals, restarts and cut writes gives a host a second line in
\* the file, and PASSDSS authenticates only under the key in the file, unless its line was
\* cut in this session or joined a cut one.
THEOREM KeyIsPinned == Spec => []KeyPinned
<1>1. IInv => KeyPinned
  BY DEF IInv, Discipline, Pinned, KeyPinned, Agreed, Offered
<1> QED
  BY <1>1, Inductive, PTL

----------------------------------------------------------------------------
\* Begin is the abstract one, and a connection that fails the abstract Return.
LEMMA OpeningImplements ==
  ASSUME IInv,
         Begin \/ Connect \/ ConnectFails
  PROVE  [Abstract!Next]_(Abstract!vars)
<1> USE DEF IInv, Discipline, Progress, Frame, args, auth, conn, pins, Stage, Authenticating,
        Addressed, Offered, None, Abstract!vars, Abstract!Next
<1>1. CASE Begin
  BY <1>1 DEF Begin, TypeOK, Abstract!Begin
<1>2. CASE Connect
  BY <1>2 DEF Connect, RR!Open
<1>3. CASE ConnectFails
  BY <1>3 DEF ConnectFails, Abstract!Return, UnreachedStatuses, Abstract!UnreachedStatuses
<1> QED
  BY <1>1, <1>2, <1>3

\* The first answer, whatever it is, is the abstract Reach.
LEMMA CapabilitiesImplement ==
  ASSUME IInv,
         SendVersion \/ Capabilities \/ CapabilitiesRefused \/
         CapabilitiesClosed \/ CapabilitiesFail
  PROVE  [Abstract!Next]_(Abstract!vars)
<1> USE DEF IInv, Discipline, Progress, Frame, args, auth, conn, pins, Stage, Authenticating,
        Addressed, Offered, None, Abstract!vars, Abstract!Next
<1>1. CASE SendVersion
  BY <1>1 DEF SendVersion, Ask, RR!Call
<1>2. CASE Capabilities \/ CapabilitiesRefused
  BY <1>2
  DEF Capabilities, CapabilitiesRefused, Hear, RR!Return, Fail, Redirections,
      Abstract!Reach, TypeOK, ServerSide
<1>3. CASE CapabilitiesClosed \/ CapabilitiesFail
  BY <1>3 DEF CapabilitiesClosed, CapabilitiesFail, Lose, RR!Abort, Fail
<1> QED
  BY <1>1, <1>2, <1>3

\* An authentication goes no further, unless the process dies.
LEMMA AuthenticationImplements ==
  ASSUME IInv,
         tspAuthenticate \/ AuthSend \/ AuthGoesOn \/ AuthAccepted \/
         AuthRejected \/ AuthUnreadable \/ AuthClosed \/ AuthFails \/
         AuthFailsLocally \/ CheckKey \/ KeyUnreadable
  PROVE  [Abstract!Next]_(Abstract!vars)
<1> USE DEF IInv, Discipline, Progress, Frame, args, auth, conn, pins, Stage, Authenticating,
        Addressed, Offered, None, Abstract!vars, Abstract!Next
<1>1. CASE tspAuthenticate \/ AuthSend
  BY <1>1 DEF tspAuthenticate, AuthSend, Fail, Ask, RR!Call, Netsend
<1>2. CASE AuthGoesOn \/ AuthAccepted \/ AuthRejected
  BY <1>2
  DEF AuthGoesOn, AuthAccepted, AuthRejected, Hear, RR!Return, Refusals, Verdicts,
      Redirections, Fail, TypeOK, ServerSide
<1>3. CASE AuthUnreadable \/ AuthClosed
  BY <1>3
  DEF AuthUnreadable, AuthClosed, Hear, RR!Return, Die, Lose, RR!Abort, Refusals, Verdicts,
      Redirections, Fail, Abstract!Die, TypeOK, ServerSide
<1>4. CASE AuthFails \/ AuthFailsLocally \/ CheckKey
  BY <1>4 DEF AuthFails, AuthFailsLocally, CheckKey, Lose, RR!Abort, Fail
<1>5. CASE KeyUnreadable
  BY <1>5 DEF KeyUnreadable, Die, Abstract!Die
<1> QED
  BY <1>1, <1>2, <1>3, <1>4, <1>5

\* The offer of a tunnel is the abstract Negotiate.
LEMMA NegotiationImplements ==
  ASSUME IInv,
         tspUpdateSourceAddr \/ SendRequest \/ NegotiationFails \/ Negotiated
         \/ NegotiationRefused \/ AnswerCut \/ Acknowledge \/
         Acknowledged \/ AcknowledgeFails
  PROVE  [Abstract!Next]_(Abstract!vars)
<1> USE DEF IInv, Discipline, Progress, Frame, args, auth, conn, pins, Stage, Authenticating,
        Addressed, Offered, None, Abstract!vars, Abstract!Next
<1>1. CASE tspUpdateSourceAddr \/ SendRequest \/ NegotiationFails
  BY <1>1
  DEF tspUpdateSourceAddr, SendRequest, NegotiationFails, Fail, Ask, RR!Call, Lose, RR!Abort
<1>2. CASE Negotiated
  BY <1>2 DEF Negotiated, RR!Return, Abstract!Negotiate, TypeOK, ServerSide
<1>3. CASE NegotiationRefused \/ AnswerCut
  BY <1>3
  DEF NegotiationRefused, AnswerCut, Hear, RR!Return, Fail, Redirections, Lose, RR!Abort,
      TypeOK, ServerSide
<1>4. CASE Acknowledge \/ Acknowledged \/ AcknowledgeFails
  BY <1>4
  DEF Acknowledge, Acknowledged, AcknowledgeFails, Ask, RR!Call, RR!Return, Lose, RR!Abort,
      Fail, TypeOK, ServerSide
<1> QED
  BY <1>1, <1>2, <1>3, <1>4

\* The file is written by the abstract Save, and Close is the abstract Return.
LEMMA EndImplements ==
  ASSUME IInv,
         SaveLastServer \/ StartLocal \/ TunnelEnds \/ CloseTunnel \/ Close \/
         Restart
  PROVE  [Abstract!Next]_(Abstract!vars)
<1> USE DEF IInv, Discipline, Progress, Frame, args, auth, conn, pins, Stage, Authenticating,
        Addressed, Offered, None, Abstract!vars, Abstract!Next
<1>1. CASE SaveLastServer
  BY <1>1 DEF SaveLastServer, Abstract!Save
<1>2. CASE StartLocal
  BY <1>2 DEF StartLocal, Fail, Die, Abstract!Die
<1>3. CASE TunnelEnds \/ CloseTunnel
  BY <1>3 DEF TunnelEnds, CloseTunnel, RR!Close
<1>4. CASE Close
  BY <1>4
  DEF Close, RR!Close, Abstract!Return, Ends, AllStatuses, FatalStatuses, UnreachedStatuses,
      TunnelStatuses, Abstract!AllStatuses, Abstract!FatalStatuses,
      Abstract!UnreachedStatuses, Abstract!TunnelStatuses
<1>5. CASE Restart
  BY <1>5 DEF Restart, RR!Close, Socket
<1> QED
  BY <1>1, <1>2, <1>3, <1>4, <1>5

\* tspSetupTunnel() keeps what the connection loop relies on: the status tells how far
\* the session came, and the last-server file names only a server that offered a tunnel.
THEOREM Implements == Spec => ImplementsSession
<1>1. Init => Abstract!Init
  BY DEF Init, Abstract!Init, Stage, None
<1>2. IInv /\ [Next]_vars => [Abstract!Next]_(Abstract!vars)
  <2> SUFFICES ASSUME IInv, [Next]_vars PROVE [Abstract!Next]_(Abstract!vars)
    OBVIOUS
  <2>1. CASE UNCHANGED vars
    BY <2>1 DEF vars, Stage, Abstract!vars
  <2> QED
    BY <2>1, OpeningImplements, CapabilitiesImplement, AuthenticationImplements,
       NegotiationImplements, EndImplements
    DEF Next
<1> QED
  BY <1>1, <1>2, Inductive, PTL DEF Spec, ImplementsSession, Abstract!Spec
=============================================================================

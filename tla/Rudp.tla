-------------------------------- MODULE Rudp --------------------------------
(***************************************************************************)
(* The reliable-UDP transport of the TSP client: net_rudp.c.               *)
(*                                                                         *)
(* One thread uses the engine (the global rttengine_stats): it connects,   *)
(* makes request/reply exchanges (internal_send_recv) and closes.  The     *)
(* network loses, delays, reorders and duplicates datagrams; the server,   *)
(* external, answers a datagram with its sequence number.  The payload of  *)
(* a datagram is the number of the call it belongs to, which the client    *)
(* never looks at: only the sequence number tells answers apart.           *)
(*                                                                         *)
(* Time passes in ticks, HZ to a second, while the client is in select().  *)
(* The round-trip estimator is abstracted to its outcome: after an answer  *)
(* rto may be any value internal_get_adjusted_rto() lets through.          *)
(***************************************************************************)
EXTENDS Integers

CONSTANTS
  Hosts,            \* the servers NetRUDPConnect() is asked for
  NoAddr,           \* the NULL sai
  TMIN, TMAX,       \* RTTENGINE_TMIN and TMAX, in seconds
  MAXRTT, MAXRT,    \* RTTENGINE_MAXRTT and MAXRT
  HZ,               \* ticks in a second
  MaxCalls,         \* bound on the requests made
  MaxDups           \* bound on the datagrams delivered twice

ASSUME RudpAssumption ==
  /\ NoAddr \notin Hosts
  /\ TMIN \in Nat \ {0} /\ TMAX \in Nat /\ TMIN <= TMAX
  /\ MAXRTT \in Nat \ {0} /\ MAXRT \in Nat /\ MAXRTT < MAXRT
  /\ HZ \in Nat \ {0}
  /\ MaxCalls \in Nat /\ MaxDups \in Nat

VARIABLES
  pc,               \* closed, idle (connected), sendloop, select, failed
  asked,            \* the host the caller wants to talk to
  peer,             \* the host the socket is connected to
  sai, initiated, sequence, retries, has_peer, apply_backoff, rto,
                    \* rttengine_stats; rto in ticks
  tv_sel,           \* the time-out given to select(), in ticks
  since,            \* ticks since tv_beg, when this select() started
  beg,              \* tv_beg.tv_usec, in ticks
  net,              \* datagrams under way
  dups,             \* datagrams duplicated so far
  call, result,     \* calls made; the call the last answer belongs to
  sends, age        \* of this exchange: transmissions, ticks since the last one

engine == <<sai, initiated, sequence, retries, has_peer, apply_backoff, rto>>
timing == <<tv_sel, since, beg, age>>
vars == <<pc, asked, peer, sai, initiated, sequence, retries, has_peer, apply_backoff,
          rto, tv_sel, since, beg, net, dups, call, result, sends, age>>

----------------------------------------------------------------------------
FIRST_SEQUENCE == 240

Datagram == [kind : {"request", "reply"}, seq : Nat, call : Nat]

\* In an exchange: omh->sequence, the number the request was stamped with.
omh == sequence - 1
Request == [kind |-> "request", seq |-> omh, call |-> call]

\* Mutant: the doubled time-out is not brought back under TMAX.
internal_get_adjusted_rto_unbounded(r) == r

internal_get_adjusted_rto(r) ==
  IF r < TMIN * HZ THEN TMIN * HZ ELSE IF r > TMAX * HZ THEN TMAX * HZ ELSE r

\* rto in the format select() takes: the fraction, computed in milliseconds, ends
\* up in a field of microseconds and is less than a tick.
SelectTimeout == HZ * (rto \div HZ)

\* tv_now.tv_sec - tv_beg.tv_sec
SecondsPassed == (beg + since) \div HZ

Init ==
  /\ pc = "closed"
  /\ asked = NoAddr /\ peer = NoAddr /\ sai = NoAddr
  /\ initiated = FALSE
  /\ sequence = FIRST_SEQUENCE /\ retries = 0
  /\ has_peer = FALSE /\ apply_backoff = FALSE
  /\ rto = TMIN * HZ
  /\ tv_sel = 0 /\ since = 0 /\ beg = 0 /\ age = 0
  /\ net = {} /\ dups = 0
  /\ call = 0 /\ result = 0 /\ sends = 0

----------------------------------------------------------------------------
(* NetRUDPConnect() and NetRUDPClose() *)

\* rttengine_init(), the cached address apart; skipped once initiated.
rttengine_init ==
  IF initiated
  THEN UNCHANGED <<initiated, sequence, retries, has_peer, apply_backoff, rto>>
  ELSE /\ initiated' = TRUE
       /\ sequence' = FIRST_SEQUENCE
       /\ retries' = 0
       /\ has_peer' = FALSE
       /\ apply_backoff' = FALSE
       /\ rto' = TMIN * HZ

\* internal_get_sai() when it succeeds: the cached address wins over the host asked.
internal_get_sai(h) == IF initiated /\ sai # NoAddr THEN sai ELSE h

\* Mutant: the cached address survives the engine.
rttengine_deinit_sai_kept ==
  /\ initiated' = FALSE
  /\ UNCHANGED <<sai, sequence, retries, has_peer, apply_backoff, rto>>

rttengine_deinit ==
  /\ sai' = NoAddr
  /\ initiated' = FALSE
  /\ UNCHANGED <<sequence, retries, has_peer, apply_backoff, rto>>

\* -1: the name does not resolve, or there is no memory for the address.
ResolveFails(h) ==
  /\ pc = "closed"
  /\ initiated => sai = NoAddr
  /\ rttengine_init
  /\ sai' = NoAddr
  /\ asked' = h
  /\ UNCHANGED <<pc, peer, net, dups, call, result, sends>> /\ UNCHANGED timing

\* -2: no socket, or connect() finds no route.  The engine keeps the address.
ConnectFails(h) ==
  /\ pc = "closed"
  /\ rttengine_init
  /\ sai' = internal_get_sai(h)
  /\ asked' = h
  /\ UNCHANGED <<pc, peer, net, dups, call, result, sends>> /\ UNCHANGED timing

Connect(h) ==
  /\ pc = "closed"
  /\ rttengine_init
  /\ sai' = internal_get_sai(h)
  /\ asked' = h
  /\ peer' = internal_get_sai(h)
  /\ pc' = "idle"
  /\ UNCHANGED <<net, dups, call, result, sends>> /\ UNCHANGED timing

\* The port is gone: what is still under way to it reaches nobody.
Close ==
  /\ pc \in {"idle", "failed"}
  /\ rttengine_deinit
  /\ pc' = "closed"
  /\ peer' = NoAddr
  /\ net' = {}
  /\ UNCHANGED <<asked, dups, call, result, sends>> /\ UNCHANGED timing

----------------------------------------------------------------------------
(* internal_send_recv() *)

\* Every error path of an exchange.  A further call returns -1 at once.
Fail ==
  /\ rttengine_deinit
  /\ pc' = "failed"
  /\ UNCHANGED <<asked, peer, net, dups, call, result, sends>> /\ UNCHANGED timing

SendRecv ==
  /\ pc = "idle"
  /\ call < MaxCalls
  /\ call' = call + 1
  /\ sequence' = sequence + 1
  /\ sends' = 0
  /\ pc' = "sendloop"
  /\ UNCHANGED <<asked, peer, sai, initiated, retries, has_peer, apply_backoff, rto,
                 net, dups, result>>
  /\ UNCHANGED timing

\* The buffers are cleared before they are tested: without memory the process dies,
\* and starts again from nothing, or (an empty request) the error is reported.
SendRecvNoMemory ==
  /\ pc = "idle"
  /\ call < MaxCalls
  /\ Fail \/ Close

GivesUp ==
  \/ retries = MAXRTT /\ ~has_peer
  \/ retries = MAXRT

GiveUp == pc = "sendloop" /\ GivesUp /\ Fail

\* With a peer, the third silence starts the exponential back-off.
Send ==
  /\ pc = "sendloop"
  /\ ~GivesUp
  /\ apply_backoff' = (apply_backoff \/ retries = MAXRTT)
  /\ net' = net \cup {Request}
  /\ tv_sel' = SelectTimeout
  /\ since' = 0
  /\ beg' \in 0..HZ-1
  /\ sends' = sends + 1
  /\ age' = 0
  /\ pc' = "select"
  /\ UNCHANGED <<asked, peer, sai, initiated, sequence, retries, has_peer, rto, dups,
                 call, result>>

SendFails == pc = "sendloop" /\ ~GivesUp /\ Fail

Tick ==
  /\ pc = "select"
  /\ since < tv_sel
  /\ since' = since + 1
  /\ age' = age + 1
  /\ UNCHANGED <<pc, asked, peer, tv_sel, beg, net, dups, call, result, sends>>
  /\ UNCHANGED engine

\* select() returns 0.
Timeout ==
  /\ pc = "select"
  /\ since = tv_sel
  /\ rto' = IF apply_backoff THEN internal_get_adjusted_rto(2 * rto) ELSE rto
  /\ retries' = retries + 1
  /\ pc' = "sendloop"
  /\ UNCHANGED <<asked, peer, sai, initiated, sequence, has_peer, apply_backoff, net,
                 dups, call, result, sends>>
  /\ UNCHANGED timing

\* Mutant: select() is called again when it rejects its time-out.
SelectFailsRetried == pc = "select" /\ tv_sel >= 0 /\ Fail

\* select() or recv() returns -1: an ICMP error on the connected socket, say, or a
\* time-out that a late answer to an earlier request has left negative.
SelectFails == pc = "select" /\ Fail

\* A datagram is read; the network may hold a second copy of it.
Receive(m) ==
  /\ pc = "select"
  /\ tv_sel >= 0
  /\ m.kind = "reply"
  /\ \/ net' = net \ {m} /\ UNCHANGED dups
     \/ dups < MaxDups /\ dups' = dups + 1 /\ UNCHANGED net

\* Mutant: any answer will do.
IsAnswerAny(m) == m.kind = "reply"

IsAnswer(m) == m.seq = omh

\* Mutant: the counter is not reset when the answer comes.
AnsweredRetriesKept(m) ==
  /\ Receive(m)
  /\ IsAnswer(m)
  /\ result' = m.call
  /\ rto' \in TMIN * HZ .. TMAX * HZ
  /\ has_peer' = TRUE
  /\ pc' = "idle"
  /\ UNCHANGED <<asked, peer, sai, initiated, sequence, retries, apply_backoff, call,
                 sends>>
  /\ UNCHANGED timing

Answered(m) ==
  /\ Receive(m)
  /\ IsAnswer(m)
  /\ result' = m.call
  /\ rto' \in TMIN * HZ .. TMAX * HZ
  /\ retries' = 0
  /\ has_peer' = TRUE
  /\ pc' = "idle"
  /\ UNCHANGED <<asked, peer, sai, initiated, sequence, apply_backoff, call, sends>>
  /\ UNCHANGED timing

\* Mutant: the time-out starts over after a late answer.
RemainingTimeWhole == tv_sel

\* select() has already left in tv_sel the time that remains, as it does on Linux, and
\* the seconds that passed are subtracted from that.
RemainingTime == (tv_sel - since) - HZ * SecondsPassed

LateAnswer(m) ==
  /\ Receive(m)
  /\ ~IsAnswer(m)
  /\ tv_sel' = RemainingTime
  /\ since' = 0
  /\ beg' = (beg + since) % HZ
  /\ UNCHANGED <<pc, asked, peer, call, result, sends, age>> /\ UNCHANGED engine

----------------------------------------------------------------------------
(* The network and the server (external) *)

\* The server answers a request, of which the network may hold a second copy.
Answer(m) ==
  /\ m.kind = "request"
  /\ LET reply == [m EXCEPT !.kind = "reply"] IN
     \/ net' = (net \ {m}) \cup {reply} /\ UNCHANGED dups
     \/ dups < MaxDups /\ dups' = dups + 1 /\ net' = net \cup {reply}
  /\ UNCHANGED <<pc, asked, peer, call, result, sends>>
  /\ UNCHANGED engine /\ UNCHANGED timing

Lose(m) ==
  /\ net' = net \ {m}
  /\ UNCHANGED <<pc, asked, peer, dups, call, result, sends>>
  /\ UNCHANGED engine /\ UNCHANGED timing

----------------------------------------------------------------------------
ExchangeStep ==
  \/ GiveUp \/ Send \/ SendFails \/ Timeout \/ SelectFails
  \/ \E m \in net : Answered(m) \/ LateAnswer(m)

Next ==
  \/ \E h \in Hosts : ResolveFails(h) \/ ConnectFails(h) \/ Connect(h)
  \/ Close
  \/ SendRecv
  \/ SendRecvNoMemory
  \/ ExchangeStep
  \/ Tick
  \/ \E m \in net : Answer(m) \/ Lose(m)

Spec == Init /\ [][Next]_vars

\* The client runs, a time-out that has passed wakes it, and a time-out select()
\* rejects does so at once.
FairSpec ==
  /\ Spec
  /\ WF_vars(Send \/ GiveUp)
  /\ WF_vars(Tick)
  /\ WF_vars(Timeout \/ (tv_sel < 0 /\ SelectFails))

----------------------------------------------------------------------------
(* Properties *)

InExchange == pc \in {"sendloop", "select"}

FlagsOK ==
  /\ initiated \in BOOLEAN /\ has_peer \in BOOLEAN /\ apply_backoff \in BOOLEAN

AddrsOK ==
  /\ pc \in {"closed", "idle", "sendloop", "select", "failed"}
  /\ asked \in Hosts \cup {NoAddr} /\ peer \in Hosts \cup {NoAddr}
  /\ sai \in Hosts \cup {NoAddr}
  /\ net \subseteq Datagram

CountsOK ==
  /\ sequence \in Nat
  /\ retries \in Nat /\ retries <= MAXRT
  /\ rto \in Nat /\ TMIN * HZ <= rto /\ rto <= TMAX * HZ
  /\ tv_sel \in Int /\ tv_sel <= TMAX * HZ
  /\ since \in Nat /\ age \in Nat
  /\ beg \in Nat /\ beg < HZ
  /\ dups \in Nat
  /\ call \in Nat /\ result \in Nat
  /\ sends \in Nat

TypeOK == FlagsOK /\ AddrsOK /\ CountsOK

\* The retries counter lives in a global and outlasts the exchange: still, it always
\* counts the transmissions of the present request, so that each request gets its full
\* number of them whatever the requests and the connections before it went through.
RetriesCountThisRequest ==
  /\ pc = "idle" => retries = 0
  /\ pc = "sendloop" => sends = retries
  /\ pc = "select" => sends = retries + 1

\* A server that never answered is given up after MAXRTT transmissions, another after
\* MAXRT: the tests for equality are never jumped over.
SendsBounded == InExchange => sends <= IF has_peer THEN MAXRT ELSE MAXRTT

\* However many late answers to earlier requests come in, and whenever, they never make
\* the client wait longer than the time-out for the answer to its last transmission.
WaitNeverExtended ==
  pc = "select" /\ tv_sel >= 0 => age + (tv_sel - since) <= rto

\* The address of a server is only cached while its engine is in use, so that a server
\* that was talked to is forgotten once the exchange failed or the connection closed.
CacheDiesWithEngine ==
  /\ sai # NoAddr => initiated
  /\ InExchange \/ pc = "idle" => sai = peer /\ peer # NoAddr

\* Each request returns the answer to that request, or an error, whatever is lost, late
\* or duplicated, retransmissions included: the transport implements RequestReply.
Phase == IF InExchange THEN "waiting" ELSE pc
RR == INSTANCE RequestReply WITH phase <- Phase
ImplementsRequestReply == RR!Init /\ [][RR!Next]_(RR!vars)

\* Every exchange ends, with the answer or an error.
ExchangeEnds == InExchange ~> ~InExchange

============================================================================

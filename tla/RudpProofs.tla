----------------------------- MODULE RudpProofs -----------------------------
(***************************************************************************)
(* Proofs about the reliable-UDP engine, for every time-out, number of     *)
(* retransmissions, number of calls and behaviour of the network.          *)
(***************************************************************************)
EXTENDS Rudp, TLAPS

\* An engine that is ready for a connection has not retransmitted anything; in an
\* exchange there is room for the transmissions to come.
RetriesRoom ==
  /\ pc = "closed" /\ initiated => retries = 0
  /\ pc = "sendloop" /\ ~has_peer => retries <= MAXRTT
  /\ pc = "select" => retries < MAXRT /\ (~has_peer => retries < MAXRTT)

\* No datagram is ahead of the last request, and one that has its sequence number
\* belongs to it.
NetBehind ==
  /\ sequence >= FIRST_SEQUENCE
  /\ pc = "closed" => net = {}
  /\ pc \in {"idle", "sendloop", "select"} =>
       \A m \in net : m.seq <= omh /\ (m.seq = omh => m.call = call)

IInv ==
  /\ TypeOK
  /\ RetriesCountThisRequest
  /\ SendsBounded
  /\ WaitNeverExtended
  /\ CacheDiesWithEngine
  /\ RetriesRoom
  /\ NetBehind

----------------------------------------------------------------------------
\* The range of rto is not empty, and no datum in it is negative.
LEMMA Range ==
  /\ TMIN * HZ \in Nat /\ TMAX * HZ \in Nat
  /\ TMIN * HZ <= TMAX * HZ
BY RudpAssumption, SMT

\* Truncation only shortens a time-out.
LEMMA Truncated ==
  ASSUME NEW r \in Nat
  PROVE  HZ * (r \div HZ) \in Nat /\ HZ * (r \div HZ) <= r
BY RudpAssumption, SMT

\* The time-out stays between TMIN and TMAX when it is doubled.
LEMMA Adjusted ==
  ASSUME NEW r \in Nat
  PROVE  /\ internal_get_adjusted_rto(r) \in Nat
         /\ TMIN * HZ <= internal_get_adjusted_rto(r)
         /\ internal_get_adjusted_rto(r) <= TMAX * HZ
BY Range, SMT DEF internal_get_adjusted_rto

\* A clock that counts ticks gives whole seconds and a rest.
LEMMA Seconds ==
  ASSUME NEW n \in Nat
  PROVE  HZ * (n \div HZ) \in Nat /\ n % HZ \in Nat /\ n % HZ < HZ
BY RudpAssumption, SMT

LEMMA InitIInv == Init => IInv
<1> SUFFICES ASSUME Init PROVE IInv
  OBVIOUS
<1>1. FlagsOK /\ AddrsOK
  BY DEF Init, FlagsOK, AddrsOK
<1>2. CountsOK
  BY RudpAssumption, Range, SMT DEF Init, CountsOK, FIRST_SEQUENCE
<1>3. RetriesCountThisRequest /\ SendsBounded /\ WaitNeverExtended /\ RetriesRoom
  BY DEF Init, RetriesCountThisRequest, SendsBounded, WaitNeverExtended, RetriesRoom,
         InExchange
<1>4. CacheDiesWithEngine /\ NetBehind
  BY SMT DEF Init, CacheDiesWithEngine, NetBehind, InExchange, FIRST_SEQUENCE
<1> QED
  BY <1>1, <1>2, <1>3, <1>4 DEF IInv, TypeOK

\* The calls made while no exchange is on.
LEMMA ConnectKeepsIInv ==
  ASSUME IInv, NEW h \in Hosts, ResolveFails(h) \/ ConnectFails(h) \/ Connect(h)
  PROVE  IInv'
<1>1. TypeOK'
  <2>1. FlagsOK'
    BY Zenon
    DEF IInv, TypeOK, FlagsOK, ResolveFails, ConnectFails, Connect, rttengine_init,
        internal_get_sai, FIRST_SEQUENCE, timing
  <2>2. AddrsOK'
    BY RudpAssumption, Range, SMT
    DEF IInv, TypeOK, AddrsOK, ResolveFails, ConnectFails, Connect, rttengine_init,
        internal_get_sai, FIRST_SEQUENCE, timing
  <2>3. CountsOK'
    BY RudpAssumption, Range, SMT
    DEF IInv, TypeOK, CountsOK, ResolveFails, ConnectFails, Connect, rttengine_init,
        internal_get_sai, FIRST_SEQUENCE, timing
  <2> QED
    BY <2>1, <2>2, <2>3 DEF TypeOK
<1>2. RetriesCountThisRequest' /\ SendsBounded' /\ RetriesRoom'
  BY RudpAssumption, SMT
  DEF IInv, TypeOK, CountsOK, RetriesCountThisRequest, SendsBounded, RetriesRoom,
      InExchange,
      ResolveFails, ConnectFails, Connect, rttengine_init, timing
<1>3. WaitNeverExtended' /\ CacheDiesWithEngine'
  BY RudpAssumption, SMT
  DEF IInv, TypeOK, FlagsOK, AddrsOK, CountsOK, WaitNeverExtended, CacheDiesWithEngine,
      InExchange,
      ResolveFails, ConnectFails, Connect, rttengine_init, internal_get_sai, timing
<1>4. NetBehind'
  BY RudpAssumption, SMT
  DEF IInv, NetBehind, omh, ResolveFails, ConnectFails, Connect, rttengine_init,
      FIRST_SEQUENCE
<1> QED
  BY <1>1, <1>2, <1>3, <1>4 DEF IInv

LEMMA DeinitKeepsIInv ==
  ASSUME IInv, Fail \/ (Close /\ pc \in {"idle", "failed"})
  PROVE  IInv'
<1>1. TypeOK'
  <2>1. FlagsOK'
    BY Zenon DEF IInv, TypeOK, FlagsOK, Fail, Close, rttengine_deinit, timing
  <2>2. AddrsOK'
    BY SMT DEF IInv, TypeOK, AddrsOK, Fail, Close, rttengine_deinit, timing
  <2>3. CountsOK'
    BY SMT DEF IInv, TypeOK, CountsOK, Fail, Close, rttengine_deinit, timing
  <2> QED
    BY <2>1, <2>2, <2>3 DEF TypeOK
<1>2. RetriesCountThisRequest' /\ SendsBounded' /\ RetriesRoom' /\ WaitNeverExtended'
  BY SMT DEF IInv, TypeOK, CountsOK, RetriesCountThisRequest, SendsBounded,
      RetriesRoom, InExchange,
      WaitNeverExtended, Fail, Close, rttengine_deinit
<1>3. CacheDiesWithEngine' /\ NetBehind'
  BY SMT DEF IInv, CacheDiesWithEngine, NetBehind, omh, InExchange, Fail, Close,
      rttengine_deinit
<1> QED
  BY <1>1, <1>2, <1>3 DEF IInv

LEMMA SendRecvKeepsIInv ==
  ASSUME IInv, SendRecv
  PROVE  IInv'
<1>1. TypeOK'
  <2>1. FlagsOK'
    BY Zenon DEF IInv, TypeOK, FlagsOK, SendRecv, timing
  <2>2. AddrsOK'
    BY SMT DEF IInv, TypeOK, AddrsOK, SendRecv, timing
  <2>3. CountsOK'
    BY SMT DEF IInv, TypeOK, CountsOK, SendRecv, timing
  <2> QED
    BY <2>1, <2>2, <2>3 DEF TypeOK
<1>2. RetriesCountThisRequest' /\ SendsBounded' /\ RetriesRoom' /\ WaitNeverExtended'
  BY RudpAssumption, SMT
  DEF IInv, TypeOK, CountsOK, RetriesCountThisRequest, SendsBounded, RetriesRoom,
      InExchange,
      WaitNeverExtended, SendRecv
<1>3. CacheDiesWithEngine'
  BY DEF IInv, CacheDiesWithEngine, InExchange, SendRecv
<1>4. NetBehind'
  <2>1. ASSUME NEW m \in net
        PROVE  m.seq <= omh' /\ m.seq # omh'
    BY SMT DEF IInv, TypeOK, FlagsOK, AddrsOK, CountsOK, NetBehind, omh, SendRecv,
        Datagram
  <2> QED
    BY <2>1, SMT DEF IInv, TypeOK, FlagsOK, AddrsOK, CountsOK, NetBehind, SendRecv,
        FIRST_SEQUENCE
<1> QED
  BY <1>1, <1>2, <1>3, <1>4 DEF IInv

LEMMA SendKeepsIInv ==
  ASSUME IInv, Send
  PROVE  IInv'
<1>1. SelectTimeout \in Nat /\ SelectTimeout <= rto
  BY Truncated DEF IInv, TypeOK, FlagsOK, AddrsOK, CountsOK, SelectTimeout
<1>2. Request \in Datagram
  BY SMT DEF IInv, TypeOK, FlagsOK, AddrsOK, CountsOK, NetBehind, Request, Datagram,
      omh, FIRST_SEQUENCE
<1>3. TypeOK'
  <2>1. FlagsOK'
    BY Zenon DEF IInv, TypeOK, FlagsOK, Send
  <2>2. AddrsOK'
    BY <1>1, <1>2, RudpAssumption, SMT DEF IInv, TypeOK, AddrsOK, Send
  <2>3. CountsOK'
    BY <1>1, <1>2, RudpAssumption, SMT DEF IInv, TypeOK, CountsOK, Send
  <2> QED
    BY <2>1, <2>2, <2>3 DEF TypeOK
<1>4. RetriesCountThisRequest' /\ SendsBounded' /\ RetriesRoom'
  BY RudpAssumption, SMT
  DEF IInv, TypeOK, CountsOK, RetriesCountThisRequest, SendsBounded, RetriesRoom,
      InExchange,
      Send, GivesUp
<1>5. WaitNeverExtended'
  BY <1>1, SMT DEF IInv, TypeOK, FlagsOK, AddrsOK, CountsOK, WaitNeverExtended, Send
<1>6. CacheDiesWithEngine'
  BY DEF IInv, CacheDiesWithEngine, InExchange, Send
<1>7. NetBehind'
  BY <1>2, SMT DEF IInv, TypeOK, FlagsOK, AddrsOK, CountsOK, NetBehind, Send, Request,
      omh, Datagram
<1> QED
  BY <1>3, <1>4, <1>5, <1>6, <1>7 DEF IInv

LEMMA TickKeepsIInv ==
  ASSUME IInv, Tick
  PROVE  IInv'
<1>1. TypeOK'
  <2>1. FlagsOK'
    BY Zenon DEF IInv, TypeOK, FlagsOK, Tick, engine
  <2>2. AddrsOK'
    BY SMT DEF IInv, TypeOK, AddrsOK, Tick, engine
  <2>3. CountsOK'
    BY SMT DEF IInv, TypeOK, CountsOK, Tick, engine
  <2> QED
    BY <2>1, <2>2, <2>3 DEF TypeOK
<1>2. RetriesCountThisRequest' /\ SendsBounded' /\ RetriesRoom' /\ WaitNeverExtended'
  BY SMT DEF IInv, TypeOK, CountsOK, RetriesCountThisRequest, SendsBounded,
      RetriesRoom, InExchange,
      WaitNeverExtended, Tick, engine
<1>3. CacheDiesWithEngine' /\ NetBehind'
  BY DEF IInv, CacheDiesWithEngine, NetBehind, omh, InExchange, Tick, engine
<1> QED
  BY <1>1, <1>2, <1>3 DEF IInv

LEMMA TimeoutKeepsIInv ==
  ASSUME IInv, Timeout
  PROVE  IInv'
<1>1. rto' \in Nat /\ TMIN * HZ <= rto' /\ rto' <= TMAX * HZ
  <2>1. 2 * rto \in Nat
    BY SMT DEF IInv, TypeOK, FlagsOK, AddrsOK, CountsOK
  <2> QED
    BY <2>1, Adjusted DEF IInv, TypeOK, FlagsOK, AddrsOK, CountsOK, Timeout
<1>2. TypeOK'
  <2>1. FlagsOK'
    BY Zenon DEF IInv, TypeOK, FlagsOK, RetriesRoom, Timeout, timing
  <2>2. AddrsOK'
    BY <1>1, SMT DEF IInv, TypeOK, AddrsOK, RetriesRoom, Timeout, timing
  <2>3. CountsOK'
    BY <1>1, RudpAssumption, SMT
    DEF IInv, TypeOK, CountsOK, RetriesRoom, Timeout, timing
  <2> QED
    BY <2>1, <2>2, <2>3 DEF TypeOK
<1>3. RetriesCountThisRequest' /\ SendsBounded' /\ RetriesRoom' /\ WaitNeverExtended'
  BY RudpAssumption, SMT
  DEF IInv, TypeOK, CountsOK, RetriesCountThisRequest, SendsBounded, RetriesRoom,
      InExchange,
      WaitNeverExtended, Timeout
<1>4. CacheDiesWithEngine' /\ NetBehind'
  BY DEF IInv, CacheDiesWithEngine, NetBehind, omh, InExchange, Timeout
<1> QED
  BY <1>2, <1>3, <1>4 DEF IInv

LEMMA AnsweredKeepsIInv ==
  ASSUME IInv, NEW m \in net, Answered(m)
  PROVE  IInv'
<1>1. net' \subseteq net /\ dups' \in Nat
  BY SMT DEF IInv, TypeOK, FlagsOK, AddrsOK, CountsOK, Answered, Receive
<1>2. m.call \in Nat
  BY DEF IInv, TypeOK, FlagsOK, AddrsOK, CountsOK, Datagram
<1>3. rto' \in Nat /\ TMIN * HZ <= rto' /\ rto' <= TMAX * HZ
  BY Range, SMT DEF Answered
<1>4. TypeOK'
  <2>1. FlagsOK'
    BY Zenon DEF IInv, TypeOK, FlagsOK, Answered, timing
  <2>2. AddrsOK'
    BY <1>1, <1>2, <1>3, RudpAssumption, SMT
    DEF IInv, TypeOK, AddrsOK, Answered, timing
  <2>3. CountsOK'
    BY <1>1, <1>2, <1>3, RudpAssumption, SMT
    DEF IInv, TypeOK, CountsOK, Answered, timing
  <2> QED
    BY <2>1, <2>2, <2>3 DEF TypeOK
<1>5. RetriesCountThisRequest' /\ SendsBounded' /\ RetriesRoom' /\ WaitNeverExtended'
  BY SMT DEF IInv, TypeOK, CountsOK, RetriesCountThisRequest, SendsBounded,
      RetriesRoom, InExchange,
      WaitNeverExtended, Answered
<1>6. CacheDiesWithEngine'
  BY DEF IInv, CacheDiesWithEngine, InExchange, Answered, Receive
<1>7. NetBehind'
  BY <1>1 DEF IInv, NetBehind, omh, Answered, Receive
<1> QED
  BY <1>4, <1>5, <1>6, <1>7 DEF IInv

LEMMA LateAnswerKeepsIInv ==
  ASSUME IInv, NEW m \in net, LateAnswer(m)
  PROVE  IInv'
<1>1. net' \subseteq net /\ dups' \in Nat
  BY SMT DEF IInv, TypeOK, FlagsOK, AddrsOK, CountsOK, LateAnswer, Receive
<1>2. beg + since \in Nat
  BY RudpAssumption, SMT DEF IInv, TypeOK, FlagsOK, AddrsOK, CountsOK
<1>3. HZ * SecondsPassed \in Nat /\ beg' \in Nat /\ beg' < HZ
  BY <1>2, Seconds DEF LateAnswer, SecondsPassed
<1>4. tv_sel' \in Int /\ tv_sel' <= tv_sel - since
  BY <1>3, SMT DEF IInv, TypeOK, FlagsOK, AddrsOK, CountsOK, LateAnswer, RemainingTime
<1>5. TypeOK'
  <2>1. FlagsOK'
    BY Zenon DEF IInv, TypeOK, FlagsOK, LateAnswer, engine
  <2>2. AddrsOK'
    BY <1>1, <1>3, <1>4, SMT DEF IInv, TypeOK, AddrsOK, LateAnswer, engine
  <2>3. CountsOK'
    BY <1>1, <1>3, <1>4, Range, SMT DEF IInv, TypeOK, CountsOK, LateAnswer, engine
  <2> QED
    BY <2>1, <2>2, <2>3 DEF TypeOK
<1>6. RetriesCountThisRequest' /\ SendsBounded' /\ RetriesRoom'
  BY SMT DEF IInv, TypeOK, CountsOK, RetriesCountThisRequest, SendsBounded,
      RetriesRoom, InExchange,
      LateAnswer, engine
<1>7. WaitNeverExtended'
  BY <1>4, SMT DEF IInv, TypeOK, FlagsOK, AddrsOK, CountsOK, WaitNeverExtended,
      LateAnswer, Receive, engine
<1>8. CacheDiesWithEngine'
  BY DEF IInv, CacheDiesWithEngine, InExchange, LateAnswer, engine
<1>9. NetBehind'
  BY <1>1 DEF IInv, NetBehind, omh, LateAnswer, Receive, engine
<1> QED
  BY <1>5, <1>6, <1>7, <1>8, <1>9 DEF IInv

\* The network and the server invent no sequence number.
LEMMA NetworkKeepsIInv ==
  ASSUME IInv, NEW m \in net, Answer(m) \/ Lose(m)
  PROVE  IInv'
<1> DEFINE reply == [m EXCEPT !.kind = "reply"]
<1>1. m \in Datagram
  BY DEF IInv, TypeOK, FlagsOK, AddrsOK, CountsOK
<1>2. reply \in Datagram /\ reply.seq = m.seq /\ reply.call = m.call
  BY <1>1 DEF Datagram
<1>3. net' \subseteq net \cup {reply} /\ dups' \in Nat
  BY SMT DEF IInv, TypeOK, FlagsOK, AddrsOK, CountsOK, Answer, Lose
<1>4. TypeOK'
  <2>1. FlagsOK'
    BY Zenon DEF IInv, TypeOK, FlagsOK, Answer, Lose, engine, timing
  <2>2. AddrsOK'
    BY <1>2, <1>3, SMT DEF IInv, TypeOK, AddrsOK, Answer, Lose, engine, timing
  <2>3. CountsOK'
    BY <1>2, <1>3, SMT DEF IInv, TypeOK, CountsOK, Answer, Lose, engine, timing
  <2> QED
    BY <2>1, <2>2, <2>3 DEF TypeOK
<1>5. RetriesCountThisRequest' /\ SendsBounded' /\ RetriesRoom' /\ WaitNeverExtended'
  BY SMT DEF IInv, TypeOK, CountsOK, RetriesCountThisRequest, SendsBounded,
      RetriesRoom, InExchange,
      WaitNeverExtended, Answer, Lose, engine, timing
<1>6. CacheDiesWithEngine'
  BY DEF IInv, CacheDiesWithEngine, InExchange, Answer, Lose, engine
<1>7. NetBehind'
  <2>1. \A d \in net' : \E o \in net : d.seq = o.seq /\ d.call = o.call
    BY <1>2, <1>3
  <2> QED
    BY <2>1 DEF IInv, NetBehind, omh, Answer, Lose, engine
<1> QED
  BY <1>4, <1>5, <1>6, <1>7 DEF IInv

LEMMA NextIInv == IInv /\ [Next]_vars => IInv'
<1> SUFFICES ASSUME IInv, [Next]_vars PROVE IInv'
  OBVIOUS
<1>1. CASE UNCHANGED vars
  BY <1>1, Zenon
  DEF vars, IInv, TypeOK, FlagsOK, AddrsOK, CountsOK, RetriesCountThisRequest,
      SendsBounded, WaitNeverExtended,
      CacheDiesWithEngine, RetriesRoom, NetBehind, InExchange, omh
<1>2. CASE \E h \in Hosts : ResolveFails(h) \/ ConnectFails(h) \/ Connect(h)
  BY <1>2, ConnectKeepsIInv
<1>3. CASE Close \/ SendRecvNoMemory \/ GiveUp \/ SendFails \/ SelectFails
  BY <1>3, DeinitKeepsIInv DEF Close, SendRecvNoMemory, GiveUp, SendFails, SelectFails
<1>4. CASE SendRecv
  BY <1>4, SendRecvKeepsIInv
<1>5. CASE Send
  BY <1>5, SendKeepsIInv
<1>6. CASE Tick
  BY <1>6, TickKeepsIInv
<1>7. CASE Timeout
  BY <1>7, TimeoutKeepsIInv
<1>8. CASE \E m \in net : Answered(m) \/ LateAnswer(m)
  BY <1>8, AnsweredKeepsIInv, LateAnswerKeepsIInv
<1>9. CASE \E m \in net : Answer(m) \/ Lose(m)
  BY <1>9, NetworkKeepsIInv
<1> QED
  BY <1>1, <1>2, <1>3, <1>4, <1>5, <1>6, <1>7, <1>8, <1>9 DEF Next, ExchangeStep

LEMMA Invariance == Spec => []IInv
BY InitIInv, NextIInv, PTL DEF Spec

\* The state of the engine keeps its types, and rto its range.
THEOREM TypeCorrect == Spec => []TypeOK
BY Invariance, PTL DEF IInv

\* Every request gets its own transmissions, however the earlier ones went.
THEOREM RetriesAlwaysCount == Spec => []RetriesCountThisRequest
BY Invariance, PTL DEF IInv

\* A silent server is given up after MAXRTT transmissions, another after MAXRT.
THEOREM SendsAlwaysBounded == Spec => []SendsBounded
BY Invariance, PTL DEF IInv

\* Late answers never extend the wait, for every clock and time-out.
THEOREM WaitNeverIsExtended == Spec => []WaitNeverExtended
BY Invariance, PTL DEF IInv

\* The cached address belongs to the connection that is open, or to none.
THEOREM CacheAlwaysDies == Spec => []CacheDiesWithEngine
BY Invariance, PTL DEF IInv

\* Every step of the engine, the network and the server is a step of a transport that
\* answers each request with its own answer, or one that such a transport does not see.
LEMMA StepRefines == IInv /\ [Next]_vars => [RR!Next]_(RR!vars)
<1> SUFFICES ASSUME IInv, [Next]_vars PROVE RR!Next \/ UNCHANGED RR!vars
  OBVIOUS
<1> USE DEF RR!vars, RR!Next, Phase, InExchange
<1>1. CASE UNCHANGED vars
  BY <1>1 DEF vars
<1>2. CASE \E h \in Hosts : ResolveFails(h) \/ ConnectFails(h)
  BY <1>2 DEF ResolveFails, ConnectFails
<1>3. CASE \E h \in Hosts : Connect(h)
  <2>1. RR!Open
    BY <1>3 DEF Connect, RR!Open
  <2> QED
    BY <2>1
<1>4. CASE Close
  <2>1. RR!Close
    BY <1>4 DEF Close, RR!Close
  <2> QED
    BY <2>1
<1>5. CASE SendRecvNoMemory /\ Fail
  <2>1. RR!Abort
    BY <1>5 DEF SendRecvNoMemory, Fail, RR!Abort
  <2> QED
    BY <2>1
<1>6. CASE GiveUp \/ SendFails \/ SelectFails
  <2>1. RR!Abort
    BY <1>6 DEF GiveUp, SendFails, SelectFails, Fail, RR!Abort
  <2> QED
    BY <2>1
<1>7. CASE SendRecv
  <2>1. RR!Call
    BY <1>7 DEF SendRecv, RR!Call
  <2> QED
    BY <2>1
<1>8. CASE Send \/ Timeout \/ Tick
  BY <1>8 DEF Send, Timeout, Tick
<1>9. CASE \E m \in net : Answered(m)
  <2>1. PICK m \in net : Answered(m)
    BY <1>9
  <2>2. m.call = call
    BY <2>1 DEF IInv, NetBehind, Answered, Receive, IsAnswer
  <2>3. RR!Return
    BY <2>1, <2>2 DEF Answered, Receive, RR!Return
  <2> QED
    BY <2>3
<1>10. CASE \E m \in net : LateAnswer(m) \/ Answer(m) \/ Lose(m)
  BY <1>10 DEF LateAnswer, Answer, Lose
<1> QED
  BY <1>1, <1>2, <1>3, <1>4, <1>5, <1>6, <1>7, <1>8, <1>9, <1>10
  DEF Next, ExchangeStep, SendRecvNoMemory

\* Whatever the network loses, delays, reorders or duplicates, a call that returns has
\* the answer to that very call.
THEOREM Implements == Spec => ImplementsRequestReply
<1>1. Init => RR!Init
  BY DEF Init, RR!Init, Phase, InExchange
<1> QED
  BY <1>1, Invariance, StepRefines, PTL DEF Spec, ImplementsRequestReply
=============================================================================

-------------------------- MODULE KeepAliveProofs --------------------------
(***************************************************************************)
(* How the two threads share the keepalive engine (IInv), then the list of *)
(* echo events, and what the count of late echoes says of the time since   *)
(* the last reply (TInv).                                                  *)
(*                                                                         *)
(* An event of the list is as old as the number of requests sent since its *)
(* own, plus it, says (Queue).  That places the events an interval apart   *)
(* and in order, and ties the count of late echoes and the length of the   *)
(* list to the silence (NotTooLong, NotTooShort).                          *)
(***************************************************************************)
EXTENDS KeepAlive, TLAPS, SequenceTheorems

KaFailures == {"KEEPALIVE_ERROR", "KEEPALIVE_TIMEOUT"}

\* The loop is left by a stop or by a status: after either, KA_stop() has joined the
\* thread by the time the next round is reached.
JoinedBeforeDestroy ==
  /\ ~ongoing /\ mpc \in {"query", "lease", "loop"} => tpc = "over"
  /\ status \in KaFailures /\ mpc \in {"lease", "loop"} => tpc = "over"

\* Before KA_start() has stored ONGOING, the thread is still in its first sleep: it has a
\* whole interval of it left, and nobody has told it to stop.
SleepsUntilMarked ==
  mpc = "mark" => tpc = "sleep" /\ wait > 0 /\ eng_ongoing /\ engine = "live"

\* Where the main thread is, what it has created and what it has left.
Stages ==
  /\ mpc \in {"init", "start"} => tpc = "unborn" /\ status = "SUCCESS" /\ ongoing
  /\ mpc = "init" => engine = "none"
  /\ mpc = "start" => eng_ongoing
  /\ mpc \notin {"init", "returned"} => engine = "live"
  /\ mpc = "mark" => status = "SUCCESS" /\ ongoing
  /\ mpc = "query" => status = "SUCCESS"
  /\ tpc = "unborn" => outcome = "none"
  /\ tpc # "over" => outcome = "none"

ControlTypes ==
  /\ parms \in ParmsType
  /\ mpc \in MainPcs /\ status \in LoopStatuses
  /\ ongoing \in BOOLEAN /\ ka_status \in KaStatuses

IInv == ControlTypes /\ Stages /\ SleepsUntilMarked /\ JoinedBeforeDestroy
        /\ EngineOutlivesThread /\ OutcomeKept

----------------------------------------------------------------------------
\* Init establishes the invariant.
LEMMA InitIInv == Init => IInv
  BY KeepAliveAssumption DEF Init, IInv, ControlTypes, Stages, SleepsUntilMarked,
     JoinedBeforeDestroy, EngineOutlivesThread, OutcomeKept, MainPcs, LoopStatuses,
     KaStatuses, KaFailures, ParmsType

\* A step of the keepalive thread leaves the main thread alone; all it does to what the
\* invariant speaks of is to end, and to store why.  It does neither in its first sleep.
LEMMA ThreadStepChanges ==
  ASSUME ThreadStep
  PROVE  /\ UNCHANGED <<parms, mpc, ongoing, status, engine>>
         /\ engine = "live" /\ tpc \notin {"unborn", "over"}
         /\ tpc' # "unborn"
         /\ tpc = "sleep" => wait = 0 \/ ~eng_ongoing
         /\ \/ tpc' = "over" /\ ka_status' = outcome' /\ outcome' \in KaStatuses
            \/ tpc' # "over" /\ UNCHANGED <<ka_status, outcome>>
<1> USE DEF KaStatuses
<1>1. CASE SleepEnds
  BY <1>1 DEF SleepEnds, mainVars
<1>2. CASE LoopTest
  BY <1>2 DEF LoopTest, Finish, mainVars
<1>3. CASE Send
  BY <1>3 DEF Send, Finish, mainVars
<1>4. CASE Sent
  BY <1>4 DEF Sent, Finish, mainVars
<1>5. ASSUME NEW late, NEW on, NEW ret \in KaStatuses, RoundEnds(late, on, ret)
      PROVE  \/ tpc' = "over" /\ ka_status' = outcome' /\ outcome' \in KaStatuses
             \/ tpc' \in {"select", "test"} /\ UNCHANGED <<ka_status, outcome>>
  BY <1>5 DEF RoundEnds, Finish
<1>6. CASE SelectTimesOut
  BY <1>5, <1>6 DEF SelectTimesOut, CountLate, mainVars
<1>7. CASE SelectInterrupted
  BY <1>5, <1>7 DEF SelectInterrupted, CountLate, mainVars
<1>8. CASE Reply
  BY <1>5, <1>8 DEF Reply, mainVars
<1>9. CASE SocketClosed
  BY <1>5, <1>9 DEF SocketClosed, mainVars
<1>10. CASE ReadFails
  BY <1>5, <1>10 DEF ReadFails, mainVars
<1> QED
  BY <1>1, <1>2, <1>3, <1>4, <1>6, <1>7, <1>8, <1>9, <1>10 DEF ThreadStep

\* The keepalive thread preserves the invariant: it runs, so nothing was joined, and once
\* it ends only what asks for its end holds of it.
LEMMA ThreadStepIInv == IInv /\ ThreadStep => IInv'
<1> SUFFICES ASSUME IInv, ThreadStep PROVE IInv'
  OBVIOUS
<1> USE DEF IInv
<1>1. ControlTypes'
  BY ThreadStepChanges DEF ControlTypes
<1>2. mpc # "mark"
  BY ThreadStepChanges DEF SleepsUntilMarked, ControlTypes, ParmsType
<1>3. Stages'
  BY <1>2, ThreadStepChanges DEF Stages
<1>4. SleepsUntilMarked'
  BY <1>2, ThreadStepChanges DEF SleepsUntilMarked
<1>5. JoinedBeforeDestroy'
  BY ThreadStepChanges DEF JoinedBeforeDestroy
<1>6. EngineOutlivesThread'
  BY ThreadStepChanges DEF EngineOutlivesThread
<1>7. OutcomeKept'
  BY ThreadStepChanges DEF OutcomeKept, Stages
<1> QED
  BY <1>1, <1>3, <1>4, <1>5, <1>6, <1>7

\* The main thread preserves the invariant: it passes the query and the lease with a stop
\* or a failure behind it only after Join, and frees the engine only from there.
LEMMA MainStepIInv == IInv /\ MainStep => IInv'
<1> SUFFICES ASSUME IInv, MainStep PROVE IInv'
  OBVIOUS
<1> USE DEF IInv, ControlTypes, Stages, SleepsUntilMarked, JoinedBeforeDestroy,
            EngineOutlivesThread, OutcomeKept, KaFailures, MainPcs, LoopStatuses,
            KaStatuses, threadVars
<1>1. CASE KA_init_fails
  BY <1>1 DEF KA_init_fails, Return
<1>2. CASE KA_init
  BY <1>2 DEF KA_init
<1>3. CASE KA_start_fails
  BY <1>3 DEF KA_start_fails, Return
<1>4. CASE KA_start
  <2>1. tpc' = "sleep" /\ wait' > 0
    BY <1>4 DEF KA_start, FirstWait, ParmsType
  <2> QED
    BY <1>4, <2>1 DEF KA_start
<1>5. CASE MarkOngoing
  BY <1>5 DEF MarkOngoing
<1>6. CASE CheckForStop
  <2>1. CASE ongoing' /\ mpc' = "query"
    BY <1>6, <2>1 DEF CheckForStop
  <2>2. CASE ~ongoing' /\ mpc' = "flag"
    BY <1>6, <2>2 DEF CheckForStop
  <2> QED
    BY <1>6, <2>1, <2>2, Zenon DEF CheckForStop
<1>7. CASE StopFlag
  BY <1>7 DEF StopFlag
<1>8. CASE StopClose
  BY <1>8 DEF StopClose
<1>9. CASE Join
  BY <1>9 DEF Join
<1>10. CASE KA_qry_status
  <2>1. CASE status' = "SUCCESS" /\ mpc' = "lease"
    BY <1>10, <2>1 DEF KA_qry_status
  <2>2. CASE status' \in KaFailures /\ mpc' = "flag"
    BY <1>10, <2>2 DEF KA_qry_status
  <2>3. status' = "SUCCESS" \/ status' \in KaFailures
    BY <1>10 DEF KA_qry_status, StatusOf, KaStatuses
  <2> QED
    BY <1>10, <2>1, <2>2, <2>3 DEF KA_qry_status
<1>11. CASE LeaseHolds
  BY <1>11 DEF LeaseHolds
<1>12. CASE LeaseExpires
  BY <1>12 DEF LeaseExpires
<1>13. CASE KA_destroy
  BY <1>13 DEF KA_destroy, Return
<1> QED
  BY <1>1, <1>2, <1>3, <1>4, <1>5, <1>6, <1>7, <1>8, <1>9, <1>10, <1>11, <1>12, <1>13
     DEF MainStep

\* The network does not touch the threads, and time only shortens a wait; it does not
\* pass before KA_start() has stored ONGOING.
LEMMA WorldStepIInv == IInv /\ (Lose \/ Tick \/ UNCHANGED vars) => IInv'
<1> USE DEF IInv, ControlTypes, Stages, SleepsUntilMarked, JoinedBeforeDestroy,
            EngineOutlivesThread, OutcomeKept, mainVars, threadVars
<1>1. IInv /\ Lose => IInv'
  BY DEF Lose
<1>2. IInv /\ Tick => IInv'
  BY DEF Tick
<1>3. IInv /\ UNCHANGED vars => IInv'
  BY DEF vars
<1> QED
  BY <1>1, <1>2, <1>3

\* The invariant holds of every reachable state.
LEMMA Invariance == Spec => []IInv
<1>1. IInv /\ [Next]_vars => IInv'
  BY MainStepIInv, ThreadStepIInv, WorldStepIInv DEF Next
<1> QED
  BY <1>1, InitIInv, PTL DEF Spec

\* Whatever the parameters and the network: unless a lease ended the loop, KA_destroy()
\* frees the engines only after the keepalive thread has ended.
THEOREM EngineAlwaysOutlivesThread == Spec => []EngineOutlivesThread
<1>1. IInv => EngineOutlivesThread
  BY DEF IInv
<1> QED
  BY <1>1, Invariance, PTL

\* What the keepalive thread ended with is never overwritten.
THEOREM OutcomeAlwaysKept == Spec => []OutcomeKept
<1>1. IInv => OutcomeKept
  BY DEF IInv
<1> QED
  BY <1>1, Invariance, PTL

----------------------------------------------------------------------------
(* The echo events and the time.                                           *)

\* n intervals.  Its facts are lemmas; elsewhere it stays folded, which keeps products
\* away from the provers.
Span(n, p) == n * p.send_interval

EventType == [seq : 0..(SeqRange - 1), left : Nat]

\* Ticks until the next request.
Left == IF tpc = "sent" THEN parms.send_interval ELSE wait

\* The requests sent since that of number seq, with it, when next is the number to come.
Back(seq, next) == IF seq < next THEN next - seq ELSE next + SeqRange - seq

\* The events are an interval apart or more; each was given echo_timeout at its request,
\* and there were at least as many requests since as there are events behind it.
Queue(list, next, left, p) ==
  /\ \A i, j \in DOMAIN list : i < j => list[i].left + p.send_interval <= list[j].left
  /\ \A i \in DOMAIN list :
       /\ list[i].left = p.echo_timeout + left - Span(Back(list[i].seq, next), p)
       /\ list[i].left <= p.echo_timeout + left - Span(Len(list) - i + 1, p)

\* The events after a tick.
Older(list) == [i \in DOMAIN list |-> [list[i] EXCEPT !.left = @ - 1]]

\* EventListSound, of any list.
Sound(list) ==
  \A i, j \in DOMAIN list :
    i < j => /\ list[i].seq # list[j].seq
             /\ list[i].left < list[j].left

----------------------------------------------------------------------------
(* Intervals *)

\* Intervals add up, and more of them last longer.
LEMMA SpanFacts ==
  ASSUME NEW p \in ParmsType
  PROVE  /\ \A n \in Int : Span(n, p) \in Int
         /\ Span(0, p) = 0 /\ Span(1, p) = p.send_interval
         /\ \A n \in Int : Span(n + 1, p) = Span(n, p) + p.send_interval
         /\ \A m, n \in Int : Span(m + n, p) = Span(m, p) + Span(n, p)
         /\ \A m, n \in Int : m <= n => Span(m, p) <= Span(n, p)
<1> DEFINE d == p.send_interval
<1>1. d \in Nat /\ d > 0
  BY DEF ParmsType
<1> HIDE DEF d
<1>2. \A m, n \in Int : (m + n) * d = m * d + n * d
  BY <1>1
<1>3. \A n \in Int : n >= 0 => n * d >= 0
  BY <1>1
<1>4. \A m, n \in Int : m <= n => m * d <= n * d
  <2> SUFFICES ASSUME NEW m \in Int, NEW n \in Int, m <= n PROVE m * d <= n * d
    OBVIOUS
  <2>1. n = m + (n - m) /\ n - m \in Int /\ n - m >= 0
    OBVIOUS
  <2>2. n * d = m * d + (n - m) * d
    BY <1>2, <2>1
  <2>3. (n - m) * d >= 0 /\ (n - m) * d \in Int /\ m * d \in Int /\ n * d \in Int
    BY <1>1, <1>3, <2>1
  <2> QED
    BY <2>2, <2>3
<1>5. \A n \in Int : n * d \in Int
  BY <1>1
<1>6. 0 * d = 0 /\ 1 * d = d
  BY <1>1
<1>7. \A n \in Int : (n + 1) * d = n * d + d
  BY <1>2, <1>6
<1>8. \A n \in Int : Span(n, p) = n * d
  BY DEF Span, d
<1>9. \A n \in Int : Span(n, p) \in Int
  BY <1>5, <1>8
<1>10. Span(0, p) = 0 /\ Span(1, p) = p.send_interval
  BY <1>6, <1>8 DEF d
<1>11. \A n \in Int : Span(n + 1, p) = Span(n, p) + p.send_interval
  <2> TAKE n \in Int
  <2>1. n + 1 \in Int
    OBVIOUS
  <2> QED
    BY <1>7, <1>8, <2>1 DEF d
<1>12. \A m, n \in Int : Span(m + n, p) = Span(m, p) + Span(n, p)
  <2> TAKE m, n \in Int
  <2>1. m + n \in Int
    OBVIOUS
  <2> QED
    BY <1>2, <1>8, <2>1
<1>13. \A m, n \in Int : m <= n => Span(m, p) <= Span(n, p)
  BY <1>4, <1>8
<1> QED
  BY <1>9, <1>10, <1>11, <1>12, <1>13

\* What the two halves of an element of ParmsType need.
LEMMA ParmsFacts ==
  ASSUME NEW p \in ParmsType
  PROVE  /\ p.send_interval \in Nat /\ p.send_interval > 0
         /\ p.echo_timeout \in Nat /\ p.echo_timeout > 0
         /\ p.echo_timeout_threshold \in Nat /\ p.echo_timeout_threshold > 0
  BY DEF ParmsType

\* The number after count_send.
LEMMA NextSeqIs ==
  ASSUME count_send \in 0..(SeqRange - 1)
  PROVE  NextSeq = IF count_send = SeqRange - 1 THEN 0 ELSE count_send + 1
  BY KeepAliveAssumption DEF NextSeq

----------------------------------------------------------------------------
(* The list of echo events *)

\* RemoveAt() of SequencesExt, element by element.
LEMMA RemoveAtFacts ==
  ASSUME NEW S, NEW s \in Seq(S), NEW k \in 1..Len(s)
  PROVE  /\ RemoveAt(s, k) \in Seq(S)
         /\ Len(RemoveAt(s, k)) = Len(s) - 1
         /\ \A j \in 1..(k - 1) : RemoveAt(s, k)[j] = s[j]
         /\ \A j \in k..(Len(s) - 1) : RemoveAt(s, k)[j] = s[j + 1]
<1> DEFINE front == SubSeq(s, 1, k - 1)
           back == SubSeq(s, k + 1, Len(s))
<1>1. /\ front \in Seq(S) /\ Len(front) = k - 1
      /\ \A j \in 1..(k - 1) : front[j] = s[j]
  OBVIOUS
<1>2. /\ back \in Seq(S) /\ Len(back) = Len(s) - k
      /\ \A j \in 1..(Len(s) - k) : back[j] = s[k + j]
  OBVIOUS
<1>3. RemoveAt(s, k) = front \o back
  BY DEF RemoveAt
<1> HIDE DEF front, back
<1>4. front \o back \in Seq(S) /\ Len(front \o back) = Len(s) - 1
  BY <1>1, <1>2
<1>5. \A j \in 1..(k - 1) : (front \o back)[j] = s[j]
  BY <1>1, <1>2
<1>6. ASSUME NEW j \in k..(Len(s) - 1)
      PROVE  (front \o back)[j] = s[j + 1]
  <2>1. (front \o back)[j] = back[j - (k - 1)]
    BY <1>1, <1>2
  <2>2. back[j - (k - 1)] = s[k + (j - (k - 1))]
    BY <1>2
  <2>3. k + (j - (k - 1)) = j + 1
    OBVIOUS
  <2> QED
    BY <2>1, <2>2, <2>3, Zenon
<1> QED
  BY <1>3, <1>4, <1>5, <1>6

\* Back() counts from 1.
LEMMA BackType ==
  ASSUME NEW seq \in 0..(SeqRange - 1), NEW next \in 0..(SeqRange - 1)
  PROVE  Back(seq, next) \in Int /\ Back(seq, next) >= 1
  BY KeepAliveAssumption DEF Back

\* What a queue says of two of its events, and of one, with their types.
LEMMA QueueApart ==
  ASSUME NEW p \in ParmsType, NEW list \in Seq(EventType), NEW left, NEW next,
         Queue(list, next, left, p),
         NEW i \in DOMAIN list, NEW j \in DOMAIN list, i < j
  PROVE  /\ list[i].left \in Nat /\ list[j].left \in Nat
         /\ list[i].left + p.send_interval <= list[j].left
         /\ list[i].left < list[j].left
<1>1. list[i] \in EventType /\ list[j] \in EventType
  OBVIOUS
<1>2. list[i].left \in Nat /\ list[j].left \in Nat
  BY <1>1 DEF EventType
<1>3. list[i].left + p.send_interval <= list[j].left
  BY DEF Queue
<1>4. p.send_interval \in Nat /\ p.send_interval > 0
  BY ParmsFacts
<1> QED
  BY <1>2, <1>3, <1>4

LEMMA QueueAt ==
  ASSUME NEW p \in ParmsType, NEW list \in Seq(EventType), NEW left \in Int,
         NEW next \in 0..(SeqRange - 1), Queue(list, next, left, p),
         NEW i \in DOMAIN list
  PROVE  /\ list[i] \in EventType
         /\ list[i].seq \in 0..(SeqRange - 1) /\ list[i].left \in Nat
         /\ Back(list[i].seq, next) \in Int /\ Back(list[i].seq, next) >= 1
         /\ Span(Back(list[i].seq, next), p) \in Int
         /\ Span(Back(list[i].seq, next), p) >= p.send_interval
         /\ list[i].left = p.echo_timeout + left - Span(Back(list[i].seq, next), p)
         /\ Span(Len(list) - i + 1, p) \in Int
         /\ list[i].left <= p.echo_timeout + left - Span(Len(list) - i + 1, p)
<1>1. list[i] \in EventType
  OBVIOUS
<1>2. list[i].seq \in 0..(SeqRange - 1) /\ list[i].left \in Nat
  BY <1>1 DEF EventType
<1>3. Back(list[i].seq, next) \in Int /\ Back(list[i].seq, next) >= 1
  BY <1>2, BackType
<1>4. Len(list) - i + 1 \in Int
  OBVIOUS
<1>5. Span(1, p) = p.send_interval /\ Span(Back(list[i].seq, next), p) \in Int
      /\ Span(1, p) <= Span(Back(list[i].seq, next), p)
      /\ Span(Len(list) - i + 1, p) \in Int
  BY <1>3, <1>4, SpanFacts
<1>6. /\ list[i].left = p.echo_timeout + left - Span(Back(list[i].seq, next), p)
      /\ list[i].left <= p.echo_timeout + left - Span(Len(list) - i + 1, p)
  BY DEF Queue
<1> QED
  BY <1>1, <1>2, <1>3, <1>5, <1>6, Zenon

\* Events in such a queue are in order and have numbers of their own.
LEMMA QueueSound ==
  ASSUME NEW p \in ParmsType, NEW list \in Seq(EventType), NEW left \in Int,
         NEW next \in 0..(SeqRange - 1), Queue(list, next, left, p)
  PROVE  Sound(list)
<1> SUFFICES ASSUME NEW i \in DOMAIN list, NEW j \in DOMAIN list, i < j
             PROVE  list[i].seq # list[j].seq /\ list[i].left < list[j].left
  BY DEF Sound
<1>1. list[i].left < list[j].left /\ list[i].left \in Nat /\ list[j].left \in Nat
  BY QueueApart
<1>2. ASSUME list[i].seq = list[j].seq PROVE list[i].left = list[j].left
  BY <1>2 DEF Queue
<1> QED
  BY <1>1, <1>2

\* A tick brings every event, and the next request, closer by one.
LEMMA QueueTick ==
  ASSUME NEW p \in ParmsType, NEW list \in Seq(EventType), NEW left \in Int,
         NEW next \in 0..(SeqRange - 1), Queue(list, next, left, p),
         list # <<>> => Head(list).left > 0
  PROVE  /\ Older(list) \in Seq(EventType) /\ Len(Older(list)) = Len(list)
         /\ Older(list) # <<>> <=> list # <<>>
         /\ Older(list) # <<>> => Head(Older(list)).left = Head(list).left - 1
         /\ Queue(Older(list), next, left - 1, p)
<1> DEFINE older == Older(list)
<1>1. \A i \in DOMAIN list : list[i] \in EventType
  OBVIOUS
<1>2. \A i \in DOMAIN list : list[i].left > 0
  <2> TAKE i \in DOMAIN list
  <2>1. CASE i = 1
    BY <2>1
  <2>2. CASE i > 1
    <3>1. 1 \in DOMAIN list /\ list[1].left > 0
      BY <2>2
    <3>2. list[1].left < list[i].left /\ list[1].left \in Nat /\ list[i].left \in Nat
      BY <2>2, <3>1, QueueApart
    <3> QED
      BY <3>1, <3>2
  <2> QED
    BY <2>1, <2>2
<1>3. \A i \in DOMAIN list : /\ older[i] \in EventType
                            /\ older[i].seq = list[i].seq
                            /\ older[i].left = list[i].left - 1
  BY <1>1, <1>2 DEF EventType, Older
<1>4. DOMAIN older = 1..Len(list) /\ older = [i \in DOMAIN older |-> older[i]]
  BY DEF Older
<1> HIDE DEF older
<1>5. older \in Seq(EventType) /\ Len(older) = Len(list)
  <2>1. older = [i \in 1..Len(list) |-> older[i]]
    BY <1>4
  <2>2. \A i \in 1..Len(list) : older[i] \in EventType
    BY <1>3
  <2>3. [i \in 1..Len(list) |-> older[i]] \in Seq(EventType)
    BY <2>2, IsASeq
  <2> QED
    BY <1>4, <2>1, <2>3
<1>6. (older # <<>> <=> list # <<>>) /\ (older # <<>> => Head(older).left = Head(list).left - 1)
  BY <1>3, <1>5
<1>7. Queue(older, next, left - 1, p)
  <2>1. ASSUME NEW i \in DOMAIN older, NEW j \in DOMAIN older, i < j
        PROVE  older[i].left + p.send_interval <= older[j].left
    <3>1. i \in DOMAIN list /\ j \in DOMAIN list
      BY <2>1, <1>4
    <3>2. /\ list[i].left \in Nat /\ list[j].left \in Nat
          /\ list[i].left + p.send_interval <= list[j].left
      BY <2>1, <3>1, QueueApart
    <3>3. older[i].left = list[i].left - 1 /\ older[j].left = list[j].left - 1
      BY <1>3, <3>1
    <3>4. p.send_interval \in Nat
      BY ParmsFacts
    <3> DEFINE x == list[i].left
               y == list[j].left
               d == p.send_interval
    <3>5. x \in Nat /\ y \in Nat /\ d \in Nat /\ x + d <= y
      BY <3>2, <3>4
    <3>6. older[i].left = x - 1 /\ older[j].left = y - 1
      BY <3>3
    <3> HIDE DEF x, y
    <3>7. (x - 1) + d <= y - 1
      <4> HIDE DEF d
      <4> QED
        BY <3>5
    <3> QED
      BY <3>6, <3>7
  <2>2. ASSUME NEW i \in DOMAIN older
        PROVE  /\ older[i].left
                    = p.echo_timeout + (left - 1) - Span(Back(older[i].seq, next), p)
               /\ older[i].left
                    <= p.echo_timeout + (left - 1) - Span(Len(older) - i + 1, p)
    <3>1. i \in DOMAIN list
      BY <2>2, <1>4
    <3> DEFINE b == Span(Back(list[i].seq, next), p)
               c == Span(Len(list) - i + 1, p)
    <3>2. /\ list[i].left \in Nat /\ b \in Int /\ c \in Int
          /\ list[i].left = p.echo_timeout + left - b
          /\ list[i].left <= p.echo_timeout + left - c
      BY <3>1, QueueAt
    <3>3. older[i].seq = list[i].seq /\ older[i].left = list[i].left - 1
      BY <1>3, <3>1
    <3>4. p.echo_timeout \in Nat
      BY ParmsFacts
    <3>5. Span(Back(older[i].seq, next), p) = b /\ Span(Len(older) - i + 1, p) = c
      BY <1>5, <3>3
    <3> HIDE DEF b, c
    <3> DEFINE x == list[i].left
               e == p.echo_timeout
    <3>6. /\ older[i].left = p.echo_timeout + (left - 1) - b
          /\ older[i].left <= p.echo_timeout + (left - 1) - c
      <4>1. older[i].left = x - 1
        BY <3>3
      <4>2. x \in Nat /\ e \in Nat /\ x = e + left - b /\ x <= e + left - c
        BY <3>2, <3>4
      <4> HIDE DEF x
      <4>3. x - 1 = e + (left - 1) - b /\ x - 1 <= e + (left - 1) - c
        <5> HIDE DEF e
        <5> QED
          BY <3>2, <4>2
      <4> QED
        BY <4>1, <4>3
    <3> QED
      BY <3>5, <3>6, Zenon
  <2> QED
    BY <2>1, <2>2 DEF Queue
<1> QED
  BY <1>5, <1>6, <1>7 DEF older

\* An event that leaves the queue leaves one: those before it have fewer behind them.
LEMMA QueueRemove ==
  ASSUME NEW p \in ParmsType, NEW list \in Seq(EventType), NEW left \in Int,
         NEW next \in 0..(SeqRange - 1), Queue(list, next, left, p),
         NEW k \in 1..Len(list)
  PROVE  Queue(RemoveAt(list, k), next, left, p)
<1> DEFINE rest == RemoveAt(list, k)
           at(i) == IF i < k THEN i ELSE i + 1
<1>1. rest \in Seq(EventType) /\ Len(rest) = Len(list) - 1
  BY RemoveAtFacts
<1>2. \A i \in 1..Len(rest) : rest[i] = list[at(i)] /\ at(i) \in DOMAIN list
  BY <1>1, RemoveAtFacts
<1>3. \A i, j \in 1..Len(rest) : i < j => at(i) < at(j)
  BY <1>1
<1>4. \A i \in DOMAIN list : list[i] \in EventType
  OBVIOUS
<1> HIDE DEF rest
<1>5. ASSUME NEW i \in DOMAIN rest, NEW j \in DOMAIN rest, i < j
      PROVE  rest[i].left + p.send_interval <= rest[j].left
  <2> HIDE DEF at
  <2>1. i \in 1..Len(rest) /\ j \in 1..Len(rest)
    BY <1>1, <1>5
  <2>2. at(i) \in DOMAIN list /\ at(j) \in DOMAIN list /\ at(i) < at(j)
    BY <1>2, <1>3, <1>5, <2>1
  <2>3. list[at(i)].left + p.send_interval <= list[at(j)].left
    BY <2>2, QueueApart
  <2> QED
    BY <1>2, <2>1, <2>3
<1>6. ASSUME NEW i \in DOMAIN rest
      PROVE  /\ rest[i].left = p.echo_timeout + left - Span(Back(rest[i].seq, next), p)
             /\ rest[i].left <= p.echo_timeout + left - Span(Len(rest) - i + 1, p)
  <2> DEFINE m == Len(list) - at(i) + 1
             n == Len(rest) - i + 1
  <2>1. i \in 1..Len(rest)
    BY <1>1, <1>6
  <2>2. m \in Int /\ n \in Int /\ n <= m
    BY <1>1, <2>1
  <2>3. /\ rest[i].left = p.echo_timeout + left - Span(Back(rest[i].seq, next), p)
        /\ rest[i].left <= p.echo_timeout + left - Span(m, p)
    <3> HIDE DEF at
    <3> QED
      BY <1>2, <2>1 DEF Queue
  <2>4. rest[i].left \in Nat /\ p.echo_timeout \in Nat
    <3> HIDE DEF at
    <3> QED
      BY <1>2, <2>1, QueueAt, ParmsFacts
  <2> HIDE DEF m, n
  <2>5. Span(n, p) <= Span(m, p) /\ Span(n, p) \in Int /\ Span(m, p) \in Int
    BY <2>2, SpanFacts
  <2>6. rest[i].left <= p.echo_timeout + left - Span(n, p)
    BY <2>3, <2>4, <2>5
  <2> QED
    BY <2>3, <2>6 DEF n
<1> QED
  BY <1>5, <1>6 DEF Queue, rest

\* _do_send(): the new event goes to the end of the list, no event has its number, and
\* the next request is an interval away.
LEMMA QueueAppend ==
  ASSUME NEW p \in Parms, NEW list \in Seq(EventType),
         NEW next \in 0..(SeqRange - 1), Queue(list, next, 0, p), NEW after,
         after = IF next = SeqRange - 1 THEN 0 ELSE next + 1
  PROVE  LET e == [seq |-> next, left |-> p.echo_timeout]
             longer == _insert_echo_event(list, e)
         IN  /\ longer = Append(list, e)
             /\ longer \in Seq(EventType)
             /\ Queue(longer, after, p.send_interval, p)
<1> DEFINE e == [seq |-> next, left |-> p.echo_timeout]
           longer == Append(list, e)
<1>1. p \in ParmsType
  BY KeepAliveAssumption
<1>2. e \in EventType /\ e.seq = next /\ e.left = p.echo_timeout
  BY <1>1, ParmsFacts DEF EventType
<1>3. \A i \in DOMAIN list : list[i] \in EventType
  OBVIOUS
<1>4. ASSUME NEW i \in DOMAIN list
      PROVE  /\ list[i].left + p.send_interval <= p.echo_timeout
             /\ Span(Back(list[i].seq, next), p) \in Int
             /\ list[i].left = p.echo_timeout - Span(Back(list[i].seq, next), p)
  <2> DEFINE b == Span(Back(list[i].seq, next), p)
  <2>1. b \in Int /\ b >= p.send_interval /\ list[i].left = p.echo_timeout + 0 - b
    BY <1>1, QueueAt
  <2>2. p.echo_timeout \in Nat /\ p.send_interval \in Nat
    BY <1>1, ParmsFacts
  <2> HIDE DEF b
  <2>3. list[i].left + p.send_interval <= p.echo_timeout /\ b \in Int
        /\ list[i].left = p.echo_timeout - b
    BY <2>1, <2>2
  <2> QED
    BY <2>3 DEF b
<1>5. ASSUME NEW i \in DOMAIN list
      PROVE  Back(list[i].seq, after) = Back(list[i].seq, next) + 1
  <2>1. list[i].seq \in 0..(SeqRange - 1) /\ list[i].left \in Nat
    BY <1>3, <1>5 DEF EventType
  <2>2. list[i].seq # next
    <3> SUFFICES ASSUME list[i].seq = next PROVE FALSE
      OBVIOUS
    <3>1. Back(list[i].seq, next) = SeqRange
      BY <2>1, KeepAliveAssumption DEF Back
    <3>2. p.echo_timeout < Span(SeqRange, p)
      BY NumbersAssumption DEF Span
    <3>3. Span(SeqRange, p) \in Int /\ list[i].left = p.echo_timeout - Span(SeqRange, p)
      BY <1>4, <3>1
    <3>4. p.echo_timeout \in Nat
      BY <1>1, ParmsFacts
    <3> QED
      BY <2>1, <3>2, <3>3, <3>4
  <2>3. SeqRange \in Nat \ {0}
    BY KeepAliveAssumption
  <2> DEFINE s == list[i].seq
  <2>4. s \in 0..(SeqRange - 1) /\ s # next
    BY <2>1, <2>2
  <2> HIDE DEF s
  <2>5. Back(s, after) = Back(s, next) + 1
    BY <2>3, <2>4 DEF Back
  <2> QED
    BY <2>5 DEF s
<1>6. Back(next, after) = 1
  BY KeepAliveAssumption DEF Back
<1>7. _insert_echo_event(list, e) = longer
  <2>1. ASSUME NEW i \in DOMAIN list PROVE list[i].left < p.echo_timeout
    <3>1. list[i].left + p.send_interval <= p.echo_timeout
      BY <1>4
    <3>2. list[i].left \in Nat
      BY <1>3 DEF EventType
    <3>3. /\ p.echo_timeout \in Nat /\ p.send_interval \in Nat /\ p.send_interval > 0
      BY <1>1, ParmsFacts
    <3> QED
      BY <3>1, <3>2, <3>3
  <2> QED
    BY <1>2, <2>1 DEF _insert_echo_event
<1>8. /\ longer \in Seq(EventType) /\ Len(longer) = Len(list) + 1
      /\ \A i \in 1..Len(longer) :
           longer[i] = IF i <= Len(list) THEN list[i] ELSE e
  <2> HIDE DEF e
  <2> QED
    BY <1>2
<1> HIDE DEF e, longer
<1>9. ASSUME NEW i \in DOMAIN longer, NEW j \in DOMAIN longer, i < j
      PROVE  longer[i].left + p.send_interval <= longer[j].left
  <2>1. i \in DOMAIN list /\ longer[i] = list[i]
    BY <1>8, <1>9
  <2>2. CASE j <= Len(list)
    <3>1. j \in DOMAIN list /\ longer[j] = list[j]
      BY <1>8, <1>9, <2>2
    <3>2. list[i].left + p.send_interval <= list[j].left
      BY <1>9, <2>1, <3>1 DEF Queue
    <3> QED
      BY <2>1, <3>1, <3>2
  <2>3. CASE j > Len(list)
    <3>1. longer[j] = e
      BY <1>8, <1>9, <2>3
    <3> QED
      BY <1>2, <1>4, <2>1, <3>1
  <2> QED
    BY <1>8, <1>9, <2>2, <2>3
<1>10. ASSUME NEW i \in DOMAIN longer
       PROVE  /\ longer[i].left = p.echo_timeout + p.send_interval
                                  - Span(Back(longer[i].seq, after), p)
              /\ longer[i].left <= p.echo_timeout + p.send_interval
                                   - Span(Len(longer) - i + 1, p)
  <2>1. CASE i <= Len(list)
    <3> DEFINE b == Back(list[i].seq, next)
               n == Len(list) - i + 1
    <3>1. i \in DOMAIN list /\ longer[i] = list[i]
      BY <1>8, <1>10, <2>1
    <3>2. b \in Int /\ n \in Int /\ list[i].left \in Nat
      BY <1>1, <3>1, QueueAt
    <3>3. /\ list[i].left = p.echo_timeout + 0 - Span(b, p)
          /\ list[i].left <= p.echo_timeout + 0 - Span(n, p)
      BY <1>1, <3>1, QueueAt
    <3>4. Back(longer[i].seq, after) = b + 1 /\ Len(longer) - i + 1 = n + 1
      BY <1>5, <1>8, <1>10, <3>1
    <3> HIDE DEF b, n
    <3>5. /\ Span(b + 1, p) = Span(b, p) + p.send_interval /\ Span(b, p) \in Int
          /\ Span(n + 1, p) = Span(n, p) + p.send_interval /\ Span(n, p) \in Int
      BY <1>1, <3>2, SpanFacts
    <3>6. p.echo_timeout \in Nat /\ p.send_interval \in Nat
      BY <1>1, ParmsFacts
    <3>7. /\ list[i].left = p.echo_timeout + p.send_interval - Span(b + 1, p)
          /\ list[i].left <= p.echo_timeout + p.send_interval - Span(n + 1, p)
      <4> DEFINE x == list[i].left
                 u == Span(b, p)
                 v == Span(n, p)
                 t == p.echo_timeout
                 d == p.send_interval
      <4>1. x \in Int /\ u \in Int /\ v \in Int /\ t \in Int /\ d \in Int
        BY <3>2, <3>5, <3>6
      <4>2. x = t + 0 - u /\ x <= t + 0 - v
        BY <3>3
      <4> HIDE DEF x, u, v, t, d
      <4>3. x = t + d - (u + d) /\ x <= t + d - (v + d)
        BY <4>1, <4>2
      <4>4. Span(b + 1, p) = u + d /\ Span(n + 1, p) = v + d
        BY <3>5 DEF u, v, d
      <4> QED
        BY <4>3, <4>4 DEF x, t, d
    <3> QED
      BY <3>1, <3>4, <3>7
  <2>2. CASE i > Len(list)
    <3>1. longer[i] = e /\ Len(longer) - i + 1 = 1
      BY <1>8, <1>10, <2>2
    <3>2. Span(1, p) = p.send_interval
      BY <1>1, SpanFacts
    <3>3. p.echo_timeout \in Nat /\ p.send_interval \in Nat
      BY <1>1, ParmsFacts
    <3> QED
      BY <1>2, <1>6, <3>1, <3>2, <3>3
  <2> QED
    BY <1>8, <1>10, <2>1, <2>2
<1>11. Queue(longer, after, p.send_interval, p)
  BY <1>9, <1>10 DEF Queue
<1> QED
  BY <1>7, <1>8, <1>11 DEF e, longer

\* In a list without repeated numbers _remove_free_echo_event() removes the event asked for.
LEMMA WithoutIs ==
  ASSUME NEW list \in Seq(EventType), Sound(list), NEW k \in 1..Len(list)
  PROVE  Without(list, list[k].seq) = RemoveAt(list, k)
<1> DEFINE with == {i \in DOMAIN list : list[i].seq = list[k].seq}
<1>1. with = {k}
  <2>1. ASSUME NEW i \in DOMAIN list, list[i].seq = list[k].seq PROVE i = k
    <3>1. ~(i < k)
      BY <2>1 DEF Sound
    <3>2. ~(k < i)
      BY <2>1 DEF Sound
    <3> QED
      BY <3>1, <3>2
  <2> QED
    BY <2>1
<1> HIDE DEF with
<1>2. (CHOOSE i \in with : \A j \in with : i <= j) = k
  BY <1>1
<1>3. with # {}
  BY <1>1
<1> QED
  BY <1>2, <1>3 DEF Without, with

\* Whatever number it is asked for, it leaves a queue.
LEMMA WithoutQueue ==
  ASSUME NEW p \in ParmsType, NEW list \in Seq(EventType), NEW left \in Int,
         NEW next \in 0..(SeqRange - 1), Queue(list, next, left, p), NEW seq
  PROVE  Without(list, seq) \in Seq(EventType) /\ Queue(Without(list, seq), next, left, p)
<1>1. CASE \A i \in DOMAIN list : list[i].seq # seq
  BY <1>1 DEF Without
<1>2. ASSUME NEW k \in DOMAIN list, list[k].seq = seq
      PROVE  Without(list, seq) \in Seq(EventType)
             /\ Queue(Without(list, seq), next, left, p)
  <2>1. k \in 1..Len(list)
    BY <1>2
  <2>2. Without(list, seq) = RemoveAt(list, k)
    BY <1>2, <2>1, QueueSound, WithoutIs
  <2>3. RemoveAt(list, k) \in Seq(EventType)
    BY <2>1, RemoveAtFacts
  <2> QED
    BY <2>1, <2>2, <2>3, QueueRemove
<1> QED
  BY <1>1, <1>2

----------------------------------------------------------------------------
(* The silence *)

\* Ticks until the first event of the list is due; with none, as if one were sent next.
Due(list, left, p) == IF list = <<>> THEN p.echo_timeout + left ELSE Head(list).left

\* Each interval of the silence has an event that is late or in the list.
NotTooLong(list, left, p, late, quiet) ==
  quiet <= Span(late + Len(list), p) + p.send_interval - left

\* Once the next event is due, each late one but those of signals had an interval.
NotTooShort(list, left, p, late, quiet, interrupts) ==
  quiet + Due(list, left, p) >= Span(late - interrupts, p)

Timed(list, left, p, late, quiet, interrupts) ==
  /\ NotTooLong(list, left, p, late, quiet)
  /\ NotTooShort(list, left, p, late, quiet, interrupts)

\* NotTooShort, of the moment an event was due.
Apart(p, late, quiet, interrupts) == quiet >= Span(late - 1 - interrupts, p)

\* A queue's first event is due no later than one sent next would be.
LEMMA DueFacts ==
  ASSUME NEW p \in ParmsType, NEW list \in Seq(EventType), NEW left \in Nat,
         NEW next \in 0..(SeqRange - 1), Queue(list, next, left, p)
  PROVE  /\ Due(list, left, p) \in Nat
         /\ list # <<>> => /\ Head(list) = list[1] /\ 1 \in 1..Len(list)
                           /\ Head(list).left \in Nat
                           /\ Head(list).left + p.send_interval <= p.echo_timeout + left
                           /\ Span(Len(list), p) <= p.echo_timeout + left
<1>1. p.echo_timeout \in Nat /\ p.send_interval \in Nat
  BY ParmsFacts
<1>2. CASE list = <<>>
  BY <1>1, <1>2 DEF Due
<1>3. CASE list # <<>>
  <2>1. Head(list) = list[1] /\ 1 \in DOMAIN list /\ 1 \in 1..Len(list)
    BY <1>3
  <2> DEFINE b == Span(Back(list[1].seq, next), p)
             c == Span(Len(list) - 1 + 1, p)
  <2>2. /\ list[1].left \in Nat /\ b \in Int /\ b >= p.send_interval
        /\ list[1].left = p.echo_timeout + left - b
        /\ c \in Int /\ list[1].left <= p.echo_timeout + left - c
    BY <2>1, QueueAt
  <2>3. c = Span(Len(list), p)
    OBVIOUS
  <2> HIDE DEF b, c
  <2>4. list[1].left + p.send_interval <= p.echo_timeout + left
        /\ c <= p.echo_timeout + left
    <3> DEFINE x == list[1].left
               t == p.echo_timeout
               d == p.send_interval
    <3>1. x \in Nat /\ t \in Nat /\ d \in Nat
      BY <1>1, <2>2
    <3>2. b >= d /\ x = t + left - b /\ x <= t + left - c /\ b \in Int /\ c \in Int
      BY <2>2
    <3> HIDE DEF x, t, d
    <3>3. x + d <= t + left /\ c <= t + left
      BY <3>1, <3>2
    <3> QED
      BY <3>3 DEF x, t, d
  <2> QED
    BY <1>3, <2>1, <2>2, <2>3, <2>4 DEF Due
<1> QED
  BY <1>2, <1>3

\* Once the first event is gone, the next is due an interval later or more.
LEMMA DueNext ==
  ASSUME NEW p \in ParmsType, NEW list \in Seq(EventType), NEW left \in Nat,
         NEW next \in 0..(SeqRange - 1), Queue(list, next, left, p), list # <<>>
  PROVE  LET rest == Without(list, Head(list).seq)
         IN  /\ rest \in Seq(EventType) /\ Queue(rest, next, left, p)
             /\ Len(rest) = Len(list) - 1
             /\ Due(rest, left, p) >= Head(list).left + p.send_interval
<1> DEFINE rest == Without(list, Head(list).seq)
<1>1. Head(list) = list[1] /\ 1 \in 1..Len(list) /\ Sound(list)
      /\ Head(list).left + p.send_interval <= p.echo_timeout + left
  BY DueFacts, QueueSound
<1>2. rest = RemoveAt(list, 1)
  BY <1>1, WithoutIs
<1>3. rest \in Seq(EventType) /\ Queue(rest, next, left, p)
  BY WithoutQueue
<1>4. Len(rest) = Len(list) - 1 /\ \A j \in 1..(Len(list) - 1) : rest[j] = list[j + 1]
  BY <1>1, <1>2, RemoveAtFacts
<1> HIDE DEF rest
<1>5. ASSUME rest = <<>>
      PROVE  Due(rest, left, p) >= Head(list).left + p.send_interval
  <2>1. p.echo_timeout \in Nat /\ p.send_interval \in Nat /\ Head(list).left \in Nat
    BY ParmsFacts, DueFacts
  <2>2. Due(rest, left, p) = p.echo_timeout + left
    BY <1>5 DEF Due
  <2> QED
    BY <1>1, <2>1, <2>2
<1>6. ASSUME rest # <<>>
      PROVE  Due(rest, left, p) >= Head(list).left + p.send_interval
  <2>1. Head(rest) = rest[1] /\ rest[1] = list[2] /\ 1 \in DOMAIN list /\ 2 \in DOMAIN list
    BY <1>1, <1>3, <1>4, <1>6
  <2>2. /\ list[1].left \in Nat /\ list[2].left \in Nat
        /\ list[1].left + p.send_interval <= list[2].left
    BY <2>1, QueueApart
  <2>3. Due(rest, left, p) = list[2].left
    BY <1>6, <2>1 DEF Due
  <2>4. p.send_interval \in Nat
    BY ParmsFacts
  <2> QED
    BY <1>1, <2>2, <2>3, <2>4
<1> QED
  BY <1>3, <1>4, <1>5, <1>6 DEF rest

\* A tick.
LEMMA TimedTick ==
  ASSUME NEW p \in ParmsType, NEW list \in Seq(EventType), NEW left \in Nat,
         NEW next \in 0..(SeqRange - 1), Queue(list, next, left, p),
         NEW late \in Nat, NEW quiet \in Nat, NEW interrupts \in Nat,
         Timed(list, left, p, late, quiet, interrupts),
         NEW older \in Seq(EventType), Len(older) = Len(list),
         older # <<>> <=> list # <<>>,
         older # <<>> => Head(older).left = Head(list).left - 1
  PROVE  Timed(older, left - 1, p, late, quiet + 1, interrupts)
<1>1. p.echo_timeout \in Nat /\ p.send_interval \in Nat
  BY ParmsFacts
<1>2. late + Len(list) \in Int /\ late - interrupts \in Int
  OBVIOUS
<1>3. Span(late + Len(list), p) \in Int /\ Span(late - interrupts, p) \in Int
  BY <1>2, SpanFacts
<1>4. NotTooLong(older, left - 1, p, late, quiet + 1)
  BY <1>1, <1>3, SMTT(30) DEF Timed, NotTooLong
<1>5. Due(list, left, p) \in Nat /\ Due(older, left - 1, p) = Due(list, left, p) - 1
  <2>1. Due(list, left, p) \in Nat
    BY DueFacts
  <2>2. ASSUME list = <<>> PROVE Due(older, left - 1, p) = Due(list, left, p) - 1
    BY <1>1, <2>2 DEF Due
  <2>3. ASSUME list # <<>> PROVE Due(older, left - 1, p) = Due(list, left, p) - 1
    BY <2>3 DEF Due
  <2> QED
    BY <2>1, <2>2, <2>3
<1>6. NotTooShort(older, left - 1, p, late, quiet + 1, interrupts)
  BY <1>3, <1>5 DEF Timed, NotTooShort
<1> QED
  BY <1>4, <1>6 DEF Timed

\* A request.
LEMMA TimedSend ==
  ASSUME NEW p \in ParmsType, NEW list \in Seq(EventType),
         NEW late \in Nat, NEW quiet \in Nat, NEW interrupts \in Nat,
         Timed(list, 0, p, late, quiet, interrupts),
         NEW e \in EventType, e.left = p.echo_timeout
  PROVE  Timed(Append(list, e), p.send_interval, p, late, quiet, interrupts)
<1>1. p.echo_timeout \in Nat /\ p.send_interval \in Nat
  BY ParmsFacts
<1>2. late + Len(list) \in Int
  OBVIOUS
<1>3. Len(Append(list, e)) = Len(list) + 1
  OBVIOUS
<1>4. late + Len(Append(list, e)) = (late + Len(list)) + 1
  BY <1>3
<1>5. Span(late + Len(Append(list, e)), p) = Span(late + Len(list), p) + p.send_interval
      /\ Span(late + Len(list), p) \in Int
  BY <1>2, <1>4, SpanFacts
<1>6. NotTooLong(Append(list, e), p.send_interval, p, late, quiet)
  BY <1>1, <1>5 DEF Timed, NotTooLong
<1>7. Due(Append(list, e), p.send_interval, p) = Due(list, 0, p)
  <2>1. CASE list = <<>>
    BY <1>1, <2>1 DEF Due
  <2>2. CASE list # <<>>
    BY <2>2 DEF Due
  <2> QED
    BY <2>1, <2>2
<1> QED
  BY <1>6, <1>7 DEF Timed, NotTooShort

\* An event that is due is counted and goes.
LEMMA TimedLate ==
  ASSUME NEW p \in ParmsType, NEW list \in Seq(EventType), NEW left \in Nat,
         NEW next \in 0..(SeqRange - 1), Queue(list, next, left, p),
         NEW late \in Nat, NEW quiet \in Nat, NEW interrupts \in Nat,
         Timed(list, left, p, late, quiet, interrupts),
         list # <<>>, Head(list).left = 0
  PROVE  /\ Timed(Without(list, Head(list).seq), left, p, late + 1, quiet, interrupts)
         /\ Apart(p, late + 1, quiet, interrupts)
<1> DEFINE rest == Without(list, Head(list).seq)
           due == Due(rest, left, p)
           n == late - interrupts
<1>1. p.send_interval \in Nat
  BY ParmsFacts
<1>2. /\ rest \in Seq(EventType) /\ Queue(rest, next, left, p)
      /\ Len(rest) = Len(list) - 1 /\ due >= 0 + p.send_interval
  BY DueNext
<1>3. due \in Nat
  BY <1>2, DueFacts
<1> HIDE DEF rest
<1>4. late + 1 + Len(rest) = late + Len(list)
  BY <1>2
<1>5. NotTooLong(rest, left, p, late + 1, quiet)
  BY <1>4 DEF Timed, NotTooLong
<1>6. n \in Int /\ late + 1 - interrupts = n + 1 /\ late + 1 - 1 - interrupts = n
  OBVIOUS
<1>7. Span(n, p) \in Int /\ Span(n + 1, p) = Span(n, p) + p.send_interval
  BY <1>6, SpanFacts
<1>8. Due(list, left, p) = 0
  BY DEF Due
<1>9. quiet >= Span(n, p)
  BY <1>7, <1>8 DEF Timed, NotTooShort
<1> HIDE DEF due, n
<1>10. quiet + due >= Span(n + 1, p)
  BY <1>1, <1>2, <1>3, <1>7, <1>9
<1>11. NotTooShort(rest, left, p, late + 1, quiet, interrupts)
  BY <1>6, <1>10 DEF NotTooShort, due
<1>12. Apart(p, late + 1, quiet, interrupts)
  BY <1>6, <1>9 DEF Apart
<1> QED
  BY <1>5, <1>11, <1>12 DEF Timed, rest

\* A signal pays for the event it may count.
LEMMA TimedSignal ==
  ASSUME NEW p \in ParmsType, NEW list \in Seq(EventType), NEW left \in Nat,
         NEW next \in 0..(SeqRange - 1), Queue(list, next, left, p),
         NEW late \in Nat, NEW quiet \in Nat, NEW interrupts \in Nat,
         Timed(list, left, p, late, quiet, interrupts)
  PROVE  /\ Timed(list, left, p, late, quiet, interrupts + 1)
         /\ list # <<>> => Timed(Without(list, Head(list).seq), left, p,
                                 late + 1, quiet, interrupts + 1)
<1> DEFINE n == late - interrupts
           m == late - (interrupts + 1)
<1>1. n \in Int /\ m \in Int /\ m <= n /\ late + 1 - (interrupts + 1) = n
  OBVIOUS
<1>2. Span(m, p) <= Span(n, p) /\ Span(m, p) \in Int /\ Span(n, p) \in Int
  BY <1>1, SpanFacts
<1>3. Due(list, left, p) \in Nat
  BY DueFacts
<1>4. quiet + Due(list, left, p) >= Span(n, p)
  BY DEF Timed, NotTooShort
<1> HIDE DEF n
<1>5. Timed(list, left, p, late, quiet, interrupts + 1)
  <2>1. quiet + Due(list, left, p) >= Span(m, p)
    <3> HIDE DEF m
    <3> QED
      BY <1>2, <1>3, <1>4
  <2> QED
    BY <2>1 DEF Timed, NotTooShort
<1>6. ASSUME list # <<>>
      PROVE  Timed(Without(list, Head(list).seq), left, p,
                   late + 1, quiet, interrupts + 1)
  <2> DEFINE rest == Without(list, Head(list).seq)
  <2>1. p.send_interval \in Nat
    BY ParmsFacts
  <2>2. /\ rest \in Seq(EventType) /\ Queue(rest, next, left, p)
        /\ Len(rest) = Len(list) - 1
        /\ Due(rest, left, p) >= Head(list).left + p.send_interval
    BY <1>6, DueNext
  <2>3. Due(rest, left, p) \in Nat
    BY <2>2, DueFacts
  <2>4. Due(list, left, p) = Head(list).left
    BY <1>6 DEF Due
  <2> HIDE DEF rest
  <2>5. late + 1 + Len(rest) = late + Len(list)
    BY <2>2
  <2>6. NotTooLong(rest, left, p, late + 1, quiet)
    BY <2>5 DEF Timed, NotTooLong
  <2>7. quiet + Due(rest, left, p) >= Span(n, p)
    BY <1>2, <1>3, <1>4, <2>1, <2>2, <2>3, <2>4, SMTT(30)
  <2> QED
    BY <1>1, <2>6, <2>7 DEF Timed, NotTooShort, rest
<1> QED
  BY <1>5, <1>6

\* A reply on time.
LEMMA TimedReply ==
  ASSUME NEW p \in ParmsType, NEW list \in Seq(EventType), NEW left \in Nat,
         left <= p.send_interval,
         NEW next \in 0..(SeqRange - 1), Queue(list, next, left, p),
         NEW interrupts \in Nat
  PROVE  Timed(list, left, p, 0, 0, interrupts) /\ Apart(p, 0, 0, interrupts)
<1>1. p.send_interval \in Nat /\ Due(list, left, p) \in Nat
  BY ParmsFacts, DueFacts
<1> DEFINE n == 0 + Len(list)
           m == 0 - interrupts
           k == 0 - 1 - interrupts
<1>2. n \in Int /\ m \in Int /\ k \in Int /\ 0 <= n /\ m <= 0 /\ k <= 0
  OBVIOUS
<1> HIDE DEF n, m, k
<1>3. Span(0, p) = 0 /\ Span(n, p) \in Int /\ Span(m, p) \in Int /\ Span(k, p) \in Int
      /\ Span(0, p) <= Span(n, p) /\ Span(m, p) <= Span(0, p) /\ Span(k, p) <= Span(0, p)
  <2>1. Span(0, p) = 0 /\ Span(n, p) \in Int /\ Span(m, p) \in Int /\ Span(k, p) \in Int
    BY <1>2, SpanFacts
  <2>2. \A i, j \in Int : i <= j => Span(i, p) <= Span(j, p)
    BY SpanFacts
  <2>3. Span(0, p) <= Span(n, p)
    BY <1>2, <2>2
  <2>4. Span(m, p) <= Span(0, p)
    BY <1>2, <2>2
  <2>5. Span(k, p) <= Span(0, p)
    BY <1>2, <2>2
  <2> QED
    BY <2>1, <2>3, <2>4, <2>5
<1>4. NotTooLong(list, left, p, 0, 0)
  BY <1>1, <1>3 DEF NotTooLong, n
<1>5. NotTooShort(list, left, p, 0, 0, interrupts)
  BY <1>1, <1>3 DEF NotTooShort, m
<1>6. Apart(p, 0, 0, interrupts)
  BY <1>3 DEF Apart, k
<1> QED
  BY <1>4, <1>5, <1>6 DEF Timed

----------------------------------------------------------------------------
(* The invariant *)

\* Where the thread is, what its wait is; and what a time-out counted.
Rounds ==
  /\ tpc \in {"unborn", "sleep"} => event_list = <<>> /\ count_consec_late = 0
  /\ tpc = "unborn" => wait = 0 /\ silence = 0
  /\ tpc = "test" /\ eng_ongoing => wait = 0
  /\ tpc \in {"send", "sent"} => wait = 0
  /\ tpc # "over" => count_consec_late < parms.echo_timeout_threshold
  /\ outcome = "FIN_TIMEOUT" => count_consec_late = parms.echo_timeout_threshold

\* The conjuncts of TypeOK that the two threads share the work on.
WorldTypes ==
  /\ parms \in Parms
  /\ eng_ongoing \in BOOLEAN
  /\ engine \in {"none", "live", "freed"} /\ icmp_sfd \in {"open", "closed"}
  /\ echoes \subseteq [seq : 0..(SeqRange - 1), age : 0..EchoLife]
  /\ signals \in 0..MaxSignals
  /\ count_send \in 0..(SeqRange - 1)

\* Those only the keepalive thread and the time change, but for the thread's start.
ThreadTypes ==
  /\ tpc \in ThreadPcs
  /\ wait \in 0..parms.send_interval
  /\ count_consec_late \in 0..parms.echo_timeout_threshold
  /\ event_list \in Seq(EventType)
  /\ silence \in Nat
  /\ outcome \in KaStatuses \cup {"none"}

Events ==
  tpc # "over" =>
    /\ Queue(event_list, count_send, Left, parms)
    /\ Timed(event_list, Left, parms, count_consec_late, silence, signals)

TInv ==
  /\ WorldTypes /\ ThreadTypes /\ Rounds /\ Events /\ EventListSound
  /\ Apart(parms, count_consec_late, silence, signals)

\* Init establishes the invariant.
LEMMA InitTInv == Init => TInv
<1> SUFFICES ASSUME Init PROVE TInv
  OBVIOUS
<1>1. parms \in Parms /\ parms \in ParmsType
  BY KeepAliveAssumption DEF Init
<1>2. WorldTypes
  <2>1. count_send \in 0..(SeqRange - 1) /\ signals \in 0..MaxSignals
    BY KeepAliveAssumption DEF Init
  <2>2. echoes \subseteq [seq : 0..(SeqRange - 1), age : 0..EchoLife]
    BY DEF Init
  <2> QED
    BY <1>1, <2>1, <2>2 DEF Init, WorldTypes
<1>3. /\ parms.send_interval \in Nat
      /\ parms.echo_timeout_threshold \in Nat /\ parms.echo_timeout_threshold > 0
  BY <1>1, ParmsFacts
<1>4. ThreadTypes
  BY <1>3 DEF Init, ThreadTypes, ThreadPcs, KaStatuses
<1>5. Rounds
  BY <1>3 DEF Init, Rounds
<1>6. event_list = <<>> /\ event_list \in Seq(EventType) /\ Left = 0
      /\ count_consec_late = 0 /\ silence = 0 /\ signals = 0
  BY <1>4 DEF Init, ThreadTypes, Left
<1>7. Queue(event_list, count_send, 0, parms) /\ EventListSound
  BY <1>6 DEF Queue, EventListSound
<1>8. /\ Timed(event_list, 0, parms, 0, 0, 0)
      /\ Apart(parms, 0, 0, 0)
  <2>1. 0 \in Nat /\ 0 <= parms.send_interval /\ count_send \in 0..(SeqRange - 1)
    BY <1>2, <1>3 DEF WorldTypes
  <2> QED
    BY <1>1, <1>6, <1>7, <2>1, TimedReply
<1> QED
  BY <1>2, <1>4, <1>5, <1>6, <1>7, <1>8 DEF TInv, Events

\* What TInv says of a thread that runs, in the form the lemmas above take.
LEMMA RunningFacts ==
  ASSUME TInv, tpc # "over"
  PROVE  /\ parms \in ParmsType /\ parms \in Parms
         /\ event_list \in Seq(EventType) /\ Sound(event_list)
         /\ wait \in Nat /\ wait <= parms.send_interval
         /\ Left \in Nat /\ Left <= parms.send_interval
         /\ count_send \in 0..(SeqRange - 1)
         /\ count_consec_late \in Nat /\ silence \in Nat /\ signals \in Nat
         /\ Queue(event_list, count_send, Left, parms)
         /\ Timed(event_list, Left, parms, count_consec_late, silence, signals)
<1>1. parms \in ParmsType /\ parms \in Parms
  BY KeepAliveAssumption DEF TInv, WorldTypes
<1>2. parms.send_interval \in Nat /\ parms.echo_timeout_threshold \in Nat
  BY <1>1, ParmsFacts
<1>3. wait \in 0..parms.send_interval
  BY DEF TInv, ThreadTypes
<1>4. wait \in Nat /\ wait <= parms.send_interval
      /\ Left \in Nat /\ Left <= parms.send_interval
  BY <1>2, <1>3 DEF Left
<1>5. event_list \in Seq(EventType) /\ Sound(event_list) /\ silence \in Nat
  BY DEF TInv, ThreadTypes, EventListSound, Sound
<1>6. signals \in Nat /\ count_send \in 0..(SeqRange - 1)
  BY DEF TInv, WorldTypes
<1>7. count_consec_late \in Nat
  BY <1>2 DEF TInv, ThreadTypes
<1>8. /\ Queue(event_list, count_send, Left, parms)
      /\ Timed(event_list, Left, parms, count_consec_late, silence, signals)
  BY DEF TInv, Events
<1> QED
  BY <1>1, <1>4, <1>5, <1>6, <1>7, <1>8

----------------------------------------------------------------------------
(* The main thread, the network, and time *)

\* Of the keepalive thread's state the main thread touches only what it starts with.
LEMMA MainStepChanges ==
  ASSUME MainStep, IInv
  PROVE  /\ UNCHANGED <<parms, count_send, count_consec_late, event_list, outcome,
                        echoes, signals, silence>>
         /\ \/ UNCHANGED <<tpc, wait>>
            \/ tpc = "unborn" /\ tpc' = "sleep" /\ wait' = parms.send_interval
         /\ eng_ongoing' \in BOOLEAN \/ UNCHANGED eng_ongoing
         /\ eng_ongoing' => eng_ongoing \/ tpc = "unborn"
         /\ engine' \in {"live", "freed"} \/ UNCHANGED engine
         /\ icmp_sfd' \in {"open", "closed"} \/ UNCHANGED icmp_sfd
<1> USE DEF threadVars, worldVars
<1>1. CASE KA_init_fails
  BY <1>1 DEF KA_init_fails
<1>2. CASE KA_init
  BY <1>2 DEF KA_init, IInv, Stages
<1>3. CASE KA_start_fails
  BY <1>3 DEF KA_start_fails
<1>4. CASE KA_start
  BY <1>4 DEF KA_start, FirstWait, IInv, Stages
<1>5. CASE MarkOngoing
  BY <1>5 DEF MarkOngoing
<1>6. CASE CheckForStop
  BY <1>6 DEF CheckForStop
<1>7. CASE StopFlag
  BY <1>7 DEF StopFlag
<1>8. CASE StopClose
  BY <1>8 DEF StopClose
<1>9. CASE Join
  BY <1>9 DEF Join
<1>10. CASE KA_qry_status
  BY <1>10 DEF KA_qry_status
<1>11. CASE LeaseHolds
  BY <1>11 DEF LeaseHolds
<1>12. CASE LeaseExpires
  BY <1>12 DEF LeaseExpires
<1>13. CASE KA_destroy
  BY <1>13 DEF KA_destroy
<1> QED
  BY <1>1, <1>2, <1>3, <1>4, <1>5, <1>6, <1>7, <1>8, <1>9, <1>10, <1>11, <1>12, <1>13
     DEF MainStep

\* The main thread preserves the invariant: when it starts the other, that has an interval
\* to wait, no events, and no silence behind it.
LEMMA MainStepTInv == IInv /\ TInv /\ MainStep => TInv'
<1> SUFFICES ASSUME IInv, TInv, MainStep PROVE TInv'
  OBVIOUS
<1>1. WorldTypes'
  BY MainStepChanges DEF TInv, WorldTypes
<1>2. parms.send_interval \in Nat /\ parms \in ParmsType
  BY KeepAliveAssumption, ParmsFacts DEF TInv, WorldTypes
<1>3. ThreadTypes'
  BY <1>2, MainStepChanges DEF TInv, ThreadTypes, ThreadPcs
<1>4. EventListSound'
  BY MainStepChanges DEF TInv, EventListSound
<1>5. Apart(parms, count_consec_late, silence, signals)'
  BY MainStepChanges DEF TInv, Apart
<1>6. CASE UNCHANGED <<tpc, wait>>
  <2>1. Rounds'
    BY <1>6, MainStepChanges DEF TInv, Rounds
  <2>2. Left' = Left
    BY <1>6, MainStepChanges DEF Left
  <2>3. Events'
    BY <1>6, <2>2, MainStepChanges DEF TInv, Events
  <2> QED
    BY <1>1, <1>3, <1>4, <1>5, <2>1, <2>3 DEF TInv
<1>7. CASE tpc = "unborn" /\ tpc' = "sleep" /\ wait' = parms.send_interval
  <2>1. Rounds'
    BY <1>7, MainStepChanges DEF TInv, Rounds
  <2>2. event_list = <<>> /\ count_consec_late = 0 /\ silence = 0
    BY <1>7 DEF TInv, Rounds
  <2>3. Left' = parms.send_interval
    BY <1>7 DEF Left
  <2>4. Queue(event_list, count_send, parms.send_interval, parms)
    BY <2>2 DEF Queue
  <2>5. event_list \in Seq(EventType) /\ count_send \in 0..(SeqRange - 1) /\ signals \in Nat
    BY DEF TInv, ThreadTypes, WorldTypes
  <2>6. Timed(event_list, parms.send_interval, parms, 0, 0, signals)
    BY <1>2, <2>4, <2>5, TimedReply
  <2>7. Events'
    BY <2>2, <2>3, <2>4, <2>6, MainStepChanges DEF Events
  <2> QED
    BY <1>1, <1>3, <1>4, <1>5, <2>1, <2>7 DEF TInv
<1> QED
  BY <1>6, <1>7, MainStepChanges

\* A lost echo leaves the threads alone.
LEMMA LoseTInv == TInv /\ Lose => TInv'
<1> SUFFICES ASSUME TInv, Lose PROVE TInv'
  OBVIOUS
<1>1. /\ UNCHANGED <<parms, eng_ongoing, icmp_sfd, signals, silence, engine, tpc, wait,
                     count_send, count_consec_late, event_list, outcome>>
      /\ echoes' \subseteq echoes
  BY DEF Lose, mainVars, threadVars
<1>2. WorldTypes'
  BY <1>1 DEF TInv, WorldTypes
<1>3. ThreadTypes' /\ Rounds' /\ EventListSound'
  BY <1>1 DEF TInv, ThreadTypes, Rounds, EventListSound
<1>4. Left' = Left
  BY <1>1 DEF Left
<1>5. Events' /\ Apart(parms, count_consec_late, silence, signals)'
  BY <1>1, <1>4 DEF TInv, Events, Apart
<1> QED
  BY <1>2, <1>3, <1>5 DEF TInv

\* Time: every event, and the next request, come closer, and the silence lasts longer.
LEMMA TickTInv == TInv /\ Tick => TInv'
<1> SUFFICES ASSUME TInv, Tick PROVE TInv'
  OBVIOUS
<1>1. /\ UNCHANGED <<parms, eng_ongoing, icmp_sfd, signals, engine, tpc,
                     count_send, count_consec_late, outcome>>
      /\ wait' = wait - 1 /\ silence' = silence + 1
      /\ tpc \in {"sleep", "select"} /\ wait > 0
      /\ tpc = "select" => (event_list # <<>> => Head(event_list).left > 0)
      /\ event_list' = Older(event_list)
      /\ echoes' = {[e EXCEPT !.age = @ + 1] : e \in {x \in echoes : x.age < EchoLife}}
  BY DEF Tick, Waiting, Older, mainVars
<1>2. /\ tpc # "over"
      /\ event_list # <<>> => Head(event_list).left > 0
  BY <1>1 DEF TInv, Rounds
<1>3. Left = wait /\ Left' = Left - 1
  BY <1>1 DEF Left
<1>4. /\ event_list' \in Seq(EventType) /\ Len(event_list') = Len(event_list)
      /\ event_list' # <<>> <=> event_list # <<>>
      /\ event_list' # <<>> => Head(event_list').left = Head(event_list).left - 1
      /\ Queue(event_list', count_send, Left - 1, parms)
  BY <1>1, <1>2, RunningFacts, QueueTick
<1>5. Timed(event_list', Left - 1, parms, count_consec_late, silence + 1, signals)
  BY <1>1, <1>4, RunningFacts, TimedTick
<1>6. Events'
  BY <1>1, <1>3, <1>4, <1>5 DEF Events
<1>7. echoes' \subseteq [seq : 0..(SeqRange - 1), age : 0..EchoLife]
  BY <1>1, KeepAliveAssumption DEF TInv, WorldTypes
<1>8. WorldTypes'
  BY <1>1, <1>7 DEF TInv, WorldTypes
<1>9. ThreadTypes'
  <2>1. wait' \in Nat /\ wait' <= parms.send_interval /\ parms.send_interval \in Nat
    BY <1>1, RunningFacts, ParmsFacts
  <2>2. silence' \in Nat
    BY <1>1, RunningFacts
  <2> QED
    BY <1>1, <1>4, <2>1, <2>2 DEF TInv, ThreadTypes
<1>10. Rounds'
  BY <1>1, <1>4 DEF TInv, Rounds
<1>11. EventListSound'
  <2>1. Sound(event_list')
    <3>1. Left - 1 \in Int /\ parms \in ParmsType /\ count_send \in 0..(SeqRange - 1)
      BY <1>2, RunningFacts
    <3> QED
      BY <1>4, <3>1, QueueSound
  <2> QED
    BY <2>1 DEF Sound, EventListSound
<1>12. Apart(parms, count_consec_late, silence, signals)'
  <2> DEFINE k == count_consec_late - 1 - signals
  <2>1. k \in Int /\ silence \in Nat
    BY <1>1, RunningFacts
  <2>2. Span(k, parms) \in Int
    BY <1>1, <2>1, RunningFacts, SpanFacts
  <2>3. silence >= Span(k, parms)
    BY DEF TInv, Apart
  <2> HIDE DEF k
  <2>4. silence + 1 >= Span(k, parms)
    BY <2>1, <2>2, <2>3
  <2> QED
    BY <1>1, <2>4 DEF Apart, k
<1> QED
  BY <1>6, <1>8, <1>9, <1>10, <1>11, <1>12 DEF TInv

----------------------------------------------------------------------------
(* The keepalive thread *)

\* The end of a round: it goes on with fewer late echoes than the threshold, and ends with
\* FIN_TIMEOUT at the threshold only.
LEMMA RoundEndsFacts ==
  ASSUME NEW late \in Nat, NEW on \in BOOLEAN, NEW ret \in {"FIN_SUCCESS", "FIN_ERROR"},
         RoundEnds(late, on, ret), wait \in Nat,
         parms \in ParmsType, late <= parms.echo_timeout_threshold,
         outcome \in KaStatuses \cup {"none"}, outcome # "FIN_TIMEOUT"
  PROVE  /\ count_consec_late' = late /\ eng_ongoing' \in BOOLEAN
         /\ tpc' \in {"select", "test", "over"}
         /\ tpc' = "test" /\ eng_ongoing' => wait = 0
         /\ tpc' # "over" => late < parms.echo_timeout_threshold
         /\ outcome' \in KaStatuses \cup {"none"}
         /\ outcome' = "FIN_TIMEOUT" => late = parms.echo_timeout_threshold
<1>1. parms.echo_timeout_threshold \in Nat
  BY ParmsFacts
<1>2. CASE late >= parms.echo_timeout_threshold
  BY <1>1, <1>2 DEF RoundEnds, TooManyLate, Finish, KaStatuses
<1>3. CASE late < parms.echo_timeout_threshold
  <2>1. ~TooManyLate(late)
    BY <1>1, <1>3 DEF TooManyLate
  <2>2. CASE ret = "FIN_SUCCESS"
    BY <1>3, <2>1, <2>2 DEF RoundEnds, KaStatuses
  <2>3. CASE ret = "FIN_ERROR"
    BY <1>3, <2>1, <2>3 DEF RoundEnds, Finish, KaStatuses
  <2> QED
    BY <2>2, <2>3
<1> QED
  BY <1>1, <1>2, <1>3

\* A step of the thread preserves the invariant if what it leaves of the list, the count
\* and the silence fits together; the rest is types.
LEMMA ThreadKeeps ==
  ASSUME TInv, tpc \notin {"unborn", "over"},
         UNCHANGED <<parms, engine, icmp_sfd>>,
         eng_ongoing' \in BOOLEAN, signals' \in 0..MaxSignals,
         echoes' \subseteq [seq : 0..(SeqRange - 1), age : 0..EchoLife],
         count_send' \in 0..(SeqRange - 1),
         tpc' \in ThreadPcs \ {"unborn", "sleep"}, wait' \in 0..parms.send_interval,
         count_consec_late' \in 0..parms.echo_timeout_threshold,
         event_list' \in Seq(EventType), silence' \in Nat,
         outcome' \in KaStatuses \cup {"none"},
         tpc' = "test" /\ eng_ongoing' => wait' = 0,
         tpc' \in {"send", "sent"} => wait' = 0,
         tpc' # "over" => count_consec_late' < parms.echo_timeout_threshold,
         outcome' = "FIN_TIMEOUT" => count_consec_late' = parms.echo_timeout_threshold,
         Sound(event_list'),
         Apart(parms, count_consec_late', silence', signals'),
         tpc' # "over" =>
           /\ Queue(event_list', count_send', Left', parms)
           /\ Timed(event_list', Left', parms, count_consec_late', silence', signals')
  PROVE  TInv'
<1>1. WorldTypes'
  BY DEF TInv, WorldTypes
<1>2. ThreadTypes'
  BY DEF ThreadTypes
<1>3. Rounds'
  BY DEF Rounds
<1>4. Events' /\ EventListSound' /\ Apart(parms, count_consec_late, silence, signals)'
  BY DEF Events, EventListSound, Sound
<1> QED
  BY <1>1, <1>2, <1>3, <1>4 DEF TInv

\* What TInv says of the thread in the step before.
LEMMA ThreadFacts ==
  ASSUME TInv, IInv, tpc \notin {"unborn", "over"}
  PROVE  /\ eng_ongoing \in BOOLEAN /\ signals \in 0..MaxSignals
         /\ echoes \subseteq [seq : 0..(SeqRange - 1), age : 0..EchoLife]
         /\ count_send \in 0..(SeqRange - 1)
         /\ wait \in 0..parms.send_interval
         /\ count_consec_late \in 0..parms.echo_timeout_threshold
         /\ count_consec_late < parms.echo_timeout_threshold
         /\ event_list \in Seq(EventType) /\ silence \in Nat
         /\ outcome = "none"
         /\ Sound(event_list)
         /\ Apart(parms, count_consec_late, silence, signals)
         /\ parms \in Parms /\ parms \in ParmsType
         /\ parms.send_interval \in Nat /\ parms.echo_timeout \in Nat
         /\ parms.echo_timeout_threshold \in Nat
<1>1. /\ eng_ongoing \in BOOLEAN /\ signals \in 0..MaxSignals
      /\ echoes \subseteq [seq : 0..(SeqRange - 1), age : 0..EchoLife]
      /\ count_send \in 0..(SeqRange - 1) /\ parms \in Parms
  BY DEF TInv, WorldTypes
<1>2. /\ wait \in 0..parms.send_interval
      /\ count_consec_late \in 0..parms.echo_timeout_threshold
      /\ event_list \in Seq(EventType) /\ silence \in Nat
  BY DEF TInv, ThreadTypes
<1>3. count_consec_late < parms.echo_timeout_threshold
  BY DEF TInv, Rounds
<1>4. Sound(event_list) /\ Apart(parms, count_consec_late, silence, signals)
  BY DEF TInv, EventListSound, Sound
<1>5. outcome = "none"
  BY DEF IInv, Stages
<1>6. parms \in ParmsType
  BY <1>1, KeepAliveAssumption
<1>7. /\ parms.send_interval \in Nat /\ parms.echo_timeout \in Nat
      /\ parms.echo_timeout_threshold \in Nat
  BY <1>6, ParmsFacts
<1> QED
  BY <1>1, <1>2, <1>3, <1>4, <1>5, <1>6, <1>7

\* The sleep, the test and what follows a request move the thread on and nothing else.
LEMMA QuietStepTInv == IInv /\ TInv /\ (SleepEnds \/ LoopTest \/ Sent) => TInv'
<1> SUFFICES ASSUME IInv, TInv, SleepEnds \/ LoopTest \/ Sent PROVE TInv'
  OBVIOUS
<1>1. /\ tpc \notin {"unborn", "over"}
      /\ UNCHANGED <<parms, engine, icmp_sfd, eng_ongoing, signals, echoes, count_send,
                     count_consec_late, event_list, silence>>
  BY DEF SleepEnds, LoopTest, Sent, mainVars, worldVars
<1>2. /\ tpc' \in {"test", "send", "select", "over"}
      /\ wait' \in 0..parms.send_interval
      /\ tpc' = "test" /\ eng_ongoing => wait' = 0
      /\ tpc' = "send" => wait' = 0
      /\ outcome' \in {"none", "FIN_SUCCESS"}
      /\ tpc' # "over" => Left' = Left
  <2>1. CASE SleepEnds
    BY <1>1, <2>1, ThreadFacts DEF SleepEnds, Left
  <2>2. CASE LoopTest
    BY <1>1, <2>2, ThreadFacts DEF LoopTest, Finish, Left, TInv, Rounds
  <2>3. CASE Sent
    BY <1>1, <2>3, ThreadFacts DEF Sent, Finish, Left
  <2> QED
    BY <2>1, <2>2, <2>3
<1>3. /\ Queue(event_list, count_send, Left, parms)
      /\ Timed(event_list, Left, parms, count_consec_late, silence, signals)
  BY <1>1, RunningFacts
<1> QED
  BY <1>1, <1>2, <1>3, ThreadFacts, ThreadKeeps DEF ThreadPcs, KaStatuses

\* A request: the new event is the last one due.
LEMMA SendTInv == IInv /\ TInv /\ Send => TInv'
<1> SUFFICES ASSUME IInv, TInv, Send PROVE TInv'
  OBVIOUS
<1> DEFINE e == [seq |-> count_send, left |-> parms.echo_timeout]
<1>1. /\ tpc = "send"
      /\ UNCHANGED <<parms, engine, icmp_sfd, eng_ongoing, signals, wait,
                     count_consec_late, silence>>
      /\ count_send' = NextSeq
      /\ event_list' = _insert_echo_event(event_list, e)
      /\ \/ /\ tpc' = "sent" /\ UNCHANGED outcome
            /\ echoes' = echoes \cup {[seq |-> count_send, age |-> 0]}
         \/ tpc' = "over" /\ outcome' = "FIN_ERROR" /\ UNCHANGED echoes
  BY DEF Send, Finish, _compute_echo_timeout, mainVars
<1>2. wait = 0 /\ Left = 0
  BY <1>1 DEF TInv, Rounds, Left
<1>3. count_send \in 0..(SeqRange - 1)
      /\ count_send' = IF count_send = SeqRange - 1 THEN 0 ELSE count_send + 1
  BY <1>1, ThreadFacts, NextSeqIs
<1>4. count_send' \in 0..(SeqRange - 1)
  BY <1>3, KeepAliveAssumption
<1>5. e \in EventType /\ e.left = parms.echo_timeout
  BY <1>1, ThreadFacts DEF EventType
<1> HIDE DEF e
<1>6. /\ event_list' = Append(event_list, e) /\ event_list' \in Seq(EventType)
      /\ Queue(event_list', count_send', parms.send_interval, parms)
  BY <1>1, <1>2, <1>3, RunningFacts, QueueAppend DEF e
<1>7. Timed(event_list', parms.send_interval, parms, count_consec_late, silence, signals)
  BY <1>1, <1>2, <1>5, <1>6, RunningFacts, TimedSend
<1>8. Sound(event_list')
  <2>1. parms.send_interval \in Int /\ parms \in ParmsType
    BY <1>1, ThreadFacts
  <2> QED
    BY <1>4, <1>6, <2>1, QueueSound
<1>9. echoes' \subseteq [seq : 0..(SeqRange - 1), age : 0..EchoLife]
  BY <1>1, <1>3, ThreadFacts, KeepAliveAssumption
<1>10. tpc' # "over" => Left' = parms.send_interval
  BY <1>1 DEF Left
<1>11. tpc' \in {"sent", "over"} /\ outcome' \in {"none", "FIN_ERROR"}
  BY <1>1, ThreadFacts
<1> QED
  BY <1>1, <1>2, <1>4, <1>6, <1>7, <1>8, <1>9, <1>10, <1>11, ThreadFacts, ThreadKeeps
     DEF ThreadPcs, KaStatuses

\* The end of a round keeps the invariant if list, count and silence fit together.
LEMMA RoundKeeps ==
  ASSUME IInv, TInv, tpc = "select", NEW late \in Nat, NEW on \in BOOLEAN,
         NEW ret \in {"FIN_SUCCESS", "FIN_ERROR"}, RoundEnds(late, on, ret),
         late <= parms.echo_timeout_threshold,
         UNCHANGED <<parms, engine, icmp_sfd, wait, count_send>>,
         signals' \in 0..MaxSignals, echoes' \subseteq echoes, silence' \in Nat,
         event_list' \in Seq(EventType), Queue(event_list', count_send, wait, parms),
         Timed(event_list', wait, parms, late, silence', signals'),
         Apart(parms, late, silence', signals')
  PROVE  TInv'
<1>1. wait \in Nat
  BY ThreadFacts
<1>2. /\ count_consec_late' = late /\ eng_ongoing' \in BOOLEAN
      /\ tpc' \in {"select", "test", "over"}
      /\ tpc' = "test" /\ eng_ongoing' => wait = 0
      /\ tpc' # "over" => late < parms.echo_timeout_threshold
      /\ outcome' \in KaStatuses \cup {"none"}
      /\ outcome' = "FIN_TIMEOUT" => late = parms.echo_timeout_threshold
  BY <1>1, ThreadFacts, RoundEndsFacts
<1>3. Left' = wait
  BY <1>2 DEF Left
<1>4. Sound(event_list')
  BY <1>1, ThreadFacts, QueueSound
<1>5. echoes' \subseteq [seq : 0..(SeqRange - 1), age : 0..EchoLife]
  BY ThreadFacts
<1>6. late \in 0..parms.echo_timeout_threshold
  BY ThreadFacts
<1> QED
  BY <1>2, <1>3, <1>4, <1>5, <1>6, ThreadFacts, ThreadKeeps DEF ThreadPcs

\* select() times out: if that is for the first event, it is due, and is counted.
LEMMA SelectTimesOutTInv == IInv /\ TInv /\ SelectTimesOut => TInv'
<1> SUFFICES ASSUME IInv, TInv, SelectTimesOut PROVE TInv'
  OBVIOUS
<1>1. /\ tpc = "select" /\ CountLate
      /\ wait = 0 \/ (event_list # <<>> /\ Head(event_list).left = 0)
      /\ UNCHANGED <<parms, engine, icmp_sfd, wait, count_send, echoes, signals, silence>>
  BY DEF SelectTimesOut, mainVars
<1>2. Left = wait
  BY <1>1 DEF Left
<1>3. /\ Queue(event_list, count_send, wait, parms)
      /\ Timed(event_list, wait, parms, count_consec_late, silence, signals)
  BY <1>1, <1>2, RunningFacts
<1>4. CASE HeadDueFirst
  <2>1. event_list # <<>> /\ Head(event_list).left = 0
    <3>1. event_list # <<>> => Head(event_list).left \in Nat
      BY <1>1, <1>2, RunningFacts, DueFacts
    <3>2. wait \in Nat
      BY <1>1, RunningFacts
    <3> QED
      BY <1>1, <1>4, <3>1, <3>2 DEF HeadDueFirst
  <2>2. /\ event_list' = Without(event_list, Head(event_list).seq)
        /\ RoundEnds(count_consec_late + 1, eng_ongoing, "FIN_SUCCESS")
    BY <1>1, <1>4 DEF CountLate
  <2>3. event_list' \in Seq(EventType) /\ Queue(event_list', count_send, wait, parms)
    BY <1>1, <1>2, <2>2, RunningFacts, WithoutQueue
  <2>4. /\ Timed(event_list', wait, parms, count_consec_late + 1, silence, signals)
        /\ Apart(parms, count_consec_late + 1, silence, signals)
    BY <1>1, <1>2, <2>1, <2>2, RunningFacts, TimedLate
  <2>5. count_consec_late + 1 \in Nat /\ count_consec_late + 1 <= parms.echo_timeout_threshold
    BY <1>1, ThreadFacts
  <2> QED
    BY <1>1, <2>2, <2>3, <2>4, <2>5, ThreadFacts, RoundKeeps
<1>5. CASE ~HeadDueFirst
  <2>1. event_list' = event_list /\ RoundEnds(count_consec_late, eng_ongoing, "FIN_SUCCESS")
    BY <1>1, <1>5 DEF CountLate
  <2>2. count_consec_late \in Nat /\ count_consec_late <= parms.echo_timeout_threshold
    BY <1>1, ThreadFacts
  <2> QED
    BY <1>1, <1>3, <2>1, <2>2, ThreadFacts, RoundKeeps
<1> QED
  BY <1>4, <1>5

\* A signal: the first event may be counted before it is due.
LEMMA SelectInterruptedTInv == IInv /\ TInv /\ SelectInterrupted => TInv'
<1> SUFFICES ASSUME IInv, TInv, SelectInterrupted PROVE TInv'
  OBVIOUS
<1>1. /\ tpc = "select" /\ CountLate /\ signals' = signals + 1 /\ signals < MaxSignals
      /\ UNCHANGED <<parms, engine, icmp_sfd, wait, count_send, echoes, silence>>
  BY DEF SelectInterrupted, mainVars
<1>2. Left = wait
  BY <1>1 DEF Left
<1>3. Queue(event_list, count_send, wait, parms)
  BY <1>1, <1>2, RunningFacts
<1>4. /\ Timed(event_list, wait, parms, count_consec_late, silence, signals + 1)
      /\ event_list # <<>> => Timed(Without(event_list, Head(event_list).seq), wait, parms,
                                    count_consec_late + 1, silence, signals + 1)
  BY <1>1, <1>2, RunningFacts, TimedSignal
<1>5. signals \in Nat /\ signals' \in 0..MaxSignals
  BY <1>1, ThreadFacts, KeepAliveAssumption
<1>6. /\ Apart(parms, count_consec_late, silence, signals + 1)
      /\ Apart(parms, count_consec_late + 1, silence, signals + 1)
  <2> DEFINE n == count_consec_late - 1 - signals
             m == count_consec_late - 1 - (signals + 1)
  <2>1. n \in Int /\ m \in Int /\ m <= n /\ silence \in Nat
        /\ count_consec_late + 1 - 1 - (signals + 1) = n
    BY <1>1, <1>5, ThreadFacts, SMTT(30)
  <2>2. silence >= Span(n, parms)
    BY <1>1, ThreadFacts DEF Apart
  <2> HIDE DEF n
  <2>3. Span(m, parms) <= Span(n, parms) /\ Span(m, parms) \in Int /\ Span(n, parms) \in Int
    BY <1>1, <2>1, ThreadFacts, SpanFacts
  <2>4. silence >= Span(m, parms)
    <3> HIDE DEF m
    <3> QED
      BY <2>1, <2>2, <2>3
  <2>5. Apart(parms, count_consec_late, silence, signals + 1)
    BY <2>4 DEF Apart
  <2>6. Apart(parms, count_consec_late + 1, silence, signals + 1)
    <3>1. count_consec_late \in Nat /\ signals \in Nat
      BY <1>1, <1>5, ThreadFacts
    <3> QED
      BY <2>1, <2>2, <3>1 DEF Apart, n
  <2> QED
    BY <2>5, <2>6
<1>7. CASE HeadDueFirst
  <2>1. event_list # <<>>
    BY <1>7 DEF HeadDueFirst
  <2>2. /\ event_list' = Without(event_list, Head(event_list).seq)
        /\ RoundEnds(count_consec_late + 1, eng_ongoing, "FIN_SUCCESS")
    BY <1>1, <1>7 DEF CountLate
  <2>3. event_list' \in Seq(EventType) /\ Queue(event_list', count_send, wait, parms)
    BY <1>1, <1>2, <2>2, RunningFacts, WithoutQueue
  <2>4. count_consec_late + 1 \in Nat /\ count_consec_late + 1 <= parms.echo_timeout_threshold
    BY <1>1, ThreadFacts
  <2> QED
    BY <1>1, <1>4, <1>5, <1>6, <2>1, <2>2, <2>3, <2>4, ThreadFacts, RoundKeeps
<1>8. CASE ~HeadDueFirst
  <2>1. event_list' = event_list /\ RoundEnds(count_consec_late, eng_ongoing, "FIN_SUCCESS")
    BY <1>1, <1>8 DEF CountLate
  <2>2. count_consec_late \in Nat /\ count_consec_late <= parms.echo_timeout_threshold
    BY <1>1, ThreadFacts
  <2> QED
    BY <1>1, <1>3, <1>4, <1>5, <1>6, <2>1, <2>2, ThreadFacts, RoundKeeps
<1> QED
  BY <1>7, <1>8

\* A reply on time ends the silence and the count; a late one changes neither.
LEMMA ReplyTInv == IInv /\ TInv /\ Reply => TInv'
<1> SUFFICES ASSUME IInv, TInv, Reply PROVE TInv'
  OBVIOUS
<1>1. /\ tpc = "select"
      /\ UNCHANGED <<parms, engine, icmp_sfd, wait, count_send, signals>>
  BY DEF Reply, mainVars
<1>2. PICK e \in echoes :
        /\ echoes' = echoes \ {e}
        /\ IF e.age > parms.echo_timeout
           THEN UNCHANGED <<event_list, silence>>
           ELSE event_list' = Without(event_list, e.seq) /\ silence' = 0
        /\ RoundEnds(LateAfter(e), eng_ongoing, "FIN_SUCCESS")
  BY DEF Reply
<1>3. Left = wait
  BY <1>1 DEF Left
<1>4. /\ Queue(event_list, count_send, wait, parms)
      /\ Timed(event_list, wait, parms, count_consec_late, silence, signals)
  BY <1>1, <1>3, RunningFacts
<1>5. CASE e.age > parms.echo_timeout
  <2>1. count_consec_late \in Nat /\ count_consec_late <= parms.echo_timeout_threshold
        /\ LateAfter(e) = count_consec_late
    BY <1>1, <1>5, ThreadFacts DEF LateAfter
  <2> QED
    BY <1>1, <1>2, <1>4, <1>5, <2>1, ThreadFacts, RoundKeeps
<1>6. CASE ~(e.age > parms.echo_timeout)
  <2>1. LateAfter(e) = 0 /\ 0 <= parms.echo_timeout_threshold
    BY <1>1, <1>6, ThreadFacts DEF LateAfter
  <2>2. event_list' \in Seq(EventType) /\ Queue(event_list', count_send, wait, parms)
    BY <1>1, <1>2, <1>3, <1>6, RunningFacts, WithoutQueue
  <2>3. Timed(event_list', wait, parms, 0, 0, signals) /\ Apart(parms, 0, 0, signals)
    BY <1>1, <2>2, RunningFacts, TimedReply
  <2> QED
    BY <1>1, <1>2, <1>6, <2>1, <2>2, <2>3, ThreadFacts, RoundKeeps
<1> QED
  BY <1>5, <1>6

\* A closed socket and an error change nothing of it.
LEMMA ReadEndsTInv == IInv /\ TInv /\ (SocketClosed \/ ReadFails) => TInv'
<1> SUFFICES ASSUME IInv, TInv, SocketClosed \/ ReadFails PROVE TInv'
  OBVIOUS
<1>1. /\ tpc = "select"
      /\ UNCHANGED <<parms, engine, icmp_sfd, wait, count_send, event_list, echoes, signals,
                     silence>>
      /\ \E ret \in {"FIN_SUCCESS", "FIN_ERROR"} : RoundEnds(count_consec_late, FALSE, ret)
  BY DEF SocketClosed, ReadFails, mainVars, worldVars
<1>2. Left = wait
  BY <1>1 DEF Left
<1>3. /\ Queue(event_list, count_send, wait, parms)
      /\ Timed(event_list, wait, parms, count_consec_late, silence, signals)
  BY <1>1, <1>2, RunningFacts
<1>4. count_consec_late \in Nat /\ count_consec_late <= parms.echo_timeout_threshold
  BY <1>1, ThreadFacts
<1> QED
  BY <1>1, <1>3, <1>4, ThreadFacts, RoundKeeps

----------------------------------------------------------------------------
(* The theorems *)

\* Both invariants hold of every reachable state.
LEMMA TimeInvariance == Spec => [](IInv /\ TInv)
<1>1. IInv /\ TInv /\ UNCHANGED vars => TInv'
  <2> SUFFICES ASSUME TInv, UNCHANGED vars PROVE TInv'
    OBVIOUS
  <2>1. Left' = Left
    BY DEF vars, Left
  <2> QED
    BY <2>1 DEF vars, TInv, WorldTypes, ThreadTypes, Rounds, Events, EventListSound, Apart
<1>2. IInv /\ TInv /\ [Next]_vars => IInv' /\ TInv'
  BY <1>1, MainStepIInv, ThreadStepIInv, WorldStepIInv, MainStepTInv, LoseTInv, TickTInv,
     QuietStepTInv, SendTInv, SelectTimesOutTInv, SelectInterruptedTInv, ReplyTInv,
     ReadEndsTInv
     DEF Next, ThreadStep
<1> QED
  BY <1>2, InitIInv, InitTInv, PTL DEF Spec

\* Whatever the parameters, the signals and the network do, the two threads keep their
\* types: the count of late echoes stays at or below the threshold, in its 8 bits.
THEOREM TypeCorrect == Spec => []TypeOK
<1>1. IInv /\ TInv => TypeOK
  BY DEF IInv, ControlTypes, TInv, WorldTypes, ThreadTypes, TypeOK, EventType
<1> QED
  BY <1>1, TimeInvariance, PTL

\* _insert_echo_event() never meets an event that is due no sooner than the new one, and
\* no two events have a number in common, though numbers wrap: no cycle in the list.
THEOREM EventListAlwaysSound == Spec => []EventListSound
<1>1. TInv => EventListSound
  BY DEF TInv
<1> QED
  BY <1>1, TimeInvariance, PTL

\* IEE_process() returns TIMEOUT only after echo_timeout_threshold - 1 intervals without a
\* reply on time, but for an interval for each signal.
THEOREM TimeoutAlwaysEarned == Spec => []TimeoutEarned
<1>1. TInv => TimeoutEarned
  <2> SUFFICES ASSUME TInv, outcome = "FIN_TIMEOUT"
               PROVE  silence >= (parms.echo_timeout_threshold - 1 - signals)
                                 * parms.send_interval
    BY DEF TimeoutEarned
  <2>1. count_consec_late = parms.echo_timeout_threshold
    BY DEF TInv, Rounds
  <2> QED
    BY <2>1 DEF TInv, Apart, Span
<1> QED
  BY <1>1, TimeInvariance, PTL

\* While the keepalive runs, the tunnel has answered on time within the time it takes to
\* send echo_timeout_threshold requests and to wait for the answer to the last.
THEOREM DeadTunnelAlwaysFound == Spec => []DeadTunnelFound
<1>1. TInv => DeadTunnelFound
  <2> SUFFICES ASSUME TInv, tpc # "over"
               PROVE  silence <= parms.echo_timeout_threshold * parms.send_interval
                                 + parms.echo_timeout
    BY DEF DeadTunnelFound
  <2> DEFINE k == parms.echo_timeout_threshold
             late == count_consec_late
             len == Len(event_list)
  <2>1. /\ k \in Nat /\ late \in Nat /\ late + 1 <= k
        /\ parms.send_interval \in Nat /\ parms.echo_timeout \in Nat
    BY RunningFacts, ParmsFacts DEF TInv, Rounds
  <2>2. len \in Nat /\ Left \in Nat /\ silence \in Nat
    BY RunningFacts
  <2>3. silence <= Span(late + len, parms) + parms.send_interval - Left
    BY RunningFacts DEF Timed, NotTooLong
  <2>4. Span(len, parms) \in Int /\ Span(len, parms) <= parms.echo_timeout + Left
    <3>1. len = 0 => Span(len, parms) = 0
      BY RunningFacts, SpanFacts
    <3>2. event_list # <<>> => Span(len, parms) <= parms.echo_timeout + Left
      BY RunningFacts, DueFacts
    <3>3. event_list = <<>> => len = 0
      OBVIOUS
    <3>4. Span(len, parms) \in Int
      BY <2>2, RunningFacts, SpanFacts
    <3> QED
      BY <2>1, <2>2, <3>1, <3>2, <3>3, <3>4
  <2> HIDE DEF k, late, len
  <2>5. /\ Span(late + len, parms) = Span(late, parms) + Span(len, parms)
        /\ Span(late + 1, parms) = Span(late, parms) + parms.send_interval
        /\ Span(late + 1, parms) <= Span(k, parms)
        /\ Span(late, parms) \in Int /\ Span(k, parms) \in Int
    <3>1. parms \in ParmsType
      BY RunningFacts
    <3>2. late \in Int /\ len \in Int /\ k \in Int /\ late + 1 \in Int /\ late + 1 <= k
      BY <2>1, <2>2
    <3>3. \A m, n \in Int : Span(m + n, parms) = Span(m, parms) + Span(n, parms)
      BY <3>1, SpanFacts
    <3>4. /\ Span(late + 1, parms) = Span(late, parms) + parms.send_interval
          /\ Span(late + 1, parms) <= Span(k, parms)
          /\ Span(late, parms) \in Int /\ Span(k, parms) \in Int
      BY <3>1, <3>2, SpanFacts
    <3> QED
      BY <3>2, <3>3, <3>4
  <2>6. silence <= Span(k, parms) + parms.echo_timeout
    BY <2>1, <2>2, <2>3, <2>4, <2>5
  <2> QED
    BY <2>6 DEF Span, k
<1> QED
  BY <1>1, TimeInvariance, PTL
=============================================================================

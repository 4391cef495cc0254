----------------------------- MODULE KeepAlive -----------------------------
(***************************************************************************)
(* The tunnel loop with its keepalive: tspPerformTunnelLoop()              *)
(* (tsp_tun_mgt.c) on the main thread, and the keepalive thread of         *)
(* net_ka.c, which runs IEE_process() of icmp_echo_engine.c.               *)
(*                                                                         *)
(* The two threads share the KA engine (ka_status), the echo engine        *)
(* (eng_ongoing, the socket) and no lock; each access is a step.  The      *)
(* network delays, reorders and loses echoes.  Time passes in ticks while  *)
(* the keepalive thread waits; a thread that is due to run does so within  *)
(* the tick.                                                               *)
(*                                                                         *)
(* event_list is the linked list of echo events, [seq, left]: the echo's   *)
(* sequence number and the ticks left until it times out.                  *)
(***************************************************************************)
EXTENDS Integers, SequencesExt

CONSTANTS
  Parms,        \* the engine parameters to start from
  SeqRange,     \* the range of echo_seq: 2^16; less wraps sooner
  EchoLife,     \* ticks an echo may be under way
  MaxSignals    \* bound on the signals that interrupt select()

ParmsType ==
  [send_interval : Nat \ {0}, echo_timeout : Nat \ {0},
   echo_timeout_threshold : Nat \ {0}, lease : BOOLEAN]

ASSUME KeepAliveAssumption ==
  /\ Parms \subseteq ParmsType
  /\ SeqRange \in Nat \ {0} /\ EchoLife \in Nat /\ MaxSignals \in Nat

\* Requests are numbered with 16 bits: an echo times out before its number comes again.
ASSUME NumbersAssumption ==
  \A p \in Parms : p.echo_timeout < SeqRange * p.send_interval

VARIABLES
  parms,              \* fixed by KA_init(); lease: the tunnel has a lifetime
  (* the main thread *)
  mpc,                \* where tspPerformTunnelLoop() is
  ongoing, status,    \* its local variables
  (* shared *)
  engine,             \* none, live, freed
  ka_status,
  eng_ongoing,
  icmp_sfd,           \* open, closed
  (* the keepalive thread *)
  tpc,                \* where IEE_process() is
  wait,               \* ticks left of the first sleep, or until the next request
  count_send,         \* modulo SeqRange
  count_consec_late,
  event_list,
  (* the network *)
  echoes,             \* echoes under way, [seq, age]
  (* history *)
  signals,            \* signals that interrupted select()
  silence,            \* ticks since the last reply on time, or since the start
  outcome             \* what the keepalive thread ended with

mainVars == <<mpc, ongoing, status, engine>>
threadVars == <<tpc, wait, count_send, count_consec_late, event_list, outcome>>
worldVars == <<echoes, signals, silence>>
vars == <<parms, mpc, ongoing, status, engine, ka_status, eng_ongoing, icmp_sfd, tpc,
          wait, count_send, count_consec_late, event_list, echoes, signals, silence,
          outcome>>

----------------------------------------------------------------------------
Init ==
  /\ parms \in Parms
  /\ mpc = "init" /\ ongoing = TRUE /\ status = "SUCCESS"
  /\ engine = "none" /\ ka_status = "INVALID" /\ eng_ongoing = FALSE
  /\ icmp_sfd = "closed"
  /\ tpc = "unborn" /\ wait = 0 /\ count_send = 0 /\ count_consec_late = 0
  /\ event_list = <<>>
  /\ echoes = {} /\ signals = 0 /\ silence = 0 /\ outcome = "none"

----------------------------------------------------------------------------
(* The main thread *)

Return(s) == mpc' = "returned" /\ status' = s

\* No memory, no raw socket, or an address that does not parse.
KA_init_fails ==
  /\ mpc = "init"
  /\ Return("KEEPALIVE_ERROR")
  /\ UNCHANGED <<parms, ongoing, engine, ka_status, eng_ongoing, icmp_sfd>>
  /\ UNCHANGED threadVars /\ UNCHANGED worldVars

KA_init ==
  /\ mpc = "init"
  /\ mpc' = "start"
  /\ engine' = "live" /\ eng_ongoing' = TRUE /\ icmp_sfd' = "open"
  /\ UNCHANGED <<parms, ongoing, status, ka_status>>
  /\ UNCHANGED threadVars /\ UNCHANGED worldVars

\* The thread cannot be created: KA_destroy() follows.
KA_start_fails ==
  /\ mpc = "start"
  /\ Return("KEEPALIVE_ERROR")
  /\ engine' = "freed" /\ icmp_sfd' = "closed"
  /\ UNCHANGED <<parms, ongoing, ka_status, eng_ongoing>>
  /\ UNCHANGED threadVars /\ UNCHANGED worldVars

\* Mutant: the first request is sent at once.
FirstWaitNone == 0

\* IEE_process() of a keepalive sleeps one interval first.
FirstWait == parms.send_interval

KA_start ==
  /\ mpc = "start"
  /\ mpc' = "mark"
  /\ tpc' = "sleep" /\ wait' = FirstWait
  /\ UNCHANGED <<parms, ongoing, status, engine, ka_status, eng_ongoing, icmp_sfd,
                 count_send, count_consec_late, event_list, outcome>>
  /\ UNCHANGED worldVars

\* KA_start() goes on: the thread runs already.
MarkOngoing ==
  /\ mpc = "mark"
  /\ mpc' = "loop"
  /\ ka_status' = "ONGOING"
  /\ UNCHANGED <<parms, ongoing, status, engine, eng_ongoing, icmp_sfd>>
  /\ UNCHANGED threadVars /\ UNCHANGED worldVars

\* One round of tspCheckForStopOrWait().
CheckForStop ==
  /\ mpc = "loop"
  /\ status = "SUCCESS" /\ ongoing
  /\ ongoing' \in BOOLEAN
  /\ mpc' = IF ongoing' THEN "query" ELSE "flag"
  /\ UNCHANGED <<parms, status, engine, ka_status, eng_ongoing, icmp_sfd>>
  /\ UNCHANGED threadVars /\ UNCHANGED worldVars

\* KA_stop(), IEE_stop(): notify, then break the wait on select().
StopFlag ==
  /\ mpc = "flag"
  /\ mpc' = "close"
  /\ eng_ongoing' = FALSE
  /\ UNCHANGED <<parms, ongoing, status, engine, ka_status, icmp_sfd>>
  /\ UNCHANGED threadVars /\ UNCHANGED worldVars

StopClose ==
  /\ mpc = "close"
  /\ mpc' = "join"
  /\ icmp_sfd' = "closed"
  /\ UNCHANGED <<parms, ongoing, status, engine, ka_status, eng_ongoing>>
  /\ UNCHANGED threadVars /\ UNCHANGED worldVars

\* Mutant: KA_stop() does not wait for the thread.
JoinNot ==
  /\ mpc = "join"
  /\ mpc' = IF status = "SUCCESS" THEN "query" ELSE "lease"
  /\ UNCHANGED <<parms, ongoing, status, engine, ka_status, eng_ongoing, icmp_sfd>>
  /\ UNCHANGED threadVars /\ UNCHANGED worldVars

\* KA_stop() was called before the query for a stop, after it for a status.
Join ==
  /\ mpc = "join"
  /\ tpc = "over"
  /\ mpc' = IF status = "SUCCESS" THEN "query" ELSE "lease"
  /\ UNCHANGED <<parms, ongoing, status, engine, ka_status, eng_ongoing, icmp_sfd>>
  /\ UNCHANGED threadVars /\ UNCHANGED worldVars

\* Mutant: an error of the keepalive is not taken for one.
StatusOfTimeoutOnly(k) == IF k = "FIN_TIMEOUT" THEN "KEEPALIVE_TIMEOUT" ELSE "SUCCESS"

StatusOf(k) ==
  CASE k \in {"ONGOING", "FIN_SUCCESS"} -> "SUCCESS"
    [] k \in {"INVALID", "FIN_ERROR"} -> "KEEPALIVE_ERROR"
    [] k = "FIN_TIMEOUT" -> "KEEPALIVE_TIMEOUT"

\* KA_qry_status(), and KA_stop() (again, after a stop) unless all is well.
KA_qry_status ==
  /\ mpc = "query"
  /\ status' = StatusOf(ka_status)
  /\ mpc' = IF status' = "SUCCESS" THEN "lease" ELSE "flag"
  /\ UNCHANGED <<parms, ongoing, engine, ka_status, eng_ongoing, icmp_sfd>>
  /\ UNCHANGED threadVars /\ UNCHANGED worldVars

LeaseHolds ==
  /\ mpc = "lease"
  /\ mpc' = "loop"
  /\ UNCHANGED <<parms, ongoing, status, engine, ka_status, eng_ongoing, icmp_sfd>>
  /\ UNCHANGED threadVars /\ UNCHANGED worldVars

\* tspLeaseCheckExp(): the status of the lease replaces any other.
LeaseExpires ==
  /\ mpc = "lease"
  /\ parms.lease
  /\ mpc' = "loop"
  /\ status' = "TUN_LEASE_EXPIRED"
  /\ UNCHANGED <<parms, ongoing, engine, ka_status, eng_ongoing, icmp_sfd>>
  /\ UNCHANGED threadVars /\ UNCHANGED worldVars

\* The loop is left: KA_destroy() closes the socket and frees both engines.
KA_destroy ==
  /\ mpc = "loop"
  /\ status # "SUCCESS" \/ ~ongoing
  /\ Return(status)
  /\ engine' = "freed" /\ icmp_sfd' = "closed"
  /\ UNCHANGED <<parms, ongoing, ka_status, eng_ongoing>>
  /\ UNCHANGED threadVars /\ UNCHANGED worldVars

----------------------------------------------------------------------------
(* The keepalive thread.  What it does with a freed engine is undefined; the *)
(* model stops it there.                                                     *)

\* _ka_start_thread() stores what IEE_process() returned.
Finish(k) ==
  /\ tpc' = "over"
  /\ ka_status' = k
  /\ outcome' = k

SleepEnds ==
  /\ engine = "live"
  /\ tpc = "sleep"
  /\ wait = 0 \/ ~eng_ongoing
  /\ tpc' = "test"
  /\ UNCHANGED <<parms, ka_status, eng_ongoing, icmp_sfd, wait, count_send,
                 count_consec_late, event_list, outcome>>
  /\ UNCHANGED mainVars /\ UNCHANGED worldVars

LoopTest ==
  /\ engine = "live"
  /\ tpc = "test"
  /\ IF eng_ongoing
     THEN tpc' = "send" /\ UNCHANGED <<ka_status, outcome>>
     ELSE Finish("FIN_SUCCESS")
  /\ UNCHANGED <<parms, eng_ongoing, icmp_sfd, wait, count_send, count_consec_late,
                 event_list>>
  /\ UNCHANGED mainVars /\ UNCHANGED worldVars

\* _insert_echo_event().  Before an element that is due no sooner, the code links that
\* element to the new one and the new one to it: a cycle, written here as the element
\* repeated behind the new one.
_insert_echo_event(list, e) ==
  IF \A i \in DOMAIN list : list[i].left < e.left
  THEN Append(list, e)
  ELSE LET at == CHOOSE i \in DOMAIN list :
                   list[i].left >= e.left /\ \A j \in 1..(i - 1) : list[j].left < e.left
       IN  SubSeq(list, 1, at) \o <<e, list[at]>>

\* Mutant: the time-out shrinks from one request to the next, as that of ACD does.
_compute_echo_timeout_acd == parms.send_interval * (SeqRange - count_send)

_compute_echo_timeout == parms.echo_timeout

\* Mutant: the sequence number is not cut to the 16 bits of the ICMP header.
NextSeqWide == count_send + 1

NextSeq == (count_send + 1) % SeqRange

\* _do_send(): the event is in the list before the request is sent.  There may be no
\* memory for it, or sendto() fails, as it does once the socket is closed.
Send ==
  /\ engine = "live"
  /\ tpc = "send"
  /\ count_send' = NextSeq
  /\ event_list' = _insert_echo_event(event_list,
                     [seq |-> count_send, left |-> _compute_echo_timeout])
  /\ \/ /\ icmp_sfd = "open"
        /\ tpc' = "sent"
        /\ echoes' = echoes \cup {[seq |-> count_send, age |-> 0]}
        /\ UNCHANGED <<ka_status, outcome>>
     \/ Finish("FIN_ERROR") /\ UNCHANGED echoes
  /\ UNCHANGED <<parms, eng_ongoing, icmp_sfd, wait, count_consec_late, signals, silence>>
  /\ UNCHANGED mainVars

Sent ==
  /\ engine = "live"
  /\ tpc = "sent"
  /\ IF eng_ongoing
     THEN tpc' = "select" /\ wait' = parms.send_interval /\ UNCHANGED <<ka_status, outcome>>
     ELSE Finish("FIN_SUCCESS") /\ UNCHANGED wait
  /\ UNCHANGED <<parms, eng_ongoing, icmp_sfd, count_send, count_consec_late, event_list>>
  /\ UNCHANGED mainVars /\ UNCHANGED worldVars

(* _do_read_wrap() *)

TooManyLate(late) == late >= parms.echo_timeout_threshold

\* The end of a round: the threshold, then the conditions of the two loops.  on is what
\* the round leaves in eng_ongoing, ret what it leaves in retval.
RoundEnds(late, on, ret) ==
  LET retval == IF TooManyLate(late) THEN "FIN_TIMEOUT" ELSE ret
      goOn == on /\ ~TooManyLate(late)
  IN  /\ count_consec_late' = late
      /\ eng_ongoing' = goOn
      /\ IF retval = "FIN_SUCCESS"
         THEN /\ tpc' = IF goOn /\ wait > 0 THEN "select" ELSE "test"
              /\ UNCHANGED <<ka_status, outcome>>
         ELSE Finish(retval)

\* time_left_ms > read_delay, with an event in the list.
HeadDueFirst == event_list # <<>> /\ wait > Head(event_list).left

\* _remove_free_echo_event(): the first event with this number.
Without(list, seq) ==
  LET with == {i \in DOMAIN list : list[i].seq = seq}
  IN  IF with = {} THEN list
      ELSE RemoveAt(list, CHOOSE i \in with : \A j \in with : i <= j)

\* READ_SELECT_TIMEOUT
CountLate ==
  /\ event_list' = IF HeadDueFirst THEN Without(event_list, Head(event_list).seq)
                   ELSE event_list
  /\ RoundEnds(IF HeadDueFirst THEN count_consec_late + 1 ELSE count_consec_late,
               eng_ongoing, "FIN_SUCCESS")

SelectTimesOut ==
  /\ engine = "live"
  /\ tpc = "select"
  /\ wait = 0 \/ (event_list # <<>> /\ Head(event_list).left = 0)
  /\ CountLate
  /\ UNCHANGED <<parms, icmp_sfd, wait, count_send, echoes, signals, silence>>
  /\ UNCHANGED mainVars

\* EINTR is taken for a time-out.
SelectInterrupted ==
  /\ engine = "live"
  /\ tpc = "select"
  /\ signals < MaxSignals
  /\ signals' = signals + 1
  /\ CountLate
  /\ UNCHANGED <<parms, icmp_sfd, wait, count_send, echoes, silence>>
  /\ UNCHANGED mainVars

\* Mutant: a reply on time does not reset the count.
LateAfterKept(e) == count_consec_late

\* Mutant: any reply resets the count.
LateAfterAny(e) == 0

LateAfter(e) == IF e.age > parms.echo_timeout THEN count_consec_late ELSE 0

\* A reply: on time it resets the count and its event goes, if still there.
Reply ==
  /\ engine = "live"
  /\ tpc = "select"
  /\ icmp_sfd = "open"
  /\ \E e \in echoes :
       /\ echoes' = echoes \ {e}
       /\ IF e.age > parms.echo_timeout
          THEN UNCHANGED <<event_list, silence>>
          ELSE event_list' = Without(event_list, e.seq) /\ silence' = 0
       /\ RoundEnds(LateAfter(e), eng_ongoing, "FIN_SUCCESS")
  /\ UNCHANGED <<parms, icmp_sfd, wait, count_send, signals>>
  /\ UNCHANGED mainVars

\* READ_SOCKET_CLOSED: select() or recv() finds that IEE_stop() closed the socket.
SocketClosed ==
  /\ engine = "live"
  /\ tpc = "select"
  /\ icmp_sfd = "closed" /\ ~eng_ongoing
  /\ RoundEnds(count_consec_late, FALSE, "FIN_SUCCESS")
  /\ UNCHANGED <<parms, icmp_sfd, wait, count_send, event_list>>
  /\ UNCHANGED mainVars /\ UNCHANGED worldVars

\* READ_SELECT_ERROR, READ_RECV_ERROR, or a reply with a bad code.
ReadFails ==
  /\ engine = "live"
  /\ tpc = "select"
  /\ icmp_sfd = "open"
  /\ RoundEnds(count_consec_late, FALSE, "FIN_ERROR")
  /\ UNCHANGED <<parms, icmp_sfd, wait, count_send, event_list>>
  /\ UNCHANGED mainVars /\ UNCHANGED worldVars

----------------------------------------------------------------------------
(* The network, and time *)

Lose ==
  /\ \E e \in echoes : echoes' = echoes \ {e}
  /\ UNCHANGED <<parms, ka_status, eng_ongoing, icmp_sfd, signals, silence>>
  /\ UNCHANGED mainVars /\ UNCHANGED threadVars

Waiting ==
  \/ tpc = "sleep" /\ wait > 0 /\ eng_ongoing
  \/ tpc = "select" /\ wait > 0 /\ (event_list # <<>> => Head(event_list).left > 0)

\* The main thread reaches MarkOngoing within the first tick.
Tick ==
  /\ engine = "live"
  /\ mpc # "mark"
  /\ Waiting
  /\ wait' = wait - 1
  /\ event_list' = [i \in DOMAIN event_list |->
                      [event_list[i] EXCEPT !.left = @ - 1]]
  /\ echoes' = {[e EXCEPT !.age = @ + 1] : e \in {x \in echoes : x.age < EchoLife}}
  /\ silence' = silence + 1
  /\ UNCHANGED <<parms, ka_status, eng_ongoing, icmp_sfd, tpc, count_send,
                 count_consec_late, outcome, signals>>
  /\ UNCHANGED mainVars

----------------------------------------------------------------------------
MainStep ==
  \/ KA_init_fails \/ KA_init \/ KA_start_fails \/ KA_start \/ MarkOngoing
  \/ CheckForStop \/ StopFlag \/ StopClose \/ Join \/ KA_qry_status
  \/ LeaseHolds \/ LeaseExpires \/ KA_destroy

ThreadStep ==
  \/ SleepEnds \/ LoopTest \/ Send \/ Sent
  \/ SelectTimesOut \/ SelectInterrupted \/ Reply \/ SocketClosed \/ ReadFails

Next == MainStep \/ ThreadStep \/ Lose \/ Tick

Spec == Init /\ [][Next]_vars

\* Both threads are scheduled, and time passes.
FairSpec ==
  Spec /\ WF_vars(MainStep) /\ WF_vars(ThreadStep) /\ WF_vars(Tick)

----------------------------------------------------------------------------
(* Properties *)

MainPcs == {"init", "start", "mark", "loop", "flag", "close", "join", "query", "lease",
            "returned"}
ThreadPcs == {"unborn", "sleep", "test", "send", "sent", "select", "over"}
KaStatuses == {"INVALID", "ONGOING", "FIN_SUCCESS", "FIN_TIMEOUT", "FIN_ERROR"}
LoopStatuses == {"SUCCESS", "KEEPALIVE_ERROR", "KEEPALIVE_TIMEOUT", "TUN_LEASE_EXPIRED"}

\* The state of the two threads keeps its types; the thread never counts more late
\* echoes than the threshold, which keeps the uint8_t count_consec_late from wrapping.
TypeOK ==
  /\ parms \in Parms
  /\ mpc \in MainPcs /\ tpc \in ThreadPcs
  /\ ongoing \in BOOLEAN /\ eng_ongoing \in BOOLEAN
  /\ status \in LoopStatuses /\ ka_status \in KaStatuses
  /\ engine \in {"none", "live", "freed"} /\ icmp_sfd \in {"open", "closed"}
  /\ wait \in 0..parms.send_interval
  /\ count_send \in 0..(SeqRange - 1)
  /\ count_consec_late \in 0..parms.echo_timeout_threshold
  /\ event_list \in Seq([seq : 0..(SeqRange - 1), left : Nat])
  /\ echoes \subseteq [seq : 0..(SeqRange - 1), age : 0..EchoLife]
  /\ signals \in 0..MaxSignals /\ silence \in Nat
  /\ outcome \in KaStatuses \cup {"none"}

\* KA_destroy() frees the engines only once the thread that uses them has ended, except
\* when the lease expires: no other way out of the tunnel loop misses KA_stop().
EngineOutlivesThread ==
  engine = "freed" /\ status # "TUN_LEASE_EXPIRED" => tpc \in {"unborn", "over"}

\* What the thread stored on its way out is what the tunnel loop reads: KA_start(), which
\* stores ONGOING after it created the thread, never overwrites it.
OutcomeKept == outcome # "none" => ka_status = outcome

\* The list of echo events has no cycle, and its head is the event due first: what
\* _do_read_wrap() reads off the head, and _remove_free_echo_event() ends on.
EventListSound ==
  \A i, j \in DOMAIN event_list :
    i < j => /\ event_list[i].seq # event_list[j].seq
             /\ event_list[i].left < event_list[j].left

\* A time-out is earned: but for signals, echo_timeout_threshold echoes sent an interval
\* apart timed out since the last reply that was on time.
TimeoutEarned ==
  outcome = "FIN_TIMEOUT" =>
    silence >= (parms.echo_timeout_threshold - 1 - signals) * parms.send_interval

\* A dead tunnel is found: the thread does not go without a reply on time for longer than
\* it takes echo_timeout_threshold requests to be sent and the last of them to time out.
DeadTunnelFound ==
  tpc # "over" =>
    silence <= parms.echo_timeout_threshold * parms.send_interval + parms.echo_timeout

\* A stop, and the end of the keepalive thread for whatever reason, end the tunnel loop.
LoopEnds == (~ongoing \/ tpc = "over") ~> mpc = "returned"
=============================================================================

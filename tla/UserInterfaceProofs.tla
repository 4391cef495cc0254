------------------------- MODULE UserInterfaceProofs -------------------------
(***************************************************************************)
(* Proofs about gogoc and the programs the user sees: the Android          *)
(* application it runs in, and the program at the other end of the         *)
(* messaging library's pipe.  For any number of native threads started one *)
(* after the other, a stop finds the tunnel loop.  For any messages, sizes *)
(* and faults, the sender's assertion fails only after calls have met      *)
(* halfway, the test of CanRead() before a write keeps the two senders     *)
(* from blocking each other, and what one side hands to its translators is *)
(* what the other side posted, in order and once: Messaging implements     *)
(* Channel.                                                                *)
(***************************************************************************)
EXTENDS AndroidClient, Messaging, TLAPS, SequenceTheorems, WellFoundedInduction

----------------------------------------------------------------------------
(* The Android application.                                                *)

\* The variables the proofs are about keep their types.
Shapes ==
  /\ pc \in [Threads -> NativePcs]
  /\ tunPipe \in [Threads -> {"none", "open", "closed"}]
  /\ g_pipefd \in Threads \cup {None}

\* What mixed records.
OneAlive == ~mixed => \A t, u \in Threads : Alive(t) /\ Alive(u) => t = u

StopIInv == Shapes /\ OneAlive /\ PipeOfClient /\ NoSleepThroughStop

----------------------------------------------------------------------------
LEMMA InitStopIInv == Init => StopIInv
BY ThreadsAssumption
DEF Init, StopIInv, Shapes, OneAlive, PipeOfClient, NoSleepThroughStop, Alive, InTunnel,
    NativePcs

\* The steps of the Java side and of the activity do not move a native thread, the one
\* that starts it apart.
LEMMA JavaKeepsStopIInv ==
  ASSUME StopIInv,
         onStartCommand \/ stopProcess \/ SetStopFlag \/ TestPipe \/ onAnswer
         \/ \E button \in {"yes", "no"} : Press(button)
  PROVE  StopIInv'
<1>1. CASE onStartCommand
  <2>1. CASE UNCHANGED <<thread, pc, mixed>>
    BY <1>1, <2>1
    DEF onStartCommand, pipeVars, StopIInv, Shapes, OneAlive, PipeOfClient,
        NoSleepThroughStop, Alive
  <2>2. ASSUME NEW t \in Threads, pc[t] = "unborn", MoveTo(t, "born"),
               mixed' = (mixed \/ \E u \in Threads : Alive(u))
        PROVE  StopIInv'
    <3>1. \A u \in Threads : pc'[u] = IF u = t THEN "born" ELSE pc[u]
      BY <2>2 DEF MoveTo, StopIInv, Shapes
    <3>2. Shapes'
      BY <1>1, <2>2 DEF onStartCommand, pipeVars, StopIInv, Shapes, MoveTo, NativePcs
    <3>3. OneAlive'
      BY <2>2, <3>1 DEF OneAlive, Alive
    <3>4. PipeOfClient' /\ NoSleepThroughStop'
      BY <1>1, <2>2, <3>1
      DEF onStartCommand, pipeVars, StopIInv, PipeOfClient, NoSleepThroughStop, InTunnel
    <3> QED
      BY <3>2, <3>3, <3>4 DEF StopIInv
  <2> QED
    BY <1>1, <2>1, <2>2 DEF onStartCommand
<1>2. CASE stopProcess \/ SetStopFlag
  BY <1>2
  DEF stopProcess, SetStopFlag, pipeVars, StopIInv, Shapes, OneAlive, PipeOfClient,
      NoSleepThroughStop, Alive
<1>3. CASE TestPipe
  BY <1>3, ThreadsAssumption
  DEF TestPipe, pipeVars, StopIInv, Shapes, OneAlive, PipeOfClient, NoSleepThroughStop, Alive,
      InTunnel
<1>4. CASE onAnswer \/ \E button \in {"yes", "no"} : Press(button)
  BY <1>4
  DEF onAnswer, Press, pipeVars, javaVars, StopIInv, Shapes, OneAlive, PipeOfClient,
      NoSleepThroughStop, Alive
<1> QED
  BY <1>1, <1>2, <1>3, <1>4

\* TunStop() reaches the loop that sleeps: g_pipefd is its pipe.
LEMMA WritePipeKeepsStopIInv ==
  ASSUME StopIInv, WritePipe
  PROVE  StopIInv'
<1>1. Shapes' /\ OneAlive' /\ PipeOfClient'
  BY DEF WritePipe, StopIInv, Shapes, OneAlive, PipeOfClient, Alive
<1>2. ASSUME ~mixed, NEW t \in Threads, pc[t] = "select"
      PROVE  t \in written'
  BY <1>2, ThreadsAssumption DEF WritePipe, StopIInv, PipeOfClient, InTunnel
<1> QED
  BY <1>1, <1>2 DEF WritePipe, StopIInv, NoSleepThroughStop

\* The steps of a native thread that leave the pipes alone.
LEMMA ThreadKeepsStopIInv ==
  ASSUME StopIInv, NEW t \in Threads,
         \/ Main(t) \/ TopOfLoop(t) \/ SessionEnds(t) \/ WaitEnds(t) \/ Ask(t)
         \/ Await(t) \/ AwaitInterrupted(t) \/ Answered(t)
  PROVE  StopIInv'
<1>1. PICK where \in NativePcs \ (InTunnel \cup {"unborn", "forget"}) : MoveTo(t, where)
  BY DEF Main, TopOfLoop, SessionEnds, WaitEnds, Ask, Await, AwaitInterrupted, Answered,
         NativePcs, InTunnel
<1>2. Alive(t) /\ pc[t] \notin InTunnel \cup {"forget"}
  BY DEF Main, TopOfLoop, SessionEnds, WaitEnds, Ask, Await, AwaitInterrupted, Answered,
         Alive, InTunnel
<1>3. UNCHANGED <<g_pipefd, tunPipe, written, mixed>>
  BY DEF Main, TopOfLoop, SessionEnds, WaitEnds, Ask, Await, AwaitInterrupted, Answered,
         pipeVars, nativeOnly
<1>4. \A u \in Threads : pc'[u] = IF u = t THEN where ELSE pc[u]
  BY <1>1 DEF MoveTo, StopIInv, Shapes
<1>5. Shapes'
  BY <1>1, <1>3 DEF MoveTo, StopIInv, Shapes
<1>6. OneAlive'
  BY <1>2, <1>3, <1>4 DEF StopIInv, OneAlive, Alive
<1>7. PipeOfClient'
  BY <1>1, <1>2, <1>3, <1>4 DEF StopIInv, PipeOfClient, InTunnel
<1>8. (indSigHUP' => indSigHUP) /\ (main' = main)
  <2>1. CASE Main(t)
    <3>1. indSigHUP' = FALSE \/ UNCHANGED indSigHUP
      BY <2>1, Zenon DEF Main
    <3>2. indSigHUP' => indSigHUP
      <4>1. CASE indSigHUP' = FALSE
        BY <4>1
      <4>2. CASE UNCHANGED indSigHUP
        BY <4>2, Zenon
      <4> QED
        BY <3>1, <4>1, <4>2
    <3>3. UNCHANGED main
      BY <2>1 DEF Main, javaVars
    <3> QED
      BY <3>2, <3>3, Zenon
  <2>2. CASE ~Main(t)
    <3>1. UNCHANGED nativeOnly
      BY <2>2, Zenon
      DEF TopOfLoop, SessionEnds, WaitEnds, Ask, Await, AwaitInterrupted, Answered
    <3>2. UNCHANGED main
      BY <2>2
      DEF TopOfLoop, SessionEnds, WaitEnds, Ask, Await, AwaitInterrupted, Answered, javaVars
    <3> QED
      BY <3>1, <3>2, Zenon DEF nativeOnly
  <2> QED
    BY <2>1, <2>2
<1>9. NoSleepThroughStop'
  BY <1>1, <1>3, <1>4, <1>8 DEF StopIInv, NoSleepThroughStop, InTunnel
<1> QED
  BY <1>5, <1>6, <1>7, <1>9 DEF StopIInv

\* The steps of the tunnel loop.
LEMMA TunnelKeepsStopIInv ==
  ASSUME StopIInv, NEW t \in Threads,
         \/ OpenPipe(t) \/ CheckForStop(t) \/ WokenByPipe(t) \/ TunnelPacket(t)
         \/ CloseWriteEnd(t) \/ ForgetPipe(t) \/ CloseReadEnd(t)
  PROVE  StopIInv'
<1>1. PICK where \in NativePcs \ {"unborn", "over"} : MoveTo(t, where)
  BY DEF OpenPipe, CheckForStop, WokenByPipe, TunnelPacket, CloseWriteEnd, ForgetPipe,
         CloseReadEnd, NativePcs
<1>2. Alive(t)
  BY DEF OpenPipe, CheckForStop, WokenByPipe, TunnelPacket, CloseWriteEnd, ForgetPipe,
         CloseReadEnd, Alive
<1>3. UNCHANGED <<mixed, indSigHUP, main>>
  BY DEF OpenPipe, CheckForStop, WokenByPipe, TunnelPacket, CloseWriteEnd, ForgetPipe,
         CloseReadEnd, nativeOnly, javaVars
<1>4. \A u \in Threads : pc'[u] = IF u = t THEN where ELSE pc[u]
  BY <1>1 DEF MoveTo, StopIInv, Shapes
<1>5. Shapes'
  BY <1>1
  DEF MoveTo, StopIInv, Shapes, OpenPipe, CheckForStop, WokenByPipe, TunnelPacket, CloseWriteEnd,
      ForgetPipe, CloseReadEnd, pipeVars
<1>6. OneAlive'
  BY <1>2, <1>3, <1>4 DEF StopIInv, OneAlive, Alive
<1>7. ASSUME ~mixed, NEW u \in Threads, u # t
      PROVE  pc[u] \notin InTunnel \cup {"forget"} /\ tunPipe[u] # "open" /\ g_pipefd # u
  BY <1>2, <1>7 DEF StopIInv, OneAlive, PipeOfClient, Alive, InTunnel
<1>8. PipeOfClient'
  <2> SUFFICES ASSUME ~mixed, NEW u \in Threads
               PROVE  /\ pc'[u] \in InTunnel => g_pipefd' = u
                      /\ tunPipe'[u] = "open" <=> pc'[u] \in InTunnel
                      /\ g_pipefd' = u => pc'[u] \in InTunnel \cup {"forget"}
    BY <1>3 DEF PipeOfClient
  <2>1. CASE OpenPipe(t)
    BY <2>1, <1>4, <1>7 DEF OpenPipe, MoveTo, StopIInv, Shapes, PipeOfClient, InTunnel
  <2>2. CASE CheckForStop(t) \/ WokenByPipe(t) \/ TunnelPacket(t)
    BY <2>2, <1>4, <1>7
    DEF CheckForStop, WokenByPipe, TunnelPacket, MoveTo, StopIInv, Shapes, PipeOfClient, InTunnel,
        pipeVars
  <2>3. CASE CloseWriteEnd(t)
    BY <2>3, <1>4, <1>7, ThreadsAssumption
    DEF CloseWriteEnd, MoveTo, StopIInv, Shapes, PipeOfClient, InTunnel
  <2>4. CASE ForgetPipe(t) \/ CloseReadEnd(t)
    BY <2>4, <1>4, <1>7, ThreadsAssumption
    DEF ForgetPipe, CloseReadEnd, MoveTo, StopIInv, Shapes, PipeOfClient, InTunnel
  <2> QED
    BY <2>1, <2>2, <2>3, <2>4
<1>9. NoSleepThroughStop'
  <2> SUFFICES ASSUME ~mixed, indSigHUP, main = "idle", NEW u \in Threads,
                      pc'[u] = "select"
               PROVE  u \in written'
    BY <1>3 DEF NoSleepThroughStop
  <2>1. pc[u] = "select"
    BY <1>4, <1>7
    DEF OpenPipe, CheckForStop, WokenByPipe, TunnelPacket, CloseWriteEnd, ForgetPipe,
        CloseReadEnd, MoveTo, StopIInv, Shapes, InTunnel
  <2>2. u \in written
    BY <2>1 DEF StopIInv, NoSleepThroughStop
  <2> QED
    BY <2>1, <2>2
    DEF OpenPipe, CheckForStop, WokenByPipe, TunnelPacket, CloseWriteEnd, ForgetPipe,
        CloseReadEnd, pipeVars
<1> QED
  BY <1>5, <1>6, <1>8, <1>9 DEF StopIInv

LEMMA NextStopIInv == StopIInv /\ [Next]_vars => StopIInv'
<1> SUFFICES ASSUME StopIInv, [Next]_vars PROVE StopIInv'
  OBVIOUS
<1>1. CASE UNCHANGED vars
  BY <1>1
  DEF vars, StopIInv, Shapes, OneAlive, PipeOfClient, NoSleepThroughStop, Alive
<1>2. CASE onStartCommand \/ stopProcess \/ SetStopFlag \/ TestPipe \/ onAnswer
           \/ \E button \in {"yes", "no"} : Press(button)
  BY <1>2, JavaKeepsStopIInv
<1>3. CASE WritePipe
  BY <1>3, WritePipeKeepsStopIInv
<1>4. CASE \E t \in Threads : NativeStep(t) \/ Ask(t) \/ TunnelPacket(t)
  BY <1>4, ThreadKeepsStopIInv, TunnelKeepsStopIInv DEF NativeStep
<1> QED
  BY <1>1, <1>2, <1>3, <1>4 DEF Next, StopStep

LEMMA StopInvariance == Spec => []StopIInv
BY InitStopIInv, NextStopIInv, PTL DEF Spec

\* The pipe TunStop() writes to is the one of the loop that runs, for any number of
\* clients started one after the other.
THEOREM PipeIsOfClient == Spec => []PipeOfClient
BY StopInvariance, PTL DEF StopIInv

\* No interleaving of TunStop() and TunMainLoop() lets the loop sleep through a stop.
THEOREM StopIsNeverSleptThrough == Spec => []NoSleepThroughStop
BY StopInvariance, PTL DEF StopIInv

\* TypeOK, and what it takes for dialogs: no more are shown than questions were asked.
TypeInv == TypeOK /\ dialogs <= asked

\* The service and the activity keep the types.
LEMMA JavaKeepsTypes ==
  ASSUME TypeInv, onStartCommand \/ stopProcess \/ StopStep \/ onAnswer
                  \/ \E button \in {"yes", "no"} : Press(button)
  PROVE  TypeInv'
<1> USE ThreadsAssumption DEF TypeInv, TypeOK, NativePcs, javaVars, pipeVars, askVars
<1>1. CASE onStartCommand
  BY <1>1 DEF onStartCommand, MoveTo
<1>2. CASE stopProcess
  BY <1>2 DEF stopProcess, InterruptThread
<1>3. CASE StopStep
  BY <1>3 DEF StopStep, SetStopFlag, TestPipe, WritePipe
<1>4. CASE onAnswer
  BY <1>4 DEF onAnswer
<1>5. CASE \E button \in {"yes", "no"} : Press(button)
  BY <1>5 DEF Press, AnswerSent
<1> QED
  BY <1>1, <1>2, <1>3, <1>4, <1>5

\* A native thread keeps the types.
LEMMA NativeKeepsTypes ==
  ASSUME TypeInv, NEW t \in Threads, NativeStep(t) \/ Ask(t) \/ TunnelPacket(t)
  PROVE  TypeInv'
<1> USE ThreadsAssumption DEF TypeInv, TypeOK, NativePcs, MoveTo, javaVars, pipeVars, askVars,
                              nativeOnly
<1>1. CASE Main(t)
  <2>1. MoveTo(t, "top") \/ MoveTo(t, "over")
    BY <1>1 DEF Main
  <2>2. pc' \in [Threads -> NativePcs]
    BY <2>1
  <2>3. indSigHUP' = FALSE \/ indSigHUP' = indSigHUP
    BY <1>1 DEF Main
  <2>4. indSigHUP' \in BOOLEAN
    BY <2>3
  <2> QED
    BY <1>1, <2>2, <2>4 DEF Main
<1>2. CASE Ask(t)
  BY <1>2 DEF Ask
<1>3. CASE Await(t) \/ AwaitInterrupted(t) \/ Answered(t)
  BY <1>3 DEF Await, AwaitInterrupted, Answered
<1>4. CASE OpenPipe(t)
  BY <1>4 DEF OpenPipe
<1>5. CASE CheckForStop(t) \/ WokenByPipe(t) \/ TunnelPacket(t)
  BY <1>5 DEF CheckForStop, WokenByPipe, TunnelPacket
<1>6. CASE CloseWriteEnd(t)
  BY <1>6 DEF CloseWriteEnd
<1>7. CASE ForgetPipe(t) \/ CloseReadEnd(t)
  BY <1>7 DEF ForgetPipe, CloseReadEnd
<1>8. CASE TopOfLoop(t) \/ SessionEnds(t) \/ WaitEnds(t)
  BY <1>8 DEF TopOfLoop, SessionEnds, WaitEnds
<1> QED
  BY <1>1, <1>2, <1>3, <1>4, <1>5, <1>6, <1>7, <1>8 DEF NativeStep

\* The service, the activity and any number of native threads keep their types: no more
\* dialogs are shown than questions were asked.
THEOREM TypeCorrect == Spec => []TypeOK
<1>1. Init => TypeInv
  <2> SUFFICES ASSUME Init PROVE TypeInv
    OBVIOUS
  <2>1. dialogs \in 0..MaxQuestions /\ asked \in 0..MaxQuestions /\ dialogs <= asked
    BY ThreadsAssumption DEF Init
  <2>2. pc \in [Threads -> NativePcs] /\ tunPipe \in [Threads -> {"none", "open", "closed"}]
    BY DEF Init, NativePcs
  <2>3. answers \in Seq(BOOLEAN)
    BY DEF Init
  <2> QED
    BY <2>1, <2>2, <2>3 DEF Init, TypeInv, TypeOK
<1>2. TypeInv /\ [Next]_vars => TypeInv'
  <2>1. TypeInv /\ UNCHANGED vars => TypeInv'
    BY DEF vars, TypeInv, TypeOK
  <2> QED
    BY <2>1, JavaKeepsTypes, NativeKeepsTypes DEF Next
<1>3. TypeInv => TypeOK
  BY DEF TypeInv
<1> QED
  BY <1>1, <1>2, <1>3, PTL DEF Spec


----------------------------------------------------------------------------
(* Natural numbers and sequences.                                          *)

\* The natural numbers have no infinite descent.
LEMMA Induction ==
  ASSUME NEW T, 0 \in T, \A n \in Nat : n \in T => n + 1 \in T
  PROVE  Nat \subseteq T
<1> DEFINE U == {n \in Nat : n \notin T}
<1> SUFFICES ASSUME U # {} PROVE FALSE
  OBVIOUS
<1>1. PICK n \in U : \A m \in U : ~(<<m, n>> \in OpToRel(<, Nat))
  <2>1. U \subseteq Nat
    OBVIOUS
  <2> HIDE DEF U
  <2> QED
    BY <2>1, NatLessThanWellFounded, WFMin, Zenon
<1>2. n # 0 /\ n - 1 \in Nat /\ n - 1 \in U
  OBVIOUS
<1>3. <<n - 1, n>> \in OpToRel(<, Nat)
  BY <1>2 DEF OpToRel
<1> QED
  BY <1>1, <1>2, <1>3

\* The least of some natural numbers.
LEMMA Least ==
  ASSUME NEW S, S \subseteq Nat, S # {}
  PROVE  \E i \in S : \A j \in S : i <= j
<1>1. PICK i \in S : \A j \in S : ~(<<j, i>> \in OpToRel(<, Nat))
  BY NatLessThanWellFounded, WFMin, Zenon
<1>2. ASSUME NEW j \in S PROVE i <= j
  <2> SUFFICES ASSUME j < i PROVE FALSE
    OBVIOUS
  <2>1. <<j, i>> \in OpToRel(<, Nat)
    BY DEF OpToRel
  <2> QED
    BY <1>1, <2>1
<1> QED
  BY <1>2

----------------------------------------------------------------------------
(* gogoc-messaging.  What its state is made of.                            *)

Cells == UNION {Range(m.raw) : m \in Messages}

PacketTypes == {"NONFRAGDATA", "FRAGDATAFIRST", "FRAGDATALAST", "FRAGDATA"}

Packets == [type : PacketTypes, seq : 0..(SeqNums - 1), frag : Nat, data : Seq(Cells)]

PostPcs == {"idle", "push", "release"}

Domains ==
  /\ mpc \in [Side -> {"off", "loop", "stopSender", "stopReceiver", "close", "initialize",
                       "accept", "start", "started", "ended", "aborted"}]
  /\ quitting \in [Side -> BOOLEAN]
  /\ pipe \in [Side -> Seq(Packets)]
  /\ mutex \in [Side -> {"free", "sender", "receiver", "lost"}]
  /\ spc \in [Side -> {"none", "wait", "check", "lock", "writing", "pop", "ended"}]
  /\ rpc \in [Side -> {"none", "poll", "lock", "reading", "process", "posting", "ended"}]
  /\ nFragSeqNum \in [Side -> Nat]
  /\ nSeqNum \in [Side -> 0..(SeqNums - 1)]
  /\ queue \in [Side -> Seq(Messages)]
  /\ sem \in [Side -> Nat]
  /\ post \in [Side -> [Thread -> [pc : PostPcs, msg : Messages \cup {NULL}]]]
  /\ \A s \in Side, t \in Thread : post[s][t].pc = "push" => post[s][t].msg \in Messages
  /\ timeouts \in Nat
  /\ raced \in [Side -> BOOLEAN]

\* The sender has taken the message at the head of the queue from the semaphore.
Holds(s) == spc[s] \in {"check", "lock", "writing", "pop"}

Held(s) == IF Holds(s) THEN 1 ELSE 0

\* Posts whose message is in the queue and not in the semaphore yet.
Released(s) ==
  (IF post[s]["app"].pc = "release" THEN 1 ELSE 0)
  + (IF post[s]["receiver"].pc = "release" THEN 1 ELSE 0)

Gone(s) == mpc[s] \in {"off", "aborted"}

\* Which threads there are, and who posts.
Positions ==
  \A s \in Side :
    /\ Gone(s) \/ mpc[s] \in {"stopReceiver", "close", "initialize", "accept", "start"}
         => spc[s] = "none"
    /\ Gone(s) \/ mpc[s] \in {"close", "initialize", "accept", "start"} => rpc[s] = "none"
    /\ Gone(s) \/ quitting[s] => post[s]["app"].pc = "idle"
    /\ post[s]["receiver"].pc # "idle" => rpc[s] = "posting"

\* What the semaphore promises is in the queue, unless posts have met.
CountedAt(s) ==
  /\ mpc[s] = "aborted" => raced[s]
  /\ ~Gone(s) /\ ~raced[s] => sem[s] + Released(s) + Held(s) <= Len(queue[s])

Counted == \A s \in Side : CountedAt(s)

Owners ==
  \A s \in Side :
    /\ spc[s] = "writing" => mutex[s] = "sender"
    /\ rpc[s] = "reading" => mutex[s] = "receiver"

\* The cells that a message of n cells still takes from fragment f on.
Remaining(n, f) == n - f * PacketMax + Fragments(n) - f

\* The fragment the sender is at.
At(s) == IF spc[s] = "writing" THEN nFragSeqNum[s] ELSE 0

HeadLen(s) == Len(Head(queue[s]).raw)

Loaded == \A s \in Side : Holds(s) => queue[s] # <<>>

Sending == Loaded /\ \A s \in Side : spc[s] = "writing" => nFragSeqNum[s] * PacketMax < HeadLen(s)

\* The pipe has room for what is left of the message.
Fits(s) == CellsOf(pipe[s]) + Remaining(HeadLen(s), At(s)) <= PipeSize

\* The sender has passed CanRead() and can have the mutex.
Passed(s) == spc[s] = "writing" \/ (spc[s] = "lock" /\ mutex[s] # "lost")

\* Of two senders that have passed CanRead(), the second found the pipe of the first
\* empty: unless it only gave up its wait.
OneFits == timeouts = 0 /\ (\A s \in Side : Passed(s)) => \E s \in Side : Fits(s)

IInv == Domains /\ Positions /\ Counted /\ Owners /\ Sending /\ OneFits
----------------------------------------------------------------------------
(* Cells and packets.                                                      *)

\* f counts the cells of the first packets: the recursion of CellsOf.
Counts(f, packets) ==
  f = [n \in 0..Len(packets) |-> IF n = 0 THEN 0 ELSE f[n - 1] + Len(packets[n].data) + 1]

\* The same, up to the m-th packet.
CountsTo(f, packets, m) ==
  f = [n \in 0..m |-> IF n = 0 THEN 0 ELSE f[n - 1] + Len(packets[n].data) + 1]

LEMMA CellsRecursion ==
  ASSUME NEW packets, Len(packets) \in Nat
  PROVE  \E f : Counts(f, packets) /\ CellsOf(packets) = f[Len(packets)]
<1>1. \E f : CountsTo(f, packets, 0)
  <2> DEFINE f == [n \in 0..0 |-> 0]
  <2>1. CountsTo(f, packets, 0)
    BY DEF CountsTo
  <2> QED
    BY <2>1
<1>2. ASSUME NEW m \in Nat, NEW f, CountsTo(f, packets, m) PROVE \E g : CountsTo(g, packets, m + 1)
  <2> DEFINE g == [n \in 0..(m + 1) |-> IF n = 0 THEN 0 ELSE f[n - 1] + Len(packets[n].data) + 1]
  <2>1. \A n \in 0..m : g[n] = f[n]
    BY <1>2 DEF CountsTo
  <2>2. \A n \in 0..(m + 1) : n # 0 => g[n - 1] = f[n - 1]
    BY <2>1, SMTT(30)
  <2>3. CountsTo(g, packets, m + 1)
    BY <2>2 DEF CountsTo
  <2> QED
    BY <2>3
<1> DEFINE S == {m \in Nat : \E f : CountsTo(f, packets, m)}
<1>3. 0 \in S /\ \A n \in Nat : n \in S => n + 1 \in S
  BY <1>1, <1>2
<1> HIDE DEF S
<1>4. Len(packets) \in S
  BY <1>3, Induction
<1>5. \E f : CountsTo(f, packets, Len(packets))
  BY <1>4 DEF S
<1> QED
  BY <1>5 DEF Counts, CountsTo, CellsOf

\* What a count gives, step by step.
LEMMA CountsFacts ==
  ASSUME NEW S, NEW packets \in Seq(S), \A p \in S : Len(p.data) \in Nat,
         NEW f, Counts(f, packets)
  PROVE  /\ f[0] = 0
         /\ \A n \in 1..Len(packets) : f[n] = f[n - 1] + Len(packets[n].data) + 1
         /\ \A n \in 0..Len(packets) : f[n] \in Nat
<1> DEFINE N == Len(packets)
<1>0. N \in Nat /\ \A n \in 1..N : Len(packets[n].data) \in Nat
  OBVIOUS
<1> HIDE DEF N
<1>1. f = [n \in 0..N |-> IF n = 0 THEN 0 ELSE f[n - 1] + Len(packets[n].data) + 1]
  BY DEF Counts, N
<1>2. f[0] = 0 /\ \A n \in 1..N : f[n] = f[n - 1] + Len(packets[n].data) + 1
  BY <1>0, <1>1
<1> DEFINE T == {n \in Nat : n <= N => f[n] \in Nat}
<1>3. 0 \in T
  BY <1>2
<1>4. ASSUME NEW n \in Nat, n \in T PROVE n + 1 \in T
  <2>1. CASE n + 1 <= N
    <3>1. f[n + 1] = f[n] + Len(packets[n + 1].data) + 1 /\ f[n] \in Nat
          /\ Len(packets[n + 1].data) \in Nat
      BY <1>0, <1>2, <1>4, <2>1
    <3> QED
      BY <3>1
  <2> QED
    BY <1>0, <2>1
<1>5. Nat \subseteq T
  <2> HIDE DEF T
  <2> QED
    BY <1>3, <1>4, Induction
<1> QED
  BY <1>0, <1>2, <1>5 DEF N

\* Two sequences of packets that differ by a packet at the front.
LEMMA CellsOfTail ==
  ASSUME NEW S, NEW packets \in Seq(S), \A p \in S : Len(p.data) \in Nat, packets # <<>>
  PROVE  CellsOf(Tail(packets)) <= CellsOf(packets)
<1> DEFINE N == Len(packets)
           tail == Tail(packets)
<1>1. N \in Nat /\ N >= 1 /\ tail \in Seq(S) /\ Len(tail) = N - 1
      /\ \A n \in 1..(N - 1) : tail[n] = packets[n + 1]
  BY HeadTailProperties
<1>2. PICK f : Counts(f, packets) /\ CellsOf(packets) = f[N]
  BY <1>1, CellsRecursion
<1> HIDE DEF tail
<1>3. PICK g : Counts(g, tail) /\ CellsOf(tail) = g[N - 1]
  <2>1. Len(tail) \in Nat /\ Len(tail) = N - 1
    BY <1>1
  <2>2. PICK g : Counts(g, tail) /\ CellsOf(tail) = g[Len(tail)]
    BY <2>1, CellsRecursion
  <2> QED
    BY <2>1, <2>2
<1>4. /\ \A n \in 1..N : f[n] = f[n - 1] + Len(packets[n].data) + 1
      /\ \A n \in 0..N : f[n] \in Nat
  BY <1>2, CountsFacts
<1>5. /\ g[0] = 0 /\ \A n \in 1..(N - 1) : g[n] = g[n - 1] + Len(packets[n + 1].data) + 1
      /\ \A n \in 0..(N - 1) : g[n] \in Nat
  <2>1. /\ g[0] = 0 /\ \A n \in 1..Len(tail) : g[n] = g[n - 1] + Len(tail[n].data) + 1
        /\ \A n \in 0..Len(tail) : g[n] \in Nat
    BY <1>1, <1>3, CountsFacts
  <2> QED
    BY <1>1, <2>1
<1>6. \A n \in 1..N : Len(packets[n].data) \in Nat
  OBVIOUS
<1> HIDE DEF N
<1> DEFINE T == {n \in Nat : n < N => g[n] <= f[n + 1]}
<1>7. 0 \in T
  BY <1>1, <1>4, <1>5
<1>8. ASSUME NEW n \in Nat, n \in T PROVE n + 1 \in T
  <2> SUFFICES ASSUME n + 1 < N PROVE g[n + 1] <= f[n + 2]
    BY <1>1
  <2>1. g[n] <= f[n + 1] /\ g[n] \in Nat /\ f[n + 1] \in Nat
    BY <1>1, <1>4, <1>5, <1>8
  <2>2. g[n + 1] = g[n] + Len(packets[n + 2].data) + 1
    BY <1>1, <1>5
  <2>3. f[n + 2] = f[n + 1] + Len(packets[n + 2].data) + 1 /\ Len(packets[n + 2].data) \in Nat
    BY <1>1, <1>4, <1>6
  <2> QED
    BY <2>1, <2>2, <2>3, SMTT(30)
<1>9. Nat \subseteq T
  <2> HIDE DEF T
  <2> QED
    BY <1>7, <1>8, Induction
<1>10. N - 1 \in T
  BY <1>1, <1>9
<1>11. g[N - 1] <= f[N]
  BY <1>1, <1>10
<1> QED
  BY <1>2, <1>3, <1>11 DEF tail

\* A packet more takes its cells and one for its header.
LEMMA CellsOfAppend ==
  ASSUME NEW S, NEW packets \in Seq(S), \A p \in S : Len(p.data) \in Nat, NEW p \in S
  PROVE  CellsOf(Append(packets, p)) = CellsOf(packets) + Len(p.data) + 1
<1> DEFINE N == Len(packets)
           longer == Append(packets, p)
<1>1. N \in Nat /\ longer \in Seq(S) /\ Len(longer) = N + 1 /\ longer[N + 1] = p
      /\ \A n \in 1..N : longer[n] = packets[n]
  OBVIOUS
<1>2. PICK f : Counts(f, packets) /\ CellsOf(packets) = f[N]
  BY <1>1, CellsRecursion
<1> HIDE DEF longer
<1>3. PICK g : Counts(g, longer) /\ CellsOf(longer) = g[N + 1]
  <2>1. Len(longer) \in Nat /\ Len(longer) = N + 1
    BY <1>1
  <2>2. PICK g : Counts(g, longer) /\ CellsOf(longer) = g[Len(longer)]
    BY <2>1, CellsRecursion
  <2> QED
    BY <2>1, <2>2
<1>4. f[0] = 0 /\ \A n \in 1..N : f[n] = f[n - 1] + Len(packets[n].data) + 1
  BY <1>2, CountsFacts
<1>5. /\ g[0] = 0
      /\ \A n \in 1..N : g[n] = g[n - 1] + Len(packets[n].data) + 1
      /\ g[N + 1] = g[N] + Len(p.data) + 1
  <2>1. g[0] = 0 /\ \A n \in 1..(N + 1) : g[n] = g[n - 1] + Len(longer[n].data) + 1
    BY <1>1, <1>3, CountsFacts, SMTT(30)
  <2> QED
    BY <1>1, <2>1
<1> HIDE DEF N
<1> DEFINE T == {n \in Nat : n <= N => g[n] = f[n]}
<1>6. 0 \in T
  BY <1>4, <1>5
<1>7. ASSUME NEW n \in Nat, n \in T PROVE n + 1 \in T
  BY <1>1, <1>4, <1>5, <1>7
<1>8. Nat \subseteq T
  <2> HIDE DEF T
  <2> QED
    BY <1>6, <1>7, Induction
<1>9. g[N] = f[N]
  BY <1>1, <1>8
<1> QED
  BY <1>2, <1>3, <1>5, <1>9 DEF longer

LEMMA CellsOfFacts ==
  ASSUME NEW S, NEW packets \in Seq(S), \A p \in S : Len(p.data) \in Nat
  PROVE  CellsOf(packets) \in Nat /\ CellsOf(<<>>) = 0
<1>1. CellsOf(packets) \in Nat
  <2>1. PICK f : Counts(f, packets) /\ CellsOf(packets) = f[Len(packets)]
    BY CellsRecursion
  <2>2. \A n \in 0..Len(packets) : f[n] \in Nat
    BY <2>1, CountsFacts
  <2> QED
    BY <2>1, <2>2
<1>2. CellsOf(<<>>) = 0
  <2>1. <<>> \in Seq(S) /\ Len(<<>>) = 0
    OBVIOUS
  <2>2. PICK f : Counts(f, <<>>) /\ CellsOf(<<>>) = f[0]
    BY <2>1, CellsRecursion
  <2>3. f[0] = 0
    BY <2>1, <2>2, CountsFacts
  <2> QED
    BY <2>2, <2>3
<1> QED
  BY <1>1, <1>2
LEMMA FragmentsFacts ==
  ASSUME NEW n \in Nat
  PROVE  /\ Fragments(n) \in Nat
         /\ \A f \in Nat : f * PacketMax < n => f < Fragments(n)
<1> DEFINE d == PacketMax
           q == Fragments(n)
<1>1. d \in Nat /\ d > 0
  BY SizesAssumption
<1>2. q \in Int /\ d * q <= n + d - 1 /\ n + d - 1 < d * q + d
  <2>1. q = (n + d - 1) \div d
    BY DEF Fragments
  <2> HIDE DEF q, d
  <2> QED
    BY <1>1, <2>1
<1> HIDE DEF d, q
<1>3. q >= 0
  <2> SUFFICES ASSUME q <= -1 PROVE FALSE
    BY <1>2
  <2>1. d * q <= -d
    BY <1>1, <1>2
  <2> QED
    BY <1>1, <1>2, <2>1
<1>4. ASSUME NEW f \in Nat, f * d < n PROVE f < q
  <2> SUFFICES ASSUME q <= f PROVE FALSE
    BY <1>2
  <2>1. d * q <= d * f /\ d * f = f * d
    BY <1>1, <1>2
  <2> QED
    BY <1>1, <1>2, <1>4, <2>1
<1> QED
  BY <1>2, <1>3, <1>4 DEF d, q

LEMMA MinOfTwo == ASSUME NEW a \in Int, NEW b \in Int PROVE Min({a, b}) = IF a <= b THEN a ELSE b
  BY DEF Min

\* What a message of the queue is.
LEMMA MessageFacts ==
  ASSUME NEW m \in Messages
  PROVE  /\ m.raw \in Seq(Cells) /\ Len(m.raw) \in Nat /\ Len(m.raw) >= 2
         /\ Remaining(Len(m.raw), 0) \in Nat /\ Remaining(Len(m.raw), 0) <= PipeSize
<1>1. Len(m.raw) \in Nat /\ Len(m.raw) >= 2 /\ m.raw = [k \in 1..Len(m.raw) |-> m.raw[k]]
  BY MessagesAssumption DEF MSG_HEADER_LEN
<1>2. \A k \in 1..Len(m.raw) : m.raw[k] \in Range(m.raw)
  BY <1>1 DEF Range
<1>3. Range(m.raw) \subseteq Cells
  BY DEF Cells
<1>4. m.raw \in Seq(Cells)
  BY <1>1, <1>2, <1>3
<1>5. Fragments(Len(m.raw)) \in Nat /\ Len(m.raw) + Fragments(Len(m.raw)) <= PipeSize
  BY <1>1, FragmentsFacts, PipeAssumption
<1>6. PacketMax \in Nat
  BY SizesAssumption
<1> DEFINE n == Len(m.raw)
           q == Fragments(n)
<1>7. n \in Nat /\ q \in Nat /\ n + q <= PipeSize /\ PipeSize \in Nat
  BY <1>1, <1>5, SizesAssumption
<1>8. Remaining(n, 0) = n - 0 * PacketMax + q - 0
  BY DEF Remaining
<1> HIDE DEF n, q
<1>9. Remaining(n, 0) = n + q
  BY <1>6, <1>7, <1>8
<1>10. Remaining(n, 0) \in Nat /\ Remaining(n, 0) <= PipeSize
  BY <1>7, <1>9
<1> QED
  BY <1>1, <1>4, <1>10 DEF n

\* The message a sender holds.
LEMMA HeadFacts ==
  ASSUME Domains, Sending, NEW s \in Side, Holds(s)
  PROVE  /\ Head(queue[s]) \in Messages /\ HeadLen(s) \in Nat /\ HeadLen(s) >= 2
         /\ Head(queue[s]).raw \in Seq(Cells)
<1>1. queue[s] \in Seq(Messages) /\ queue[s] # <<>>
  BY DEF Domains, Sending, Loaded
<1>2. Head(queue[s]) \in Messages
  BY <1>1
<1> QED
  BY <1>2, MessageFacts DEF HeadLen

\* The packet it writes, and what is left of the message.
LEMMA PacketFacts ==
  ASSUME Domains, Sending, NEW s \in Side, spc[s] = "writing"
  PROVE  /\ Packet(s) \in Packets /\ Packet(s).data = PacketCells(s)
         /\ Len(PacketCells(s)) \in Nat
         /\ Len(PacketCells(s)) + 1 <= Remaining(HeadLen(s), nFragSeqNum[s])
         /\ ~LastPacket(s) =>
              /\ Len(PacketCells(s)) = PacketMax
              /\ (nFragSeqNum[s] + 1) * PacketMax < HeadLen(s)
              /\ Remaining(HeadLen(s), nFragSeqNum[s])
                   = Remaining(HeadLen(s), nFragSeqNum[s] + 1) + PacketMax + 1
<1> DEFINE raw == Head(queue[s]).raw
           f == nFragSeqNum[s]
           n == HeadLen(s)
           d == PacketMax
           first == f * d
           end == Min({first + d, n})
<1>1. /\ raw \in Seq(Cells) /\ n = Len(raw) /\ n \in Nat
      /\ f \in Nat /\ d \in Nat /\ d > 0 /\ first < n
  <2>1. Holds(s)
    BY DEF Holds
  <2>2. raw \in Seq(Cells) /\ n \in Nat
    BY <2>1, HeadFacts
  <2>3. f \in Nat /\ first < n
    BY DEF Domains, Sending
  <2> QED
    BY <2>2, <2>3, SizesAssumption DEF HeadLen
<1>2. first \in Nat /\ (f + 1) * d = first + d
  BY <1>1
<1>3. PacketCells(s) = SubSeq(raw, first + 1, end)
  BY DEF PacketCells, HeadLen
<1>4. LastPacket(s) <=> first + d >= n
  BY <1>2 DEF LastPacket, HeadLen
<1>5. Fragments(n) \in Nat /\ f < Fragments(n)
  BY <1>1, FragmentsFacts
<1>6. /\ Remaining(n, f) = n - first + Fragments(n) - f
      /\ Remaining(n, f + 1) = n - (first + d) + Fragments(n) - (f + 1)
  BY <1>2 DEF Remaining
<1>7. Packet(s) = [type |-> PacketType(s), seq |-> nSeqNum[s], frag |-> f, data |-> PacketCells(s)]
  BY DEF Packet
<1> HIDE DEF raw, n, d, first
<1>8. end = (IF first + d <= n THEN first + d ELSE n) /\ end \in Nat
      /\ first + 1 <= end /\ end <= n
  BY <1>1, <1>2, MinOfTwo
<1> HIDE DEF end
<1>9. PacketCells(s) \in Seq(Cells) /\ Len(PacketCells(s)) = end - first
  <2>1. /\ \A i \in (first + 1)..end : raw[i] \in Cells
        /\ first + 1 \in Int /\ end \in Int
    BY <1>1, <1>2, <1>8
  <2>2. /\ SubSeq(raw, first + 1, end) \in Seq(Cells)
        /\ Len(SubSeq(raw, first + 1, end))
             = IF first + 1 <= end THEN end - (first + 1) + 1 ELSE 0
    BY <2>1, SubSeqProperties
  <2> QED
    BY <1>2, <1>3, <1>8, <2>2
<1>10. PacketType(s) \in PacketTypes
  <2>1. f = 0 \/ f > 0
    BY <1>1
  <2> QED
    BY <2>1 DEF PacketType, PacketTypes
<1>11. nSeqNum[s] \in 0..(SeqNums - 1)
  BY DEF Domains
<1>12. Packet(s) \in Packets /\ Packet(s).data = PacketCells(s)
  BY <1>1, <1>7, <1>9, <1>10, <1>11 DEF Packets
<1> DEFINE q == Fragments(n)
           l == Len(PacketCells(s))
<1> HIDE DEF q, l
<1>13. l + 1 <= Remaining(n, f)
  <2>1. l = end - first /\ q \in Nat /\ f < q /\ Remaining(n, f) = n - first + q - f
    BY <1>5, <1>6, <1>9 DEF l, q
  <2> HIDE DEF f
  <2> QED
    BY <1>1, <1>2, <1>8, <2>1
<1>14. ~LastPacket(s) => /\ l = d /\ first + d < n
                         /\ Remaining(n, f) = Remaining(n, f + 1) + d + 1
  <2> SUFFICES ASSUME ~LastPacket(s) PROVE /\ l = d /\ first + d < n
                         /\ Remaining(n, f) = Remaining(n, f + 1) + d + 1
    OBVIOUS
  <2>1. /\ l = end - first /\ q \in Nat /\ ~(first + d >= n)
        /\ Remaining(n, f) = n - first + q - f
        /\ Remaining(n, f + 1) = n - (first + d) + q - (f + 1)
    BY <1>4, <1>5, <1>6, <1>9 DEF l, q
  <2> HIDE DEF f
  <2> QED
    BY <1>1, <1>2, <1>8, <2>1
<1>15. Len(PacketCells(s)) \in Nat
  BY <1>2, <1>8, <1>9
<1> QED
  BY <1>2, <1>12, <1>13, <1>14, <1>15 DEF n, d, l, first
----------------------------------------------------------------------------
(* The threads, the posts and the semaphore.                               *)

LEMMA CountFacts ==
  ASSUME Domains, NEW s \in Side
  PROVE  /\ Released(s) \in Nat /\ Held(s) \in Nat /\ sem[s] \in Nat /\ Len(queue[s]) \in Nat
         /\ Holds(s) => Held(s) = 1
         /\ ~Holds(s) => Held(s) = 0
  BY DEF Domains, Released, Held

\* A step after which a side owes no more than before.
Steady(s) ==
  /\ Holds(s)' => Holds(s)
  /\ mpc[s]' = "aborted" => mpc[s] = "aborted"
  /\ Gone(s) => Gone(s)'
  /\ raced[s] => raced[s]'
  /\ sem[s]' = sem[s] /\ queue[s]' = queue[s]
  /\ \A t \in Thread : post[s][t].pc' = "release" => post[s][t].pc = "release"

LEMMA CountStays ==
  ASSUME NEW s \in Side, Counted, Domains, Domains', Steady(s)
  PROVE  CountedAt(s)'
<1>1. Released(s)' <= Released(s)
  BY DEF Released, Thread, Steady
<1>2. CASE Gone(s)' \/ raced[s]'
  BY <1>2 DEF Counted, CountedAt, Gone, Domains, Steady
<1>3. CASE ~Gone(s)' /\ ~raced[s]'
  <2>1. sem[s] + Released(s) + Held(s) <= Len(queue[s])
    BY <1>3 DEF Counted, CountedAt, Domains, Steady
  <2> DEFINE r == Released(s)
             q == Released(s)'
             h == Held(s)
             k == Held(s)'
             n == Len(queue[s])
  <2>2. r \in Nat /\ q \in Nat /\ h \in Nat /\ k \in Nat /\ n \in Nat /\ sem[s] \in Nat
    <3>1. r \in Nat /\ h \in Nat /\ n \in Nat /\ sem[s] \in Nat
      BY CountFacts
    <3>2. q \in Nat /\ k \in Nat
      BY DEF Released, Held, Domains
    <3> QED
      BY <3>1, <3>2
  <2>3. k <= h
    BY DEF Held, Steady
  <2> QED
    BY <1>1, <1>3, <2>1, <2>2, <2>3, SMTT(30) DEF CountedAt, Gone, Steady
<1> QED
  BY <1>2, <1>3

LEMMA Modulo == ASSUME NEW n \in Nat \ {0}, NEW k \in Int PROVE k % n \in 0..(n - 1)
  OBVIOUS

LEMMA AnswersPosted == ASSUME NEW id, NEW m \in Retrieve(id) PROVE m \in Messages
<1>1. id \in DOMAIN Answers /\ m \in Answers[id]
  BY DEF Retrieve
<1> QED
  BY <1>1 DEF Messages

\* What StartPost() leaves.
LEMMA StartPostFacts ==
  ASSUME Domains, NEW s \in Side, NEW t \in Thread, NEW m \in Messages, StartPost(s, t, m)
  PROVE  /\ post' \in [Side -> [Thread -> [pc : PostPcs, msg : Messages \cup {NULL}]]]
         /\ \A u \in Side : u # s => post[u]' = post[u]
         /\ \A v \in Thread : v # t => post[s][v]' = post[s][v]
         /\ post[s][t].pc' \in {"idle", "push"}
         /\ post[s][t].pc' = "push" => post[s][t].msg' = m
<1> DEFINE p == IF Takes(s) THEN [pc |-> "push", msg |-> m] ELSE NoPost
<1>1. p \in [pc : PostPcs, msg : Messages \cup {NULL}] /\ p.pc \in {"idle", "push"}
      /\ (p.pc = "push" => p.msg = m)
  BY DEF NoPost, PostPcs
<1>2. post' = [post EXCEPT ![s][t] = p]
  BY DEF StartPost
<1> HIDE DEF p
<1> QED
  BY <1>1, <1>2 DEF Domains

\* What a push() leaves of the post.
LEMMA PushedFacts ==
  ASSUME Domains, NEW s \in Side, NEW t \in Thread, post' = [post EXCEPT ![s][t].pc = "release"]
  PROVE  /\ post' \in [Side -> [Thread -> [pc : PostPcs, msg : Messages \cup {NULL}]]]
         /\ post[s][t].pc' = "release"
         /\ \A u \in Side : u # s => post[u]' = post[u]
         /\ \A v \in Thread : v # t => post[s][v]' = post[s][v]
<1> DEFINE Record == [pc : PostPcs, msg : Messages \cup {NULL}]
           p == [post[s][t] EXCEPT !.pc = "release"]
           f == [post[s] EXCEPT ![t] = p]
<1>1. post' = [post EXCEPT ![s] = f]
  OBVIOUS
<1>2. post \in [Side -> [Thread -> Record]] /\ "release" \in PostPcs
  BY DEF Domains, PostPcs
<1>3. p \in Record /\ p.pc = "release"
  <2>1. post[s][t] \in Record
    BY <1>2
  <2> QED
    BY <1>2, <2>1
<1> HIDE DEF p, Record
<1>4. f \in [Thread -> Record] /\ f[t] = p /\ \A v \in Thread : v # t => f[v] = post[s][v]
  BY <1>2, <1>3
<1> HIDE DEF f
<1>5. post' \in [Side -> [Thread -> Record]] /\ post'[s] = f
      /\ \A u \in Side : u # s => post'[u] = post[u]
  BY <1>1, <1>2, <1>4
<1>6. post[s][t].pc' = "release" /\ \A v \in Thread : v # t => post[s][v]' = post[s][v]
  BY <1>3, <1>4, <1>5
<1> QED
  BY <1>5, <1>6 DEF Record

LEMMA PushPosts ==
  ASSUME Domains, NEW s \in Side, NEW t \in Thread, Push(s, t)
  PROVE  /\ post' \in [Side -> [Thread -> [pc : PostPcs, msg : Messages \cup {NULL}]]]
         /\ post[s][t].pc' = "release"
         /\ \A u \in Side : u # s => post[u]' = post[u]
         /\ \A v \in Thread : v # t => post[s][v]' = post[s][v]
<1>1. post' = [post EXCEPT ![s][t].pc = "release"]
  BY DEF Push
<1> QED
  BY <1>1, PushedFacts

\* What the sender's pop() makes of the queue, for any set M of messages that may be in it.
LEMMA PopFacts ==
  ASSUME NEW M, NEW q \in Seq(M), q # <<>>, NEW a \in M, NEW b \in M
  PROVE  /\ Tail(q) \in Seq(M) /\ Len(Tail(q)) = Len(q) - 1
         /\ Tail(q) \o <<a, b>> \in Seq(M)
<1>1. Tail(q) \in Seq(M) /\ Len(Tail(q)) = Len(q) - 1
  OBVIOUS
<1>2. <<a, b>> \in Seq(M)
  OBVIOUS
<1> QED
  BY <1>1, <1>2, ConcatProperties

----------------------------------------------------------------------------
(* Where the threads are.                                                  *)

\* The manager thread, and the constructors and destructors.
LEMMA ManagerControl ==
  ASSUME NEW s \in Side, Domains, Positions, Owners, Sending,
         Construct(s) \/ Destroy(s) \/ InitializeFails(s) \/ StartCleanup(s) \/ GiveUp(s) \/
         StopSender(s) \/ TerminateSender(s) \/ StopReceiver(s) \/ TerminateReceiver(s) \/
         Cleanup(s) \/ CreateConnectionPoint \/ Connect \/ AcceptConnection \/
         StartThreads(s) \/ SetConnected(s)
  PROVE  Domains' /\ Positions' /\ Owners'
<1> USE DEF Domains, Positions, Owners, Gone, Side, Thread, PostPcs,
    manager, pipes, sender, receiver, posts, bounds, history
<1>1. CASE Construct(s)
  BY <1>1 DEF Construct, Goto, SetState
<1>2. CASE Destroy(s)
  BY <1>2 DEF Destroy, Goto, NoPost
<1>3. CASE InitializeFails(s)
  BY <1>3 DEF InitializeFails, Goto, SetState
<1>4. CASE StartCleanup(s)
  BY <1>4 DEF StartCleanup, Goto
<1>5. CASE GiveUp(s)
  BY <1>5 DEF GiveUp, Goto
<1>6. CASE StopSender(s)
  BY <1>6 DEF StopSender, Goto
<1>7. CASE TerminateSender(s)
  BY <1>7 DEF TerminateSender, Goto, SenderBlocked
<1>8. CASE StopReceiver(s)
  BY <1>8 DEF StopReceiver, Goto
<1>9. CASE TerminateReceiver(s)
  BY <1>9 DEF TerminateReceiver, Goto, ReceiverBlocked
<1>10. CASE Cleanup(s)
  BY <1>10 DEF Cleanup, Goto, SetState, CloseEnd, Other
<1>11. CASE CreateConnectionPoint
  BY <1>11 DEF CreateConnectionPoint, Goto
<1>12. CASE Connect
  BY <1>12 DEF Connect, Goto
<1>13. CASE AcceptConnection
  BY <1>13 DEF AcceptConnection, Goto
<1>14. CASE StartThreads(s)
  BY <1>14 DEF StartThreads, Goto
<1>15. CASE SetConnected(s)
  BY <1>15 DEF SetConnected, Goto, SetState
<1> QED
  BY <1>1, <1>2, <1>3, <1>4, <1>5, <1>6, <1>7, <1>8, <1>9, <1>10, <1>11, <1>12, <1>13, <1>14, <1>15

\* The sender thread.
LEMMA SenderControl ==
  ASSUME NEW s \in Side, Domains, Positions, Owners, Sending,
         SenderStops(s) \/ SenderTakes(s) \/ AssertionFails(s) \/ SenderWaitsForReceiver(s) \/
         SenderMayWrite(s) \/ SenderLocks(s) \/ SenderWrites(s) \/ SenderFails(s) \/
         SenderCheckTimesOut(s) \/ SenderLockTimesOut(s)
  PROVE  Domains' /\ Positions' /\ Owners'
<1> USE DEF Domains, Positions, Owners, Gone, Side, Thread, PostPcs,
    manager, pipes, sender, receiver, posts, bounds, history
<1>1. CASE SenderStops(s)
  BY <1>1 DEF SenderStops
<1>2. CASE SenderTakes(s)
  BY <1>2 DEF SenderTakes
<1>3. CASE AssertionFails(s)
  BY <1>3, SMTT(30) DEF AssertionFails, ProcessEnds, CloseEnd, Goto, SetState, Other, NoPost
<1>4. CASE SenderWaitsForReceiver(s)
  BY <1>4 DEF SenderWaitsForReceiver
<1>5. CASE SenderMayWrite(s)
  BY <1>5 DEF SenderMayWrite
<1>6. CASE SenderLocks(s)
  BY <1>6 DEF SenderLocks
<1>7. CASE SenderWrites(s)
  <2>1. Packet(s) \in Packets
    BY <1>7, PacketFacts DEF SenderWrites
  <2>4. (nSeqNum[s] + 1) % SeqNums \in 0..(SeqNums - 1)
    <3>1. nSeqNum \in [Side -> 0..(SeqNums - 1)] /\ s \in Side
      OBVIOUS
    <3> HIDE DEF Domains, Side
    <3>2. SeqNums \in Nat \ {0}
      BY SizesAssumption
    <3>3. nSeqNum[s] + 1 \in Int
      BY <3>1, <3>2
    <3> QED
      BY <3>2, <3>3, Modulo
  <2>5. pipe' = [pipe EXCEPT ![s] = Append(@, Packet(s))] /\ pipe' \in [Side -> Seq(Packets)]
    BY <1>7, <2>1 DEF SenderWrites
  <2>6. CASE LastPacket(s)
    <3>1. /\ nSeqNum' = [nSeqNum EXCEPT ![s] = (@ + 1) % SeqNums]
          /\ mutex' = [mutex EXCEPT ![s] = "free"] /\ spc' = [spc EXCEPT ![s] = "pop"]
      BY <1>7, <2>6 DEF SenderWrites
    <3>2. nSeqNum' \in [Side -> 0..(SeqNums - 1)]
      BY <2>4, <3>1
    <3>4. mutex' \in [Side -> {"free", "sender", "receiver", "lost"}]
          /\ spc' \in [Side -> {"none", "wait", "check", "lock", "writing", "pop", "ended"}]
      BY <3>1
    <3>5. UNCHANGED <<mpc, quitting, rpc, nFragSeqNum, queue, sem, post, timeouts, raced>>
      BY <1>7, <2>6 DEF SenderWrites
    <3>6. Domains'
      BY <2>5, <3>2, <3>4, <3>5
    <3>7. Positions' /\ Owners'
      BY <1>7, <3>1, <3>5, SMTT(30) DEF SenderWrites
    <3> QED
      BY <3>6, <3>7
  <2>7. CASE ~LastPacket(s)
    BY <1>7, <2>5, <2>7, SMTT(30) DEF SenderWrites
  <2> QED
    BY <2>6, <2>7
<1>8. CASE SenderFails(s)
  BY <1>8 DEF SenderFails, SenderEnds, SetState
<1>9. CASE SenderCheckTimesOut(s)
  BY <1>9 DEF SenderCheckTimesOut, TimesOut
<1>10. CASE SenderLockTimesOut(s)
  BY <1>10 DEF SenderLockTimesOut, TimesOut, SenderEnds, SetState
<1> QED
  BY <1>1, <1>2, <1>3, <1>4, <1>5, <1>6, <1>7, <1>8, <1>9, <1>10

\* Its pop().
LEMMA PopControl ==
  ASSUME NEW s \in Side, NEW t \in Thread, Domains, Positions, Owners, Sending,
         SenderPops(s) \/ SenderPopsMidPush(s, t)
  PROVE  Domains' /\ Positions' /\ Owners'
<1>1. queue[s] \in Seq(Messages) /\ queue[s] # <<>>
  BY DEF SenderPops, SenderPopsMidPush, Sending, Loaded, Holds, Domains
<1>2. queue[s]' \in Seq(Messages) /\ queue' = [queue EXCEPT ![s] = queue[s]']
  <2>1. CASE queue' = [queue EXCEPT ![s] = Tail(@)]
    <3>1. Tail(queue[s]) \in Seq(Messages)
      BY <1>1
    <3> QED
      BY <2>1, <3>1 DEF Domains
  <2>2. CASE SenderPopsMidPush(s, t) /\ \E m \in Sendable(s) : queue' = [queue EXCEPT ![s] = Tail(@) \o <<post[s][t].msg, m>>]
    <3>1. PICK m \in Sendable(s) : queue' = [queue EXCEPT ![s] = Tail(@) \o <<post[s][t].msg, m>>]
      BY <2>2
    <3>2. m \in Messages /\ post[s][t].msg \in Messages
      BY <2>2 DEF Sendable, Messages, SenderPopsMidPush, Domains
    <3>3. Tail(queue[s]) \o <<post[s][t].msg, m>> \in Seq(Messages)
      BY <1>1, <3>2, PopFacts
    <3> QED
      BY <3>1, <3>3 DEF Domains
  <2> QED
    BY <2>1, <2>2 DEF SenderPops, SenderPopsMidPush
<1>3. queue' \in [Side -> Seq(Messages)]
  BY <1>2 DEF Domains
<1>4. /\ spc[s] = "pop" /\ spc' = [spc EXCEPT ![s] = "wait"]
      /\ UNCHANGED <<mpc, quitting, pipe, mutex, rpc, nFragSeqNum, nSeqNum, sem, timeouts>>
  BY DEF SenderPops, SenderPopsMidPush, manager, pipes, receiver, bounds
<1>5. /\ post' \in [Side -> [Thread -> [pc : PostPcs, msg : Messages \cup {NULL}]]]
      /\ \A u \in Side, v \in Thread :
           /\ post[u][v].pc' = "push" => post[u][v]' = post[u][v]
           /\ post[u][v].pc' # post[u][v].pc => post[u][v].pc = "push"
      /\ raced' \in [Side -> BOOLEAN]
  <2>1. CASE SenderPops(s)
    BY <2>1 DEF SenderPops, history, Domains
  <2>2. CASE SenderPopsMidPush(s, t)
    <3>1. post' = [post EXCEPT ![s][t].pc = "release"] /\ post[s][t].pc = "push"
      BY <2>2 DEF SenderPopsMidPush
    <3>2. raced' \in [Side -> BOOLEAN]
      BY <2>2 DEF SenderPopsMidPush, Domains
    <3> QED
      BY <3>1, <3>2, PushedFacts
  <2> QED
    BY <2>1, <2>2
<1>6. Domains'
  <2>1. \A u \in Side, v \in Thread : post'[u][v].pc = "push" => post'[u][v].msg \in Messages
    BY <1>5 DEF Domains
  <2>2. spc' \in [Side -> {"none", "wait", "check", "lock", "writing", "pop", "ended"}]
    BY <1>4 DEF Domains
  <2> QED
    BY <1>3, <1>4, <1>5, <2>1, <2>2 DEF Domains
<1>7. Positions' /\ Owners'
  BY <1>4, <1>5, SMTT(30) DEF Domains, Positions, Owners, Gone, Side, Thread
<1> QED
  BY <1>6, <1>7

\* What a read of a packet leaves.
LEMMA ReadsFacts ==
  ASSUME Domains, Owners, NEW s \in Side, ReceiverReads(s)
  PROVE  /\ UNCHANGED <<mpc, quitting, sem, queue, post, raced, spc, nFragSeqNum, nSeqNum, timeouts>>
         /\ pipe' \in [Side -> Seq(Packets)]
         /\ \A u \in Side : pipe[u]' = pipe[u] \/ (pipe[u] # <<>> /\ pipe[u]' = Tail(pipe[u]))
         /\ mutex' \in [Side -> {"free", "sender", "receiver", "lost"}]
         /\ \A u \in Side : mutex[u]' = mutex[u] \/ (mutex[u] # "lost" /\ mutex[u]' = "free")
         /\ rpc' \in [Side -> {"none", "poll", "lock", "reading", "process", "posting", "ended"}]
         /\ rpc[s] = "reading" /\ rpc[s]' \in {"reading", "process", "ended"}
         /\ rpc[s]' = "reading" => mutex[s]' = mutex[s]
         /\ \A u \in Side : u # s => rpc[u]' = rpc[u] /\ mutex[u]' = mutex[u]
         /\ spc[s] # "writing"
<1>1. /\ UNCHANGED <<mpc, quitting, sem, queue, post, raced, spc, nFragSeqNum, nSeqNum, timeouts>>
      /\ rpc[s] = "reading"
  BY DEF ReceiverReads, sender, posts, bounds, history
<1>2. mutex[s] = "receiver" /\ spc[s] # "writing"
  BY <1>1 DEF Owners
<1>3. PICK d \in BOOLEAN, o \in BOOLEAN :
        /\ mutex' = [mutex EXCEPT ![s] = IF d THEN "free" ELSE mutex[s]]
        /\ rpc' = [rpc EXCEPT ![s] = IF o THEN IF d THEN "process" ELSE rpc[s] ELSE "ended"]
        /\ ~o => d
  <2> DEFINE p == Head(pipe[Other(s)])
             ordered == InOrder(buf[s], p)
             done == ~ordered \/ EndsMessage(p)
  <2>1. /\ mutex' = [mutex EXCEPT ![s] = IF done THEN "free" ELSE mutex[s]]
        /\ IF ordered THEN rpc' = [rpc EXCEPT ![s] = IF done THEN "process" ELSE rpc[s]]
           ELSE rpc' = [rpc EXCEPT ![s] = "ended"]
    BY DEF ReceiverReads, ReceiverEnds
  <2> HIDE DEF ordered
  <2>2. CASE ordered
    <3>1. CASE done
      BY <2>1, <2>2, <3>1
    <3>2. CASE ~done
      BY <2>1, <2>2, <3>2
    <3> QED
      BY <3>1, <3>2
  <2>3. CASE ~ordered
    BY <2>1, <2>3
  <2> QED
    BY <2>2, <2>3
<1>4. /\ mutex' \in [Side -> {"free", "sender", "receiver", "lost"}]
      /\ \A u \in Side : u # s => mutex[u]' = mutex[u]
      /\ mutex[s]' = IF d THEN "free" ELSE mutex[s]
  BY <1>3 DEF Domains
<1>5. /\ rpc' \in [Side -> {"none", "poll", "lock", "reading", "process", "posting", "ended"}]
      /\ \A u \in Side : u # s => rpc[u]' = rpc[u]
      /\ rpc[s]' = IF o THEN IF d THEN "process" ELSE rpc[s] ELSE "ended"
  BY <1>3 DEF Domains
<1>6. /\ pipe' \in [Side -> Seq(Packets)]
      /\ \A u \in Side : pipe[u]' = pipe[u] \/ (pipe[u] # <<>> /\ pipe[u]' = Tail(pipe[u]))
  <2>1. /\ pipe' = [pipe EXCEPT ![Other(s)] = Tail(pipe[Other(s)])]
        /\ pipe[Other(s)] # <<>>
    BY DEF ReceiverReads
  <2>2. Other(s) \in Side /\ pipe \in [Side -> Seq(Packets)]
    BY DEF Domains, Other, Side
  <2> QED
    BY <2>1, <2>2
<1> QED
  BY <1>1, <1>2, <1>3, <1>4, <1>5, <1>6

\* The receiver thread.
LEMMA ReceiverControl ==
  ASSUME NEW s \in Side, Domains, Positions, Owners, Sending,
         ReceiverStops(s) \/ ReceiverSees(s) \/ ReceiverLocks(s) \/ ReceiverReads(s) \/
         ReceiverFails(s) \/ ReceiverProcesses(s) \/ ReceiverGoesOn(s) \/ ReceiverLockTimesOut(s)
  PROVE  Domains' /\ Positions' /\ Owners'
<1> USE DEF Domains, Positions, Owners, Gone, Side, Thread, PostPcs,
    manager, pipes, sender, receiver, posts, bounds, history
<1>1. CASE ReceiverStops(s)
  BY <1>1 DEF ReceiverStops
<1>2. CASE ReceiverSees(s)
  BY <1>2 DEF ReceiverSees
<1>3. CASE ReceiverLocks(s)
  BY <1>3 DEF ReceiverLocks
<1>4. CASE ReceiverReads(s)
  <2> HIDE DEF Domains, Positions, Owners
  <2>1. /\ UNCHANGED <<mpc, quitting, sem, queue, post, raced, spc, nFragSeqNum, nSeqNum, timeouts>>
        /\ pipe' \in [Side -> Seq(Packets)]
        /\ mutex' \in [Side -> {"free", "sender", "receiver", "lost"}]
        /\ rpc' \in [Side -> {"none", "poll", "lock", "reading", "process", "posting", "ended"}]
        /\ rpc[s] = "reading" /\ rpc[s]' \in {"reading", "process", "ended"}
        /\ rpc[s]' = "reading" => mutex[s]' = mutex[s]
        /\ \A u \in Side : u # s => rpc[u]' = rpc[u] /\ mutex[u]' = mutex[u]
        /\ spc[s] # "writing"
    BY <1>4, ReadsFacts
  <2>2. Domains'
    BY <2>1 DEF Domains
  <2>3. Positions'
    BY <2>1 DEF Positions
  <2>4. Owners'
    BY <2>1 DEF Owners
  <2> QED
    BY <2>2, <2>3, <2>4
<1>5. CASE ReceiverFails(s)
  BY <1>5 DEF ReceiverFails, ReceiverEnds, SetState
<1>6. CASE ReceiverProcesses(s)
  <2>1. CASE UNCHANGED post
    BY <1>6, <2>1 DEF ReceiverProcesses
  <2>2. ASSUME NEW m \in Retrieve(Handled(s)[1]), StartPost(s, "receiver", m)
        PROVE  Domains' /\ Positions' /\ Owners'
    <3>1. m \in Messages
      BY <2>2, AnswersPosted
    <3>2. "receiver" \in Thread
      OBVIOUS
    <3> HIDE DEF Domains, PostPcs
    <3>3. /\ post' \in [Side -> [Thread -> [pc : PostPcs, msg : Messages \cup {NULL}]]]
          /\ \A u \in Side : u # s => post[u]' = post[u]
          /\ \A v \in Thread : v # "receiver" => post[s][v]' = post[s][v]
          /\ post[s]["receiver"].pc' \in {"idle", "push"}
          /\ post[s]["receiver"].pc' = "push" => post[s]["receiver"].msg' = m
      BY <2>2, <3>1, <3>2, StartPostFacts
    <3> USE DEF Domains, PostPcs
    <3> QED
      BY <1>6, <3>1, <3>3 DEF ReceiverProcesses
  <2> QED
    BY <1>6, <2>1, <2>2 DEF ReceiverProcesses, Recv_Request
<1>7. CASE ReceiverGoesOn(s)
  BY <1>7 DEF ReceiverGoesOn, NoPost
<1>8. CASE ReceiverLockTimesOut(s)
  BY <1>8 DEF ReceiverLockTimesOut, TimesOut, ReceiverEnds, SetState
<1> QED
  BY <1>1, <1>2, <1>3, <1>4, <1>5, <1>6, <1>7, <1>8

\* Posting.
LEMMA PostControl ==
  ASSUME NEW s \in Side, NEW t \in Thread, Domains, Positions, Owners, Sending,
         AppPosts(s) \/ Push(s, t) \/ Release(s, t)
  PROVE  Domains' /\ Positions' /\ Owners'
<1> USE DEF Domains, Positions, Owners, Gone, Side, Thread, PostPcs,
    manager, pipes, sender, receiver, posts, bounds, history
<1>1. CASE AppPosts(s)
  <2>1. PICK m \in Postings[s] : StartPost(s, "app", m)
    BY <1>1 DEF AppPosts
  <2>2. m \in Messages /\ "app" \in Thread
    BY DEF Messages
  <2> HIDE DEF Domains, PostPcs
  <2>3. /\ post' \in [Side -> [Thread -> [pc : PostPcs, msg : Messages \cup {NULL}]]]
        /\ \A u \in Side : u # s => post[u]' = post[u]
        /\ \A v \in Thread : v # "app" => post[s][v]' = post[s][v]
        /\ post[s]["app"].pc' \in {"idle", "push"}
        /\ post[s]["app"].pc' = "push" => post[s]["app"].msg' = m
    BY <2>1, <2>2, StartPostFacts
  <2> USE DEF Domains, PostPcs
  <2> QED
    BY <1>1, <2>2, <2>3 DEF AppPosts
<1>2. CASE Push(s, t)
  <2>1. post[s][t].msg \in Messages /\ queue[s] \in Seq(Messages)
    BY <1>2 DEF Push
  <2>2. queue' \in [Side -> Seq(Messages)]
    <3>1. queue' = queue \/ queue' = [queue EXCEPT ![s] = Append(queue[s], post[s][t].msg)]
      BY <1>2 DEF Push
    <3>2. Append(queue[s], post[s][t].msg) \in Seq(Messages)
      BY <2>1
    <3>3. queue \in [Side -> Seq(Messages)] /\ s \in Side
      OBVIOUS
    <3> HIDE DEF Domains, Side
    <3> QED
      BY <3>1, <3>2, <3>3
  <2>3. /\ post' \in [Side -> [Thread -> [pc : PostPcs, msg : Messages \cup {NULL}]]]
        /\ post[s][t].pc' = "release"
        /\ \A u \in Side : u # s => post[u]' = post[u]
        /\ \A v \in Thread : v # t => post[s][v]' = post[s][v]
    BY <1>2, PushPosts
  <2>4. raced' \in [Side -> BOOLEAN]
    <3>1. raced' = raced \/ raced' = [raced EXCEPT ![s] = TRUE]
      BY <1>2 DEF Push
    <3>2. raced \in [Side -> BOOLEAN] /\ s \in Side
      OBVIOUS
    <3> HIDE DEF Domains, Side
    <3> QED
      BY <3>1, <3>2
  <2> QED
    BY <1>2, <2>2, <2>3, <2>4, SMTT(30) DEF Push
<1>3. CASE Release(s, t)
  BY <1>3 DEF Release, NoPost
<1> QED
  BY <1>1, <1>2, <1>3

LEMMA KilledControl == ASSUME Domains, Positions, Owners, Killed PROVE Domains' /\ Positions' /\ Owners'
BY DEF Killed, ProcessEnds, CloseEnd, Goto, SetState, Other, NoPost, Domains, Positions,
   Owners, Gone, Side, Thread, PostPcs, manager, pipes, sender, receiver, posts, bounds, history

----------------------------------------------------------------------------
(* What the senders write.                                                 *)

Shrinks(s) ==
  \/ pipe[s]' = pipe[s]
  \/ pipe[s]' = <<>>
  \/ pipe[s] # <<>> /\ pipe[s]' = Tail(pipe[s])

\* A step that adds nothing to what a sender has to write or has written.
Calm(s) ==
  /\ Holds(s)' => queue[s]' # <<>>
  /\ Passed(s)' => Passed(s) /\ At(s)' = At(s) /\ Head(queue[s])' = Head(queue[s])
  /\ Shrinks(s)

LEMMA PipeFacts ==
  ASSUME Domains, NEW s \in Side
  PROVE  /\ pipe[s] \in Seq(Packets) /\ CellsOf(pipe[s]) \in Nat /\ CellsOf(<<>>) = 0
         /\ pipe[s] # <<>> => CellsOf(Tail(pipe[s])) <= CellsOf(pipe[s])
         /\ \A p \in Packets : CellsOf(Append(pipe[s], p)) = CellsOf(pipe[s]) + Len(p.data) + 1
<1>1. pipe[s] \in Seq(Packets)
  BY DEF Domains
<1>2. \A p \in Packets : Len(p.data) \in Nat
  BY DEF Packets
<1> QED
  BY <1>1, <1>2, CellsOfFacts, CellsOfTail, CellsOfAppend

LEMMA RemainingFacts ==
  ASSUME NEW n \in Nat, NEW f \in Nat
  PROVE  Remaining(n, f) \in Int /\ Remaining(n, f) <= Remaining(n, 0)
<1> DEFINE q == Fragments(n)
<1>1. PacketMax \in Nat /\ q \in Nat
  BY SizesAssumption, FragmentsFacts
<1>2. f * PacketMax \in Nat /\ 0 * PacketMax = 0
  BY <1>1
<1>3. Remaining(n, f) = n - f * PacketMax + q - f /\ Remaining(n, 0) = n - 0 * PacketMax + q - 0
  BY DEF Remaining
<1> HIDE DEF q
<1> QED
  BY <1>1, <1>2, <1>3

\* A sender in lock or writing: what is left of its message.
LEMMA PassedFacts ==
  ASSUME Domains, Sending, NEW s \in Side, Passed(s)
  PROVE  /\ HeadLen(s) \in Nat /\ At(s) \in Nat /\ At(s) * PacketMax < HeadLen(s)
         /\ Remaining(HeadLen(s), At(s)) \in Int
         /\ Remaining(HeadLen(s), At(s)) <= PipeSize
<1>1. Holds(s)
  BY DEF Holds, Passed
<1>2. Head(queue[s]) \in Messages /\ HeadLen(s) \in Nat /\ HeadLen(s) >= 2
  BY <1>1, HeadFacts
<1>3. At(s) \in Nat /\ At(s) * PacketMax < HeadLen(s)
  <2>1. CASE spc[s] = "writing"
    BY <2>1 DEF At, Sending, Domains
  <2>2. CASE spc[s] # "writing"
    <3>1. At(s) = 0 /\ PacketMax \in Nat
      BY <2>2, SizesAssumption DEF At
    <3> QED
      BY <1>2, <3>1
  <2> QED
    BY <2>1, <2>2
<1>4. Remaining(HeadLen(s), 0) \in Nat /\ Remaining(HeadLen(s), 0) <= PipeSize
  BY <1>2, MessageFacts DEF HeadLen
<1>5. /\ Remaining(HeadLen(s), At(s)) \in Int
      /\ Remaining(HeadLen(s), At(s)) <= Remaining(HeadLen(s), 0)
  BY <1>2, <1>3, RemainingFacts
<1>6. PipeSize \in Nat
  BY SizesAssumption
<1> DEFINE x == Remaining(HeadLen(s), At(s))
           y == Remaining(HeadLen(s), 0)
<1> HIDE DEF x, y
<1>7. x <= PipeSize
  BY <1>4, <1>5, <1>6 DEF x, y
<1> QED
  BY <1>2, <1>3, <1>5, <1>7 DEF x

LEMMA CalmFit ==
  ASSUME Domains, Sending, NEW s \in Side, Calm(s), Passed(s)', Fits(s)
  PROVE  Fits(s)'
<1>1. Passed(s) /\ At(s)' = At(s) /\ HeadLen(s)' = HeadLen(s)
  BY DEF Calm, HeadLen
<1> DEFINE r == Remaining(HeadLen(s), At(s))
<1>2. r \in Int /\ r' = r /\ PipeSize \in Nat
  BY <1>1, PassedFacts, SizesAssumption DEF Remaining
<1>3. CellsOf(pipe[s]) + r <= PipeSize
  BY DEF Fits
<1>4. CellsOf(pipe[s]') \in Nat /\ CellsOf(pipe[s]') <= CellsOf(pipe[s]) /\ CellsOf(pipe[s]) \in Nat
  <2>1. CASE pipe[s]' = pipe[s]
    BY <2>1, PipeFacts
  <2>2. CASE pipe[s]' = <<>>
    BY <2>2, PipeFacts
  <2>3. CASE pipe[s] # <<>> /\ pipe[s]' = Tail(pipe[s])
    <3>1. Tail(pipe[s]) \in Seq(Packets)
      BY <2>3, PipeFacts
    <3>2. \A p \in Packets : Len(p.data) \in Nat
      BY DEF Packets
    <3>3. CellsOf(Tail(pipe[s])) \in Nat
      BY <3>1, <3>2, CellsOfFacts
    <3> QED
      BY <2>3, <3>3, PipeFacts
  <2> QED
    BY <2>1, <2>2, <2>3 DEF Calm, Shrinks
<1>5. Fits(s)' <=> CellsOf(pipe[s]') + r' <= PipeSize
  BY DEF Fits
<1> HIDE DEF r
<1> QED
  BY <1>2, <1>3, <1>4, <1>5

LEMMA CalmSending ==
  ASSUME Domains, Sending, \A s \in Side : Calm(s)
  PROVE  Sending'
<1>1. Loaded'
  BY DEF Loaded, Calm
<1>2. ASSUME NEW s \in Side, spc[s]' = "writing"
      PROVE  nFragSeqNum[s]' * PacketMax < HeadLen(s)'
  <2>1. Passed(s)' /\ At(s)' = nFragSeqNum[s]'
    BY <1>2 DEF Passed, At
  <2>2. Passed(s) /\ At(s)' = At(s) /\ HeadLen(s)' = HeadLen(s)
    BY <2>1 DEF Calm, HeadLen
  <2>3. At(s) * PacketMax < HeadLen(s)
    BY <2>2, PassedFacts
  <2> QED
    BY <2>1, <2>2, <2>3
<1> QED
  BY <1>1, <1>2 DEF Sending

LEMMA CalmKeeps ==
  ASSUME Domains, Sending, OneFits, \A s \in Side : Calm(s), timeouts' = 0 => timeouts = 0
  PROVE  Sending' /\ OneFits'
<1>1. Sending'
  BY CalmSending
<1>2. ASSUME timeouts' = 0, \A s \in Side : Passed(s)' PROVE \E s \in Side : Fits(s)'
  <2>1. \A s \in Side : Passed(s)
    BY <1>2 DEF Calm
  <2>2. PICK s \in Side : Fits(s)
    BY <1>2, <2>1 DEF OneFits
  <2>3. Fits(s)'
    BY <1>2, <2>2, CalmFit
  <2> QED
    BY <2>3
<1>3. OneFits'
  BY <1>2 DEF OneFits
<1> QED
  BY <1>1, <1>3

----------------------------------------------------------------------------
(* The steps after which nothing more is promised or to be written.        *)

\* The manager thread, but for the two steps that empty the queue.
LEMMA ManagerQuiet ==
  ASSUME NEW s \in Side, Domains, Domains', Positions, Owners, Counted, Sending, OneFits,
         Destroy(s) \/ InitializeFails(s) \/ StartCleanup(s) \/ GiveUp(s) \/ StopSender(s) \/
         TerminateSender(s) \/ StopReceiver(s) \/ TerminateReceiver(s) \/
         CreateConnectionPoint \/ Connect \/ AcceptConnection \/ StartThreads(s) \/ SetConnected(s)
  PROVE  Counted' /\ Sending' /\ OneFits'
<1> SUFFICES (\A u \in Side : Steady(u) /\ Calm(u)) /\ (timeouts' = 0 => timeouts = 0)
  BY CountStays, CalmKeeps DEF Counted
<1> USE DEF Steady, Calm, Passed, At, Shrinks, Holds, Gone, Domains, Positions, Owners, Sending,
    Loaded, Side, manager, pipes, sender, receiver, posts, bounds, history
<1>1. CASE Destroy(s)
  BY <1>1 DEF Destroy, Goto, NoPost
<1>2. CASE InitializeFails(s)
  BY <1>2 DEF InitializeFails, Goto, SetState
<1>3. CASE StartCleanup(s)
  BY <1>3 DEF StartCleanup, Goto
<1>4. CASE GiveUp(s)
  BY <1>4 DEF GiveUp, Goto
<1>5. CASE StopSender(s)
  BY <1>5 DEF StopSender, Goto
<1>6. CASE TerminateSender(s)
  BY <1>6 DEF TerminateSender, Goto, SenderBlocked
<1>7. CASE StopReceiver(s)
  BY <1>7 DEF StopReceiver, Goto
<1>8. CASE TerminateReceiver(s)
  BY <1>8 DEF TerminateReceiver, Goto, ReceiverBlocked
<1>9. CASE CreateConnectionPoint
  BY <1>9 DEF CreateConnectionPoint, Goto
<1>10. CASE Connect
  BY <1>10 DEF Connect, Goto
<1>11. CASE AcceptConnection
  BY <1>11 DEF AcceptConnection, Goto
<1>12. CASE StartThreads(s)
  BY <1>12 DEF StartThreads, Goto
<1>13. CASE SetConnected(s)
  BY <1>13 DEF SetConnected, Goto, SetState
<1> QED
  BY <1>1, <1>2, <1>3, <1>4, <1>5, <1>6, <1>7, <1>8, <1>9, <1>10, <1>11, <1>12, <1>13

\* The sender thread, where it neither takes a message nor writes.
LEMMA SenderQuiet ==
  ASSUME NEW s \in Side, Domains, Domains', Positions, Owners, Counted, Sending, OneFits,
         SenderStops(s) \/ SenderLocks(s) \/ SenderFails(s) \/ SenderLockTimesOut(s)
  PROVE  Counted' /\ Sending' /\ OneFits'
<1> SUFFICES (\A u \in Side : Steady(u) /\ Calm(u)) /\ (timeouts' = 0 => timeouts = 0)
  BY CountStays, CalmKeeps DEF Counted
<1> USE DEF Steady, Calm, Passed, At, Shrinks, Holds, Gone, Domains, Positions, Owners, Sending,
    Loaded, Side, manager, pipes, sender, receiver, posts, bounds, history
<1>1. CASE SenderStops(s)
  BY <1>1 DEF SenderStops
<1>2. CASE SenderLocks(s)
  BY <1>2 DEF SenderLocks
<1>3. CASE SenderFails(s)
  BY <1>3 DEF SenderFails, SenderEnds, SetState
<1>4. CASE SenderLockTimesOut(s)
  BY <1>4 DEF SenderLockTimesOut, TimesOut, SenderEnds, SetState
<1> QED
  BY <1>1, <1>2, <1>3, <1>4

\* The receiver thread: it only starts posts.
LEMMA ReceiverQuiet ==
  ASSUME NEW s \in Side, Domains, Domains', Positions, Owners, Counted, Sending, OneFits,
         ReceiverStops(s) \/ ReceiverSees(s) \/ ReceiverLocks(s) \/ ReceiverReads(s) \/
         ReceiverFails(s) \/ ReceiverProcesses(s) \/ ReceiverGoesOn(s) \/ ReceiverLockTimesOut(s)
  PROVE  Counted' /\ Sending' /\ OneFits'
<1> SUFFICES (\A u \in Side : Steady(u) /\ Calm(u)) /\ (timeouts' = 0 => timeouts = 0)
  BY CountStays, CalmKeeps DEF Counted
<1> USE DEF Steady, Calm, Passed, At, Shrinks, Holds, Gone, Domains, Positions, Owners, Sending,
    Loaded, Side, manager, pipes, sender, receiver, posts, bounds, history
<1>1. CASE ReceiverStops(s)
  BY <1>1 DEF ReceiverStops
<1>2. CASE ReceiverSees(s)
  BY <1>2 DEF ReceiverSees
<1>3. CASE ReceiverLocks(s)
  BY <1>3 DEF ReceiverLocks
<1>4. CASE ReceiverReads(s)
  <2> HIDE DEF Domains, Steady, Calm, Positions, Sending, Owners
  <2>1. /\ UNCHANGED <<mpc, sem, queue, post, raced, spc, nFragSeqNum, timeouts>>
        /\ \A u \in Side : mutex[u]' = mutex[u] \/ (mutex[u] # "lost" /\ mutex[u]' = "free")
        /\ \A u \in Side : pipe[u]' = pipe[u] \/ (pipe[u] # <<>> /\ pipe[u]' = Tail(pipe[u]))
    BY <1>4, ReadsFacts
  <2>2. \A u \in Side : Steady(u)
    BY <2>1 DEF Steady
  <2>3. \A u \in Side : Holds(u)' => queue[u]' # <<>>
    BY <2>1 DEF Sending
  <2>4. \A u \in Side : Passed(u)' => Passed(u) /\ At(u)' = At(u) /\ Head(queue[u])' = Head(queue[u])
    BY <2>1
  <2> QED
    BY <2>1, <2>2, <2>3, <2>4 DEF Calm
<1>5. CASE ReceiverFails(s)
  BY <1>5 DEF ReceiverFails, ReceiverEnds, SetState
<1>6. CASE ReceiverProcesses(s)
  <2> HIDE DEF Domains, Steady
  <2>1. \A u \in Side, v \in Thread : post[u][v].pc' = "release" => post[u][v].pc = "release"
    <3>1. CASE UNCHANGED post
      BY <3>1
    <3>2. ASSUME NEW m \in Retrieve(Handled(s)[1]), StartPost(s, "receiver", m)
          PROVE  \A u \in Side, v \in Thread : post[u][v].pc' = "release" => post[u][v].pc = "release"
      <4>1. m \in Messages /\ "receiver" \in Thread
        BY <3>2, AnswersPosted DEF Thread
      <4> QED
        BY <3>2, <4>1, StartPostFacts
    <3> QED
      BY <1>6, <3>1, <3>2 DEF ReceiverProcesses, Recv_Request
  <2> QED
    BY <1>6, <2>1 DEF ReceiverProcesses, Steady
<1>7. CASE ReceiverGoesOn(s)
  BY <1>7 DEF ReceiverGoesOn, NoPost
<1>8. CASE ReceiverLockTimesOut(s)
  BY <1>8 DEF ReceiverLockTimesOut, TimesOut, ReceiverEnds, SetState
<1> QED
  BY <1>1, <1>2, <1>3, <1>4, <1>5, <1>6, <1>7, <1>8

\* The program starts a post.
LEMMA AppPostsQuiet ==
  ASSUME NEW s \in Side, Domains, Domains', Positions, Owners, Counted, Sending, OneFits,
         AppPosts(s)
  PROVE  Counted' /\ Sending' /\ OneFits'
<1> SUFFICES (\A u \in Side : Steady(u) /\ Calm(u)) /\ (timeouts' = 0 => timeouts = 0)
  BY CountStays, CalmKeeps DEF Counted
<1> USE DEF Steady, Calm, Passed, At, Shrinks, Holds, Gone, Domains, Positions, Owners, Sending,
    Loaded, Side, manager, pipes, sender, receiver, posts, bounds, history
<1>1. CASE AppPosts(s)
  <2> HIDE DEF Domains, Steady
  <2>1. \A u \in Side, v \in Thread : post[u][v].pc' = "release" => post[u][v].pc = "release"
    <3>1. PICK m \in Postings[s] : StartPost(s, "app", m)
      BY <1>1 DEF AppPosts
    <3>2. m \in Messages /\ "app" \in Thread
      BY DEF Messages, Thread
    <3> QED
      BY <3>1, <3>2, StartPostFacts
  <2> QED
    BY <1>1, <2>1 DEF AppPosts, Steady
<1> QED
  BY <1>1

----------------------------------------------------------------------------
(* The steps that change what is promised.                                 *)

\* A new manager starts with nothing.
LEMMA ConstructKeeps ==
  ASSUME NEW s \in Side, Domains, Domains', Positions, Owners, Counted, Sending, OneFits,
         Construct(s)
  PROVE  Counted' /\ Sending' /\ OneFits'
<1>1. (\A u \in Side : Calm(u) /\ (u # s => Steady(u))) /\ timeouts' = timeouts
  BY DEF Construct, Goto, SetState, Steady, Calm, Passed, At, Shrinks, Holds, Gone, Domains,
     Positions, Owners, Sending, Loaded, Side,
     manager, pipes, sender, receiver, posts, bounds, history
<1>2. CountedAt(s)'
  <2>1. sem[s]' = 0 /\ queue[s]' = <<>> /\ mpc[s]' = "loop"
    BY DEF Construct, Goto, Domains
  <2>2. Released(s)' = 0 /\ Held(s)' = 0
    BY DEF Construct, Goto, Gone, Released, Held, Holds, Domains, Positions, Thread, sender
  <2> QED
    BY <2>1, <2>2 DEF CountedAt
<1> QED
  BY <1>1, <1>2, CountStays, CalmKeeps DEF Counted

\* The queue is emptied with its semaphore: a post that is halfway is noted.
LEMMA CleanupKeeps ==
  ASSUME NEW s \in Side, Domains, Domains', Positions, Owners, Counted, Sending, OneFits,
         Cleanup(s)
  PROVE  Counted' /\ Sending' /\ OneFits'
<1>1. (\A u \in Side : Calm(u) /\ (u # s => Steady(u))) /\ timeouts' = timeouts
  BY DEF Cleanup, CloseEnd, Other, Goto, SetState, Steady, Calm, Passed, At, Shrinks, Holds,
     Gone, Domains, Positions, Owners, Sending, Loaded, Side,
     manager, pipes, sender, receiver, posts, bounds, history
<1>2. CountedAt(s)'
  <2>1. sem[s]' = 0 /\ queue[s]' = <<>> /\ mpc[s]' # "aborted"
    BY DEF Cleanup, Goto, Domains
  <2>2. Held(s)' = 0
    BY DEF Cleanup, Held, Holds, Domains, Positions, sender
  <2>3. CASE \E t \in Thread : post[s][t].pc = "release"
    <3> DEFINE b == raced[s] \/ \E t \in Thread : post[s][t].pc = "release"
    <3>1. raced' = [raced EXCEPT ![s] = b]
      BY Zenon DEF Cleanup
    <3>2. b
      BY <2>3
    <3> HIDE DEF b
    <3> QED
      BY <2>1, <3>1, <3>2 DEF CountedAt, Domains
  <2>4. CASE \A t \in Thread : post[s][t].pc # "release"
    <3>1. Released(s)' = 0
      BY <2>4 DEF Cleanup, Released, Thread
    <3> QED
      BY <2>1, <2>2, <3>1 DEF CountedAt
  <2> QED
    BY <2>3, <2>4
<1> QED
  BY <1>1, <1>2, CountStays, CalmKeeps DEF Counted

\* A message is taken from the semaphore, or given back to it.
LEMMA TurnKeeps ==
  ASSUME NEW s \in Side, Domains, Domains', Positions, Owners, Counted, Sending, OneFits,
         SenderTakes(s) \/ SenderWaitsForReceiver(s)
  PROVE  Counted' /\ Sending' /\ OneFits'
<1>1. CASE SenderTakes(s)
  <2>1. UNCHANGED <<mpc, raced, queue, post, pipe, mutex, nFragSeqNum, timeouts>>
        /\ sem' = [sem EXCEPT ![s] = @ - 1] /\ spc' = [spc EXCEPT ![s] = "check"]
        /\ queue[s] # <<>> /\ spc[s] = "wait"
    BY <1>1 DEF SenderTakes, manager, pipes, bounds, history
  <2>2. /\ sem[s]' = sem[s] - 1 /\ Held(s)' = Held(s) + 1 /\ Released(s)' = Released(s)
        /\ \A u \in Side : Calm(u) /\ (u # s => Steady(u))
    BY <2>1 DEF Steady, Calm, Passed, At, Shrinks, Held, Holds, Gone, Released, Domains, Sending,
       Loaded
  <2>3. CountedAt(s)'
    BY <2>1, <2>2, CountFacts DEF Counted, CountedAt, Gone
  <2> QED
    BY <2>1, <2>2, <2>3, CountStays, CalmKeeps DEF Counted
<1>2. CASE SenderWaitsForReceiver(s)
  <2>1. UNCHANGED <<mpc, raced, queue, post, pipe, mutex, nFragSeqNum, timeouts>>
        /\ sem' = [sem EXCEPT ![s] = @ + 1] /\ spc' = [spc EXCEPT ![s] = "wait"]
        /\ spc[s] = "check"
    BY <1>2 DEF SenderWaitsForReceiver, manager, pipes, bounds, history
  <2>2. /\ sem[s]' = sem[s] + 1 /\ Held(s)' = Held(s) - 1 /\ Released(s)' = Released(s)
        /\ \A u \in Side : Calm(u) /\ (u # s => Steady(u))
    BY <2>1 DEF Steady, Calm, Passed, At, Shrinks, Held, Holds, Gone, Released, Domains, Sending,
       Loaded
  <2>3. CountedAt(s)'
    BY <2>1, <2>2, CountFacts DEF Counted, CountedAt, Gone
  <2> QED
    BY <2>1, <2>2, <2>3, CountStays, CalmKeeps DEF Counted
<1> QED
  BY <1>1, <1>2

\* The assertion fails only where the promise was broken.
LEMMA AssertionKeeps ==
  ASSUME NEW s \in Side, Domains, Domains', Positions, Owners, Counted, Sending, OneFits,
         AssertionFails(s)
  PROVE  Counted' /\ Sending' /\ OneFits'
<1>1. (\A u \in Side : Calm(u) /\ (u # s => Steady(u))) /\ timeouts' = timeouts
  BY SMTT(30) DEF AssertionFails, ProcessEnds, CloseEnd, Other, Goto, SetState, Steady, Calm, Passed, At,
     Shrinks, Holds, Gone, Domains, Positions, Owners, Sending, Loaded, Side,
     manager, pipes, sender, receiver, posts, bounds, history
<1>2. sem[s] > 0 /\ Len(queue[s]) = 0 /\ ~Gone(s) /\ raced[s]' = raced[s] /\ Gone(s)'
  BY DEF AssertionFails, ProcessEnds, Goto, Gone, Domains, Positions, history
<1>3. Released(s) \in Nat /\ Held(s) \in Nat /\ sem[s] \in Nat
  BY CountFacts
<1>4. raced[s] \/ sem[s] + Released(s) + Held(s) <= Len(queue[s])
  BY <1>2 DEF Counted, CountedAt
<1>5. CountedAt(s)'
  BY <1>2, <1>3, <1>4 DEF CountedAt
<1> QED
  BY <1>1, <1>5, CountStays, CalmKeeps DEF Counted

\* A post moves its promise to the semaphore.
LEMMA ReleaseKeeps ==
  ASSUME NEW s \in Side, NEW t \in Thread, Domains, Domains', Positions, Owners, Counted, Sending, OneFits,
         Release(s, t)
  PROVE  Counted' /\ Sending' /\ OneFits'
<1>1. (\A u \in Side : Calm(u) /\ (u # s => Steady(u))) /\ timeouts' = timeouts
  BY DEF Release, Steady, Calm, Passed, At, Shrinks, Holds, Gone, Domains, Positions, Owners,
     Sending, Loaded, Side,
     manager, pipes, sender, receiver, posts, bounds, history
<1>2. UNCHANGED <<mpc, raced, queue>>
  BY DEF Release, manager, history
<1>3. sem[s]' + Released(s)' + Held(s)' = sem[s] + Released(s) + Held(s)
  BY DEF Release, NoPost, Released, Held, Holds, sender, Domains, Thread
<1>4. CountedAt(s)'
  BY <1>2, <1>3, CountFacts DEF Counted, CountedAt, Gone
<1> QED
  BY <1>1, <1>4, CountStays, CalmKeeps DEF Counted

\* A post adds to the queue first.
LEMMA PushKeeps ==
  ASSUME NEW s \in Side, NEW t \in Thread, Domains, Domains', Positions, Owners, Counted, Sending, OneFits,
         Push(s, t)
  PROVE  Counted' /\ Sending' /\ OneFits'
<1>1. UNCHANGED <<mpc, sem, pipe, spc, nFragSeqNum, mutex, timeouts>>
  BY DEF Push, manager, pipes, sender, bounds
<1>2. \A u \in Side : u # s => Steady(u)
  <2> SUFFICES ASSUME NEW u \in Side, u # s PROVE Steady(u)
    OBVIOUS
  <2>1. post[u]' = post[u] /\ queue[u]' = queue[u] /\ raced[u]' = raced[u]
    <3> DEFINE f == [post[s] EXCEPT ![t] = [post[s][t] EXCEPT !.pc = "release"]]
               q == Append(queue[s], post[s][t].msg)
    <3>1. /\ post' = [post EXCEPT ![s] = f]
          /\ queue' = queue \/ queue' = [queue EXCEPT ![s] = q]
          /\ raced' = raced \/ raced' = [raced EXCEPT ![s] = TRUE]
      BY DEF Push
    <3>2. DOMAIN post = Side /\ DOMAIN queue = Side /\ DOMAIN raced = Side
      BY DEF Domains
    <3> HIDE DEF f, q
    <3> QED
      BY <3>1, <3>2
  <2> QED
    BY <1>1, <2>1 DEF Steady, Holds, Gone
<1>3. post[s][t].msg \in Messages
  BY DEF Push, Domains
<1>4. CASE queue' = queue /\ raced' = [raced EXCEPT ![s] = TRUE]
  <2>1. CountedAt(s)'
    BY <1>4 DEF CountedAt, Domains
  <2>2. \A u \in Side : Calm(u)
    BY <1>1, <1>4 DEF Calm, Passed, At, Shrinks, Holds, Sending, Loaded
  <2> QED
    BY <1>1, <1>2, <2>1, <2>2, CountStays, CalmKeeps DEF Counted
<1>5. CASE queue' = [queue EXCEPT ![s] = Append(queue[s], post[s][t].msg)] /\ raced' = raced
  <2>1. queue[s] \in Seq(Messages) /\ queue[s]' = Append(queue[s], post[s][t].msg)
        /\ \A u \in Side : u # s => queue[u]' = queue[u]
    BY <1>5 DEF Domains
  <2>2. /\ Len(queue[s]') = Len(queue[s]) + 1 /\ queue[s]' # <<>>
        /\ queue[s] # <<>> => Head(queue[s]') = Head(queue[s])
    <3> DEFINE q == queue[s]
               m == post[s][t].msg
    <3>1. q \in Seq(Messages) /\ m \in Messages
      BY <1>3, <2>1
    <3> HIDE DEF q, m
    <3>2. /\ Len(Append(q, m)) = Len(q) + 1 /\ Append(q, m) # <<>>
          /\ q # <<>> => Head(Append(q, m)) = Head(q)
      <4> DEFINE a == Append(q, m)
      <4>1. /\ a \in Seq(Messages) /\ Len(a) = Len(q) + 1 /\ Len(q) \in Nat
            /\ \A k \in 1..Len(q) : a[k] = q[k]
        BY <3>1
      <4>2. q # <<>> => Head(q) = q[1] /\ 1 \in 1..Len(q)
        BY <3>1
      <4> HIDE DEF a
      <4>3. a # <<>> /\ Head(a) = a[1]
        BY <4>1
      <4> QED
        BY <4>1, <4>2, <4>3 DEF a
    <3> QED
      BY <2>1, <3>2 DEF q, m
  <2>3. \A u \in Side : Calm(u)
    <3>1. \A u \in Side : Passed(u) \/ Holds(u) => queue[u] # <<>>
      BY DEF Sending, Loaded, Passed, Holds
    <3> QED
      BY <1>1, <2>1, <2>2, <3>1 DEF Calm, Passed, At, Shrinks, Holds
  <2>4. Released(s)' = Released(s) + 1
    BY DEF Push, Released, Domains, Thread
  <2>5. Held(s)' = Held(s)
    BY <1>1 DEF Held, Holds
  <2>6. CountedAt(s)'
    BY <1>1, <1>5, <2>2, <2>4, <2>5, CountFacts, SMTT(30) DEF Counted, CountedAt, Gone
  <2> QED
    BY <1>1, <1>2, <2>3, <2>6, CountStays, CalmKeeps DEF Counted
<1> QED
  BY <1>4, <1>5 DEF Push

\* A process that is killed owes nothing.
LEMMA KilledKeeps ==
  ASSUME Domains, Domains', Positions, Owners, Counted, Sending, OneFits,
         Killed
  PROVE  Counted' /\ Sending' /\ OneFits'
<1>1. \A u \in Side : Calm(u) /\ (u # "gui" => Steady(u))
  BY DEF Killed, ProcessEnds, CloseEnd, Other, Goto, Steady, Calm, Passed, At, Shrinks, Holds, Gone,
     Domains, Sending, Loaded, Side, history
<1>2. Gone("gui")' /\ mpc["gui"]' # "aborted" /\ timeouts' = timeouts
  BY DEF Killed, ProcessEnds, Goto, Gone, Domains, Side
<1>3. CountedAt("gui")'
  BY <1>2 DEF CountedAt
<1> QED
  BY <1>1, <1>2, <1>3, CountStays, CalmKeeps DEF Counted

----------------------------------------------------------------------------
(* The steps that change what is to be written.                            *)

\* Of two senders, the one that passes the test now saw the pipe of the other empty.
LEMMA MayWriteKeeps ==
  ASSUME NEW s \in Side, Domains, Domains', Positions, Owners, Counted, Sending, OneFits,
         SenderMayWrite(s)
  PROVE  Counted' /\ Sending' /\ OneFits'
<1>1. UNCHANGED <<pipe, queue, nFragSeqNum, mutex, timeouts>> /\ spc' = [spc EXCEPT ![s] = "lock"]
      /\ spc[s] = "check" /\ pipe[Other(s)] = <<>>
  BY DEF SenderMayWrite, pipes, posts, bounds
<1>2. Sending'
  <2>1. \A u \in Side : (Holds(u)' => Holds(u)) /\ (spc[u]' = "writing" => spc[u] = "writing")
    BY <1>1 DEF Holds, Domains
  <2> QED
    BY <1>1, <2>1 DEF Sending, Loaded, HeadLen
<1>3. ASSUME \A u \in Side : Passed(u)' PROVE \E u \in Side : Fits(u)'
  <2>1. PICK u \in Side : u = Other(s) /\ u # s
    BY DEF Side, Other
  <2>2. Passed(u) /\ At(u)' = At(u) /\ HeadLen(u)' = HeadLen(u) /\ pipe[u]' = <<>>
    BY <1>1, <1>3, <2>1 DEF Passed, At, HeadLen, Domains
  <2> DEFINE r == Remaining(HeadLen(u), At(u))
  <2>3. r \in Int /\ r <= PipeSize /\ PipeSize \in Nat /\ CellsOf(<<>>) = 0
    BY <2>2, PassedFacts, PipeFacts, SizesAssumption
  <2>4. Fits(u)' <=> CellsOf(<<>>) + r <= PipeSize
    BY <2>2 DEF Fits, Remaining
  <2> HIDE DEF r
  <2>5. Fits(u)'
    BY <2>3, <2>4
  <2> QED
    BY <2>5
<1>4. Counted'
  <2>1. \A u \in Side : Steady(u)
    BY DEF SenderMayWrite, Steady, Holds, Gone, Domains, manager, posts, history
  <2> QED
    BY <2>1, CountStays DEF Counted
<1> QED
  BY <1>4, <1>2, <1>3 DEF OneFits

\* A wait that ends takes time, unless the mutex is lost.
LEMMA CheckTimesOutKeeps ==
  ASSUME NEW s \in Side, Domains, Domains', Positions, Owners, Counted, Sending, OneFits,
         SenderCheckTimesOut(s)
  PROVE  Counted' /\ Sending' /\ OneFits'
<1>1. UNCHANGED <<pipe, queue, nFragSeqNum, mutex>> /\ spc' = [spc EXCEPT ![s] = "lock"]
      /\ spc[s] = "check" /\ TimesOut(s)
  BY DEF SenderCheckTimesOut, pipes, posts
<1>2. Sending'
  <2>1. \A u \in Side : (Holds(u)' => Holds(u)) /\ (spc[u]' = "writing" => spc[u] = "writing")
    BY <1>1 DEF Holds, Domains
  <2> QED
    BY <1>1, <2>1 DEF Sending, Loaded, HeadLen
<1>3. timeouts' # 0 \/ ~Passed(s)'
  BY <1>1 DEF TimesOut, Passed, Domains
<1>4. Counted'
  <2>1. \A u \in Side : Steady(u)
    BY DEF SenderCheckTimesOut, TimesOut, Steady, Holds, Gone, Domains, manager, posts, history
  <2> QED
    BY <2>1, CountStays DEF Counted
<1> QED
  BY <1>4, <1>2, <1>3 DEF OneFits

\* What a packet adds to the pipe the message has no more.
LEMMA WriteSends ==
  ASSUME NEW s \in Side, Domains, Sending, OneFits, SenderWrites(s)
  PROVE  Sending' /\ OneFits'
<1>1. spc[s] = "writing" /\ pipe' = [pipe EXCEPT ![s] = Append(@, Packet(s))] /\ timeouts' = timeouts
  BY DEF SenderWrites, bounds
<1>2. \A u \in Side : u # s => Calm(u)
  <2>1. \A u \in Side : u # s =>
          /\ spc'[u] = spc[u] /\ pipe'[u] = pipe[u] /\ nFragSeqNum'[u] = nFragSeqNum[u]
          /\ mutex'[u] = mutex[u]
    BY DEF SenderWrites, Domains
  <2>2. queue' = queue
    BY DEF SenderWrites, posts
  <2> QED
    BY <2>1, <2>2 DEF Calm, Passed, At, Shrinks, Holds, Sending, Loaded
<1>3. CASE LastPacket(s)
  <2>1. ~Passed(s)' /\ queue' = queue
    BY <1>3 DEF SenderWrites, Passed, Domains, posts
  <2>2. Loaded'
    BY <1>1, <1>2, <2>1 DEF Sending, Loaded, Calm, Holds
  <2>3. \A u \in Side : spc[u]' = "writing" => nFragSeqNum[u]' * PacketMax < HeadLen(u)'
    BY <1>3, <2>1 DEF SenderWrites, Sending, HeadLen, Passed, Domains
  <2> QED
    BY <2>1, <2>2, <2>3 DEF Sending, OneFits
<1>4. CASE ~LastPacket(s)
  <2>1. /\ nFragSeqNum' = [nFragSeqNum EXCEPT ![s] = @ + 1]
        /\ UNCHANGED <<mutex, queue, spc>>
    BY <1>4 DEF SenderWrites, posts
  <2> DEFINE f == nFragSeqNum[s]
             n == HeadLen(s)
             d == PacketMax
  <2>2. /\ f \in Nat /\ nFragSeqNum[s]' = f + 1
        /\ At(s) = f /\ At(s)' = f + 1 /\ HeadLen(s)' = n
    BY <1>1, <2>1 DEF At, HeadLen, Domains
  <2>3. /\ Packet(s) \in Packets /\ Len(Packet(s).data) = d /\ (f + 1) * d < n
        /\ Remaining(n, f) = Remaining(n, f + 1) + d + 1
    BY <1>1, <1>4, PacketFacts
  <2>4. Loaded'
    BY <2>1 DEF Sending, Loaded, Holds
  <2>5. ASSUME NEW u \in Side, spc[u]' = "writing" PROVE nFragSeqNum[u]' * PacketMax < HeadLen(u)'
    <3>1. CASE u = s
      BY <2>2, <2>3, <3>1
    <3>2. CASE u # s
      BY <2>1, <2>5, <3>2 DEF Sending, HeadLen, Domains
    <3> QED
      BY <3>1, <3>2
  <2>6. Sending'
    BY <2>4, <2>5 DEF Sending
  <2>7. ASSUME timeouts' = 0, \A u \in Side : Passed(u)' PROVE \E u \in Side : Fits(u)'
    <3>1. \A u \in Side : Passed(u)
      BY <1>1, <1>2, <2>7 DEF Calm, Passed
    <3>2. PICK u \in Side : Fits(u)
      BY <1>1, <2>7, <3>1 DEF OneFits
    <3>3. CASE u = s
      <4> DEFINE c == CellsOf(pipe[s])
                 l == Remaining(n, f + 1)
      <4>1. c \in Nat /\ CellsOf(pipe[s]') = c + d + 1
        <5>1. pipe[s]' = Append(pipe[s], Packet(s))
          BY <1>1 DEF Domains
        <5> QED
          BY <2>3, <5>1, PipeFacts
      <4>2. c + Remaining(n, f) <= PipeSize
        BY <2>2, <3>2, <3>3 DEF Fits
      <4>3. n \in Nat /\ l \in Int /\ d \in Nat /\ PipeSize \in Nat
        <5>1. Holds(s)
          BY <1>1 DEF Holds
        <5>2. n \in Nat
          BY <5>1, HeadFacts
        <5> QED
          BY <2>2, <5>2, RemainingFacts, SizesAssumption
      <4>4. Fits(s)' <=> c + d + 1 + l <= PipeSize
        BY <2>2, <4>1 DEF Fits, Remaining
      <4> HIDE DEF c, l, d, f, n
      <4>5. Remaining(n, f) = l + d + 1
        BY <2>3 DEF l
      <4>6. Fits(s)'
        BY <4>1, <4>2, <4>3, <4>4, <4>5
      <4> QED
        BY <4>6
    <3>4. CASE u # s
      BY <1>2, <2>7, <3>2, <3>4, CalmFit
    <3> QED
      BY <3>3, <3>4
  <2> QED
    BY <2>6, <2>7 DEF OneFits
<1> QED
  BY <1>3, <1>4

\* It owes what it owed before.
LEMMA WriteCounts ==
  ASSUME NEW s \in Side, Domains, Domains', Counted, Sending, SenderWrites(s)
  PROVE  Counted'
<1>1. \A u \in Side : Steady(u)
  BY DEF SenderWrites, Steady, Holds, Gone, manager, posts, history, Domains
<1> QED
  BY <1>1, CountStays DEF Counted

\* The pop() takes the message that the sender owed from the queue.
LEMMA PopKeeps ==
  ASSUME NEW s \in Side, NEW t \in Thread, Domains, Domains', Counted, Sending, OneFits,
         SenderPops(s) \/ SenderPopsMidPush(s, t)
  PROVE  Counted' /\ Sending' /\ OneFits'
<1>1. /\ spc[s] = "pop" /\ spc' = [spc EXCEPT ![s] = "wait"]
      /\ UNCHANGED <<mpc, pipe, mutex, nFragSeqNum, sem, timeouts>>
  BY DEF SenderPops, SenderPopsMidPush, manager, pipes, bounds
<1>2. \A u \in Side : u # s => queue[u]' = queue[u] /\ raced[u]' = raced[u] /\ post[u]' = post[u]
  <2>1. CASE SenderPops(s)
    BY <2>1 DEF SenderPops, history, Domains
  <2>2. CASE SenderPopsMidPush(s, t)
    <3>1. post' = [post EXCEPT ![s][t].pc = "release"]
      BY <2>2 DEF SenderPopsMidPush
    <3>2. raced' = [raced EXCEPT ![s] = TRUE] /\ \E q : queue' = [queue EXCEPT ![s] = q]
      BY <2>2 DEF SenderPopsMidPush
    <3>3. \A u \in Side : u # s => queue[u]' = queue[u] /\ raced[u]' = raced[u]
      BY <3>2 DEF Domains
    <3> QED
      BY <3>1, <3>3, PushedFacts
  <2> QED
    BY <2>1, <2>2
<1>3. \A u \in Side : u # s => Steady(u)
  BY <1>1, <1>2 DEF Steady, Holds, Gone, Domains
<1>4. \A u \in Side : Calm(u)
  BY <1>1, <1>2 DEF Calm, Passed, At, Shrinks, Holds, Sending, Loaded, Domains
<1>5. CountedAt(s)'
  <2>1. CASE SenderPops(s)
    <3>1. UNCHANGED <<raced, post>>
      BY <2>1 DEF SenderPops, history
    <3>2. queue[s] \in Seq(Messages) /\ queue[s] # <<>> /\ Holds(s) /\ ~Holds(s)'
      BY <1>1 DEF Sending, Loaded, Holds, Domains
    <3>3. queue[s]' = Tail(queue[s])
      BY <2>1 DEF SenderPops, Domains
    <3>4. Len(queue[s]') = Len(queue[s]) - 1
      BY <3>2, <3>3
    <3>5. Held(s) = 1 /\ Held(s)' = 0 /\ Released(s)' = Released(s) /\ sem[s]' = sem[s]
      BY <1>1, <3>1, <3>2 DEF Held, Released
    <3> QED
      BY <1>1, <3>1, <3>4, <3>5, CountFacts DEF Counted, CountedAt, Gone
  <2>2. CASE SenderPopsMidPush(s, t)
    <3>1. raced[s]'
      BY <2>2 DEF SenderPopsMidPush, Domains
    <3> QED
      BY <3>1 DEF CountedAt
  <2> QED
    BY <2>1, <2>2
<1> QED
  BY <1>1, <1>3, <1>4, <1>5, CountStays, CalmKeeps DEF Counted

----------------------------------------------------------------------------
(* The theorems.                                                           *)

LEMMA Initially == MessagingInit => IInv
<1> SUFFICES ASSUME MessagingInit PROVE IInv
  OBVIOUS
<1>1. Domains
  <2>1. 0 \in 0..(SeqNums - 1)
    BY SizesAssumption
  <2> QED
    BY <2>1 DEF MessagingInit, Domains, NoPost, PostPcs
<1>2. Positions /\ Owners /\ Loaded /\ Counted
  BY DEF MessagingInit, Positions, Owners, Loaded, Counted, CountedAt, Holds, Gone, NoPost, Side,
     Thread
<1>3. Sending /\ OneFits
  BY <1>2 DEF MessagingInit, Sending, OneFits, Passed, Side
<1> QED
  BY <1>1, <1>2, <1>3 DEF IInv

LEMMA SideKeeps ==
  ASSUME IInv, NEW s \in Side,
         \/ Construct(s) \/ Destroy(s) \/ InitializeFails(s) \/ ManagerStep(s)
         \/ SenderStep(s) \/ SenderCheckTimesOut(s) \/ SenderLockTimesOut(s)
         \/ ReceiverStep(s) \/ ReceiverLockTimesOut(s)
         \/ AppPosts(s) \/ PostStep(s)
  PROVE  IInv'
<1> USE DEF IInv
<1>1. CASE Construct(s) \/ Destroy(s) \/ InitializeFails(s) \/ ManagerStep(s)
  <2>1. Construct(s) \/ Destroy(s) \/ InitializeFails(s) \/ StartCleanup(s) \/ GiveUp(s) \/
        StopSender(s) \/ TerminateSender(s) \/ StopReceiver(s) \/ TerminateReceiver(s) \/
        Cleanup(s) \/ CreateConnectionPoint \/ Connect \/ AcceptConnection \/
        StartThreads(s) \/ SetConnected(s)
    BY <1>1 DEF ManagerStep
  <2>2. Domains' /\ Positions' /\ Owners'
    BY <2>1, ManagerControl
  <2> QED
    BY <2>1, <2>2, ManagerQuiet, ConstructKeeps, CleanupKeeps
<1>2. CASE SenderStep(s) \/ SenderCheckTimesOut(s) \/ SenderLockTimesOut(s)
  <2>1. SenderStops(s) \/ SenderTakes(s) \/ AssertionFails(s) \/ SenderWaitsForReceiver(s) \/
        SenderMayWrite(s) \/ SenderLocks(s) \/ SenderWrites(s) \/ SenderFails(s) \/
        SenderCheckTimesOut(s) \/ SenderLockTimesOut(s) \/
        \E t \in Thread : SenderPops(s) \/ SenderPopsMidPush(s, t)
    BY <1>2 DEF SenderStep, Thread
  <2>2. Domains' /\ Positions' /\ Owners'
    BY <2>1, SenderControl, PopControl
  <2> QED
    BY <2>1, <2>2, PopKeeps, SenderQuiet, TurnKeeps, AssertionKeeps, MayWriteKeeps, CheckTimesOutKeeps,
       WriteCounts, WriteSends
<1>3. CASE ReceiverStep(s) \/ ReceiverLockTimesOut(s)
  <2>1. ReceiverStops(s) \/ ReceiverSees(s) \/ ReceiverLocks(s) \/ ReceiverReads(s) \/
        ReceiverFails(s) \/ ReceiverProcesses(s) \/ ReceiverGoesOn(s) \/ ReceiverLockTimesOut(s)
    BY <1>3 DEF ReceiverStep
  <2>2. Domains' /\ Positions' /\ Owners'
    BY <2>1, ReceiverControl
  <2> QED
    BY <2>1, <2>2, ReceiverQuiet
<1>4. CASE AppPosts(s) \/ PostStep(s)
  <2>1. PICK t \in Thread : AppPosts(s) \/ Push(s, t) \/ Release(s, t)
    BY <1>4 DEF PostStep, Thread
  <2>2. Domains' /\ Positions' /\ Owners'
    BY <2>1, PostControl
  <2> QED
    BY <2>1, <2>2, AppPostsQuiet, PushKeeps, ReleaseKeeps
<1> QED
  BY <1>1, <1>2, <1>3, <1>4

LEMMA Stutters == ASSUME IInv, UNCHANGED messagingVars PROVE IInv'
<1> USE DEF messagingVars, manager, pipes, sender, receiver, posts, bounds, history
<1>1. Domains' /\ Positions' /\ Owners'
  BY DEF IInv, Domains, Positions, Owners, Gone
<1>2. Counted'
  BY DEF IInv, Counted, CountedAt, Gone, Released, Held, Holds
<1>3. Sending' /\ OneFits'
  BY DEF IInv, Sending, Loaded, OneFits, Passed, Fits, At, HeadLen, Holds
<1> QED
  BY <1>1, <1>2, <1>3 DEF IInv

LEMMA Invariance == MessagingSpec => []IInv
<1>1. IInv /\ [MessagingNext]_messagingVars => IInv'
  <2> SUFFICES ASSUME IInv, [MessagingNext]_messagingVars PROVE IInv'
    OBVIOUS
  <2>1. CASE Killed
    <3>1. Domains' /\ Positions' /\ Owners'
      BY <2>1, KilledControl DEF IInv
    <3> QED
      BY <2>1, <3>1, KilledKeeps DEF IInv, Side
  <2> QED
    BY <2>1, SideKeeps, Stutters DEF MessagingNext
<1> QED
  BY Initially, <1>1, PTL DEF MessagingSpec

\* The assertion of SenderThread::Work() that the semaphore's promise is kept: for any
\* messages, sizes and number of connections and faults, it fails only where two posts,
\* or a post and the Reset() of a reconnection, met halfway.
THEOREM AssertionAlwaysHolds == MessagingSpec => []AssertionHolds
<1>1. IInv => AssertionHolds
  BY DEF IInv, Counted, CountedAt, AssertionHolds
<1> QED
  BY <1>1, Invariance, PTL

\* What the test of CanRead() before a write achieves: for any messages that fit into
\* an empty pipe, the two senders are never both stuck in a write, unless a wait of
\* MUTEX_TIMEOUT has ended.
THEOREM NeverMutuallyBlocked == MessagingSpec => []NoMutualBlock
<1>1. ASSUME IInv PROVE NoMutualBlock
  <2> SUFFICES ASSUME timeouts = 0, \A s \in Side : spc[s] = "writing" /\ link[s] = "up" /\ ~Room(s)
               PROVE  FALSE
    BY DEF NoMutualBlock
  <2>1. PICK s \in Side : Fits(s)
    BY <1>1 DEF IInv, OneFits, Passed
  <2> DEFINE c == CellsOf(pipe[s])
             r == Remaining(HeadLen(s), nFragSeqNum[s])
             l == Len(PacketCells(s))
  <2>2. c + r <= PipeSize
    BY <2>1 DEF Fits, At
  <2>3. l \in Nat /\ l + 1 <= r
    BY <1>1, PacketFacts DEF IInv
  <2>4. c \in Nat /\ r \in Int /\ PipeSize \in Nat
    <3>1. Passed(s) /\ At(s) = nFragSeqNum[s]
      BY DEF Passed, At
    <3> QED
      BY <1>1, <3>1, PipeFacts, PassedFacts, SizesAssumption DEF IInv
  <2>5. ~(c + l + 1 <= PipeSize)
    BY DEF Room
  <2> HIDE DEF c, r, l
  <2> QED
    BY <2>2, <2>3, <2>4, <2>5
<1> QED
  BY <1>1, Invariance, PTL

----------------------------------------------------------------------------
(* The fields of a message.                                                *)

\* A string and its terminator lie at an offset of the data.
Shows(d, at, t) ==
  /\ at \in Nat /\ at + Len(t) < Len(d) /\ d[at + Len(t) + 1] = NUL
  /\ \A k \in 1..Len(t) : d[at + k] = t[k]

\* An integer or an enum does.
ShowsCell(d, at, c) == at \in Nat /\ at < Len(d) /\ d[at + 1] = c

\* d begins with p.
Begins(d, p) == Len(p) <= Len(d) /\ \A k \in 1..Len(p) : d[k] = p[k]

LEMMA CellShown ==
  ASSUME NEW d, NEW at, NEW c, ShowsCell(d, at, c)
  PROVE  CellAt(d, at) = c
  BY DEF ShowsCell, CellAt

LEMMA TextShown ==
  ASSUME NEW C, NEW d \in Seq(C), NEW at, NEW t, IsText(t), Shows(d, at, t)
  PROVE  /\ LengthAt(d, at) = Len(t) /\ StringAt(d, at) = t
         /\ After(d, at) = at + Len(t) + 1
<1> DEFINE n == Len(t)
           Ends(m) == /\ CellAt(d, at + m) \in {NUL, Garbage}
                      /\ \A k \in 0..(m - 1) : CellAt(d, at + k) \notin {NUL, Garbage}
<1>1. /\ n \in Nat /\ at \in Nat /\ Len(d) \in Nat /\ at + n < Len(d)
      /\ \A k \in 1..Len(d) : d[k] \in C
  BY DEF IsText, Shows
<1>2. CellAt(d, at + n) = NUL
  BY <1>1 DEF Shows, CellAt
<1>3. ASSUME NEW k \in 0..(n - 1) PROVE CellAt(d, at + k) \notin {NUL, Garbage}
  <2>1. k + 1 \in 1..n /\ at + k < Len(d) /\ at + k + 1 = at + (k + 1)
    BY <1>1
  <2>2. CellAt(d, at + k) = t[k + 1]
    BY <2>1 DEF Shows, CellAt
  <2> QED
    BY <2>1, <2>2 DEF IsText
<1>4. n \in 0..Len(d) /\ Ends(n)
  BY <1>1, <1>2, <1>3
<1>5. ASSUME NEW m \in 0..Len(d), Ends(m) PROVE m = n
  <2>1. ~(m < n)
    <3> SUFFICES ASSUME m < n PROVE FALSE
      OBVIOUS
    <3>1. m \in 0..(n - 1)
      BY <1>1
    <3> QED
      BY <1>3, <1>5, <3>1
  <2>2. ~(n < m)
    <3> SUFFICES ASSUME n < m PROVE FALSE
      OBVIOUS
    <3>1. n \in 0..(m - 1)
      BY <1>1
    <3> QED
      BY <1>2, <1>5, <3>1
  <2> QED
    BY <1>1, <2>1, <2>2
<1>6. LengthAt(d, at) = n
  <2>1. LengthAt(d, at) = CHOOSE m \in 0..Len(d) : Ends(m)
    BY DEF LengthAt
  <2> HIDE DEF Ends, n
  <2> QED
    BY <1>4, <1>5, <2>1
<1>7. StringAt(d, at) = t
  <2> DEFINE u == SubSeq(d, at + 1, at + n)
  <2>1. /\ u \in Seq(C) /\ Len(u) = n /\ \A k \in 1..n : u[k] = d[at + k]
    <3>0. PICK x, y : x = at + 1 /\ y = at + n
      OBVIOUS
    <3>1. /\ x \in Int /\ y \in Int /\ y - x + 1 = n /\ (x <= y <=> n # 0)
          /\ (\A k \in x..y : d[k] \in C) /\ (\A k \in 1..n : x + k - 1 = at + k)
      BY <1>1, <3>0
    <3>2. /\ SubSeq(d, x, y) \in Seq(C)
          /\ Len(SubSeq(d, x, y)) = IF x <= y THEN y - x + 1 ELSE 0
          /\ \A k \in 1..(y - x + 1) : SubSeq(d, x, y)[k] = d[x + k - 1]
      BY <3>1, SubSeqProperties
    <3>3. u = SubSeq(d, x, y)
      BY <3>0
    <3> HIDE DEF u, n
    <3> QED
      BY <3>1, <3>2, <3>3
  <2>2. t = [k \in 1..n |-> t[k]]
    BY DEF IsText
  <2>3. \A k \in 1..n : u[k] = t[k]
    BY <2>1 DEF Shows
  <2>4. u = [k \in 1..n |-> u[k]]
    BY <2>1
  <2>5. u = t
    <3> HIDE DEF u, n
    <3> QED
      BY <2>2, <2>3, <2>4
  <2> QED
    BY <1>6, <2>5 DEF StringAt
<1> QED
  BY <1>6, <1>7 DEF After

LEMMA BeginsMore ==
  ASSUME NEW C, NEW p \in Seq(C), NEW q \in Seq(C), NEW d \in Seq(C), Begins(d, p \o q)
  PROVE  Begins(d, p)
<1>1. /\ Len(p \o q) = Len(p) + Len(q) /\ Len(p) \in Nat /\ Len(q) \in Nat /\ Len(d) \in Nat
      /\ \A k \in 1..Len(p) : (p \o q)[k] = p[k]
  BY ConcatProperties
<1> DEFINE e == p \o q
<1> HIDE DEF e
<1>2. Len(e) <= Len(d) /\ \A k \in 1..Len(e) : d[k] = e[k]
  BY DEF Begins, e
<1> QED
  BY <1>1, <1>2 DEF Begins, e

\* A string behind p.
LEMMA TextPlaced ==
  ASSUME NEW C, NEW p \in Seq(C), NEW d \in Seq(C), NEW t, IsText(t), String(t) \in Seq(C),
         Begins(d, p \o String(t))
  PROVE  Shows(d, Len(p), t) /\ Len(p \o String(t)) = Len(p) + Len(t) + 1
<1> DEFINE n == Len(t)
           m == Len(p)
           q == String(t)
           e == p \o q
<1>1. n \in Nat /\ m \in Nat /\ Len(d) \in Nat
  BY DEF IsText
<1>2. Len(q) = n + 1 /\ q[n + 1] = NUL /\ \A k \in 1..n : q[k] = t[k]
  <2> DEFINE T == {t[k] : k \in 1..n} \cup {NUL}
  <2>0. NUL \in T
    OBVIOUS
  <2>1. t \in Seq(T)
    <3>1. t = [k \in 1..n |-> t[k]] /\ \A k \in 1..n : t[k] \in T
      BY DEF IsText
    <3> HIDE DEF T, n
    <3>2. t \in [1..n -> T]
      BY <3>1
    <3> QED
      BY <1>1, <3>2
  <2> HIDE DEF T
  <2>2. q = Append(t, NUL)
    BY DEF IsText, String
  <2> QED
    BY <2>0, <2>1, <2>2, AppendProperties
<1>3. Len(e) = m + (n + 1) /\ \A k \in 1..(m + (n + 1)) : e[k] = IF k <= m THEN p[k] ELSE q[k - m]
  <2> HIDE DEF q, n
  <2>1. q \in Seq(C)
    BY DEF q
  <2>2. /\ Len(e) = Len(p) + Len(q)
        /\ \A k \in 1..(Len(p) + Len(q)) : e[k] = IF k <= Len(p) THEN p[k] ELSE q[k - Len(p)]
    BY <2>1, ConcatProperties
  <2> HIDE DEF e
  <2> QED
    BY <1>2, <2>2
<1>4. Len(e) <= Len(d) /\ \A k \in 1..Len(e) : d[k] = e[k]
  BY DEF Begins
<1> HIDE DEF e, q, n, m
<1>5. \A k \in 1..(n + 1) : d[m + k] = q[k]
  <2> SUFFICES ASSUME NEW k \in 1..(n + 1) PROVE d[m + k] = q[k]
    OBVIOUS
  <2>1. m + k \in 1..(m + (n + 1)) /\ ~(m + k <= m) /\ m + k - m = k
    BY <1>1
  <2>2. e[m + k] = q[k]
    BY <1>1, <1>3, <2>1
  <2>3. d[m + k] = e[m + k]
    BY <1>3, <1>4, <2>1
  <2> QED
    BY <2>2, <2>3
<1>6. /\ m + n < Len(d) /\ m + n + 1 = m + (n + 1) /\ n + 1 \in 1..(n + 1)
      /\ \A k \in 1..n : k \in 1..(n + 1)
  BY <1>1, <1>3, <1>4
<1>7. Shows(d, m, t)
  BY <1>1, <1>2, <1>5, <1>6 DEF Shows, n
<1> QED
  BY <1>3, <1>6, <1>7 DEF m, n, e, q

\* A cell behind p.
LEMMA CellPlaced ==
  ASSUME NEW C, NEW p \in Seq(C), NEW d \in Seq(C), NEW c \in C, Begins(d, p \o <<c>>)
  PROVE  ShowsCell(d, Len(p), c) /\ Len(p \o <<c>>) = Len(p) + 1
<1> DEFINE m == Len(p)
           e == p \o <<c>>
<1>1. /\ m \in Nat /\ Len(d) \in Nat /\ Len(e) = m + 1 /\ e[m + 1] = c
  BY ConcatProperties
<1>2. Len(e) <= Len(d) /\ \A k \in 1..Len(e) : d[k] = e[k]
  BY DEF Begins
<1> HIDE DEF e, m
<1>3. m < Len(d) /\ d[m + 1] = c
  BY <1>1, <1>2
<1> QED
  BY <1>1, <1>3 DEF ShowsCell, m, e

\* What the translators take out of a message is its data.
LEMMA DataTranslated ==
  ASSUME NEW C, NEW data \in Seq(C), NEW id, NEW raw, raw = CreateMessage(id, data)
  PROVE  /\ raw[1] = id
         /\ SubSeq(raw, MSG_HEADER_LEN + 1, MSG_HEADER_LEN + raw[2]) = data
<1> DEFINE D == C \cup {id, Len(data)}
           h == <<id, Len(data)>>
           n == Len(data)
<1>1. h \in Seq(D) /\ Len(h) = 2 /\ h[1] = id /\ h[2] = n /\ data \in Seq(D) /\ n \in Nat
  OBVIOUS
<1> HIDE DEF D, h, n
<1>2. raw = h \o data
  BY DEF CreateMessage, h
<1>3. raw \in Seq(D) /\ Len(raw) = n + 2 /\ raw[1] = id /\ raw[2] = n
      /\ \A k \in 1..n : raw[k + 2] = data[k]
  <2>1. raw \in Seq(D) /\ Len(raw) = 2 + n
        /\ \A k \in 1..(2 + n) : raw[k] = IF k <= 2 THEN h[k] ELSE data[k - 2]
    <3>0. PICK e : e = h \o data
      OBVIOUS
    <3>1. /\ e \in Seq(D) /\ Len(e) = Len(h) + Len(data)
          /\ \A k \in 1..(Len(h) + Len(data)) : e[k] = IF k <= Len(h) THEN h[k] ELSE data[k - Len(h)]
      <4>1. /\ h \o data \in Seq(D) /\ Len(h \o data) = Len(h) + Len(data)
            /\ \A k \in 1..(Len(h) + Len(data)) :
                  (h \o data)[k] = IF k <= Len(h) THEN h[k] ELSE data[k - Len(h)]
        BY <1>1, ConcatProperties
      <4> QED
        BY <3>0, <4>1
    <3>2. Len(data) = n
      BY DEF n
    <3> QED
      BY <1>1, <1>2, <3>0, <3>1, <3>2
  <2>2. 1 \in 1..(2 + n) /\ 2 \in 1..(2 + n)
        /\ \A k \in 1..n : k + 2 \in 1..(2 + n) /\ ~(k + 2 <= 2) /\ k + 2 - 2 = k
    BY <1>1
  <2> QED
    BY <1>1, <2>1, <2>2
<1>4. PICK s : s = SubSeq(raw, 3, 2 + n)
  OBVIOUS
<1>5. s = data
  <2>0. PICK y : y = 2 + n
    OBVIOUS
  <2>1. /\ 3 \in Int /\ y \in Int /\ y - 3 + 1 = n /\ (3 <= y <=> n # 0)
        /\ (\A k \in 3..y : raw[k] \in D) /\ (\A k \in 1..n : 3 + k - 1 = k + 2)
    BY <1>1, <1>3, <2>0
  <2>2. /\ SubSeq(raw, 3, y) \in Seq(D)
        /\ Len(SubSeq(raw, 3, y)) = IF 3 <= y THEN y - 3 + 1 ELSE 0
        /\ \A k \in 1..(y - 3 + 1) : SubSeq(raw, 3, y)[k] = raw[3 + k - 1]
    BY <2>1, SubSeqProperties
  <2>3. s \in Seq(D) /\ Len(s) = n /\ \A k \in 1..n : s[k] = data[k]
    BY <1>1, <1>3, <1>4, <2>0, <2>1, <2>2
  <2> QED
    BY <1>1, <2>3, SeqEqual DEF n
<1> QED
  BY <1>3, <1>4, <1>5 DEF MSG_HEADER_LEN

\* A string of characters that are among C.
TextOf(t, C) == IsText(t) /\ \A k \in 1..Len(t) : t[k] \in C

\* The cells of a string and its terminator.
LEMMA StringCells ==
  ASSUME NEW C, NUL \in C, NEW t, TextOf(t, C)
  PROVE  t \in Seq(C) /\ String(t) \in Seq(C) /\ Len(String(t)) = Len(t) + 1
<1>1. t \in Seq(C)
  <2>1. PICK n \in Nat : n = Len(t)
    BY DEF IsText, TextOf
  <2>2. t = [k \in 1..n |-> t[k]] /\ \A k \in 1..n : t[k] \in C
    BY <2>1 DEF IsText, TextOf
  <2>3. t \in [1..n -> C]
    BY <2>2
  <2> QED
    BY <2>1, <2>3
<1>2. String(t) = Append(t, NUL)
  BY DEF String, IsText, TextOf
<1> QED
  BY <1>1, <1>2

LEMMA BeginsItself ==
  ASSUME NEW C, NEW d \in Seq(C)
  PROVE  Begins(d, d)
  BY DEF Begins

\* A field that is a string, behind p, and what follows it.
LEMMA TextField ==
  ASSUME NEW C, NUL \in C, NEW d \in Seq(C), NEW p \in Seq(C), NEW q, NEW t, TextOf(t, C),
         q = p \o String(t), Begins(d, q)
  PROVE  q \in Seq(C) /\ Begins(d, p) /\ StringAt(d, Len(p)) = t /\ After(d, Len(p)) = Len(q)
<1>1. String(t) \in Seq(C)
  BY StringCells
<1>2. q \in Seq(C)
  BY <1>1, ConcatProperties
<1>3. Begins(d, p \o String(t))
  OBVIOUS
<1>4. Begins(d, p) /\ Shows(d, Len(p), t) /\ Len(p \o String(t)) = Len(p) + Len(t) + 1
  BY <1>1, <1>3, BeginsMore, TextPlaced DEF TextOf
<1>5. Len(q) = Len(p) + Len(t) + 1
  BY <1>4
<1>6. StringAt(d, Len(p)) = t /\ After(d, Len(p)) = Len(p) + Len(t) + 1
  BY <1>4, TextShown DEF TextOf
<1> QED
  BY <1>2, <1>4, <1>5, <1>6

\* A field of one cell, behind p, and what follows it.
LEMMA CellField ==
  ASSUME NEW C, NEW d \in Seq(C), NEW p \in Seq(C), NEW q, NEW c \in C, q = p \o <<c>>, Begins(d, q)
  PROVE  Begins(d, p) /\ CellAt(d, Len(p)) = c /\ Len(q) = Len(p) + 1
<1>1. Begins(d, p \o <<c>>) /\ <<c>> \in Seq(C)
  OBVIOUS
<1>2. Begins(d, p) /\ ShowsCell(d, Len(p), c) /\ Len(p \o <<c>>) = Len(p) + 1
  BY <1>1, BeginsMore, CellPlaced
<1> QED
  BY <1>2, CellShown

LEMMA CellsJoined ==
  ASSUME NEW C, NEW p \in Seq(C), NEW c \in C
  PROVE  p \o <<c>> \in Seq(C)
  BY ConcatProperties

LEMMA TextJoined ==
  ASSUME NEW C, NUL \in C, NEW p \in Seq(C), NEW t, TextOf(t, C)
  PROVE  p \o String(t) \in Seq(C)
  BY StringCells, ConcatProperties

\* The string the data begin with.
LEMMA FirstText ==
  ASSUME NEW C, NUL \in C, NEW d \in Seq(C), NEW t, TextOf(t, C), Begins(d, String(t))
  PROVE  StringAt(d, 0) = t /\ After(d, 0) = Len(String(t))
<1>1. PICK s : s = String(t)
  OBVIOUS
<1>2. s \in Seq(C)
  BY <1>1, StringCells
<1>3. PICK e : e = <<>>
  OBVIOUS
<1>4. e \in Seq(C) /\ Len(e) = 0
  BY <1>3
<1>5. s = e \o s
  BY <1>2, <1>3, ConcatEmptySeq
<1>6. s = e \o String(t) /\ Begins(d, s)
  BY <1>1, <1>5
<1>7. StringAt(d, Len(e)) = t /\ After(d, Len(e)) = Len(s)
  BY <1>4, <1>6, TextField
<1> QED
  BY <1>1, <1>4, <1>7

TunnelInfoOf(t1, c1, t2, t3, t4, t5, t6, t7, c2) ==
  [szBrokerName |-> t1, eTunnelType |-> c1, szIPV4AddrLocalEndpoint |-> t2,
   szIPV6AddrLocalEndpoint |-> t3, szIPV4AddrRemoteEndpoint |-> t4,
   szIPV6AddrRemoteEndpoint |-> t5, szDelegatedPrefix |-> t6, szUserDomain |-> t7,
   tunnelUpTime |-> c2]

\* The data that Send_TunnelInfo() lays out.
TunnelData(d, t1, c1, t2, t3, t4, t5, t6, t7, c2) ==
  d = String(t1) \o <<c1>> \o String(t2) \o String(t3) \o String(t4) \o String(t5)
        \o String(t6) \o String(t7) \o <<c2>>

\* The fields of the tunnel information.
LEMMA TunnelFields ==
  ASSUME NEW C, NUL \in C, NEW c1 \in C, NEW c2 \in C,
         NEW t1, NEW t2, NEW t3, NEW t4, NEW t5, NEW t6, NEW t7,
         TextOf(t1, C), TextOf(t2, C), TextOf(t3, C), TextOf(t4, C), TextOf(t5, C),
         TextOf(t6, C), TextOf(t7, C),
         NEW d, TunnelData(d, t1, c1, t2, t3, t4, t5, t6, t7, c2)
  PROVE  d \in Seq(C) /\ TranslateTunnelInfo(d) =
           TunnelInfoOf(t1, c1, t2, t3, t4, t5, t6, t7, c2)
<1>1. PICK d1 : d1 = String(t1)
  OBVIOUS
<1>2. PICK d2 : d2 = d1 \o <<c1>>
  OBVIOUS
<1>3. PICK d3 : d3 = d2 \o String(t2)
  OBVIOUS
<1>4. PICK d4 : d4 = d3 \o String(t3)
  OBVIOUS
<1>5. PICK d5 : d5 = d4 \o String(t4)
  OBVIOUS
<1>6. PICK d6 : d6 = d5 \o String(t5)
  OBVIOUS
<1>7. PICK d7 : d7 = d6 \o String(t6)
  OBVIOUS
<1>8. PICK d8 : d8 = d7 \o String(t7)
  OBVIOUS
<1>9. d = d8 \o <<c2>>
  BY <1>1, <1>2, <1>3, <1>4, <1>5, <1>6, <1>7, <1>8 DEF TunnelData
<1>10. d1 \in Seq(C) /\ d2 \in Seq(C)
  BY <1>1, <1>2, StringCells, CellsJoined
<1>11. d3 \in Seq(C)
  BY <1>3, <1>10, TextJoined
<1>12. d4 \in Seq(C)
  BY <1>4, <1>11, TextJoined
<1>13. d5 \in Seq(C)
  BY <1>5, <1>12, TextJoined
<1>14. d6 \in Seq(C)
  BY <1>6, <1>13, TextJoined
<1>15. d7 \in Seq(C)
  BY <1>7, <1>14, TextJoined
<1>16. d8 \in Seq(C)
  BY <1>8, <1>15, TextJoined
<1>17. d \in Seq(C) /\ Begins(d, d)
  BY <1>9, <1>16, CellsJoined, BeginsItself
<1>18. Begins(d, d8) /\ CellAt(d, Len(d8)) = c2
  BY <1>9, <1>16, <1>17, CellField
<1>19. Begins(d, d7) /\ StringAt(d, Len(d7)) = t7 /\ After(d, Len(d7)) = Len(d8)
  BY <1>8, <1>15, <1>17, <1>18, TextField
<1>20. Begins(d, d6) /\ StringAt(d, Len(d6)) = t6 /\ After(d, Len(d6)) = Len(d7)
  BY <1>7, <1>14, <1>17, <1>19, TextField
<1>21. Begins(d, d5) /\ StringAt(d, Len(d5)) = t5 /\ After(d, Len(d5)) = Len(d6)
  BY <1>6, <1>13, <1>17, <1>20, TextField
<1>22. Begins(d, d4) /\ StringAt(d, Len(d4)) = t4 /\ After(d, Len(d4)) = Len(d5)
  BY <1>5, <1>12, <1>17, <1>21, TextField
<1>23. Begins(d, d3) /\ StringAt(d, Len(d3)) = t3 /\ After(d, Len(d3)) = Len(d4)
  BY <1>4, <1>11, <1>17, <1>22, TextField
<1>24. Begins(d, d2) /\ StringAt(d, Len(d2)) = t2 /\ After(d, Len(d2)) = Len(d3)
  BY <1>3, <1>10, <1>17, <1>23, TextField
<1>25. Begins(d, d1) /\ CellAt(d, Len(d1)) = c1 /\ Len(d2) = Len(d1) + 1
  <2>1. d \in Seq(C) /\ d1 \in Seq(C) /\ Begins(d, d2)
    BY <1>10, <1>17, <1>24
  <2>2. Begins(d, d1) /\ CellAt(d, Len(d1)) = c1
    BY <1>2, <2>1, CellField
  <2>3. Len(d2) = Len(d1) + 1
    <3>1. <<c1>> \in Seq(C) /\ Len(<<c1>>) = 1
      OBVIOUS
    <3>2. Len(d1 \o <<c1>>) = Len(d1) + Len(<<c1>>)
      BY <2>1, <3>1, ConcatProperties
    <3> QED
      BY <1>2, <3>1, <3>2
  <2> QED
    BY <2>1, <2>2, <2>3
<1>26. StringAt(d, 0) = t1 /\ After(d, 0) = Len(d1)
  BY <1>1, <1>17, <1>25, FirstText
<1> QED
  BY <1>17, <1>18, <1>19, <1>20, <1>21, <1>22, <1>23, <1>24, <1>25, <1>26
     DEF TranslateTunnelInfo, TunnelInfoOf

\* The data that Send_HACCESSConfigInfo() lays out.
ConfigInfoData(d, t, c1, c2, c3) == d = String(t) \o <<c1, c2, c3>>

\* The fields of the configuration of Home Access.
LEMMA ConfigFields ==
  ASSUME NEW C, NUL \in C, NEW c1 \in C, NEW c2 \in C, NEW c3 \in C,
         NEW t, TextOf(t, C), NEW d, ConfigInfoData(d, t, c1, c2, c3)
  PROVE  d \in Seq(C) /\ TranslateHACCESSConfigInfo(d) =
           [doc_root |-> t, proxy_enabled |-> c1, web_enabled |-> c2, devmap_changed |-> c3]
<1>1. PICK s, q : s = String(t) /\ q = <<c1, c2, c3>>
  OBVIOUS
<1>2. /\ s \in Seq(C) /\ Len(s) = Len(t) + 1
      /\ q \in Seq(C) /\ Len(q) = 3 /\ q[1] = c1 /\ q[2] = c2 /\ q[3] = c3
  BY <1>1, StringCells
<1>3. /\ s \o q \in Seq(C) /\ Len(s \o q) = Len(s) + Len(q)
      /\ \A k \in 1..(Len(s) + Len(q)) : (s \o q)[k] = IF k <= Len(s) THEN s[k] ELSE q[k - Len(s)]
  BY <1>2, ConcatProperties
<1>4. PICK n \in Nat : n = Len(s)
  BY <1>2
<1>5. d \in Seq(C) /\ Len(d) = n + 3
      /\ \A k \in 1..(n + 3) : d[k] = IF k <= n THEN s[k] ELSE q[k - n]
  BY <1>1, <1>2, <1>3, <1>4 DEF ConfigInfoData
<1>6. CellAt(d, n) = c1 /\ CellAt(d, n + 1) = c2 /\ CellAt(d, n + 2) = c3
  <2>1. /\ n + 1 \in 1..(n + 3) /\ ~(n + 1 <= n) /\ n + 1 - n = 1
        /\ n + 2 \in 1..(n + 3) /\ ~(n + 2 <= n) /\ n + 2 - n = 2
        /\ n + 3 \in 1..(n + 3) /\ ~(n + 3 <= n) /\ n + 3 - n = 3
        /\ n + 1 + 1 = n + 2 /\ n + 2 + 1 = n + 3
        /\ n < n + 3 /\ n + 1 < n + 3 /\ n + 2 < n + 3
    OBVIOUS
  <2>2. ASSUME NEW j \in 1..3 PROVE d[n + j] = q[j]
    <3>1. PICK k : k = n + j
      OBVIOUS
    <3>2. k \in 1..(n + 3) /\ ~(k <= n) /\ k - n = j
      BY <3>1
    <3> QED
      BY <1>5, <3>1, <3>2
  <2>3. d[n + 1] = q[1] /\ d[n + 2] = q[2] /\ d[n + 3] = q[3]
    <3>1. 1 \in 1..3 /\ 2 \in 1..3 /\ 3 \in 1..3
      OBVIOUS
    <3> QED
      BY <2>2, <3>1
  <2> QED
    BY <1>2, <1>5, <2>1, <2>3 DEF CellAt
<1>7. StringAt(d, 0) = t /\ After(d, 0) = n
  <2>1. Begins(d, s)
    <3>1. n <= n + 3 /\ \A k \in 1..n : k \in 1..(n + 3) /\ k <= n
      OBVIOUS
    <3>2. \A k \in 1..n : d[k] = s[k]
      BY <1>5, <3>1
    <3> QED
      BY <1>4, <1>5, <3>1, <3>2 DEF Begins
  <2> QED
    BY <1>1, <1>4, <1>5, <2>1, FirstText
<1> QED
  BY <1>5, <1>6, <1>7 DEF TranslateHACCESSConfigInfo

----------------------------------------------------------------------------
(* Lists.                                                                  *)

\* f is the recursion of FlattenSeq(), up to the m-th sequence.
Flattens(f, s, m) == f = [i \in 1..m |-> IF i = 1 THEN s[i] ELSE f[i - 1] \o s[i]]

\* The recursion of FlattenSeq() exists: the function it is defined by.
LEMMA FlattenRecursion ==
  ASSUME NEW s, Len(s) \in Nat, Len(s) # 0
  PROVE  \E f : Flattens(f, s, Len(s)) /\ FlattenSeq(s) = f[Len(s)]
<1>1. \E f : Flattens(f, s, 0)
  <2> DEFINE f == [i \in 1..0 |-> <<>>]
  <2>1. Flattens(f, s, 0)
    BY DEF Flattens
  <2> QED
    BY <2>1
<1>2. ASSUME NEW m \in Nat, NEW f, Flattens(f, s, m) PROVE \E g : Flattens(g, s, m + 1)
  <2> DEFINE g == [i \in 1..(m + 1) |-> IF i = 1 THEN s[i] ELSE f[i - 1] \o s[i]]
  <2>1. \A i \in 1..m : g[i] = f[i]
    <3>1. \A i \in 1..m : i \in 1..(m + 1)
      OBVIOUS
    <3>2. \A i \in 1..m : f[i] = IF i = 1 THEN s[i] ELSE f[i - 1] \o s[i]
      BY <1>2 DEF Flattens
    <3> QED
      BY <3>1, <3>2
  <2>2. \A i \in 1..(m + 1) : i # 1 => g[i - 1] = f[i - 1]
    <3> SUFFICES ASSUME NEW i \in 1..(m + 1), i # 1 PROVE g[i - 1] = f[i - 1]
      OBVIOUS
    <3>1. i - 1 \in 1..m
      OBVIOUS
    <3> HIDE DEF g
    <3> QED
      BY <2>1, <3>1
  <2>3. Flattens(g, s, m + 1)
    BY <2>2 DEF Flattens
  <2> QED
    BY <2>3
<1> DEFINE T == {m \in Nat : \E f : Flattens(f, s, m)}
<1>3. 0 \in T /\ \A n \in Nat : n \in T => n + 1 \in T
  BY <1>1, <1>2
<1> HIDE DEF T
<1>4. Len(s) \in T
  BY <1>3, Induction
<1>5. \E f : Flattens(f, s, Len(s))
  BY <1>4 DEF T
<1> QED
  BY <1>5 DEF Flattens, FlattenSeq

\* e[k] is the first k sequences, one after the other.
Flattened(e, s, n, C) ==
  /\ e \in [0..n -> Seq(C)] /\ e[0] = <<>> /\ e[n] = FlattenSeq(s)
  /\ \A k \in 1..n : e[k] = e[k - 1] \o s[k] /\ Begins(e[n], e[k])

\* What FlattenSeq() returns: it begins with the sequences, one after the other.
LEMMA FlattenFacts ==
  ASSUME NEW C, NEW s \in Seq(Seq(C)), NEW n \in Nat, n = Len(s)
  PROVE  \E e : Flattened(e, s, n, C)
<1>1. ASSUME n = 0
      PROVE  \E e : Flattened(e, s, n, C)
  <2> DEFINE e == [k \in 0..0 |-> <<>>]
  <2>1. s = <<>>
    BY <1>1, EmptySeq
  <2>2. FlattenSeq(s) = <<>>
    BY <1>1, <2>1 DEF FlattenSeq
  <2>3. e \in [0..0 -> Seq(C)] /\ e[0] = <<>>
    OBVIOUS
  <2>4. \A k \in 1..0 : FALSE
    OBVIOUS
  <2> HIDE DEF e
  <2> QED
    BY <1>1, <2>2, <2>3, <2>4 DEF Flattened
<1>2. ASSUME n # 0
      PROVE  \E e : Flattened(e, s, n, C)
  <2>1. PICK f : Flattens(f, s, n) /\ FlattenSeq(s) = f[n]
    BY <1>2, FlattenRecursion
  <2>2. \A k \in 1..n : s[k] \in Seq(C)
    OBVIOUS
  <2> DEFINE e == [k \in 0..n |-> IF k = 0 THEN <<>> ELSE f[k]]
  <2>3. e[0] = <<>> /\ \A k \in 1..n : e[k] = f[k]
    OBVIOUS
  <2>4. ASSUME NEW k \in 1..n PROVE e[k] = e[k - 1] \o s[k]
    <3>1. f[k] = IF k = 1 THEN s[k] ELSE f[k - 1] \o s[k]
      BY <2>1 DEF Flattens
    <3>2. CASE k = 1
      <4>1. k - 1 = 0 /\ s[k] = <<>> \o s[k]
        BY <2>2, <3>2, ConcatEmptySeq
      <4> HIDE DEF e
      <4> QED
        BY <2>3, <3>1, <3>2, <4>1
    <3>3. CASE k # 1
      <4>1. k - 1 \in 1..n
        BY <3>3
      <4> HIDE DEF e
      <4> QED
        BY <2>3, <3>1, <3>3, <4>1
    <3> QED
      BY <3>2, <3>3
  <2>5. DOMAIN e = 0..n /\ e = [k \in 0..n |-> e[k]]
    OBVIOUS
  <2>6. e[n] = FlattenSeq(s)
    BY <1>2, <2>1
  <2> HIDE DEF e
  <2> DEFINE T == {k \in Nat : k <= n => e[k] \in Seq(C)}
  <2>7. 0 \in T
    <3>1. <<>> \in Seq(C)
      OBVIOUS
    <3> QED
      BY <2>3, <3>1
  <2>8. ASSUME NEW k \in Nat, k \in T PROVE k + 1 \in T
    <3> SUFFICES ASSUME k + 1 <= n PROVE e[k + 1] \in Seq(C)
      OBVIOUS
    <3>1. PICK i : i = k + 1
      OBVIOUS
    <3>2. i \in 1..n /\ i - 1 = k /\ e[k] \in Seq(C)
      BY <2>8, <3>1
    <3>3. e[i] = e[k] \o s[i] /\ s[i] \in Seq(C)
      BY <2>2, <2>4, <3>2
    <3> QED
      BY <3>1, <3>2, <3>3, ConcatProperties
  <2>9. Nat \subseteq T
    <3> HIDE DEF T
    <3> QED
      BY <2>7, <2>8, Induction
  <2>10. \A k \in 0..n : e[k] \in Seq(C)
    BY <2>9
  <2>11. e \in [0..n -> Seq(C)]
    BY <2>5, <2>10
  <2> DEFINE U == {k \in Nat : k <= n => Begins(e[n], e[n - k])}
  <2>12. 0 \in U
    <3>1. n - 0 = n /\ e[n] \in Seq(C)
      BY <2>10
    <3> QED
      BY <3>1, BeginsItself
  <2>13. ASSUME NEW k \in Nat, k \in U PROVE k + 1 \in U
    <3> SUFFICES ASSUME k + 1 <= n PROVE Begins(e[n], e[n - (k + 1)])
      OBVIOUS
    <3>1. PICK i : i = n - k
      OBVIOUS
    <3>2. i \in 1..n /\ n - (k + 1) = i - 1 /\ i - 1 \in 0..n /\ n \in 0..n
      BY <3>1
    <3>3. Begins(e[n], e[i])
      BY <2>13, <3>1
    <3>4. PICK d, p, q : d = e[n] /\ p = e[i - 1] /\ q = s[i]
      OBVIOUS
    <3>5. d \in Seq(C) /\ p \in Seq(C) /\ q \in Seq(C) /\ Begins(d, p \o q)
      BY <2>2, <2>4, <2>10, <3>2, <3>3, <3>4
    <3>6. Begins(d, p)
      BY <3>5, BeginsMore
    <3> QED
      BY <3>2, <3>4, <3>6
  <2>14. Nat \subseteq U
    <3> HIDE DEF U
    <3> QED
      BY <2>12, <2>13, Induction
  <2>15. ASSUME NEW k \in 1..n PROVE Begins(e[n], e[k])
    <3>1. n - k \in U /\ n - k <= n /\ n - (n - k) = k
      <4>1. n - k \in Nat
        OBVIOUS
      <4> HIDE DEF U
      <4> QED
        BY <2>14, <4>1
    <3> QED
      BY <3>1
  <2> QED
    BY <2>3, <2>4, <2>6, <2>11, <2>15 DEF Flattened
<1> QED
  BY <1>1, <1>2

\* q is p, a string and a cell.
IsEntry(q, p, t, c) == q = p \o Append(String(t), c)

\* A field that is a string and a cell, behind p, and where the next begins.
LEMMA EntryField ==
  ASSUME NEW C, NUL \in C, NEW d \in Seq(C), NEW p \in Seq(C), NEW q, NEW t, TextOf(t, C),
         NEW c \in C, IsEntry(q, p, t, c), Begins(d, q)
  PROVE  /\ Shows(d, Len(p), t) /\ ShowsCell(d, Len(p) + Len(t) + 1, c)
         /\ Len(q) = Len(p) + Len(t) + 2
<1>1. PICK s, r : s = String(t) /\ r = p \o s
  OBVIOUS
<1>2. s \in Seq(C) /\ r \in Seq(C) /\ <<c>> \in Seq(C)
  BY <1>1, StringCells, TextJoined
<1>3. q = r \o <<c>>
  <2>1. Append(s, c) = s \o <<c>>
    BY <1>2, AppendIsConcat
  <2>2. p \o (s \o <<c>>) = (p \o s) \o <<c>>
    BY <1>2, ConcatAssociative
  <2> QED
    BY <1>1, <2>1, <2>2 DEF IsEntry
<1>4. Begins(d, r \o <<c>>)
  BY <1>3
<1>5. Begins(d, r) /\ ShowsCell(d, Len(r), c) /\ Len(r \o <<c>>) = Len(r) + 1
  BY <1>2, <1>4, BeginsMore, CellPlaced
<1>6. Begins(d, p \o String(t)) /\ String(t) \in Seq(C)
  BY <1>1, <1>2, <1>5
<1>7. Shows(d, Len(p), t) /\ Len(p \o String(t)) = Len(p) + Len(t) + 1
  BY <1>6, TextPlaced DEF TextOf
<1>8. Len(r) = Len(p) + Len(t) + 1
  BY <1>1, <1>7
<1>9. Len(t) \in Nat /\ Len(p) \in Nat
  BY DEF TextOf, IsText
<1> QED
  BY <1>3, <1>5, <1>7, <1>8, <1>9

\* d shows n names, each with a value, from at[0] to its end.
Listed(d, at, n, names, vals) ==
  /\ at \in [0..n -> Nat] /\ Len(d) = at[n]
  /\ \A k \in 1..n : /\ Shows(d, at[k - 1], names[k])
                     /\ ShowsCell(d, at[k - 1] + Len(names[k]) + 1, vals[k])
                     /\ at[k] = at[k - 1] + Len(names[k]) + 2

\* What the senders of lists lay out.
Entries(n, names, vals) == [k \in 1..n |-> Append(String(names[k]), vals[k])]

\* Names and values, as the senders of lists lay them out.
LEMMA ListLaidOut ==
  ASSUME NEW C, NUL \in C, NEW n \in Nat, NEW names, NEW vals,
         \A k \in 1..n : TextOf(names[k], C) /\ vals[k] \in C,
         NEW s, s = Entries(n, names, vals)
  PROVE  /\ FlattenSeq(s) \in Seq(C)
         /\ \E at : at[0] = 0 /\ Listed(FlattenSeq(s), at, n, names, vals)
<1>1. s \in Seq(Seq(C)) /\ n = Len(s)
  <2>1. ASSUME NEW k \in 1..n PROVE Append(String(names[k]), vals[k]) \in Seq(C)
    <3>1. PICK t, c : t = names[k] /\ c = vals[k]
      OBVIOUS
    <3>2. TextOf(t, C) /\ c \in C
      BY <3>1
    <3>3. String(t) \in Seq(C)
      BY <3>2, StringCells
    <3>4. Append(String(t), c) \in Seq(C)
      BY <3>2, <3>3, AppendProperties
    <3> QED
      BY <3>1, <3>4
  <2>2. s \in [1..n -> Seq(C)]
    BY <2>1 DEF Entries
  <2> QED
    BY <2>2
<1>0. PICK e : Flattened(e, s, n, C)
  BY <1>1, FlattenFacts
<1>2. /\ e \in [0..n -> Seq(C)] /\ e[0] = <<>> /\ e[n] = FlattenSeq(s)
      /\ \A k \in 1..n : e[k] = e[k - 1] \o s[k] /\ Begins(e[n], e[k])
  BY <1>0 DEF Flattened
<1> DEFINE at == [k \in 0..n |-> Len(e[k])]
<1>3. at \in [0..n -> Nat] /\ at[0] = 0 /\ at[n] = Len(e[n])
  <2>1. 0 \in 0..n /\ n \in 0..n /\ Len(<<>>) = 0
    OBVIOUS
  <2>2. \A k \in 0..n : Len(e[k]) \in Nat
    BY <1>2
  <2> QED
    BY <1>2, <2>1, <2>2
<1>4. ASSUME NEW k \in 1..n
      PROVE  /\ Shows(e[n], at[k - 1], names[k])
             /\ ShowsCell(e[n], at[k - 1] + Len(names[k]) + 1, vals[k])
             /\ at[k] = at[k - 1] + Len(names[k]) + 2
  <2>1. PICK d, p, q, t, c : d = e[n] /\ p = e[k - 1] /\ q = e[k] /\ t = names[k] /\ c = vals[k]
    OBVIOUS
  <2>2. k - 1 \in 0..n /\ k \in 0..n /\ n \in 0..n
    OBVIOUS
  <2>3. d \in Seq(C) /\ p \in Seq(C) /\ TextOf(t, C) /\ c \in C
    BY <1>2, <2>1, <2>2
  <2>4. s[k] = Append(String(t), c)
    BY <2>1 DEF Entries
  <2>5. IsEntry(q, p, t, c) /\ Begins(d, q)
    BY <1>2, <2>1, <2>4 DEF IsEntry
  <2>6. /\ Shows(d, Len(p), t) /\ ShowsCell(d, Len(p) + Len(t) + 1, c)
        /\ Len(q) = Len(p) + Len(t) + 2
    BY <2>3, <2>5, EntryField
  <2>7. at[k - 1] = Len(p) /\ at[k] = Len(q)
    BY <2>1, <2>2
  <2> HIDE DEF at
  <2> QED
    BY <2>1, <2>6, <2>7
<1> HIDE DEF at
<1>5. Listed(e[n], at, n, names, vals)
  BY <1>3, <1>4 DEF Listed
<1>6. e[n] \in Seq(C)
  BY <1>2
<1> QED
  BY <1>2, <1>3, <1>5, <1>6

\* The same behind p.
LEMMA ShownBehind ==
  ASSUME NEW C, NEW p \in Seq(C), NEW f \in Seq(C), NEW a, NEW t, TextOf(t, C), Shows(f, a, t)
  PROVE  Shows(p \o f, Len(p) + a, t)
<1>1. PICK d, m, l, n : d = p \o f /\ m = Len(p) /\ l = Len(f) /\ n = Len(t)
  OBVIOUS
<1>2. m \in Nat /\ l \in Nat /\ n \in Nat /\ a \in Nat /\ a + n < l /\ f[a + n + 1] = NUL
      /\ \A k \in 1..n : f[a + k] = t[k]
  BY <1>1 DEF Shows, TextOf, IsText
<1>3. Len(d) = m + l /\ \A k \in 1..(m + l) : d[k] = IF k <= m THEN p[k] ELSE f[k - m]
  <2>1. /\ Len(p \o f) = Len(p) + Len(f)
        /\ \A k \in 1..(Len(p) + Len(f)) : (p \o f)[k] = IF k <= Len(p) THEN p[k] ELSE f[k - Len(p)]
    BY ConcatProperties
  <2> QED
    BY <1>1, <2>1
<1>4. ASSUME NEW k \in 1..l PROVE d[m + k] = f[k]
  <2>1. PICK i : i = m + k
    OBVIOUS
  <2>2. i \in 1..(m + l) /\ ~(i <= m) /\ i - m = k
    BY <1>2, <2>1
  <2> QED
    BY <1>3, <2>1, <2>2
<1>5. ASSUME NEW k \in 1..(n + 1) PROVE d[(m + a) + k] = f[a + k]
  <2>1. m \in Nat /\ l \in Nat /\ n \in Nat /\ a \in Nat /\ a + n < l /\ k \in 1..(n + 1)
    BY <1>2, <1>5
  <2>2. a + k \in 1..l /\ (m + a) + k = m + (a + k)
    BY <2>1
  <2>3. PICK i \in 1..l : i = a + k
    BY <2>2
  <2> QED
    BY <1>4, <2>2, <2>3
<1>6. Shows(d, m + a, t)
  <2>1. n + 1 \in 1..(n + 1) /\ (\A k \in 1..n : k \in 1..(n + 1))
        /\ a + (n + 1) = a + n + 1 /\ (m + a) + (n + 1) = (m + a) + n + 1
        /\ m + a \in Nat /\ (m + a) + n < m + l
    <3>1. m \in Nat /\ l \in Nat /\ n \in Nat /\ a \in Nat /\ a + n < l
      BY <1>2
    <3> QED
      BY <3>1
  <2>2. d[(m + a) + n + 1] = NUL
    <3>1. d[(m + a) + (n + 1)] = f[a + (n + 1)]
      BY <1>5, <2>1
    <3> QED
      BY <1>2, <2>1, <3>1
  <2>3. \A k \in 1..n : d[(m + a) + k] = t[k]
    BY <1>2, <1>5, <2>1
  <2> QED
    BY <1>1, <1>3, <2>1, <2>2, <2>3 DEF Shows
<1> QED
  BY <1>1, <1>6

LEMMA CellShownBehind ==
  ASSUME NEW C, NEW p \in Seq(C), NEW f \in Seq(C), NEW a, NEW c, ShowsCell(f, a, c)
  PROVE  ShowsCell(p \o f, Len(p) + a, c)
<1>1. PICK d, m, l : d = p \o f /\ m = Len(p) /\ l = Len(f)
  OBVIOUS
<1>2. m \in Nat /\ l \in Nat /\ a \in Nat /\ a < l /\ f[a + 1] = c
  BY <1>1 DEF ShowsCell
<1>3. Len(d) = m + l /\ \A k \in 1..(m + l) : d[k] = IF k <= m THEN p[k] ELSE f[k - m]
  <2>1. /\ Len(p \o f) = Len(p) + Len(f)
        /\ \A k \in 1..(Len(p) + Len(f)) : (p \o f)[k] = IF k <= Len(p) THEN p[k] ELSE f[k - Len(p)]
    BY ConcatProperties
  <2> QED
    BY <1>1, <2>1
<1>4. PICK i : i = (m + a) + 1
  OBVIOUS
<1>5. i \in 1..(m + l) /\ ~(i <= m) /\ i - m = a + 1 /\ m + a \in Nat /\ m + a < m + l
  BY <1>2, <1>4
<1>6. d[i] = c
  BY <1>2, <1>3, <1>5
<1>7. ShowsCell(d, m + a, c)
  BY <1>3, <1>4, <1>5, <1>6 DEF ShowsCell
<1> QED
  BY <1>1, <1>7

LEMMA ListedBehind ==
  ASSUME NEW C, NEW p \in Seq(C), NEW f \in Seq(C), NEW n \in Nat, NEW names, NEW vals, NEW at,
         \A k \in 1..n : TextOf(names[k], C), Listed(f, at, n, names, vals)
  PROVE  \E b : b[0] = Len(p) + at[0] /\ Listed(p \o f, b, n, names, vals)
<1> DEFINE b == [k \in 0..n |-> Len(p) + at[k]]
<1>0. PICK d, m : d = p \o f /\ m = Len(p)
  OBVIOUS
<1>1. m \in Nat /\ (\A k \in 0..n : at[k] \in Nat) /\ Len(f) = at[n]
  BY <1>0 DEF Listed
<1>2. b \in [0..n -> Nat] /\ (\A k \in 0..n : b[k] = m + at[k])
  BY <1>0, <1>1
<1> HIDE DEF b
<1>3. Len(d) = b[n] /\ b[0] = Len(p) + at[0]
  <2>1. Len(d) = Len(p) + Len(f)
    BY <1>0, ConcatProperties
  <2>2. n \in 0..n /\ 0 \in 0..n
    OBVIOUS
  <2> QED
    BY <1>0, <1>1, <1>2, <2>1, <2>2
<1>4. ASSUME NEW k \in 1..n
      PROVE  /\ Shows(d, b[k - 1], names[k])
             /\ ShowsCell(d, b[k - 1] + Len(names[k]) + 1, vals[k])
             /\ b[k] = b[k - 1] + Len(names[k]) + 2
  <2>1. PICK t, c, a, i : t = names[k] /\ c = vals[k] /\ a = at[k - 1] /\ i = k - 1
    OBVIOUS
  <2>2. i \in 0..n /\ k \in 0..n /\ TextOf(t, C) /\ Len(t) \in Nat /\ a \in Nat
    <3>1. i \in 0..n /\ k \in 0..n /\ TextOf(t, C)
      BY <2>1
    <3>2. Len(t) \in Nat
      BY <3>1 DEF TextOf, IsText
    <3>3. a \in Nat
      BY <1>1, <2>1, <3>1
    <3> QED
      BY <3>1, <3>2, <3>3
  <2>3. Shows(f, a, t) /\ ShowsCell(f, a + Len(t) + 1, c) /\ at[k] = a + Len(t) + 2
    BY <2>1 DEF Listed
  <2>4. Shows(d, m + a, t)
    BY <1>0, <2>2, <2>3, ShownBehind
  <2>5. ShowsCell(d, m + (a + Len(t) + 1), c)
    BY <1>0, <2>2, <2>3, CellShownBehind
  <2>6. b[i] = m + a /\ b[k] = m + at[k]
    BY <1>2, <2>1, <2>2
  <2>7. m + (a + Len(t) + 1) = (m + a) + Len(t) + 1 /\ m + (a + Len(t) + 2) = (m + a) + Len(t) + 2
    BY <1>1, <2>2
  <2> QED
    BY <2>1, <2>3, <2>4, <2>5, <2>6, <2>7
<1>5. Listed(d, b, n, names, vals)
  BY <1>2, <1>3, <1>4 DEF Listed
<1> QED
  BY <1>0, <1>3, <1>5

----------------------------------------------------------------------------
(* The recursions that take a list apart.                                  *)

\* g is the recursion over S that goes from x to nxt[x] with row[x], up to L.
Recurs(g, S, L, mu, row, nxt) ==
  g = [x \in S |-> IF mu[x] >= L THEN <<>> ELSE row[x] \o g[nxt[x]]]

\* It exists if it goes up.
LEMMA RecursionExists ==
  ASSUME NEW S, NEW L \in Nat, NEW mu \in [S -> Nat], NEW row, NEW nxt \in [S -> S],
         \A x \in S : mu[nxt[x]] > mu[x]
  PROVE  \E g : Recurs(g, S, L, mu, row, nxt)
<1> DEFINE Near(j) == {x \in S : mu[x] + j >= L}
<1>1. \E g : Recurs(g, Near(0), L, mu, row, nxt)
  <2> DEFINE g == [x \in Near(0) |-> <<>>]
  <2>1. Recurs(g, Near(0), L, mu, row, nxt)
    <3>1. \A x \in Near(0) : mu[x] >= L
      OBVIOUS
    <3> QED
      BY <3>1 DEF Recurs
  <2> QED
    BY <2>1
<1>2. ASSUME NEW j \in Nat, NEW g, Recurs(g, Near(j), L, mu, row, nxt)
      PROVE  \E h : Recurs(h, Near(j + 1), L, mu, row, nxt)
  <2> DEFINE h == [x \in Near(j + 1) |-> IF mu[x] >= L THEN <<>> ELSE row[x] \o g[nxt[x]]]
  <2>1. ASSUME NEW x \in Near(j) PROVE x \in Near(j + 1)
    OBVIOUS
  <2>2. ASSUME NEW x \in Near(j + 1) PROVE nxt[x] \in Near(j)
    <3>1. PICK y \in S : y = nxt[x]
      OBVIOUS
    <3>2. mu[y] > mu[x] /\ mu[y] \in Nat /\ mu[x] \in Nat /\ mu[x] + (j + 1) >= L
      BY <3>1
    <3> QED
      BY <3>1, <3>2
  <2>3. g = [x \in Near(j) |-> IF mu[x] >= L THEN <<>> ELSE row[x] \o g[nxt[x]]]
    BY <1>2 DEF Recurs
  <2> HIDE DEF Near
  <2>4. \A x \in Near(j) : h[x] = g[x]
    BY <2>1, <2>3
  <2>5. \A x \in Near(j + 1) : h[nxt[x]] = g[nxt[x]]
    <3> HIDE DEF h
    <3> QED
      BY <2>2, <2>4
  <2>6. Recurs(h, Near(j + 1), L, mu, row, nxt)
    BY <2>5 DEF Recurs
  <2> HIDE DEF h
  <2> QED
    BY <2>6
<1> HIDE DEF Near
<1> DEFINE T == {j \in Nat : \E g : Recurs(g, Near(j), L, mu, row, nxt)}
<1>3. 0 \in T /\ \A j \in Nat : j \in T => j + 1 \in T
  BY <1>1, <1>2
<1> HIDE DEF T
<1>4. L \in T
  BY <1>3, Induction
<1>5. Near(L) = S
  BY DEF Near
<1> QED
  BY <1>4, <1>5 DEF T

\* Its way, and what it makes of the elements on it.
Way(way, n, e, S, L, mu, row, nxt) ==
  /\ way \in [0..n -> S] /\ mu[way[n]] >= L /\ e = [k \in 1..n |-> e[k]]
  /\ \A k \in 1..n : mu[way[k - 1]] < L /\ row[way[k - 1]] = <<e[k]>> /\ nxt[way[k - 1]] = way[k]

LEMMA RecursionUnrolled ==
  ASSUME NEW S, NEW L \in Nat, NEW mu \in [S -> Nat], NEW row, NEW nxt \in [S -> S],
         NEW g, Recurs(g, S, L, mu, row, nxt),
         NEW n \in Nat, NEW e, NEW way, Way(way, n, e, S, L, mu, row, nxt)
  PROVE  g[way[0]] = e
<1>0. /\ way \in [0..n -> S] /\ mu[way[n]] >= L
      /\ \A k \in 1..n :
            mu[way[k - 1]] < L /\ row[way[k - 1]] = <<e[k]>> /\ nxt[way[k - 1]] = way[k]
  BY DEF Way
<1> DEFINE E == {e[k] : k \in 1..n}
<1>00. \A k \in 1..n : e[k] \in E
  OBVIOUS
<1> HIDE DEF E
<1>1. \A x \in S : g[x] = IF mu[x] >= L THEN <<>> ELSE row[x] \o g[nxt[x]]
  BY DEF Recurs
<1> DEFINE Right(j) == g[way[n - j]] \in Seq(E) /\ Len(g[way[n - j]]) = j
                       /\ \A i \in 1..j : g[way[n - j]][i] = e[(n - j) + i]
           T == {j \in Nat : j <= n => Right(j)}
<1>2. 0 \in T
  <2>1. n - 0 = n /\ way[n] \in S
    BY <1>0
  <2>2. g[way[n]] = <<>>
    BY <1>0, <1>1, <2>1
  <2>3. <<>> \in Seq(E) /\ Len(<<>>) = 0 /\ \A i \in 1..0 : FALSE
    OBVIOUS
  <2> QED
    BY <2>1, <2>2, <2>3
<1>3. ASSUME NEW j \in Nat, j \in T PROVE j + 1 \in T
  <2> SUFFICES ASSUME j + 1 <= n PROVE Right(j + 1)
    OBVIOUS
  <2>1. PICK k : k = n - j
    OBVIOUS
  <2>2. k \in 1..n /\ n - (j + 1) = k - 1 /\ k - 1 \in 0..n /\ k \in 0..n
    BY <2>1
  <2>3. PICK x, q, r : x = way[k - 1] /\ q = g[way[k]] /\ r = g[x]
    OBVIOUS
  <2>4. q \in Seq(E) /\ Len(q) = j /\ \A i \in 1..j : q[i] = e[k + i]
    BY <1>3, <2>1, <2>3
  <2>5. x \in S /\ mu[x] \in Nat /\ mu[x] < L /\ row[x] = <<e[k]>> /\ nxt[x] = way[k]
    BY <1>0, <2>2, <2>3
  <2>6. r = <<e[k]>> \o q
    <3>1. ~(mu[x] >= L)
      BY <2>5
    <3>2. r = row[x] \o g[nxt[x]]
      BY <1>1, <2>3, <2>5, <3>1
    <3> QED
      BY <2>3, <2>5, <3>2
  <2>7. PICK c : c = <<e[k]>>
    OBVIOUS
  <2>8. c \in Seq(E) /\ Len(c) = 1 /\ c[1] = e[k]
    <3>1. e[k] \in E
      BY <1>00, <2>2
    <3> QED
      BY <2>7, <3>1
  <2>9. /\ c \o q \in Seq(E) /\ Len(c \o q) = Len(c) + Len(q)
        /\ \A i \in 1..(Len(c) + Len(q)) : (c \o q)[i] = IF i <= Len(c) THEN c[i] ELSE q[i - Len(c)]
    BY <2>4, <2>8, ConcatProperties
  <2>10. r = c \o q
    BY <2>6, <2>7
  <2>11. /\ r \in Seq(E) /\ Len(r) = j + 1
         /\ \A i \in 1..(1 + j) : r[i] = IF i <= 1 THEN c[i] ELSE q[i - 1]
    <3>1. Len(c) + Len(q) = 1 + j /\ 1 + j = j + 1
      BY <2>4, <2>8
    <3>2. r \in Seq(E) /\ Len(r) = Len(c) + Len(q)
          /\ \A i \in 1..(Len(c) + Len(q)) : r[i] = IF i <= Len(c) THEN c[i] ELSE q[i - Len(c)]
      BY <2>9, <2>10
    <3> QED
      BY <2>4, <2>8, <3>1, <3>2
  <2>12. ASSUME NEW i \in 1..(j + 1) PROVE r[i] = e[(k - 1) + i]
    <3>1. CASE i = 1
      <4>1. i \in 1..(1 + j) /\ (k - 1) + i = k
        BY <2>2, <3>1
      <4> QED
        BY <2>8, <2>11, <3>1, <4>1
    <3>2. CASE i # 1
      <4>1. PICK l : l = i - 1
        OBVIOUS
      <4>2. i \in 1..(1 + j) /\ ~(i <= 1) /\ l \in 1..j /\ (k - 1) + i = k + l
        <5>1. k \in Int /\ i \in Int
          BY <2>2
        <5>2. (k - 1) + i = k + l /\ l \in 1..j /\ i \in 1..(1 + j) /\ ~(i <= 1)
          BY <3>2, <4>1, <5>1
        <5> QED
          BY <5>2
      <4> QED
        BY <2>4, <2>11, <4>1, <4>2
    <3> QED
      BY <3>1, <3>2
  <2> QED
    BY <2>2, <2>3, <2>11, <2>12
<1>4. Nat \subseteq T
  <2> HIDE DEF T
  <2> QED
    BY <1>2, <1>3, Induction
<1>5. PICK q : q = g[way[0]]
  OBVIOUS
<1>6. q \in Seq(E) /\ Len(q) = n /\ \A i \in 1..n : q[i] = e[i]
  <2>1. n \in T /\ n - n = 0 /\ \A i \in 1..n : 0 + i = i
    <3> HIDE DEF T
    <3> QED
      BY <1>4
  <2>2. g[way[n - n]] = q
    BY <1>5, <2>1
  <2>3. Right(n)
    BY <2>1
  <2> QED
    BY <2>1, <2>2, <2>3
<1>7. q = [i \in 1..n |-> q[i]] /\ e = [i \in 1..n |-> e[i]]
  BY <1>6 DEF Way
<1> QED
  BY <1>5, <1>6, <1>7

\* strlen() ends somewhere, at the latest behind the data.
LEMMA LengthIsNatural ==
  ASSUME NEW C, NEW d \in Seq(C), NEW at \in Nat
  PROVE  LengthAt(d, at) \in Nat
<1> DEFINE Ends(n) == CellAt(d, at + n) \in {NUL, Garbage}
           S == {n \in 0..Len(d) : Ends(n)}
<1>1. Len(d) \in Nat /\ Len(d) \in 0..Len(d)
  OBVIOUS
<1>2. Len(d) \in S
  <2>1. ~(at + Len(d) < Len(d))
    BY <1>1
  <2> QED
    BY <1>1, <2>1 DEF CellAt
<1>3. S \subseteq Nat
  OBVIOUS
<1>4. PICK n \in S : \A m \in S : n <= m
  <2> HIDE DEF S
  <2> QED
    BY <1>2, <1>3, Least
<1>5. ASSUME NEW k \in 0..(n - 1) PROVE ~Ends(k)
  <2>1. n \in 0..Len(d)
    OBVIOUS
  <2>2. k \in 0..Len(d) /\ ~(n <= k)
    BY <1>1, <2>1
  <2> HIDE DEF Ends
  <2> QED
    BY <1>4, <2>2
<1>6. \E m \in 0..Len(d) : Ends(m) /\ \A k \in 0..(m - 1) : ~Ends(k)
  <2>1. n \in 0..Len(d) /\ Ends(n)
    OBVIOUS
  <2> HIDE DEF Ends, S
  <2> QED
    BY <1>5, <2>1
<1>7. LengthAt(d, at) = CHOOSE m \in 0..Len(d) : Ends(m) /\ \A k \in 0..(m - 1) : ~Ends(k)
  BY DEF LengthAt
<1> HIDE DEF Ends
<1>8. LengthAt(d, at) \in 0..Len(d)
  BY <1>6, <1>7
<1> QED
  BY <1>1, <1>8

\* A name, its value and the next name.
LEMMA EntryTaken ==
  ASSUME NEW C, NEW d \in Seq(C), NEW n \in Nat, NEW names, NEW vals, NEW at,
         \A k \in 1..n : TextOf(names[k], C), Listed(d, at, n, names, vals), NEW k \in 1..n
  PROVE  /\ at[k - 1] \in Nat /\ at[k] \in Nat /\ at[k - 1] < Len(d)
         /\ LengthAt(d, at[k - 1]) = Len(names[k]) /\ StringAt(d, at[k - 1]) = names[k]
         /\ CellAt(d, at[k - 1] + (LengthAt(d, at[k - 1]) + 1)) = vals[k]
         /\ at[k] = at[k - 1] + (LengthAt(d, at[k - 1]) + 1) + 1
<1>1. PICK t, c, a, l : t = names[k] /\ c = vals[k] /\ a = at[k - 1] /\ l = Len(t)
  OBVIOUS
<1>2. k - 1 \in 0..n /\ k \in 0..n /\ TextOf(t, C)
  BY <1>1
<1>3. l \in Nat /\ IsText(t)
  BY <1>1, <1>2 DEF TextOf, IsText
<1>4. a \in Nat /\ at[k] \in Nat
  <2>1. at \in [0..n -> Nat]
    BY DEF Listed
  <2> QED
    BY <1>1, <1>2, <2>1
<1>5. Shows(d, a, t) /\ ShowsCell(d, a + l + 1, c) /\ at[k] = a + l + 2
  BY <1>1 DEF Listed
<1>6. LengthAt(d, a) = l /\ StringAt(d, a) = t
  BY <1>1, <1>3, <1>5, TextShown
<1>7. CellAt(d, a + l + 1) = c
  BY <1>5, CellShown
<1>8. a < Len(d)
  <2>1. a + l < Len(d) /\ Len(d) \in Nat
    BY <1>1, <1>5 DEF Shows
  <2> QED
    BY <1>3, <1>4, <2>1
<1>9. a + (l + 1) = a + l + 1 /\ a + l + 2 = a + (l + 1) + 1
  BY <1>3, <1>4
<1> QED
  BY <1>1, <1>4, <1>5, <1>6, <1>7, <1>8, <1>9

\* The mappings that BuildMappingStatuses() finds.
LEMMA MappingsFound ==
  ASSUME NEW C, NEW d \in Seq(C), NEW n \in Nat, NEW names, NEW vals, NEW at,
         \A k \in 1..n : TextOf(names[k], C), Listed(d, at, n, names, vals)
  PROVE  BuildMappingStatuses(d, at[0])
           = [k \in 1..n |-> [device_name |-> names[k], mapping_status |-> vals[k]]]
<1> DEFINE mu == [x \in Nat |-> x]
           row == [x \in Nat |-> <<[device_name |-> StringAt(d, x),
                                    mapping_status |-> CellAt(d, x + (LengthAt(d, x) + 1))]>>]
           nxt == [x \in Nat |-> x + (LengthAt(d, x) + 1) + 1]
           L == Len(d)
           e == [k \in 1..n |-> [device_name |-> names[k], mapping_status |-> vals[k]]]
           Build(g) == g = [x \in Nat |->
                              IF x >= Len(d)
                              THEN <<>>
                              ELSE LET nNameLen == LengthAt(d, x) + 1
                                   IN <<[device_name |-> StringAt(d, x),
                                         mapping_status |-> CellAt(d, x + nNameLen)]>>
                                      \o g[x + nNameLen + 1]]
<1>1. \A x \in Nat : LengthAt(d, x) \in Nat
  BY LengthIsNatural
<1>2. L \in Nat /\ mu \in [Nat -> Nat] /\ nxt \in [Nat -> Nat] /\ \A x \in Nat : mu[nxt[x]] > mu[x]
  <2>1. \A x \in Nat : x + (LengthAt(d, x) + 1) + 1 \in Nat /\ x + (LengthAt(d, x) + 1) + 1 > x
    <3> SUFFICES ASSUME NEW x \in Nat
                 PROVE  x + (LengthAt(d, x) + 1) + 1 \in Nat /\ x + (LengthAt(d, x) + 1) + 1 > x
      OBVIOUS
    <3>1. PICK l \in Nat : l = LengthAt(d, x)
      BY <1>1
    <3>2. x + (l + 1) + 1 \in Nat /\ x + (l + 1) + 1 > x
      OBVIOUS
    <3> QED
      BY <3>1, <3>2
  <2> QED
    BY <2>1
<1>3. \A g : Build(g) <=> Recurs(g, Nat, L, mu, row, nxt)
  BY DEF Recurs
<1>4. BuildMappingStatuses(d, at[0]) = (CHOOSE g : Build(g))[at[0]]
  BY DEF BuildMappingStatuses
<1> HIDE DEF mu, row, nxt, L, Build
<1>5. \E g : Recurs(g, Nat, L, mu, row, nxt)
  BY <1>2, RecursionExists
<1>6. PICK g : g = (CHOOSE h : Build(h)) /\ Recurs(g, Nat, L, mu, row, nxt)
  BY <1>3, <1>5
<1>7. at \in [0..n -> Nat] /\ Len(d) = at[n]
  BY DEF Listed
<1>8. e = [k \in 1..n |-> e[k]]
  OBVIOUS
<1>9. \A k \in 1..n : e[k] = [device_name |-> names[k], mapping_status |-> vals[k]]
  OBVIOUS
<1> HIDE DEF e
<1>10. mu[at[n]] >= L
  <2>1. at[n] \in Nat
    BY <1>7
  <2> QED
    BY <1>7, <2>1 DEF mu, L
<1>11. ASSUME NEW k \in 1..n
       PROVE  mu[at[k - 1]] < L /\ row[at[k - 1]] = <<e[k]>> /\ nxt[at[k - 1]] = at[k]
  <2>1. /\ at[k - 1] \in Nat /\ at[k] \in Nat /\ at[k - 1] < Len(d)
        /\ LengthAt(d, at[k - 1]) = Len(names[k]) /\ StringAt(d, at[k - 1]) = names[k]
        /\ CellAt(d, at[k - 1] + (LengthAt(d, at[k - 1]) + 1)) = vals[k]
        /\ at[k] = at[k - 1] + (LengthAt(d, at[k - 1]) + 1) + 1
    BY EntryTaken
  <2>2. PICK a \in Nat : a = at[k - 1]
    BY <2>1
  <2>3. mu[a] < L
    BY <2>1, <2>2 DEF mu, L
  <2>4. row[a] = <<e[k]>>
    BY <1>9, <2>1, <2>2 DEF row
  <2>5. nxt[a] = at[k]
    BY <2>1, <2>2 DEF nxt
  <2> QED
    BY <2>2, <2>3, <2>4, <2>5
<1>12. g[at[0]] = e
  <2>1. Way(at, n, e, Nat, L, mu, row, nxt)
    BY <1>7, <1>8, <1>10, <1>11 DEF Way
  <2>2. Recurs(g, Nat, L, mu, row, nxt)
    BY <1>6
  <2>3. PICK S : S = Nat
    OBVIOUS
  <2>4. L \in Nat /\ mu \in [S -> Nat] /\ nxt \in [S -> S]
    BY <1>2, <2>3
  <2>5. Way(at, n, e, S, L, mu, row, nxt) /\ Recurs(g, S, L, mu, row, nxt)
    BY <2>1, <2>2, <2>3
  <2> QED
    BY <2>4, <2>5, RecursionUnrolled
<1> QED
  BY <1>4, <1>6, <1>12 DEF e

\* The brokers that BuildBrokerList() finds: all the addresses and the first distance.
LEMMA BrokersFound ==
  ASSUME NEW C, NEW d \in Seq(C), NEW n \in Nat, NEW names, NEW vals, NEW at,
         \A k \in 1..n : TextOf(names[k], C), Listed(d, at, n, names, vals)
  PROVE  at[0] = 0 =>
         \E found : /\ BuildBrokerList(d)
                         = [k \in 1..n |-> [szAddress |-> names[k], nDistance |-> found[k]]]
                    /\ n # 0 => found[1] = vals[1]
<1>0. ASSUME NEW k \in 1..n
      PROVE  /\ at[k - 1] \in Nat /\ at[k] \in Nat /\ at[k - 1] < Len(d)
             /\ LengthAt(d, at[k - 1]) = Len(names[k]) /\ StringAt(d, at[k - 1]) = names[k]
             /\ CellAt(d, at[k - 1] + (LengthAt(d, at[k - 1]) + 1)) = vals[k]
             /\ at[k] = at[k - 1] + (LengthAt(d, at[k - 1]) + 1) + 1
  BY EntryTaken
<1> SUFFICES ASSUME at[0] = 0
             PROVE  \E found :
                      /\ BuildBrokerList(d)
                           = [k \in 1..n |-> [szAddress |-> names[k], nDistance |-> found[k]]]
                      /\ n # 0 => found[1] = vals[1]
  OBVIOUS
<1> DEFINE S == Nat \X Nat
           mu == [p \in S |-> p[2]]
           row == [p \in S |-> <<[szAddress |-> StringAt(d, p[1]),
                                  nDistance |-> CellAt(d, p[1] + p[2] + (LengthAt(d, p[1]) + 1))]>>]
           nxt == [p \in S |-> <<p[1] + (LengthAt(d, p[1]) + 1) + 1,
                                 p[2] + (LengthAt(d, p[1]) + 1) + 1>>]
           L == Len(d)
           found == [k \in 1..n |-> CellAt(d, at[k - 1] + at[k - 1] + (LengthAt(d, at[k - 1]) + 1))]
           e == [k \in 1..n |-> [szAddress |-> names[k], nDistance |-> found[k]]]
           way == [k \in 0..n |-> <<at[k], at[k]>>]
           Build(g) == g = [p \in Nat \X Nat |->
                              LET a == p[1]
                                  nCursor == p[2]
                                  nNameLen == LengthAt(d, a) + 1
                              IN IF nCursor >= Len(d)
                                 THEN <<>>
                                 ELSE <<[szAddress |-> StringAt(d, a),
                                         nDistance |-> CellAt(d, a + nCursor + nNameLen)]>>
                                      \o g[<<a + nNameLen + 1, nCursor + nNameLen + 1>>]]
<1>1. \A x \in Nat : LengthAt(d, x) \in Nat
  BY LengthIsNatural
<1>2. L \in Nat /\ mu \in [S -> Nat] /\ nxt \in [S -> S] /\ \A p \in S : mu[nxt[p]] > mu[p]
  <2>1. ASSUME NEW p \in S
        PROVE  /\ p[1] + (LengthAt(d, p[1]) + 1) + 1 \in Nat /\ p[2] \in Nat
               /\ p[2] + (LengthAt(d, p[1]) + 1) + 1 \in Nat
               /\ p[2] + (LengthAt(d, p[1]) + 1) + 1 > p[2]
    <3>1. p[1] \in Nat /\ p[2] \in Nat
      OBVIOUS
    <3>2. LengthAt(d, p[1]) \in Nat
      BY <1>1, <3>1
    <3> QED
      BY <3>1, <3>2
  <2> QED
    BY <2>1
<1>3. \A g : Build(g) <=> Recurs(g, S, L, mu, row, nxt)
  BY DEF Recurs
<1>4. BuildBrokerList(d) = (CHOOSE g : Build(g))[<<0, 0>>]
  BY DEF BuildBrokerList
<1> HIDE DEF mu, row, nxt, L, Build
<1>5. \E g : Recurs(g, S, L, mu, row, nxt)
  <2> HIDE DEF S
  <2> QED
    BY <1>2, RecursionExists
<1>6. PICK g : g = (CHOOSE h : Build(h)) /\ Recurs(g, S, L, mu, row, nxt)
  BY <1>3, <1>5
<1>7. at \in [0..n -> Nat] /\ Len(d) = at[n]
  BY DEF Listed
<1>8. e = [k \in 1..n |-> e[k]]
  OBVIOUS
<1>9. \A k \in 1..n : e[k] = [szAddress |-> names[k], nDistance |-> found[k]]
  OBVIOUS
<1>10. \A k \in 1..n :
          found[k] = CellAt(d, at[k - 1] + at[k - 1] + (LengthAt(d, at[k - 1]) + 1))
  OBVIOUS
<1>11. way \in [0..n -> S] /\ \A k \in 0..n : way[k] = <<at[k], at[k]>>
  BY <1>7
<1> HIDE DEF e, found, way
<1>12. mu[way[n]] >= L
  <2>1. at[n] \in Nat /\ n \in 0..n
    BY <1>7
  <2> QED
    BY <1>7, <1>11, <2>1 DEF mu, L
<1>13. ASSUME NEW k \in 1..n
       PROVE  mu[way[k - 1]] < L /\ row[way[k - 1]] = <<e[k]>> /\ nxt[way[k - 1]] = way[k]
  <2>1. /\ at[k - 1] \in Nat /\ at[k] \in Nat /\ at[k - 1] < Len(d)
        /\ LengthAt(d, at[k - 1]) = Len(names[k]) /\ StringAt(d, at[k - 1]) = names[k]
        /\ CellAt(d, at[k - 1] + (LengthAt(d, at[k - 1]) + 1)) = vals[k]
        /\ at[k] = at[k - 1] + (LengthAt(d, at[k - 1]) + 1) + 1
    BY <1>0
  <2>2. PICK a \in Nat, p \in S : a = at[k - 1] /\ p = way[k - 1]
    <3>1. k - 1 \in 0..n
      OBVIOUS
    <3>2. way[k - 1] \in S
      BY <1>11, <3>1
    <3> QED
      BY <2>1, <3>2
  <2>3. p = <<a, a>> /\ p[1] = a /\ p[2] = a /\ way[k] = <<at[k], at[k]>>
    <3>1. k - 1 \in 0..n /\ k \in 0..n
      OBVIOUS
    <3>2. way[k - 1] = <<a, a>> /\ way[k] = <<at[k], at[k]>>
      BY <1>11, <2>2, <3>1
    <3> QED
      BY <2>2, <3>2
  <2>4. mu[p] < L
    BY <2>1, <2>2, <2>3 DEF mu, L
  <2>5. row[p] = <<e[k]>>
    <3>1. row[p] = <<[szAddress |-> StringAt(d, p[1]),
                      nDistance |-> CellAt(d, p[1] + p[2] + (LengthAt(d, p[1]) + 1))]>>
      BY DEF row
    <3>2. row[p] = <<[szAddress |-> StringAt(d, a),
                      nDistance |-> CellAt(d, a + a + (LengthAt(d, a) + 1))]>>
      BY <2>3, <3>1
    <3>3. StringAt(d, a) = names[k] /\ found[k] = CellAt(d, a + a + (LengthAt(d, a) + 1))
      BY <1>10, <2>1, <2>2
    <3> QED
      BY <1>9, <3>2, <3>3
  <2>6. nxt[p] = way[k]
    BY <2>1, <2>2, <2>3 DEF nxt
  <2> QED
    BY <2>2, <2>4, <2>5, <2>6
<1>14. g[way[0]] = e
  <2>1. Way(way, n, e, S, L, mu, row, nxt)
    BY <1>8, <1>11, <1>12, <1>13 DEF Way
  <2>2. Recurs(g, S, L, mu, row, nxt)
    BY <1>6
  <2>3. L \in Nat /\ mu \in [S -> Nat] /\ nxt \in [S -> S]
    BY <1>2
  <2> HIDE DEF S
  <2> QED
    BY <2>1, <2>2, <2>3, RecursionUnrolled
<1>15. way[0] = <<0, 0>>
  BY <1>11
<1>16. ASSUME n # 0 PROVE found[1] = vals[1]
  <2>1. 1 \in 1..n /\ 1 - 1 = 0
    BY <1>16
  <2>2. CellAt(d, at[0] + (LengthAt(d, at[0]) + 1)) = vals[1]
    BY <2>1, EntryTaken
  <2>3. found[1] = CellAt(d, at[0] + at[0] + (LengthAt(d, at[0]) + 1))
    BY <1>10, <2>1
  <2>4. LengthAt(d, 0) \in Nat
    BY <1>1
  <2>5. 0 + 0 = 0
    OBVIOUS
  <2> QED
    BY <2>2, <2>3, <2>5
<1> QED
  BY <1>4, <1>6, <1>14, <1>15, <1>16 DEF e

----------------------------------------------------------------------------
(* The kinds of messages.                                                  *)

\* The information on the status is understood.
LEMMA StatusInfoUnderstood ==
  ASSUME NEW i, WellTyped("StatusInfo", i)
  PROVE  ClientMsgTranslator(Send_StatusInfo(i)) = <<"StatusInfo", i>>
<1> DEFINE C == {i.eStatus, i.nStatus}
           data == <<i.eStatus, i.nStatus>>
           raw == CreateMessage("StatusInfo", data)
<1>1. data \in Seq(C) /\ Len(data) = 2 /\ data[1] = i.eStatus /\ data[2] = i.nStatus
  OBVIOUS
<1>2. raw = Send_StatusInfo(i)
  BY DEF Send_StatusInfo
<1>3. i = [eStatus |-> i.eStatus, nStatus |-> i.nStatus]
  BY DEF WellTyped
<1> HIDE DEF data, C
<1>4. raw[1] = "StatusInfo" /\ SubSeq(raw, MSG_HEADER_LEN + 1, MSG_HEADER_LEN + raw[2]) = data
  BY <1>1, DataTranslated
<1>5. TranslateStatusInfo(data) = i
  <2>1. CellAt(data, 0) = i.eStatus /\ CellAt(data, 1) = i.nStatus
    BY <1>1 DEF CellAt
  <2> QED
    BY <1>3, <2>1 DEF TranslateStatusInfo
<1> HIDE DEF raw
<1>6. ClientMsgTranslator(raw) = <<"StatusInfo", i>>
  BY <1>4, <1>5 DEF ClientMsgTranslator
<1> QED
  BY <1>2, <1>6

\* The information on the tunnel is.
LEMMA TunnelInfoUnderstood ==
  ASSUME NEW i, WellTyped("TunnelInfo", i)
  PROVE  ClientMsgTranslator(Send_TunnelInfo(i)) = <<"TunnelInfo", i>>
<1> DEFINE C == {NUL, i.eTunnelType, i.tunnelUpTime}
                \cup UNION {{i[f][k] : k \in 1..Len(i[f])} : f \in TunnelTexts}
<1>1. /\ i = [f \in TunnelTexts \cup {"eTunnelType", "tunnelUpTime"} |-> i[f]]
      /\ \A f \in TunnelTexts : IsText(i[f])
  BY DEF WellTyped
<1>2. NUL \in C /\ i.eTunnelType \in C /\ i.tunnelUpTime \in C
  OBVIOUS
<1>3. ASSUME NEW f \in TunnelTexts PROVE TextOf(i[f], C)
  <2>1. \A k \in 1..Len(i[f]) : i[f][k] \in C
    OBVIOUS
  <2> HIDE DEF C
  <2> QED
    BY <1>1, <2>1 DEF TextOf
<1> HIDE DEF C
<1>0. PICK B : B = C
  OBVIOUS
<1>4. PICK t1, t2, t3, t4, t5, t6, t7, c1, c2 :
         /\ t1 = i.szBrokerName /\ t2 = i.szIPV4AddrLocalEndpoint
         /\ t3 = i.szIPV6AddrLocalEndpoint /\ t4 = i.szIPV4AddrRemoteEndpoint
         /\ t5 = i.szIPV6AddrRemoteEndpoint /\ t6 = i.szDelegatedPrefix /\ t7 = i.szUserDomain
         /\ c1 = i.eTunnelType /\ c2 = i.tunnelUpTime
  OBVIOUS
<1>5. /\ TextOf(t1, B) /\ TextOf(t2, B) /\ TextOf(t3, B) /\ TextOf(t4, B) /\ TextOf(t5, B)
      /\ TextOf(t6, B) /\ TextOf(t7, B) /\ c1 \in B /\ c2 \in B /\ NUL \in B
  BY <1>0, <1>2, <1>3, <1>4 DEF TunnelTexts
<1>6. PICK d : d = String(t1) \o <<c1>> \o String(t2) \o String(t3) \o String(t4) \o String(t5)
                     \o String(t6) \o String(t7) \o <<c2>>
  OBVIOUS
<1>7. TunnelData(d, t1, c1, t2, t3, t4, t5, t6, t7, c2)
  BY <1>6 DEF TunnelData
<1>8. PICK raw : raw = CreateMessage("TunnelInfo", d)
  OBVIOUS
<1>9. Send_TunnelInfo(i) = raw
  BY <1>4, <1>6, <1>8 DEF Send_TunnelInfo
<1>10. d \in Seq(B) /\ TranslateTunnelInfo(d) =
           TunnelInfoOf(t1, c1, t2, t3, t4, t5, t6, t7, c2)
  BY <1>5, <1>7, TunnelFields
<1>11. raw[1] = "TunnelInfo" /\ SubSeq(raw, MSG_HEADER_LEN + 1, MSG_HEADER_LEN + raw[2]) = d
  BY <1>8, <1>10, DataTranslated
<1>12. i = TunnelInfoOf(t1, c1, t2, t3, t4, t5, t6, t7, c2)
  BY <1>1, <1>4 DEF TunnelTexts, TunnelInfoOf
<1>13. TranslateTunnelInfo(d) = i
  BY <1>10, <1>12
<1>14. ClientMsgTranslator(raw) = <<"TunnelInfo", i>>
  BY <1>11, <1>13 DEF ClientMsgTranslator
<1> QED
  BY <1>9, <1>14

\* The configuration of Home Access is.
LEMMA ConfigInfoUnderstood ==
  ASSUME NEW i, WellTyped("HACCESSConfigInfo", i)
  PROVE  ServerMsgTranslator(Send_HACCESSConfigInfo(i)) = <<"HACCESSConfigInfo", i>>
<1> DEFINE C == {NUL, i.proxy_enabled, i.web_enabled, i.devmap_changed}
                \cup {i.doc_root[k] : k \in 1..Len(i.doc_root)}
<1>1. /\ i = [doc_root |-> i.doc_root, proxy_enabled |-> i.proxy_enabled,
              web_enabled |-> i.web_enabled, devmap_changed |-> i.devmap_changed]
      /\ IsText(i.doc_root)
  BY DEF WellTyped
<1>2. PICK t, c1, c2, c3 : /\ t = i.doc_root /\ c1 = i.proxy_enabled
                           /\ c2 = i.web_enabled /\ c3 = i.devmap_changed
  OBVIOUS
<1>3. NUL \in C /\ c1 \in C /\ c2 \in C /\ c3 \in C /\ \A k \in 1..Len(t) : t[k] \in C
  BY <1>2
<1> HIDE DEF C
<1>4. TextOf(t, C)
  BY <1>1, <1>2, <1>3 DEF TextOf
<1>5. PICK d, raw : d = String(t) \o <<c1, c2, c3>> /\ raw = CreateMessage("HACCESSConfigInfo", d)
  OBVIOUS
<1>6. d \in Seq(C) /\ TranslateHACCESSConfigInfo(d) =
        [doc_root |-> t, proxy_enabled |-> c1, web_enabled |-> c2, devmap_changed |-> c3]
  <2>1. PICK B : B = C
    OBVIOUS
  <2>2. NUL \in B /\ c1 \in B /\ c2 \in B /\ c3 \in B /\ TextOf(t, B)
    BY <1>3, <1>4, <2>1
  <2>3. ConfigInfoData(d, t, c1, c2, c3)
    BY <1>5 DEF ConfigInfoData
  <2>4. d \in Seq(B) /\ TranslateHACCESSConfigInfo(d) =
          [doc_root |-> t, proxy_enabled |-> c1, web_enabled |-> c2, devmap_changed |-> c3]
    BY <2>2, <2>3, ConfigFields
  <2> QED
    BY <2>1, <2>4
<1>7. raw[1] = "HACCESSConfigInfo"
      /\ SubSeq(raw, MSG_HEADER_LEN + 1, MSG_HEADER_LEN + raw[2]) = d
  BY <1>5, <1>6, DataTranslated
<1>8. TranslateHACCESSConfigInfo(d) = i
  BY <1>1, <1>2, <1>6
<1>9. ServerMsgTranslator(raw) = <<"HACCESSConfigInfo", i>>
  BY <1>7, <1>8 DEF ServerMsgTranslator, Requests
<1>10. Send_HACCESSConfigInfo(i) = raw
  BY <1>2, <1>5 DEF Send_HACCESSConfigInfo
<1> QED
  BY <1>9, <1>10

\* A request is.
LEMMA RequestUnderstood ==
  ASSUME NEW id \in Requests
  PROVE  ServerMsgTranslator(Send_Request(id)) = <<id, NULL>>
<1>1. PICK d, raw : d = <<>> /\ raw = CreateMessage(id, d)
  OBVIOUS
<1>2. d \in Seq({})
  BY <1>1
<1>3. raw[1] = id
  BY <1>1, <1>2, DataTranslated
<1>4. raw = Send_Request(id)
  BY <1>1 DEF Send_Request
<1>5. ServerMsgTranslator(raw) = <<id, NULL>>
  BY <1>3 DEF ServerMsgTranslator, Requests
<1> QED
  BY <1>4, <1>5

\* Names and values are among the cells of a list's data.
LEMMA ListCells ==
  ASSUME NEW n \in Nat, NEW names, NEW vals, \A k \in 1..n : IsText(names[k])
  PROVE  \E C : NUL \in C /\ \A k \in 1..n : TextOf(names[k], C) /\ vals[k] \in C
<1> DEFINE C == {NUL} \cup {vals[k] : k \in 1..n}
                \cup UNION {{names[k][j] : j \in 1..Len(names[k])} : k \in 1..n}
<1>1. NUL \in C
  OBVIOUS
<1>2. ASSUME NEW k \in 1..n PROVE TextOf(names[k], C) /\ vals[k] \in C
  <2>1. vals[k] \in C /\ \A j \in 1..Len(names[k]) : names[k][j] \in C
    OBVIOUS
  <2> HIDE DEF C
  <2> QED
    BY <2>1 DEF TextOf
<1> HIDE DEF C
<1> QED
  BY <1>1, <1>2

\* The information on the status of Home Access is.
LEMMA StatusesUnderstood ==
  ASSUME NEW i, WellTyped("HACCESSStatusInfo", i)
  PROVE  ClientMsgTranslator(Send_HACCESSStatusInfo(i)) = <<"HACCESSStatusInfo", i>>
<1>1. PICK l, n, c1, c2, c3 :
        /\ l = i.devmap_statuses /\ n = Len(l)
        /\ c1 = i.proxy_status /\ c2 = i.web_status /\ c3 = i.devmapmod_status
  OBVIOUS
<1>2. i = [proxy_status |-> c1, web_status |-> c2, devmapmod_status |-> c3, devmap_statuses |-> l]
  BY <1>1 DEF WellTyped
<1>3. n \in Nat /\ l = [k \in 1..n |-> l[k]]
  BY <1>1 DEF WellTyped, IsList
<1>4. \A k \in 1..n :
         /\ l[k] = [device_name |-> l[k].device_name, mapping_status |-> l[k].mapping_status]
         /\ IsText(l[k].device_name)
  BY <1>1 DEF WellTyped
<1> DEFINE names == [k \in 1..n |-> l[k].device_name]
           vals == [k \in 1..n |-> l[k].mapping_status]
<1>5. \A k \in 1..n : IsText(names[k]) /\ l[k] = [device_name |-> names[k], mapping_status |-> vals[k]]
  BY <1>4
<1>6. [k \in DOMAIN i.devmap_statuses |->
              Append(String(i.devmap_statuses[k].device_name), i.devmap_statuses[k].mapping_status)]
        = Entries(n, names, vals)
  <2>1. DOMAIN l = 1..n
    BY <1>3
  <2> QED
    BY <1>1, <2>1 DEF Entries
<1> HIDE DEF names, vals
<1>7. PICK C : NUL \in C /\ \A k \in 1..n : TextOf(names[k], C) /\ vals[k] \in C
  BY <1>3, <1>5, ListCells
<1>8. PICK s, f : s = Entries(n, names, vals) /\ f = FlattenSeq(s)
  OBVIOUS
<1>9. f \in Seq(C)
  BY <1>3, <1>7, <1>8, ListLaidOut
<1>10. PICK at : at[0] = 0 /\ Listed(f, at, n, names, vals)
  BY <1>3, <1>7, <1>8, ListLaidOut
<1>11. PICK D : /\ C \subseteq D /\ NUL \in D /\ c1 \in D /\ c2 \in D /\ c3 \in D
                /\ \A k \in 1..n : TextOf(names[k], D)
  <2> DEFINE E == C \cup {c1, c2, c3}
  <2>1. C \subseteq E /\ NUL \in E /\ c1 \in E /\ c2 \in E /\ c3 \in E
    BY <1>7
  <2>2. \A k \in 1..n : TextOf(names[k], E)
    BY <1>7 DEF TextOf
  <2> HIDE DEF E
  <2> QED
    BY <2>1, <2>2
<1>12. f \in Seq(D)
  BY <1>9, <1>11, SeqMonotonic
<1>13. PICK p, d, raw : p = <<c1, c2, c3>> /\ d = p \o f /\ raw = CreateMessage("HACCESSStatusInfo", d)
  OBVIOUS
<1>14. p \in Seq(D) /\ Len(p) = 3 /\ p[1] = c1 /\ p[2] = c2 /\ p[3] = c3
  BY <1>11, <1>13
<1>15. d \in Seq(D)
  BY <1>12, <1>13, <1>14, ConcatProperties
<1>16. CellAt(d, 0) = c1 /\ CellAt(d, 1) = c2 /\ CellAt(d, 2) = c3
  <2>1. PICK m \in Nat : m = Len(f)
    BY <1>12
  <2>2. /\ Len(p \o f) = Len(p) + Len(f)
        /\ \A k \in 1..(Len(p) + Len(f)) : (p \o f)[k] = IF k <= Len(p) THEN p[k] ELSE f[k - Len(p)]
    BY <1>12, <1>14, ConcatProperties
  <2>3. Len(d) = 3 + m /\ \A k \in 1..(3 + m) : d[k] = IF k <= 3 THEN p[k] ELSE f[k - 3]
    BY <1>13, <1>14, <2>1, <2>2
  <2>4. d[1] = c1 /\ d[2] = c2 /\ d[3] = c3
    <3>1. 1 \in 1..(3 + m) /\ 2 \in 1..(3 + m) /\ 3 \in 1..(3 + m)
      OBVIOUS
    <3> QED
      BY <1>14, <2>3, <3>1
  <2> QED
    BY <2>3, <2>4 DEF CellAt
<1>17. PICK b : b[0] = Len(p) + at[0] /\ Listed(p \o f, b, n, names, vals)
  <2>1. p \in Seq(D) /\ Listed(f, at, n, names, vals)
    BY <1>10, <1>14
  <2> QED
    BY <1>3, <1>11, <1>12, <2>1, ListedBehind
<1>18. b[0] = 3 /\ Listed(d, b, n, names, vals)
  BY <1>10, <1>13, <1>14, <1>17
<1>19. BuildMappingStatuses(d, b[0])
         = [k \in 1..n |-> [device_name |-> names[k], mapping_status |-> vals[k]]]
  <2>1. Listed(d, b, n, names, vals)
    BY <1>18
  <2> QED
    BY <1>3, <1>11, <1>15, <2>1, MappingsFound
<1>20. BuildMappingStatuses(d, 3) = l
  BY <1>3, <1>5, <1>18, <1>19
<1>21. TranslateHACCESSStatusInfo(d) = i
  BY <1>2, <1>16, <1>20 DEF TranslateHACCESSStatusInfo
<1>22. raw[1] = "HACCESSStatusInfo"
       /\ SubSeq(raw, MSG_HEADER_LEN + 1, MSG_HEADER_LEN + raw[2]) = d
  BY <1>13, <1>15, DataTranslated
<1>23. ClientMsgTranslator(raw) = <<"HACCESSStatusInfo", i>>
  BY <1>21, <1>22 DEF ClientMsgTranslator
<1>24. Send_HACCESSStatusInfo(i) = raw
  BY <1>1, <1>6, <1>8, <1>13 DEF Send_HACCESSStatusInfo
<1> QED
  BY <1>23, <1>24

\* What is legible of a list of brokers is.
LEMMA BrokersUnderstood ==
  ASSUME NEW l, WellTyped("BrokerList", l)
  PROVE  Legible(ClientMsgTranslator(Send_BrokerList(l))) = Legible(<<"BrokerList", l>>)
<1>1. PICK n : n = Len(l)
  OBVIOUS
<1>2. n \in Nat /\ l = [k \in 1..n |-> l[k]]
  BY <1>1 DEF WellTyped, IsList
<1>3. \A k \in 1..n :
         /\ l[k] = [szAddress |-> l[k].szAddress, nDistance |-> l[k].nDistance]
         /\ IsText(l[k].szAddress)
  BY <1>1 DEF WellTyped
<1> DEFINE names == [k \in 1..n |-> l[k].szAddress]
           vals == [k \in 1..n |-> l[k].nDistance]
<1>4. \A k \in 1..n : IsText(names[k]) /\ l[k] = [szAddress |-> names[k], nDistance |-> vals[k]]
  BY <1>3
<1>5. [k \in DOMAIN l |-> Append(String(l[k].szAddress), l[k].nDistance)] = Entries(n, names, vals)
  <2>1. DOMAIN l = 1..n
    BY <1>2
  <2> QED
    BY <2>1 DEF Entries
<1> HIDE DEF names, vals
<1>6. PICK C : NUL \in C /\ \A k \in 1..n : TextOf(names[k], C) /\ vals[k] \in C
  BY <1>2, <1>4, ListCells
<1>7. PICK s, d, raw : s = Entries(n, names, vals) /\ d = FlattenSeq(s) /\ raw = CreateMessage("BrokerList", d)
  OBVIOUS
<1>8. d \in Seq(C)
  BY <1>2, <1>6, <1>7, ListLaidOut
<1>9. PICK at : at[0] = 0 /\ Listed(d, at, n, names, vals)
  BY <1>2, <1>6, <1>7, ListLaidOut
<1>10. PICK found : /\ BuildBrokerList(d) = [k \in 1..n |-> [szAddress |-> names[k], nDistance |-> found[k]]]
                    /\ n # 0 => found[1] = vals[1]
  BY <1>2, <1>6, <1>8, <1>9, BrokersFound
<1>11. raw[1] = "BrokerList"
       /\ SubSeq(raw, MSG_HEADER_LEN + 1, MSG_HEADER_LEN + raw[2]) = d
  BY <1>7, <1>8, DataTranslated
<1>12. PICK r : r = [k \in 1..n |-> [szAddress |-> names[k], nDistance |-> found[k]]]
  OBVIOUS
<1>13. ClientMsgTranslator(raw) = <<"BrokerList", r>>
  BY <1>10, <1>11, <1>12 DEF ClientMsgTranslator
<1>14. Send_BrokerList(l) = raw
  BY <1>5, <1>7 DEF Send_BrokerList
<1> DEFINE Seen(q) == [k \in DOMAIN q |-> IF k = 1 THEN q[k] ELSE [q[k] EXCEPT !.nDistance = NULL]]
<1>15. Seen(r) = Seen(l)
  <2>1. DOMAIN r = 1..n /\ DOMAIN l = 1..n
    BY <1>2, <1>12
  <2>2. ASSUME NEW k \in 1..n
        PROVE  (IF k = 1 THEN r[k] ELSE [r[k] EXCEPT !.nDistance = NULL])
                  = IF k = 1 THEN l[k] ELSE [l[k] EXCEPT !.nDistance = NULL]
    <3>1. /\ r[k] = [szAddress |-> names[k], nDistance |-> found[k]]
          /\ l[k] = [szAddress |-> names[k], nDistance |-> vals[k]]
      BY <1>4, <1>12
    <3>2. k = 1 => found[k] = vals[k]
      BY <1>10
    <3>3. [r[k] EXCEPT !.nDistance = NULL] = [szAddress |-> names[k], nDistance |-> NULL]
      BY <3>1
    <3>4. [l[k] EXCEPT !.nDistance = NULL] = [szAddress |-> names[k], nDistance |-> NULL]
      BY <3>1
    <3> QED
      BY <3>1, <3>2, <3>3, <3>4
  <2> QED
    BY <2>1, <2>2
<1>16. \A q : Legible(<<"BrokerList", q>>) = <<"BrokerList", Seen(q)>>
  BY DEF Legible
<1> QED
  BY <1>13, <1>14, <1>15, <1>16

\* What side u makes of a message.
Translated(u, raw) == IF u = "client" THEN ServerMsgTranslator(raw) ELSE ClientMsgTranslator(raw)

\* What is legible of a message is what the other side makes of it.
LEMMA Understood ==
  ASSUME NEW u \in Side, NEW m \in Sendable(u)
  PROVE  Legible(Translated(Other(u), m.raw)) = Legible(m.about)
<1>1. PICK id, info :
        /\ m.about = <<id, info>> /\ m.raw = Send(id, info)
        /\ id \in (IF u = "client" THEN FromClient ELSE FromGUI) /\ WellTyped(id, info)
  BY SentAssumption
<1>2. CASE u = "client"
  <2>1. Translated(Other(u), m.raw) = ClientMsgTranslator(m.raw)
    BY <1>2 DEF Other, Translated
  <2>2. id \in FromClient
    BY <1>1, <1>2
  <2>3. CASE id = "StatusInfo"
    BY <1>1, <2>1, <2>3, StatusInfoUnderstood DEF Send
  <2>4. CASE id = "TunnelInfo"
    BY <1>1, <2>1, <2>4, TunnelInfoUnderstood DEF Send
  <2>5. CASE id = "BrokerList"
    BY <1>1, <2>1, <2>5, BrokersUnderstood DEF Send
  <2>6. CASE id = "HACCESSStatusInfo"
    BY <1>1, <2>1, <2>6, StatusesUnderstood DEF Send
  <2> QED
    BY <2>2, <2>3, <2>4, <2>5, <2>6 DEF FromClient
<1>3. CASE u # "client"
  <2>1. Translated(Other(u), m.raw) = ServerMsgTranslator(m.raw)
    BY <1>3 DEF Other, Translated, Side
  <2>2. id \in FromGUI
    BY <1>1, <1>3
  <2>3. CASE id = "HACCESSConfigInfo"
    BY <1>1, <2>1, <2>3, ConfigInfoUnderstood DEF Send
  <2>4. CASE id \in Requests
    <3>1. m.raw = Send_Request(id) /\ info = NULL
      BY <1>1, <2>4 DEF Send, Requests, WellTyped
    <3> QED
      BY <1>1, <2>1, <2>4, <3>1, RequestUnderstood
  <2> QED
    BY <2>2, <2>3, <2>4 DEF FromGUI
<1> QED
  BY <1>2, <1>3

----------------------------------------------------------------------------
(* The packets of a stream of messages.                                    *)

\* The cells of fragment f of a message.
Piece(raw, f) == SubSeq(raw, f * PacketMax + 1, Min({f * PacketMax + PacketMax, Len(raw)}))

LastPiece(raw, f) == (f + 1) * PacketMax >= Len(raw)

\* The packet p is fragment f of a message.
Carries(p, raw, f) ==
  /\ f * PacketMax < Len(raw)
  /\ p.data = Piece(raw, f)
  /\ EndsMessage(p) <=> LastPiece(raw, f)

\* The packets are successive fragments of the messages ms, packet i being fragment fr[i]
\* of message mk[i]; the one to follow them is fragment fr[Len(packets) + 1] of message
\* mk[Len(packets) + 1].
Stream(packets, ms, mk, fr) ==
  /\ mk \in [1..(Len(packets) + 1) -> Nat] /\ fr \in [1..(Len(packets) + 1) -> Nat]
  /\ \A i \in 1..Len(packets) :
       /\ mk[i] \in 1..Len(ms)
       /\ Carries(packets[i], ms[mk[i]].raw, fr[i])
       /\ mk[i + 1] = IF LastPiece(ms[mk[i]].raw, fr[i]) THEN mk[i] + 1 ELSE mk[i]
       /\ fr[i + 1] = IF LastPiece(ms[mk[i]].raw, fr[i]) THEN 0 ELSE fr[i] + 1

\* The packets lead from fragment f of message k to fragment g of message l.
Leads(packets, ms, k, f, l, g) ==
  \E mk, fr :
    /\ Stream(packets, ms, mk, fr)
    /\ mk[1] = k /\ fr[1] = f /\ mk[Len(packets) + 1] = l /\ fr[Len(packets) + 1] = g

LEMMA LeadsNowhere ==
  ASSUME NEW ms, NEW k \in Nat, NEW f \in Nat
  PROVE  Leads(<<>>, ms, k, f, k, f)
<1> DEFINE mk == [i \in 1..1 |-> k]
           fr == [i \in 1..1 |-> f]
<1>1. Stream(<<>>, ms, mk, fr) /\ mk[1] = k /\ fr[1] = f
  BY DEF Stream
<1> HIDE DEF mk, fr
<1> QED
  BY <1>1 DEF Leads

LEMMA LeadsNumbers ==
  ASSUME NEW P, NEW packets \in Seq(P), NEW ms, NEW k, NEW f, NEW l, NEW g,
         Leads(packets, ms, k, f, l, g)
  PROVE  k \in Nat /\ f \in Nat /\ l \in Nat /\ g \in Nat
<1> DEFINE n == Len(packets)
<1>1. n \in Nat /\ 1 \in 1..(n + 1) /\ n + 1 \in 1..(n + 1)
  OBVIOUS
<1>2. PICK mk, fr :
        /\ mk \in [1..(n + 1) -> Nat] /\ fr \in [1..(n + 1) -> Nat]
        /\ mk[1] = k /\ fr[1] = f /\ mk[n + 1] = l /\ fr[n + 1] = g
  BY DEF Leads, Stream
<1> HIDE DEF n
<1> QED
  BY <1>1, <1>2

\* A message more does not matter.
LEMMA LeadsLonger ==
  ASSUME NEW P, NEW packets \in Seq(P), NEW M, NEW ms \in Seq(M), NEW m \in M,
         NEW k, NEW f, NEW l, NEW g, Leads(packets, ms, k, f, l, g)
  PROVE  Leads(packets, Append(ms, m), k, f, l, g)
<1> DEFINE more == Append(ms, m)
<1>1. Len(more) = Len(ms) + 1 /\ Len(ms) \in Nat /\ \A i \in 1..Len(ms) : more[i] = ms[i]
  OBVIOUS
<1>2. PICK mk, fr :
        /\ Stream(packets, ms, mk, fr)
        /\ mk[1] = k /\ fr[1] = f /\ mk[Len(packets) + 1] = l /\ fr[Len(packets) + 1] = g
  BY DEF Leads
<1> HIDE DEF more
<1>3. Stream(packets, more, mk, fr)
  <2>1. \A i \in 1..Len(packets) : mk[i] \in 1..Len(more) /\ more[mk[i]] = ms[mk[i]]
    <3>1. \A i \in 1..Len(packets) : mk[i] \in 1..Len(ms)
      BY <1>2 DEF Stream
    <3>2. \A i \in 1..Len(ms) : i \in 1..Len(more)
      BY <1>1
    <3> QED
      BY <1>1, <3>1, <3>2
  <2> QED
    BY <1>2, <2>1 DEF Stream
<1>4. Leads(packets, more, k, f, l, g)
  BY <1>2, <1>3 DEF Leads
<1> QED
  BY <1>4 DEF more

\* The packet that follows.
LEMMA LeadsOn ==
  ASSUME NEW P, NEW packets \in Seq(P), NEW p \in P, NEW ms, NEW k, NEW f, NEW l, NEW g,
         Leads(packets, ms, k, f, l, g), l \in 1..Len(ms), Carries(p, ms[l].raw, g)
  PROVE  Leads(Append(packets, p), ms, k, f,
               IF LastPiece(ms[l].raw, g) THEN l + 1 ELSE l,
               IF LastPiece(ms[l].raw, g) THEN 0 ELSE g + 1)
<1> DEFINE n == Len(packets)
           more == Append(packets, p)
           l1 == IF LastPiece(ms[l].raw, g) THEN l + 1 ELSE l
           g1 == IF LastPiece(ms[l].raw, g) THEN 0 ELSE g + 1
<1>1. n \in Nat /\ Len(more) = n + 1 /\ more[n + 1] = p /\ \A i \in 1..n : more[i] = packets[i]
  OBVIOUS
<1>2. PICK mk, fr :
        /\ Stream(packets, ms, mk, fr)
        /\ mk[1] = k /\ fr[1] = f /\ mk[n + 1] = l /\ fr[n + 1] = g
  BY DEF Leads
<1>3. l1 \in Nat /\ g1 \in Nat
  BY LeadsNumbers
<1> DEFINE mk1 == [i \in 1..(n + 2) |-> IF i = n + 2 THEN l1 ELSE mk[i]]
           fr1 == [i \in 1..(n + 2) |-> IF i = n + 2 THEN g1 ELSE fr[i]]
<1> HIDE DEF n, more
<1>4. /\ mk \in [1..(n + 1) -> Nat] /\ fr \in [1..(n + 1) -> Nat]
      /\ \A i \in 1..n :
           /\ mk[i] \in 1..Len(ms)
           /\ Carries(packets[i], ms[mk[i]].raw, fr[i])
           /\ mk[i + 1] = IF LastPiece(ms[mk[i]].raw, fr[i]) THEN mk[i] + 1 ELSE mk[i]
           /\ fr[i + 1] = IF LastPiece(ms[mk[i]].raw, fr[i]) THEN 0 ELSE fr[i] + 1
  BY <1>2 DEF Stream, n
<1>5. /\ \A i \in 1..(n + 1) : mk1[i] = mk[i] /\ fr1[i] = fr[i]
      /\ mk1[n + 2] = l1 /\ fr1[n + 2] = g1
      /\ DOMAIN mk1 = 1..(n + 2) /\ DOMAIN fr1 = 1..(n + 2)
  BY <1>1
<1>6. mk1 \in [1..(n + 2) -> Nat] /\ fr1 \in [1..(n + 2) -> Nat]
  <2> SUFFICES ASSUME NEW i \in 1..(n + 2)
               PROVE  (IF i = n + 2 THEN l1 ELSE mk[i]) \in Nat /\ (IF i = n + 2 THEN g1 ELSE fr[i]) \in Nat
    OBVIOUS
  <2> HIDE DEF l1, g1
  <2>1. i = n + 2 \/ i \in 1..(n + 1)
    BY <1>1
  <2> QED
    BY <1>3, <1>4, <2>1
<1> HIDE DEF l1, g1, mk1, fr1
<1>7. ASSUME NEW i \in 1..(n + 1)
      PROVE  /\ mk1[i] \in 1..Len(ms)
             /\ Carries(more[i], ms[mk1[i]].raw, fr1[i])
             /\ mk1[i + 1] = IF LastPiece(ms[mk1[i]].raw, fr1[i]) THEN mk1[i] + 1 ELSE mk1[i]
             /\ fr1[i + 1] = IF LastPiece(ms[mk1[i]].raw, fr1[i]) THEN 0 ELSE fr1[i] + 1
  <2>1. CASE i \in 1..n
    <3>1. i + 1 \in 1..(n + 1)
      BY <1>1, <2>1
    <3> QED
      BY <1>1, <1>4, <1>5, <2>1, <3>1
  <2>2. CASE i = n + 1
    <3>1. mk1[i] = l /\ fr1[i] = g /\ more[i] = p /\ i + 1 = n + 2
      BY <1>1, <1>2, <1>5, <2>2
    <3> QED
      BY <1>5, <3>1 DEF l1, g1
  <2> QED
    BY <1>1, <2>1, <2>2
<1>8. Stream(more, ms, mk1, fr1)
  <2>1. n + 2 = Len(more) + 1
    BY <1>1
  <2> QED
    BY <1>1, <1>6, <1>7, <2>1 DEF Stream
<1>9. mk1[1] = k /\ fr1[1] = f /\ mk1[Len(more) + 1] = l1 /\ fr1[Len(more) + 1] = g1
  <2>1. Len(more) + 1 = n + 2 /\ 1 \in 1..(n + 1)
    BY <1>1
  <2> QED
    BY <1>2, <1>5, <2>1
<1>10. Leads(more, ms, k, f, l1, g1)
  BY <1>8, <1>9 DEF Leads
<1> QED
  BY <1>10 DEF more, l1, g1

\* What is left behind the first packet.
LEMMA LeadsFrom ==
  ASSUME NEW P, NEW packets \in Seq(P), packets # <<>>, NEW ms, NEW k, NEW f, NEW l, NEW g,
         Leads(packets, ms, k, f, l, g)
  PROVE  /\ k \in 1..Len(ms) /\ Carries(Head(packets), ms[k].raw, f)
         /\ Leads(Tail(packets), ms,
                  IF LastPiece(ms[k].raw, f) THEN k + 1 ELSE k,
                  IF LastPiece(ms[k].raw, f) THEN 0 ELSE f + 1, l, g)
<1> DEFINE n == Len(packets)
           rest == Tail(packets)
           k1 == IF LastPiece(ms[k].raw, f) THEN k + 1 ELSE k
           f1 == IF LastPiece(ms[k].raw, f) THEN 0 ELSE f + 1
<1>1. /\ n \in Nat /\ n >= 1 /\ Len(rest) = n - 1 /\ Head(packets) = packets[1]
      /\ \A i \in 1..(n - 1) : rest[i] = packets[i + 1]
  OBVIOUS
<1>2. PICK mk, fr :
        /\ Stream(packets, ms, mk, fr)
        /\ mk[1] = k /\ fr[1] = f /\ mk[n + 1] = l /\ fr[n + 1] = g
  BY DEF Leads
<1> DEFINE mk1 == [i \in 1..n |-> mk[i + 1]]
           fr1 == [i \in 1..n |-> fr[i + 1]]
<1> HIDE DEF n, rest
<1>3. /\ mk \in [1..(n + 1) -> Nat] /\ fr \in [1..(n + 1) -> Nat]
      /\ \A i \in 1..n :
           /\ mk[i] \in 1..Len(ms)
           /\ Carries(packets[i], ms[mk[i]].raw, fr[i])
           /\ mk[i + 1] = IF LastPiece(ms[mk[i]].raw, fr[i]) THEN mk[i] + 1 ELSE mk[i]
           /\ fr[i + 1] = IF LastPiece(ms[mk[i]].raw, fr[i]) THEN 0 ELSE fr[i] + 1
  BY <1>2 DEF Stream, n
<1>4. k \in 1..Len(ms) /\ Carries(Head(packets), ms[k].raw, f) /\ mk[2] = k1 /\ fr[2] = f1
  <2>1. 1 \in 1..n /\ 1 + 1 = 2
    BY <1>1
  <2> QED
    BY <1>1, <1>2, <1>3, <2>1
<1>5. /\ \A i \in 1..n : mk1[i] = mk[i + 1] /\ fr1[i] = fr[i + 1] /\ i + 1 \in 1..(n + 1)
      /\ DOMAIN mk1 = 1..n /\ DOMAIN fr1 = 1..n
  BY <1>1
<1>6. mk1 \in [1..n -> Nat] /\ fr1 \in [1..n -> Nat]
  BY <1>3, <1>5
<1> HIDE DEF k1, f1, mk1, fr1
<1>7. ASSUME NEW i \in 1..(n - 1)
      PROVE  /\ mk1[i] \in 1..Len(ms)
             /\ Carries(rest[i], ms[mk1[i]].raw, fr1[i])
             /\ mk1[i + 1] = IF LastPiece(ms[mk1[i]].raw, fr1[i]) THEN mk1[i] + 1 ELSE mk1[i]
             /\ fr1[i + 1] = IF LastPiece(ms[mk1[i]].raw, fr1[i]) THEN 0 ELSE fr1[i] + 1
  <2>1. i \in 1..n /\ i + 1 \in 1..n
    BY <1>1
  <2> QED
    BY <1>1, <1>3, <1>5, <2>1
<1>8. Stream(rest, ms, mk1, fr1)
  <2>1. n = Len(rest) + 1 /\ n - 1 = Len(rest)
    BY <1>1
  <2> QED
    BY <1>6, <1>7, <2>1 DEF Stream
<1>9. mk1[1] = k1 /\ fr1[1] = f1 /\ mk1[Len(rest) + 1] = l /\ fr1[Len(rest) + 1] = g
  <2>1. Len(rest) + 1 = n /\ 1 \in 1..n /\ n \in 1..n /\ 1 + 1 = 2
    BY <1>1
  <2> QED
    BY <1>2, <1>4, <1>5, <2>1
<1>10. Leads(rest, ms, k1, f1, l, g)
  BY <1>8, <1>9 DEF Leads
<1> QED
  BY <1>4, <1>10 DEF rest, k1, f1

\* The first f fragments of a message.
Assembled(cells, ms, k, f) ==
  IF f = 0
  THEN cells = <<>>
  ELSE /\ k \in 1..Len(ms) /\ f * PacketMax < Len(ms[k].raw)
       /\ cells = SubSeq(ms[k].raw, 1, f * PacketMax)

LEMMA AssembledMore ==
  ASSUME NEW raw \in Seq(Cells), NEW f \in Nat, f * PacketMax < Len(raw), NEW cells,
         cells = IF f = 0 THEN <<>> ELSE SubSeq(raw, 1, f * PacketMax)
  PROVE  cells \o Piece(raw, f) = IF LastPiece(raw, f) THEN raw ELSE SubSeq(raw, 1, (f + 1) * PacketMax)
<1> DEFINE d == PacketMax
           a == f * d
           n == Len(raw)
           e == Min({a + d, n})
<1>1. d \in Nat /\ d > 0 /\ n \in Nat /\ a \in Nat /\ (f + 1) * d = a + d /\ a < n
      /\ \A i \in 1..n : raw[i] \in Cells
  <2>1. d \in Nat /\ d > 0
    BY SizesAssumption
  <2> HIDE DEF d
  <2>2. a \in Nat /\ (f + 1) * d = a + d
    BY <2>1
  <2> QED
    BY <2>1, <2>2 DEF d
<1>2. f = 0 => a = 0
  BY <1>1
<1> HIDE DEF d, a, n
<1>3. e = (IF a + d <= n THEN a + d ELSE n) /\ e \in Nat /\ a + 1 <= e /\ e <= n
  BY <1>1, MinOfTwo
<1> HIDE DEF e
<1>4. cells = SubSeq(raw, 1, a)
  <2>1. f = 0 => SubSeq(raw, 1, a) = <<>>
    BY <1>2, SubSeqEmpty
  <2> QED
    BY <2>1 DEF a, d
<1>5. Piece(raw, f) = SubSeq(raw, a + 1, e)
  BY DEF Piece, a, d, e, n
<1>6. cells \o Piece(raw, f) = SubSeq(raw, 1, e)
  <2>1. 1 \in 1..(n + 1) /\ a \in (1 - 1)..n /\ e \in a..n
    BY <1>1, <1>3
  <2> QED
    BY <1>4, <1>5, <2>1, ConcatAdjacentSubSeq DEF n
<1>7. CASE LastPiece(raw, f)
  <2>1. e = n
    BY <1>1, <1>3, <1>7 DEF LastPiece, d, n
  <2>2. SubSeq(raw, 1, n) = raw
    BY SubSeqFull DEF n
  <2> QED
    BY <1>6, <1>7, <2>1, <2>2
<1>8. CASE ~LastPiece(raw, f)
  <2>1. e = a + d
    BY <1>1, <1>3, <1>8 DEF LastPiece, d, n
  <2> QED
    BY <1>1, <1>6, <1>8, <2>1 DEF d
<1> QED
  BY <1>7, <1>8

----------------------------------------------------------------------------
(* Where the messages are between their sender and their receiver.         *)

Abouts == {m.about : m \in Messages}

Handlings ==
  {ServerMsgTranslator(d) : d \in Seq(Cells)} \cup {ClientMsgTranslator(d) : d \in Seq(Cells)}

Buffers == [data : Seq(Cells), seq : 0..(SeqNums - 1) \cup {NULL}, frag : Nat \cup {NULL}]

Histories ==
  /\ link \in [Side -> {"none", "listening", "up", "broken"}]
  /\ buf \in [Side -> Buffers]
  /\ sent \in [Side -> Seq(Abouts)]
  /\ got \in [Side -> Seq(Handlings)]

\* Only gogoc's receiver thread posts.
Belongs ==
  \A s \in Side :
    /\ queue[s] \in Seq(Sendable(s))
    /\ \A t \in Thread : post[s][t].pc = "push" => post[s][t].msg \in Sendable(s)

\* No thread of gogoc's is left when it offers its pipe again.
Listening ==
  \A s \in Side :
    link[s] = "listening" => s = "client" /\ spc[s] = "none" /\ rpc[s] = "none" /\ mpc[s] # "start"

\* The side is connected, and its threads are yet to be started.
Fresh(s) == mpc[s] = "start" \/ (mpc[s] = "accept" /\ link[s] # "listening")

\* Where the receiver of what s sends is: the next packet it reads is fragment f of message k.
ReaderAt(s, ms, k, f) ==
  LET o == Other(s)
      n == Len(got[s])
  IN /\ Fresh(o) \/ rpc[o] \in {"poll", "lock", "posting"} => k = n + 1 /\ f = 0
     /\ rpc[o] = "reading" => k = n + 1 /\ Assembled(buf[o].data, ms, k, f)
     /\ rpc[o] = "process" =>
          k = n + 2 /\ f = 0 /\ n + 1 \in 1..Len(ms) /\ buf[o].data = ms[n + 1].raw

\* Where the sender is: the next packet it writes is fragment g of message l.
WriterAt(s, ms, l, g) ==
  LET n == Len(sent[s])
  IN /\ Fresh(s) \/ spc[s] \in {"wait", "check", "lock", "pop"} => l = n + 1 /\ g = 0
     /\ spc[s] = "writing" =>
          l = n /\ g = nFragSeqNum[s] /\ n \in 1..Len(ms) /\ ms[n] = Head(queue[s])

\* The messages whose sending has begun.
Begun(s, ms) ==
  /\ ms \in Seq(Sendable(s)) /\ Len(ms) = Len(sent[s])
  /\ \A i \in 1..Len(ms) : sent[s][i] = ms[i].about

\* The pipe leads from where the receiver is to where the sender is.
Flow(s) ==
  \E ms, k, f, l, g :
    /\ Begun(s, ms)
    /\ Leads(pipe[s], ms, k, f, l, g)
    /\ ReaderAt(s, ms, k, f)
    /\ WriterAt(s, ms, l, g)

ChannelIInv == IInv /\ Histories /\ Belongs /\ Listening /\ \A s \in Side : Flow(s)

LEMMA SidesFacts == \A s \in Side : Other(s) \in Side /\ Other(s) # s /\ Other(Other(s)) = s
  BY DEF Side, Other

LEMMA SendableFacts ==
  /\ \A s \in Side : Sendable(s) \subseteq Messages
  /\ \A id : Retrieve(id) \subseteq Sendable("client")
  BY DEF Sendable, Messages, Side, Retrieve

\* gogoc's user interface does not answer.
LEMMA OnlyClientAnswers ==
  ASSUME NEW s \in Side, NEW m \in Retrieve(Handled(s)[1])
  PROVE  m \in Sendable(s)
<1>1. CASE s = "client"
  BY <1>1, SendableFacts
<1>2. CASE s = "gui"
  <2> DEFINE id == Handled(s)[1]
  <2>1. id \in FromClient \cup {"MESSAGENOTIMPL"}
    BY <1>2 DEF Handled, ClientMsgTranslator, FromClient
  <2>2. id \notin Requests
    BY <2>1 DEF FromClient, Requests
  <2> HIDE DEF id
  <2>3. Retrieve(id) = {}
    BY <2>2, AnswersAssumption DEF Retrieve
  <2> QED
    BY <2>3 DEF id
<1> QED
  BY <1>1, <1>2 DEF Side

----------------------------------------------------------------------------
(* Steps that move no packet.                                              *)

ReaderStays(u) ==
  /\ Fresh(u)' \/ rpc[u]' \in {"poll", "lock", "posting"} =>
       Fresh(u) \/ rpc[u] \in {"poll", "lock", "posting"}
  /\ rpc[u]' \in {"reading", "process"} => rpc[u] = rpc[u]' /\ buf[u].data' = buf[u].data

WriterStays(u) ==
  /\ Fresh(u)' \/ spc[u]' \in {"wait", "check", "lock", "pop"} =>
       Fresh(u) \/ spc[u] \in {"wait", "check", "lock", "pop"}
  /\ spc[u]' = "writing" =>
       spc[u] = "writing" /\ nFragSeqNum[u]' = nFragSeqNum[u] /\ Head(queue[u]') = Head(queue[u])

LEMMA ReaderStaysAt ==
  ASSUME NEW s \in Side, ReaderStays(Other(s)), got[s]' = got[s],
         NEW ms, NEW k, NEW f, ReaderAt(s, ms, k, f)
  PROVE  ReaderAt(s, ms, k, f)'
  BY DEF ReaderStays, ReaderAt

LEMMA WriterStaysAt ==
  ASSUME NEW s \in Side, WriterStays(s), sent[s]' = sent[s],
         NEW ms, NEW l, NEW g, WriterAt(s, ms, l, g)
  PROVE  WriterAt(s, ms, l, g)'
  BY DEF WriterStays, WriterAt

LEMMA FlowStays ==
  ASSUME NEW s \in Side, Flow(s), pipe[s]' = pipe[s], sent[s]' = sent[s], got[s]' = got[s],
         ReaderStays(Other(s)), WriterStays(s)
  PROVE  Flow(s)'
<1>1. PICK ms, k, f, l, g :
        /\ Begun(s, ms)
        /\ Leads(pipe[s], ms, k, f, l, g)
        /\ ReaderAt(s, ms, k, f)
        /\ WriterAt(s, ms, l, g)
  BY DEF Flow
<1>2. Begun(s, ms)'
  BY <1>1 DEF Begun
<1>3. ReaderAt(s, ms, k, f)'
  BY <1>1, ReaderStaysAt
<1>4. WriterAt(s, ms, l, g)'
  BY <1>1, WriterStaysAt
<1>5. Leads(pipe[s]', ms, k, f, l, g)
  BY <1>1
<1> QED
  BY <1>2, <1>3, <1>4, <1>5 DEF Flow

\* A thread's step that leaves the pipes and the histories alone.
StaysAt(u) == ReaderStays(u) /\ WriterStays(u)

LEMMA AllStay ==
  ASSUME \A s \in Side : Flow(s), UNCHANGED <<pipe, sent, got>>, \A u \in Side : StaysAt(u)
  PROVE  \A s \in Side : Flow(s)'
<1> SUFFICES ASSUME NEW s \in Side PROVE Flow(s)'
  OBVIOUS
<1>1. Other(s) \in Side
  BY SidesFacts
<1>2. pipe[s]' = pipe[s] /\ sent[s]' = sent[s] /\ got[s]' = got[s]
  OBVIOUS
<1>3. ReaderStays(Other(s)) /\ WriterStays(s)
  BY <1>1 DEF StaysAt
<1> QED
  BY <1>2, <1>3, FlowStays

\* The closing of one end: what is under way to it is lost, and nobody is there to take it.
LEMMA CloseKeepsFlow ==
  ASSUME Domains, Histories, \A s \in Side : Flow(s), NEW u \in Side, CloseEnd(u),
         UNCHANGED <<sent, got, nFragSeqNum, buf>>,
         rpc[u]' = "none", spc[u]' = "none", mpc[u]' \notin {"start", "accept"},
         \A v \in Side : v # u => mpc[v]' = mpc[v] /\ spc[v]' = spc[v] /\ rpc[v]' = rpc[v]
                                  /\ queue[v]' = queue[v]
  PROVE  \A s \in Side : Flow(s)'
<1> DEFINE v == Other(u)
<1>1. v \in Side /\ v # u /\ Other(v) = u
  BY SidesFacts
<1>2. /\ link' = [link EXCEPT ![u] = "none", ![v] = IF link[v] = "up" THEN "broken" ELSE link[v]]
      /\ pipe' = [pipe EXCEPT ![v] = <<>>]
  BY <1>1 DEF CloseEnd
<1> HIDE DEF v
<1>3. /\ link[v]' = "listening" <=> link[v] = "listening"
      /\ pipe[v]' = <<>> /\ pipe[u]' = pipe[u]
  BY <1>1, <1>2 DEF Domains, Histories
<1>4. Fresh(v)' = Fresh(v) /\ ~Fresh(u)'
  BY <1>1, <1>3 DEF Fresh
<1>5. Flow(u)'
  <2>1. ReaderStays(v) /\ WriterStays(u)
    BY <1>1, <1>4 DEF ReaderStays, WriterStays
  <2>2. ReaderStays(Other(u))
    BY <2>1 DEF v
  <2> QED
    BY <1>3, <2>1, <2>2, FlowStays
<1>6. Flow(v)'
  <2>1. PICK ms, k, f, l, g :
          Begun(v, ms) /\ Leads(pipe[v], ms, k, f, l, g) /\ WriterAt(v, ms, l, g)
    BY <1>1 DEF Flow
  <2>2. Begun(v, ms)'
    BY <2>1 DEF Begun
  <2>3. WriterStays(v)
    BY <1>1, <1>4 DEF WriterStays
  <2>4. WriterAt(v, ms, l, g)'
    BY <1>1, <2>1, <2>3, WriterStaysAt
  <2>5. ReaderAt(v, ms, l, g)'
    BY <1>1, <1>4 DEF ReaderAt
  <2>6. l \in Nat /\ g \in Nat
    <3>1. pipe[v] \in Seq(Packets)
      BY <1>1 DEF Domains
    <3> QED
      BY <2>1, <3>1, LeadsNumbers
  <2>7. Leads(pipe[v]', ms, l, g, l, g)
    BY <1>3, <2>6, LeadsNowhere
  <2> QED
    BY <2>2, <2>4, <2>5, <2>7 DEF Flow
<1>7. \A s \in Side : s = u \/ s = v
  BY DEF Side, v, Other
<1> QED
  BY <1>5, <1>6, <1>7

----------------------------------------------------------------------------
(* The steps of the threads.                                               *)

\* What a step that moves no packet keeps.
Unmoved ==
  /\ Histories' /\ Belongs' /\ Listening'
  /\ UNCHANGED <<pipe, sent, got>>
  /\ \A u \in Side : StaysAt(u)

\* The manager thread, but for the ends of connections and a new one.
LEMMA ManagerUnmoved ==
  ASSUME NEW s \in Side, IInv, Histories, Belongs, Listening,
         Construct(s) \/ Destroy(s) \/ InitializeFails(s) \/ StartCleanup(s) \/
         GiveUp(s) \/ StopSender(s) \/ TerminateSender(s) \/ StopReceiver(s) \/
         TerminateReceiver(s) \/ CreateConnectionPoint \/ AcceptConnection \/
         StartThreads(s) \/ SetConnected(s)
  PROVE  Unmoved
<1>1. Domains /\ Positions /\ Loaded
  BY DEF IInv, Sending
<1> USE <1>1 DEF Domains, Positions, Gone, Side, Thread, Histories, Belongs, Listening, StaysAt,
    ReaderStays, WriterStays, Fresh, Goto, SetState, manager, pipes, sender, receiver, posts,
    bounds, history, Unmoved
<1>2. CASE Construct(s)
  BY <1>2 DEF Construct
<1>3. CASE Destroy(s)
  BY <1>3 DEF Destroy
<1>4. CASE InitializeFails(s)
  BY <1>4 DEF InitializeFails
<1>5. CASE StartCleanup(s)
  BY <1>5 DEF StartCleanup
<1>6. CASE GiveUp(s)
  BY <1>6 DEF GiveUp
<1>7. CASE StopSender(s)
  BY <1>7 DEF StopSender
<1>8. CASE TerminateSender(s)
  BY <1>8 DEF TerminateSender, SenderBlocked
<1>9. CASE StopReceiver(s)
  BY <1>9 DEF StopReceiver
<1>10. CASE TerminateReceiver(s)
  BY <1>10 DEF TerminateReceiver, ReceiverBlocked
<1>11. CASE CreateConnectionPoint
  BY <1>11 DEF CreateConnectionPoint
<1>12. CASE AcceptConnection
  BY <1>12 DEF AcceptConnection
<1>13. CASE StartThreads(s)
  BY <1>13 DEF StartThreads
<1>14. CASE SetConnected(s)
  BY <1>14 DEF SetConnected
<1> QED
  BY <1>2, <1>3, <1>4, <1>5, <1>6, <1>7, <1>8, <1>9, <1>10, <1>11, <1>12, <1>13, <1>14

\* The sender thread.
LEMMA SenderUnmoved ==
  ASSUME NEW s \in Side, IInv, Histories, Belongs, Listening,
         SenderStops(s) \/ SenderTakes(s) \/ SenderWaitsForReceiver(s) \/
         SenderMayWrite(s) \/ SenderFails(s) \/ SenderCheckTimesOut(s) \/
         SenderLockTimesOut(s)
  PROVE  Unmoved
<1>1. Domains /\ Positions /\ Loaded
  BY DEF IInv, Sending
<1> USE <1>1 DEF Domains, Positions, Gone, Side, Thread, Histories, Belongs, Listening, StaysAt,
    ReaderStays, WriterStays, Fresh, Goto, SetState, manager, pipes, sender, receiver, posts,
    bounds, history, Unmoved
<1>2. CASE SenderStops(s)
  BY <1>2 DEF SenderStops
<1>3. CASE SenderTakes(s)
  BY <1>3 DEF SenderTakes
<1>4. CASE SenderWaitsForReceiver(s)
  BY <1>4 DEF SenderWaitsForReceiver
<1>5. CASE SenderMayWrite(s)
  BY <1>5 DEF SenderMayWrite
<1>6. CASE SenderFails(s)
  BY <1>6 DEF SenderFails, SenderEnds
<1>7. CASE SenderCheckTimesOut(s)
  BY <1>7 DEF SenderCheckTimesOut
<1>8. CASE SenderLockTimesOut(s)
  BY <1>8 DEF SenderLockTimesOut, SenderEnds
<1> QED
  BY <1>2, <1>3, <1>4, <1>5, <1>6, <1>7, <1>8

LEMMA PopUnmoved ==
  ASSUME NEW s \in Side, NEW t \in Thread, IInv, Histories, Belongs, Listening,
         SenderPops(s) \/ SenderPopsMidPush(s, t)
  PROVE  Unmoved
<1>1. Domains /\ Loaded
  BY DEF IInv, Sending
<1>2. /\ spc[s] = "pop" /\ spc' = [spc EXCEPT ![s] = "wait"]
      /\ UNCHANGED <<mpc, link, pipe, rpc, buf, nFragSeqNum, sent, got>>
  BY DEF SenderPops, SenderPopsMidPush, manager, pipes, receiver, history
<1>3. queue[s] \in Seq(Sendable(s)) /\ queue[s] # <<>>
  BY <1>1, <1>2 DEF Belongs, Loaded, Holds
<1>4. Histories' /\ Listening'
  BY <1>1, <1>2 DEF Histories, Listening, Domains
<1>5. /\ queue[s]' \in Seq(Sendable(s))
      /\ \A u \in Side : u # s => queue[u]' = queue[u]
      /\ \A u \in Side, v \in Thread : post[u][v].pc' = "push" => post[u][v]' = post[u][v]
  <2>1. CASE queue' = [queue EXCEPT ![s] = Tail(@)]
    <3>1. Tail(queue[s]) \in Seq(Sendable(s))
      BY <1>3
    <3>2. queue[s]' \in Seq(Sendable(s)) /\ \A u \in Side : u # s => queue[u]' = queue[u]
      BY <1>1, <2>1, <3>1 DEF Domains
    <3>3. post' = post \/ post' = [post EXCEPT ![s][t].pc = "release"]
      BY DEF SenderPops, SenderPopsMidPush
    <3> QED
      BY <1>1, <3>2, <3>3, PushedFacts
  <2>2. CASE SenderPopsMidPush(s, t) /\ \E m \in Sendable(s) : queue' = [queue EXCEPT ![s] = Tail(@) \o <<post[s][t].msg, m>>]
    <3>1. PICK m \in Sendable(s) : queue' = [queue EXCEPT ![s] = Tail(@) \o <<post[s][t].msg, m>>]
      BY <2>2
    <3>2. post[s][t].msg \in Sendable(s) /\ post' = [post EXCEPT ![s][t].pc = "release"]
      BY <2>2 DEF Belongs, SenderPopsMidPush
    <3>3. Tail(queue[s]) \o <<post[s][t].msg, m>> \in Seq(Sendable(s))
      BY <1>3, <3>2, PopFacts
    <3>4. queue[s]' \in Seq(Sendable(s)) /\ \A u \in Side : u # s => queue[u]' = queue[u]
      BY <1>1, <3>1, <3>3 DEF Domains
    <3> QED
      BY <1>1, <3>2, <3>4, PushedFacts
  <2> QED
    BY <2>1, <2>2 DEF SenderPops, SenderPopsMidPush
<1>6. Belongs'
  BY <1>5 DEF Belongs, Sendable
<1>7. \A u \in Side : StaysAt(u)
  BY <1>1, <1>2, <1>5 DEF Domains, StaysAt, ReaderStays, WriterStays, Fresh
<1> QED
  BY <1>2, <1>4, <1>6, <1>7 DEF Unmoved

\* The receiver thread.
LEMMA ReceiverUnmoved ==
  ASSUME NEW s \in Side, IInv, Histories, Belongs, Listening,
         ReceiverStops(s) \/ ReceiverSees(s) \/ ReceiverFails(s) \/ ReceiverGoesOn(s) \/
         ReceiverLockTimesOut(s)
  PROVE  Unmoved
<1>1. Domains /\ Positions /\ Loaded
  BY DEF IInv, Sending
<1> USE <1>1 DEF Domains, Positions, Gone, Side, Thread, Histories, Belongs, Listening, StaysAt,
    ReaderStays, WriterStays, Fresh, Goto, SetState, manager, pipes, sender, receiver, posts,
    bounds, history, Unmoved
<1>2. CASE ReceiverStops(s)
  BY <1>2 DEF ReceiverStops
<1>3. CASE ReceiverSees(s)
  BY <1>3 DEF ReceiverSees
<1>4. CASE ReceiverFails(s)
  BY <1>4 DEF ReceiverFails, ReceiverEnds
<1>5. CASE ReceiverGoesOn(s)
  BY <1>5 DEF ReceiverGoesOn, NoPost
<1>6. CASE ReceiverLockTimesOut(s)
  BY <1>6 DEF ReceiverLockTimesOut, ReceiverEnds
<1> QED
  BY <1>2, <1>3, <1>4, <1>5, <1>6

\* Posting.
LEMMA PostUnmoved ==
  ASSUME NEW s \in Side, IInv, Histories, Belongs, Listening,
         NEW t \in Thread, AppPosts(s) \/ Push(s, t) \/ Release(s, t)
  PROVE  Unmoved
<1>1. Domains /\ Positions /\ Loaded
  BY DEF IInv, Sending
<1> USE <1>1 DEF manager, pipes, sender, receiver, posts, bounds, history
<1>2. UNCHANGED <<mpc, link, pipe, spc, rpc, buf, nFragSeqNum, sent, got>>
  BY DEF AppPosts, Push, Release
<1>3. Histories' /\ Listening'
  BY <1>2 DEF Histories, Listening
<1>4. CASE AppPosts(s)
  <2>1. PICK m \in Postings[s] : StartPost(s, "app", m)
    BY <1>4 DEF AppPosts
  <2>2. m \in Sendable(s) /\ m \in Messages /\ "app" \in Thread
    BY SendableFacts DEF Sendable, Thread
  <2>3. /\ \A u \in Side : u # s => post[u]' = post[u]
        /\ \A v \in Thread : v # "app" => post[s][v]' = post[s][v]
        /\ post[s]["app"].pc' = "push" => post[s]["app"].msg' = m
    BY <2>1, <2>2, StartPostFacts
  <2>4. queue' = queue
    BY <1>4 DEF AppPosts
  <2>5. Belongs'
    BY <2>2, <2>3, <2>4 DEF Belongs
  <2>6. \A u \in Side : StaysAt(u)
    BY <1>2, <2>4 DEF StaysAt, ReaderStays, WriterStays, Fresh
  <2> QED
    BY <1>2, <1>3, <2>5, <2>6 DEF Unmoved
<1>5. CASE Push(s, t)
  <2>1. post[s][t].msg \in Sendable(s) /\ queue[s] \in Seq(Sendable(s))
    BY <1>5 DEF Push, Belongs
  <2>2. /\ \A u \in Side : u # s => queue[u]' = queue[u]
        /\ queue[s]' = queue[s] \/ queue[s]' = Append(queue[s], post[s][t].msg)
    BY <1>5 DEF Push, Domains
  <2>3. queue[s]' \in Seq(Sendable(s)) /\ (queue[s] # <<>> => Head(queue[s]') = Head(queue[s]))
    BY <2>1, <2>2
  <2>4. \A u \in Side, v \in Thread : post[u][v].pc' = "push" => post[u][v] = post[u][v]'
    <3>1. post' = [post EXCEPT ![s][t].pc = "release"]
      BY <1>5 DEF Push
    <3> QED
      BY <3>1 DEF Domains
  <2>5. Belongs'
    BY <2>2, <2>3, <2>4 DEF Belongs
  <2>6. \A u \in Side : StaysAt(u)
    BY <1>2, <2>2, <2>3 DEF StaysAt, ReaderStays, WriterStays, Fresh, Loaded, Holds
  <2> QED
    BY <1>2, <1>3, <2>5, <2>6 DEF Unmoved
<1>6. CASE Release(s, t)
  <2>1. queue' = queue /\ post' = [post EXCEPT ![s][t] = NoPost]
    BY <1>6 DEF Release
  <2>2. Belongs'
    BY <2>1 DEF Belongs, Domains, NoPost
  <2>3. \A u \in Side : StaysAt(u)
    BY <1>2, <2>1 DEF StaysAt, ReaderStays, WriterStays, Fresh
  <2> QED
    BY <1>2, <1>3, <2>2, <2>3 DEF Unmoved
<1> QED
  BY <1>4, <1>5, <1>6

\* What a step that moves packets keeps.
Moved == Histories' /\ Belongs' /\ Listening' /\ \A s \in Side : Flow(s)'

\* The ends of a connection, and of the processes.
LEMMA EndsMoved ==
  ASSUME ChannelIInv, NEW s \in Side, Cleanup(s) \/ AssertionFails(s) \/ (s = "gui" /\ Killed)
  PROVE  Moved
<1>1. Domains /\ Positions
  BY DEF ChannelIInv, IInv
<1> USE <1>1 DEF manager, pipes, sender, receiver, posts, bounds, history
<1>2. /\ CloseEnd(s) /\ UNCHANGED <<sent, got, nFragSeqNum, buf>>
      /\ mpc[s]' \in {"off", "aborted", "initialize"}
      /\ rpc[s]' = "none" /\ spc[s]' = "none"
      /\ \A t \in Thread : post[s][t].pc' = "push" => post[s][t]' = post[s][t]
      /\ queue[s]' = <<>>
      /\ \A v \in Side : v # s => mpc[v]' = mpc[v] /\ spc[v]' = spc[v] /\ rpc[v]' = rpc[v]
                                  /\ queue[v]' = queue[v] /\ post[v]' = post[v]
  <2> USE DEF Domains, Positions, Goto, Side
  <2>1. CASE Cleanup(s)
    BY <2>1 DEF Cleanup
  <2>2. CASE AssertionFails(s)
    BY <2>2 DEF AssertionFails, ProcessEnds, NoPost
  <2>3. CASE s = "gui" /\ Killed
    BY <2>3 DEF Killed, ProcessEnds, NoPost
  <2> QED
    BY <2>1, <2>2, <2>3
<1>3. /\ link[s]' = "none"
      /\ link[Other(s)]' = IF link[Other(s)] = "up" THEN "broken" ELSE link[Other(s)]
      /\ link' \in [Side -> {"none", "listening", "up", "broken"}]
  BY <1>2, SidesFacts DEF CloseEnd, ChannelIInv, Histories
<1>4. Histories'
  BY <1>2, <1>3 DEF ChannelIInv, Histories
<1>5. Belongs'
  <2> SUFFICES ASSUME NEW u \in Side
               PROVE  /\ queue[u]' \in Seq(Sendable(u))
                      /\ \A t \in Thread : post[u][t].pc' = "push" => post[u][t].msg' \in Sendable(u)
    BY DEF Belongs
  <2>1. /\ queue[u] \in Seq(Sendable(u))
        /\ \A t \in Thread : post[u][t].pc = "push" => post[u][t].msg \in Sendable(u)
    BY DEF ChannelIInv, Belongs
  <2>2. CASE u = s
    <3>1. queue[u]' \in Seq(Sendable(u))
      BY <1>2, <2>2, EmptySeq
    <3>2. ASSUME NEW t \in Thread, post[u][t].pc' = "push" PROVE post[u][t].msg' \in Sendable(u)
      <4>1. post[u][t]' = post[u][t]
        BY <1>2, <2>2, <3>2
      <4> QED
        BY <2>1, <3>2, <4>1
    <3> QED
      BY <3>1, <3>2
  <2>3. CASE u # s
    BY <1>2, <2>1, <2>3
  <2> QED
    BY <2>2, <2>3
<1>6. Listening'
  <2>1. \A v \in Side : v = s \/ v = Other(s)
    BY DEF Side, Other
  <2> QED
    BY <1>2, <1>3, <2>1, SidesFacts DEF ChannelIInv, Listening
<1>7. \A u \in Side : Flow(u)'
  BY <1>2, CloseKeepsFlow DEF ChannelIInv
<1> QED
  BY <1>4, <1>5, <1>6, <1>7 DEF Moved

\* A new connection.
LEMMA ConnectMoved ==
  ASSUME ChannelIInv, Connect
  PROVE  Moved
<1>1. Domains /\ Positions /\ Histories /\ Belongs /\ Listening
  BY DEF ChannelIInv, IInv
<1>2. /\ link' = [s \in Side |-> "up"] /\ pipe' = [s \in Side |-> <<>>]
      /\ sent' = [s \in Side |-> <<>>] /\ got' = [s \in Side |-> <<>>]
      /\ UNCHANGED <<spc, rpc, buf, queue, post>>
  BY DEF Connect, sender, receiver, posts
<1>3. \A s \in Side : spc[s] = "none" /\ rpc[s] = "none"
  BY <1>1 DEF Connect, Listening, Positions, Side
<1>4. Histories'
  <2>1. <<>> \in Seq(Abouts) /\ <<>> \in Seq(Handlings)
    OBVIOUS
  <2> QED
    BY <1>1, <1>2, <2>1 DEF Histories
<1>5. Belongs'
  BY <1>1, <1>2 DEF Belongs
<1>6. Listening'
  BY <1>1, <1>2 DEF Listening
<1>7. ASSUME NEW s \in Side PROVE Flow(s)'
  <2>1. pipe[s]' = <<>> /\ sent[s]' = <<>> /\ got[s]' = <<>>
        /\ spc[s]' = "none" /\ rpc[Other(s)]' = "none"
    BY <1>2, <1>3, SidesFacts
  <2>2. Begun(s, <<>>)'
    BY <2>1 DEF Begun
  <2>3. Leads(pipe[s]', <<>>, 1, 0, 1, 0)
    BY <2>1, LeadsNowhere
  <2>4. ReaderAt(s, <<>>, 1, 0)' /\ WriterAt(s, <<>>, 1, 0)'
    BY <2>1 DEF ReaderAt, WriterAt
  <2> QED
    BY <2>2, <2>3, <2>4 DEF Flow
<1> QED
  BY <1>4, <1>5, <1>6, <1>7 DEF Moved

\* The sender begins a message.
LEMMA LocksMoved ==
  ASSUME ChannelIInv, NEW s \in Side, SenderLocks(s)
  PROVE  Moved /\ \E m \in Messages : sent' = [sent EXCEPT ![s] = Append(sent[s], m.about)]
<1>1. Domains /\ Positions /\ Loaded /\ Histories /\ Belongs /\ Listening
  BY DEF ChannelIInv, IInv, Sending
<1>0. PICK m : m = Head(queue[s])
  OBVIOUS
<1>2. m \in Sendable(s) /\ m \in Messages
  <2>1. queue[s] # <<>> /\ queue[s] \in Seq(Sendable(s))
    BY <1>1 DEF SenderLocks, Loaded, Holds, Belongs
  <2>2. m \in Sendable(s)
    BY <1>0, <2>1
  <2> QED
    BY <2>2, SendableFacts
<1>3. /\ spc[s] = "lock" /\ spc' = [spc EXCEPT ![s] = "writing"]
      /\ nFragSeqNum' = [nFragSeqNum EXCEPT ![s] = 0]
      /\ sent' = [sent EXCEPT ![s] = Append(sent[s], m.about)]
      /\ UNCHANGED <<mpc, link, pipe, rpc, buf, queue, post, got>>
  BY <1>0 DEF SenderLocks, manager, receiver, posts
<1>4. m.about \in Abouts /\ sent[s] \in Seq(Abouts)
  BY <1>1, <1>2 DEF Abouts, Histories
<1>5. /\ sent[s]' = Append(sent[s], m.about) /\ sent[s]' \in Seq(Abouts)
      /\ \A u \in Side : u # s => sent[u]' = sent[u]
      /\ sent' \in [Side -> Seq(Abouts)]
  <2> DEFINE q == Append(sent[s], m.about)
  <2>1. q \in Seq(Abouts) /\ sent' = [sent EXCEPT ![s] = q] /\ sent \in [Side -> Seq(Abouts)]
    BY <1>1, <1>3, <1>4 DEF Histories
  <2> HIDE DEF q
  <2>2. sent[s]' = q /\ sent[s]' \in Seq(Abouts) /\ sent' \in [Side -> Seq(Abouts)]
        /\ \A u \in Side : u # s => sent[u]' = sent[u]
    BY <2>1
  <2> QED
    BY <2>2 DEF q
<1>6. Histories' /\ Belongs' /\ Listening'
  BY <1>1, <1>3, <1>5 DEF Domains, Histories, Belongs, Listening
<1>7. \A u \in Side : ReaderStays(u) /\ (u # s => WriterStays(u))
  BY <1>1, <1>3 DEF ReaderStays, WriterStays, Fresh, Domains
<1>8. ASSUME NEW u \in Side, u # s PROVE Flow(u)'
  BY <1>3, <1>5, <1>7, <1>8, FlowStays, SidesFacts DEF ChannelIInv
<1>9. Flow(s)'
  <2>0. PICK n : n = Len(sent[s])
    OBVIOUS
  <2>1. PICK ms, k, f, l, g :
          Begun(s, ms) /\ Leads(pipe[s], ms, k, f, l, g) /\ ReaderAt(s, ms, k, f) /\ WriterAt(s, ms, l, g)
    BY DEF Flow, ChannelIInv
  <2> DEFINE more == Append(ms, m)
  <2>2. ms \in Seq(Sendable(s)) /\ Len(ms) = n /\ n \in Nat /\ \A i \in 1..n : sent[s][i] = ms[i].about
    BY <1>4, <2>0, <2>1 DEF Begun
  <2>3. more \in Seq(Sendable(s)) /\ Len(more) = n + 1 /\ more[n + 1] = m
        /\ (\A i \in 1..n : more[i] = ms[i])
    BY <1>2, <2>2
  <2>4. Len(sent[s]') = n + 1 /\ sent[s]'[n + 1] = m.about
        /\ \A i \in 1..n : sent[s]'[i] = sent[s][i]
    BY <1>4, <1>5, <2>0
  <2> HIDE DEF more
  <2>5. Begun(s, more)'
    <3>1. \A i \in 1..(n + 1) : i \in 1..n \/ i = n + 1
      BY <2>2
    <3> QED
      BY <2>2, <2>3, <2>4, <3>1 DEF Begun
  <2>6. Leads(pipe[s]', more, k, f, l, g)
    <3>1. pipe[s] \in Seq(Packets) /\ pipe[s]' = pipe[s]
      BY <1>1, <1>3 DEF Domains
    <3> QED
      BY <1>2, <2>1, <2>2, <3>1, LeadsLonger DEF more
  <2>7. ReaderAt(s, more, k, f)'
    <3>1. \A i \in 1..Len(ms) : i \in 1..Len(more) /\ more[i] = ms[i]
      BY <2>2, <2>3
    <3>2. ReaderAt(s, more, k, f)
      BY <2>1, <3>1 DEF ReaderAt, Assembled
    <3> QED
      BY <1>3, <1>7, <3>2, SidesFacts, ReaderStaysAt
  <2>8. WriterAt(s, more, l, g)'
    <3>1. l = n + 1 /\ g = 0
      BY <1>3, <2>0, <2>1 DEF WriterAt
    <3>2. nFragSeqNum[s]' = 0 /\ spc[s]' = "writing" /\ Head(queue[s])' = m
          /\ mpc[s] \notin {"start", "accept"}
      BY <1>0, <1>1, <1>3 DEF Domains, Positions
    <3>3. n + 1 \in 1..Len(more)
      BY <2>2, <2>3
    <3> QED
      BY <1>3, <2>3, <2>4, <3>1, <3>2, <3>3 DEF WriterAt, Fresh
  <2> QED
    BY <2>5, <2>6, <2>7, <2>8 DEF Flow
<1> QED
  BY <1>2, <1>3, <1>6, <1>8, <1>9 DEF Moved

\* A packet is a fragment of the message it is made from.
LEMMA PacketCarries ==
  ASSUME IInv, NEW s \in Side, spc[s] = "writing"
  PROVE  Packet(s) \in Packets /\ Carries(Packet(s), Head(queue[s]).raw, nFragSeqNum[s])
<1> DEFINE raw == Head(queue[s]).raw
           f == nFragSeqNum[s]
<1>1. Domains /\ Sending /\ f \in Nat
  BY DEF IInv, Domains
<1>2. Packet(s) \in Packets /\ Packet(s).data = PacketCells(s) /\ f * PacketMax < Len(raw)
  BY <1>1, PacketFacts DEF Sending, HeadLen
<1>3. PacketCells(s) = Piece(raw, f) /\ (LastPacket(s) <=> LastPiece(raw, f))
  BY DEF PacketCells, Piece, LastPacket, LastPiece
<1>4. EndsMessage(Packet(s)) <=> LastPacket(s)
  <2>1. Packet(s).type = PacketType(s) /\ (f = 0 \/ f > 0)
    BY <1>1 DEF Packet
  <2> QED
    BY <1>1, <2>1 DEF EndsMessage, PacketType
<1> QED
  BY <1>2, <1>3, <1>4 DEF Carries

\* The sender writes a packet.
LEMMA WritesMoved ==
  ASSUME ChannelIInv, NEW s \in Side, SenderWrites(s)
  PROVE  Moved /\ UNCHANGED <<sent, got>>
<1>1. Domains /\ Positions /\ Loaded /\ Histories /\ Belongs /\ Listening /\ IInv
  BY DEF ChannelIInv, IInv, Sending
<1>0. PICK m, w : m = Head(queue[s]) /\ w = nFragSeqNum[s]
  OBVIOUS
<1> DEFINE last == LastPiece(m.raw, w)
<1>2. /\ spc[s] = "writing" /\ pipe' = [pipe EXCEPT ![s] = Append(pipe[s], Packet(s))]
      /\ UNCHANGED <<mpc, link, rpc, buf, queue, post, sent, got>>
      /\ last => spc' = [spc EXCEPT ![s] = "pop"] /\ nFragSeqNum' = nFragSeqNum
      /\ ~last => nFragSeqNum' = [nFragSeqNum EXCEPT ![s] = w + 1] /\ spc' = spc
  BY <1>0 DEF SenderWrites, manager, receiver, posts, bounds, history, LastPiece, LastPacket
<1> HIDE DEF last
<1>3. Packet(s) \in Packets /\ Carries(Packet(s), m.raw, w)
  BY <1>0, <1>1, <1>2, PacketCarries
<1>4. \A u \in Side : u # s => pipe[u]' = pipe[u] /\ spc[u]' = spc[u] /\ queue[u]' = queue[u]
                               /\ nFragSeqNum[u]' = nFragSeqNum[u]
  BY <1>1, <1>2 DEF Domains
<1>6. Histories' /\ Listening'
  BY <1>1, <1>2 DEF Histories, Listening, Domains
<1>7. Belongs'
  BY <1>1, <1>2 DEF Belongs, Sendable
<1>8. \A u \in Side : ReaderStays(u) /\ (u # s => WriterStays(u))
  BY <1>2, <1>4 DEF ReaderStays, WriterStays, Fresh
<1>9. ASSUME NEW u \in Side, u # s PROVE Flow(u)'
  BY <1>2, <1>4, <1>8, <1>9, FlowStays, SidesFacts DEF ChannelIInv
<1>10. Flow(s)'
  <2>0. PICK n : n = Len(sent[s])
    OBVIOUS
  <2>1. PICK ms, k, f, l, g :
          Begun(s, ms) /\ Leads(pipe[s], ms, k, f, l, g) /\ ReaderAt(s, ms, k, f) /\ WriterAt(s, ms, l, g)
    BY DEF Flow, ChannelIInv
  <2>2. l = n /\ g = w /\ n \in 1..Len(ms) /\ ms[n] = m
    BY <1>0, <1>2, <2>0, <2>1 DEF WriterAt
  <2>3. n \in Nat /\ w \in Nat
    BY <1>0, <1>1, <2>0, <2>1 DEF Histories, Domains
  <2>4. pipe[s] \in Seq(Packets) /\ pipe[s]' = Append(pipe[s], Packet(s))
    BY <1>1, <1>2 DEF Domains
  <2> DEFINE l1 == IF last THEN n + 1 ELSE n
             g1 == IF last THEN 0 ELSE w + 1
  <2>5. Leads(pipe[s]', ms, k, f, l1, g1)
    BY <1>3, <2>1, <2>2, <2>4, LeadsOn DEF last
  <2>6. Begun(s, ms)' /\ ReaderAt(s, ms, k, f)'
    BY <1>2, <1>8, <2>1, SidesFacts, ReaderStaysAt DEF Begun
  <2>7. WriterAt(s, ms, l1, g1)'
    <3>1. mpc[s] \notin {"start", "accept"}
      BY <1>1, <1>2 DEF Positions
    <3>2. CASE last
      <4>1. spc[s]' = "pop"
        BY <1>1, <1>2, <3>2 DEF Domains
      <4> QED
        BY <1>2, <2>0, <3>1, <3>2, <4>1 DEF WriterAt, Fresh
    <3>3. CASE ~last
      <4>1. nFragSeqNum[s]' = w + 1 /\ spc[s]' = "writing" /\ queue[s]' = queue[s]
        BY <1>1, <1>2, <3>3 DEF Domains
      <4> QED
        BY <1>0, <1>2, <2>0, <2>2, <3>1, <3>3, <4>1 DEF WriterAt, Fresh
    <3> QED
      BY <3>2, <3>3
  <2> QED
    BY <2>5, <2>6, <2>7 DEF Flow
<1> QED
  BY <1>2, <1>6, <1>7, <1>9, <1>10 DEF Moved

\* The receiver begins a message.
LEMMA ReceiverLocksMoved ==
  ASSUME ChannelIInv, NEW s \in Side, ReceiverLocks(s)
  PROVE  Moved /\ UNCHANGED <<sent, got>>
<1>1. Domains /\ Positions /\ Histories /\ Belongs /\ Listening
  BY DEF ChannelIInv, IInv
<1>2. /\ rpc[s] = "lock" /\ rpc' = [rpc EXCEPT ![s] = "reading"]
      /\ buf' = [buf EXCEPT ![s] = NoPacket]
      /\ UNCHANGED <<mpc, link, pipe, spc, nFragSeqNum, queue, post, sent, got>>
  BY DEF ReceiverLocks, manager, sender, posts, bounds, history
<1>3. NoPacket \in Buffers /\ NoPacket.data = <<>>
  BY DEF NoPacket, Buffers
<1>4. rpc[s]' = "reading" /\ buf[s]'.data = <<>> /\ buf' \in [Side -> Buffers]
      /\ \A u \in Side : u # s => rpc[u]' = rpc[u] /\ buf[u]' = buf[u]
  BY <1>1, <1>2, <1>3 DEF Domains, Histories
<1>5. Histories' /\ Belongs' /\ Listening'
  BY <1>1, <1>2, <1>4 DEF Histories, Belongs, Listening
<1>6. \A u \in Side : WriterStays(u) /\ (u # s => ReaderStays(u))
  BY <1>2, <1>4 DEF ReaderStays, WriterStays, Fresh
<1>7. ASSUME NEW u \in Side, Other(u) # s PROVE Flow(u)'
  BY <1>2, <1>6, <1>7, FlowStays, SidesFacts DEF ChannelIInv
<1>8. ASSUME NEW u \in Side, Other(u) = s PROVE Flow(u)'
  <2>1. PICK ms, k, f, l, g :
          Begun(u, ms) /\ Leads(pipe[u], ms, k, f, l, g) /\ ReaderAt(u, ms, k, f) /\ WriterAt(u, ms, l, g)
    BY DEF Flow, ChannelIInv
  <2>2. ReaderAt(u, ms, k, f)'
    <3>1. k = Len(got[u]) + 1 /\ f = 0
      BY <1>2, <1>8, <2>1 DEF ReaderAt
    <3>2. mpc[s] \notin {"start", "accept"}
      BY <1>1, <1>2 DEF Positions
    <3> QED
      BY <1>2, <1>4, <1>8, <3>1, <3>2 DEF ReaderAt, Fresh, Assembled
  <2> QED
    BY <1>2, <1>6, <2>1, <2>2, WriterStaysAt DEF Flow, Begun
<1> QED
  BY <1>2, <1>5, <1>7, <1>8 DEF Moved

\* The receiver reads a packet.
LEMMA ReadsMoved ==
  ASSUME ChannelIInv, NEW s \in Side, ReceiverReads(s)
  PROVE  Moved /\ UNCHANGED <<sent, got>>
<1>1. Domains /\ Positions /\ Histories /\ Belongs /\ Listening
  BY DEF ChannelIInv, IInv
<1>a. PICK o \in Side : o = Other(s) /\ Other(o) = s /\ o # s
  BY SidesFacts
<1>0. PICK p, cells :
        o = Other(s) /\ Other(o) = s /\ o # s /\ p = Head(pipe[o]) /\ cells = buf[s].data
  BY <1>a
<1> DEFINE b == [data |-> cells \o p.data, seq |-> p.seq, frag |-> p.frag]
           ordered == InOrder(buf[s], p)
           r == IF ordered THEN IF EndsMessage(p) THEN "process" ELSE "reading" ELSE "ended"
<1>2. /\ rpc[s] = "reading" /\ pipe[o] # <<>> /\ pipe[o] \in Seq(Packets)
      /\ pipe' = [pipe EXCEPT ![o] = Tail(pipe[o])]
      /\ buf' = [buf EXCEPT ![s] = b]
      /\ UNCHANGED <<mpc, link, spc, nFragSeqNum, queue, post, sent, got>>
  BY <1>0, <1>1 DEF ReceiverReads, Domains, sender, posts, bounds, history
<1>3. rpc' = [rpc EXCEPT ![s] = r]
  <2> DEFINE done == ~ordered \/ EndsMessage(p)
  <2>1. IF ordered THEN rpc' = [rpc EXCEPT ![s] = IF done THEN "process" ELSE rpc[s]]
        ELSE rpc' = [rpc EXCEPT ![s] = "ended"]
    BY <1>0 DEF ReceiverReads, ReceiverEnds
  <2> HIDE DEF ordered
  <2>2. CASE ordered
    BY <1>2, <2>1, <2>2
  <2>3. CASE ~ordered
    BY <2>1, <2>3
  <2> QED
    BY <2>2, <2>3
<1> HIDE DEF ordered
<1>4. p \in Packets /\ cells \in Seq(Cells)
  BY <1>0, <1>1, <1>2 DEF Histories, Buffers
<1>5. b \in Buffers /\ b.data = cells \o p.data
  <2>1. p.data \in Seq(Cells) /\ p.seq \in 0..(SeqNums - 1) /\ p.frag \in Nat
    BY <1>4 DEF Packets
  <2>2. cells \o p.data \in Seq(Cells)
    BY <1>4, <2>1
  <2> QED
    BY <2>1, <2>2 DEF Buffers
<1>6. r \in {"reading", "process", "ended"}
  OBVIOUS
<1> HIDE DEF b, r
<1>7. /\ rpc[s]' = r /\ buf[s]' = b /\ pipe[o]' = Tail(pipe[o]) /\ buf' \in [Side -> Buffers]
      /\ \A u \in Side : u # s => rpc[u]' = rpc[u] /\ buf[u]' = buf[u]
      /\ \A u \in Side : u # o => pipe[u]' = pipe[u]
  BY <1>0, <1>1, <1>2, <1>3, <1>5 DEF Domains, Histories
<1>8. Histories' /\ Belongs' /\ Listening'
  <2>1. Histories' /\ Belongs'
    BY <1>1, <1>2, <1>7 DEF Histories, Belongs
  <2>2. Listening'
    BY <1>1, <1>2, <1>7 DEF Listening
  <2> QED
    BY <2>1, <2>2
<1>9. \A u \in Side : WriterStays(u) /\ (u # s => ReaderStays(u))
  BY <1>2, <1>7 DEF ReaderStays, WriterStays, Fresh
<1>10. ASSUME NEW u \in Side, u # o PROVE Flow(u)'
  <2>1. u = s /\ Other(u) # s
    BY <1>0, <1>10 DEF Side
  <2> QED
    BY <1>2, <1>7, <1>9, <1>10, <2>1, FlowStays, SidesFacts DEF ChannelIInv
<1>11. Flow(o)'
  <2>0. PICK n : n = Len(got[o])
    OBVIOUS
  <2>1. PICK ms, k, f, l, g :
          Begun(o, ms) /\ Leads(pipe[o], ms, k, f, l, g) /\ ReaderAt(o, ms, k, f) /\ WriterAt(o, ms, l, g)
    BY DEF Flow, ChannelIInv
  <2> DEFINE raw == ms[k].raw
             last == LastPiece(raw, f)
             k1 == IF last THEN k + 1 ELSE k
             f1 == IF last THEN 0 ELSE f + 1
  <2>2. k = n + 1 /\ Assembled(cells, ms, k, f)
    BY <1>0, <1>2, <2>0, <2>1 DEF ReaderAt
  <2>3. k \in 1..Len(ms) /\ Carries(p, raw, f) /\ Leads(pipe[o]', ms, k1, f1, l, g)
    BY <1>0, <1>2, <1>7, <2>1, LeadsFrom
  <2>4. n \in Nat /\ f \in Nat
    BY <1>1, <1>2, <2>0, <2>1, LeadsNumbers DEF Histories
  <2>5. raw \in Seq(Cells) /\ f * PacketMax < Len(raw) /\ p.data = Piece(raw, f)
        /\ (EndsMessage(p) <=> last)
    <3>1. ms[k] \in Messages
      BY <2>1, <2>3, SendableFacts DEF Begun
    <3> QED
      BY <2>3, <3>1, MessageFacts DEF Carries
  <2>6. b.data = IF last THEN raw ELSE SubSeq(raw, 1, (f + 1) * PacketMax)
    <3>1. cells = IF f = 0 THEN <<>> ELSE SubSeq(raw, 1, f * PacketMax)
      BY <2>2 DEF Assembled
    <3> HIDE DEF raw
    <3> QED
      BY <1>5, <2>4, <2>5, <3>1, AssembledMore
  <2>7. ReaderAt(o, ms, k1, f1)'
    <3>1. mpc[s] \notin {"start", "accept"} /\ UNCHANGED <<mpc, got>>
      BY <1>1, <1>2 DEF Positions
    <3>2. CASE r = "ended"
      BY <1>0, <1>7, <3>1, <3>2 DEF ReaderAt, Fresh
    <3>3. CASE r = "process"
      <4>1. last
        BY <2>5, <3>3 DEF r
      <4>2. b.data = ms[n + 1].raw /\ k1 = n + 2 /\ f1 = 0 /\ n + 1 \in 1..Len(ms)
        BY <2>2, <2>3, <2>4, <2>6, <4>1
      <4> QED
        BY <1>0, <1>7, <2>0, <3>1, <3>3, <4>2 DEF ReaderAt, Fresh
    <3>4. CASE r = "reading"
      <4>1. ~last
        BY <2>5, <3>4 DEF r
      <4>2. k1 = n + 1 /\ f1 = f + 1 /\ f1 # 0
        BY <2>2, <2>4, <4>1
      <4>3. f1 * PacketMax < Len(raw)
        <5>1. (f + 1) * PacketMax \in Nat /\ Len(raw) \in Nat
          BY <2>4, <2>5, SizesAssumption
        <5> QED
          BY <4>1, <4>2, <5>1 DEF LastPiece
      <4>4. Assembled(b.data, ms, k1, f1)
        BY <2>3, <2>6, <4>1, <4>2, <4>3 DEF Assembled
      <4> QED
        BY <1>0, <1>7, <2>0, <3>1, <3>4, <4>2, <4>4 DEF ReaderAt, Fresh
    <3> QED
      BY <1>6, <3>2, <3>3, <3>4
  <2> QED
    BY <1>2, <1>9, <2>1, <2>3, <2>7, WriterStaysAt DEF Flow, Begun
<1> QED
  BY <1>2, <1>8, <1>10, <1>11 DEF Moved

\* The receiver hands its message to the translator.
LEMMA ProcessesMoved ==
  ASSUME ChannelIInv, NEW s \in Side, ReceiverProcesses(s)
  PROVE  /\ Moved
         /\ \E u \in Side : \E m \in Sendable(u) :
              /\ s = Other(u) /\ UNCHANGED sent
              /\ got' = [got EXCEPT ![u] = Append(got[u], Translated(s, m.raw))]
              /\ Len(got[u]) + 1 \in DOMAIN sent[u] /\ sent[u][Len(got[u]) + 1] = m.about
<1>1. Domains /\ Positions /\ Histories /\ Belongs /\ Listening
  BY DEF ChannelIInv, IInv
<1>a. PICK o \in Side : o = Other(s) /\ Other(o) = s /\ o # s
  BY SidesFacts
<1>0. PICK h, n :
        o = Other(s) /\ Other(o) = s /\ o # s /\ h = Handled(s) /\ n = Len(got[o])
  BY <1>a
<1>2. /\ rpc[s] = "process" /\ rpc' = [rpc EXCEPT ![s] = "posting"]
      /\ got' = [got EXCEPT ![o] = Append(got[o], h)]
      /\ UNCHANGED <<mpc, link, pipe, spc, nFragSeqNum, buf, queue, sent>>
  BY <1>0 DEF ReceiverProcesses, manager, pipes, sender, bounds
<1>3. h \in Handlings /\ n \in Nat
  <2>1. buf[s].data \in Seq(Cells)
    BY <1>1 DEF Histories, Buffers
  <2> QED
    BY <1>0, <1>1, <2>1 DEF Handled, Handlings, Histories
<1>4. got' \in [Side -> Seq(Handlings)] /\ Len(got[o]') = n + 1
      /\ \A u \in Side : u # o => got[u]' = got[u]
  <2> DEFINE q == Append(got[o], h)
  <2>1. q \in Seq(Handlings) /\ Len(q) = n + 1 /\ got' = [got EXCEPT ![o] = q]
    BY <1>0, <1>1, <1>2, <1>3 DEF Histories
  <2> HIDE DEF q
  <2> QED
    BY <1>1, <2>1 DEF Histories
<1>5. Histories' /\ Listening'
  BY <1>1, <1>2, <1>4 DEF Histories, Listening, Domains
<1>6. Belongs'
  <2>1. CASE UNCHANGED post
    BY <1>1, <1>2, <2>1 DEF Belongs
  <2>2. ASSUME NEW m \in Retrieve(Handled(s)[1]), StartPost(s, "receiver", m) PROVE Belongs'
    <3>1. m \in Messages /\ "receiver" \in Thread
      BY AnswersPosted DEF Thread
    <3>2. /\ \A u \in Side : u # s => post[u]' = post[u]
          /\ \A v \in Thread : v # "receiver" => post[s][v]' = post[s][v]
          /\ post[s]["receiver"].pc' = "push" => post[s]["receiver"].msg' = m
      BY <1>1, <2>2, <3>1, StartPostFacts
    <3>3. m \in Sendable(s)
      BY OnlyClientAnswers
    <3> QED
      BY <1>1, <1>2, <3>2, <3>3 DEF Belongs
  <2> QED
    BY <2>1, <2>2 DEF ReceiverProcesses, Recv_Request
<1>7. rpc[s]' = "posting" /\ \A u \in Side : u # s => rpc[u]' = rpc[u]
  BY <1>1, <1>2 DEF Domains
<1>8. \A u \in Side : WriterStays(u) /\ (u # s => ReaderStays(u))
  BY <1>2, <1>7 DEF ReaderStays, WriterStays, Fresh
<1>9. ASSUME NEW u \in Side, u # o PROVE Flow(u)'
  <2>1. u = s /\ Other(u) # s
    BY <1>0, <1>9 DEF Side
  <2> QED
    BY <1>2, <1>4, <1>8, <1>9, <2>1, FlowStays, SidesFacts DEF ChannelIInv
<1>10. PICK ms, k, f, l, g :
         Begun(o, ms) /\ Leads(pipe[o], ms, k, f, l, g) /\ ReaderAt(o, ms, k, f) /\ WriterAt(o, ms, l, g)
  BY DEF Flow, ChannelIInv
<1>11. k = n + 2 /\ f = 0 /\ n + 1 \in 1..Len(ms) /\ buf[s].data = ms[n + 1].raw
  BY <1>0, <1>2, <1>10 DEF ReaderAt
<1>12. Flow(o)'
  <2>1. ReaderAt(o, ms, k, f)'
    <3>1. mpc[s] \notin {"start", "accept"}
      BY <1>1, <1>2 DEF Positions
    <3>2. k = (n + 1) + 1
      BY <1>3, <1>11
    <3> QED
      BY <1>0, <1>2, <1>4, <1>7, <1>11, <3>1, <3>2 DEF ReaderAt, Fresh
  <2> QED
    BY <1>2, <1>8, <1>10, <2>1, WriterStaysAt DEF Flow, Begun
<1>13. /\ ms[n + 1] \in Sendable(o) /\ h = Translated(s, ms[n + 1].raw)
       /\ n + 1 \in DOMAIN sent[o] /\ sent[o][n + 1] = ms[n + 1].about
  <2>1. ms \in Seq(Sendable(o)) /\ Len(ms) = Len(sent[o]) /\ sent[o] \in Seq(Abouts)
    BY <1>1, <1>10 DEF Begun, Histories
  <2> QED
    BY <1>0, <1>10, <1>11, <2>1 DEF Begun, Handled, Translated
<1> QED
  BY <1>0, <1>2, <1>5, <1>6, <1>9, <1>12, <1>13 DEF Moved

----------------------------------------------------------------------------
(* The channel.                                                            *)

\* By sender: x with one more of s.
OneMore(x, y, s, a) == y = [x EXCEPT ![s] = Append(x[s], a)]

\* What is legible of the messages with one more.
LEMMA LegibleAppend ==
  ASSUME NEW T, NEW x \in [Side -> Seq(T)], NEW s \in Side, NEW a \in T, NEW y, OneMore(x, y, s, a)
  PROVE  OneMore(AllLegible(x), AllLegible(y), s, Legible(a))
<1>0. PICK n, b : n = Len(x[s]) /\ b = Append(x[s], a)
  OBVIOUS
<1> DEFINE old == [i \in 1..n |-> Legible(x[s][i])]
           new == [i \in 1..(n + 1) |-> Legible(b[i])]
           L == {Legible(c) : c \in T}
<1>1. /\ n \in Nat /\ DOMAIN x[s] = 1..n /\ DOMAIN b = 1..(n + 1)
      /\ (\A i \in 1..n : x[s][i] \in T /\ b[i] = x[s][i]) /\ b[n + 1] = a
  <2>1. x[s] \in Seq(T)
    OBVIOUS
  <2> QED
    BY <1>0, <2>1
<1>2. y[s] = b /\ (\A u \in Side : u # s => y[u] = x[u]) /\ DOMAIN y = Side
  BY <1>0 DEF OneMore
<1>3. new = Append(old, Legible(a))
  <2>1. old \in Seq(L) /\ Len(old) = n /\ Legible(a) \in L
    <3>1. \A i \in 1..n : Legible(x[s][i]) \in L
      BY <1>1
    <3> HIDE DEF L
    <3>2. old \in [1..n -> L] /\ DOMAIN old = 1..n
      BY <3>1
    <3>3. Legible(a) \in L
      BY DEF L
    <3> HIDE DEF old
    <3> QED
      BY <1>1, <3>2, <3>3
  <2>2. \A i \in 1..(n + 1) : i = n + 1 \/ (i \in 1..n /\ i # n + 1)
    BY <1>1
  <2>3. \A i \in 1..(n + 1) : new[i] \in L /\ new[i] = IF i = n + 1 THEN Legible(a) ELSE old[i]
    <3>1. \A i \in 1..(n + 1) : b[i] \in T
      BY <1>1, <2>2
    <3>2. \A i \in 1..(n + 1) : Legible(b[i]) \in L
      BY <3>1
    <3> QED
      BY <1>1, <2>2, <3>2
  <2>4. DOMAIN new = 1..(n + 1) /\ new = [i \in 1..(n + 1) |-> new[i]]
    OBVIOUS
  <2> HIDE DEF old, new, L
  <2>5. new \in Seq(L) /\ Len(new) = n + 1
    <3>1. n + 1 \in Nat /\ new \in [1..(n + 1) -> L]
      BY <1>1, <2>3, <2>4
    <3> QED
      BY <3>1, LenProperties
  <2>6. /\ Append(old, Legible(a)) \in Seq(L) /\ Len(Append(old, Legible(a))) = n + 1
        /\ \A i \in 1..n : Append(old, Legible(a))[i] = old[i]
        /\ Append(old, Legible(a))[n + 1] = Legible(a)
    BY <2>1, AppendProperties
  <2>7. \A i \in 1..(n + 1) : new[i] = Append(old, Legible(a))[i]
    BY <2>2, <2>3, <2>6
  <2> QED
    BY <2>5, <2>6, <2>7, SeqEqual
<1>4. AllLegible(y) = [u \in Side |-> IF u = s THEN new ELSE AllLegible(x)[u]]
  <2>1. \A u \in Side : [i \in DOMAIN y[u] |-> Legible(y[u][i])]
                          = IF u = s THEN new ELSE [i \in DOMAIN x[u] |-> Legible(x[u][i])]
    BY <1>1, <1>2
  <2> HIDE DEF new
  <2> QED
    BY <2>1 DEF AllLegible
<1>5. AllLegible(x)[s] = old /\ DOMAIN AllLegible(x) = Side
  BY <1>1 DEF AllLegible
<1> HIDE DEF new, old
<1> QED
  BY <1>3, <1>4, <1>5 DEF OneMore

LEMMA ChannelInit == MessagingInit => ChannelIInv /\ Promise!Init
<1> SUFFICES ASSUME MessagingInit PROVE ChannelIInv /\ Promise!Init
  OBVIOUS
<1>1. IInv
  BY Initially
<1>2. Histories
  <2>1. /\ <<>> \in Seq(Abouts) /\ <<>> \in Seq(Handlings) /\ <<>> \in Seq(Cells)
    BY EmptySeq
  <2>2. NoPacket \in Buffers
    BY <2>1 DEF NoPacket, Buffers
  <2> QED
    BY <2>1, <2>2 DEF MessagingInit, Histories
<1>3. Belongs
  BY DEF MessagingInit, Belongs, NoPost
<1>4. Listening
  BY DEF MessagingInit, Listening
<1>5. ASSUME NEW s \in Side PROVE Flow(s)
  <2>1. pipe[s] = <<>> /\ sent[s] = <<>> /\ got[s] = <<>> /\ spc[s] = "none"
        /\ rpc[Other(s)] = "none" /\ mpc[s] = "off" /\ mpc[Other(s)] = "off"
    BY SidesFacts DEF MessagingInit
  <2>2. Begun(s, <<>>)
    BY <2>1 DEF Begun
  <2>3. Leads(pipe[s], <<>>, 1, 0, 1, 0)
    BY <2>1, LeadsNowhere
  <2>4. ReaderAt(s, <<>>, 1, 0) /\ WriterAt(s, <<>>, 1, 0)
    BY <2>1 DEF ReaderAt, WriterAt, Fresh
  <2> QED
    BY <2>2, <2>3, <2>4 DEF Flow
<1>6. Promise!Init
  BY DEF MessagingInit, Promise!Init, Promise!Empty, AllLegible
<1> QED
  BY <1>1, <1>2, <1>3, <1>4, <1>5, <1>6 DEF ChannelIInv

\* What a step does to the channel.
Promised == [Promise!Next]_(Promise!vars)

LEMMA StutterPromised == ASSUME UNCHANGED <<sent, got>> PROVE Promised
  BY DEF Promised, Promise!vars, AllLegible

LEMMA UnmovedMoves == ASSUME ChannelIInv, Unmoved PROVE Moved /\ Promised
<1>1. \A s \in Side : Flow(s)'
  BY AllStay DEF ChannelIInv, Unmoved
<1> QED
  BY <1>1, StutterPromised DEF Unmoved, Moved

LEMMA LocksPromised ==
  ASSUME Histories, NEW s \in Side, NEW m \in Messages, UNCHANGED got,
         sent' = [sent EXCEPT ![s] = Append(sent[s], m.about)]
  PROVE  Promised
<1> DEFINE A == AllLegible(sent)
           a == Legible(m.about)
<1>1. m.about \in Abouts /\ sent \in [Side -> Seq(Abouts)]
  BY DEF Abouts, Histories
<1>2. AllLegible(sent') = [A EXCEPT ![s] = Append(A[s], a)]
  <2> DEFINE b == m.about
  <2>1. sent' = [sent EXCEPT ![s] = Append(sent[s], b)] /\ b \in Abouts
    BY <1>1
  <2>2. PICK x, y : x = sent /\ y = sent'
    OBVIOUS
  <2> HIDE DEF b
  <2>3. AllLegible(y) = [AllLegible(x) EXCEPT ![s] = Append(AllLegible(x)[s], Legible(b))]
    <3>1. x \in [Side -> Seq(Abouts)] /\ OneMore(x, y, s, b)
      BY <1>1, <2>1, <2>2 DEF OneMore
    <3>2. OneMore(AllLegible(x), AllLegible(y), s, Legible(b))
      BY <2>1, <3>1, LegibleAppend
    <3> QED
      BY <3>2 DEF OneMore
  <2> QED
    BY <2>2, <2>3 DEF b
<1>3. A[s] \in Seq({Legible(b) : b \in Abouts}) /\ DOMAIN A = Side /\ a \in {Legible(b) : b \in Abouts}
  <2>1. sent[s] \in Seq(Abouts)
    BY <1>1
  <2>2. A[s] = [i \in 1..Len(sent[s]) |-> Legible(sent[s][i])]
    BY <2>1 DEF AllLegible
  <2> QED
    BY <1>1, <2>1, <2>2 DEF AllLegible
<1> DEFINE B == AllLegible(sent')
<1> HIDE DEF A, a, B
<1>4. B[s] = Append(A[s], a) /\ B = [A EXCEPT ![s] = Append(A[s], a)]
  BY <1>2, <1>3 DEF B
<1>5. Len(B[s]) = Len(A[s]) + 1 /\ Last(B[s]) = a
  BY <1>3, <1>4 DEF Last
<1>6. Promise!Send(s)
  <2>1. B = [A EXCEPT ![s] = Append(A[s], Last(B[s]))]
    BY <1>4, <1>5
  <2>2. AllLegible(got)' = AllLegible(got)
    BY DEF AllLegible
  <2> QED
    BY <1>5, <2>1, <2>2 DEF Promise!Send, A, B, Promise!Last, Last
<1> QED
  BY <1>6 DEF Promised, Promise!Next

LEMMA ProcessesPromised ==
  ASSUME Histories, NEW u \in Side, NEW m \in Sendable(u), UNCHANGED sent,
         got' = [got EXCEPT ![u] = Append(got[u], Translated(Other(u), m.raw))],
         got' \in [Side -> Seq(Handlings)],
         Len(got[u]) + 1 \in DOMAIN sent[u], sent[u][Len(got[u]) + 1] = m.about
  PROVE  Promised
<1> DEFINE D == AllLegible(got)
           A == AllLegible(sent)
           h == Translated(Other(u), m.raw)
           n == Len(got[u]) + 1
<1>1. got \in [Side -> Seq(Handlings)] /\ got[u]' = Append(got[u], h)
  BY DEF Histories
<1>2. h \in Handlings
  <2>1. Len(got[u]') = n /\ n \in Nat /\ n \in 1..n /\ got[u]'[n] = h
    BY <1>1
  <2>2. got[u]' \in Seq(Handlings)
    OBVIOUS
  <2> HIDE DEF h, n
  <2> QED
    BY <2>1, <2>2
<1>3. AllLegible(got') = [D EXCEPT ![u] = Append(D[u], Legible(h))]
  <2>1. got' = [got EXCEPT ![u] = Append(got[u], h)]
    OBVIOUS
  <2>2. PICK x, y : x = got /\ y = got'
    OBVIOUS
  <2> HIDE DEF h
  <2>3. AllLegible(y) = [AllLegible(x) EXCEPT ![u] = Append(AllLegible(x)[u], Legible(h))]
    <3>1. x \in [Side -> Seq(Handlings)] /\ OneMore(x, y, u, h)
      BY <1>1, <2>1, <2>2 DEF OneMore
    <3>2. OneMore(AllLegible(x), AllLegible(y), u, Legible(h))
      BY <1>2, <3>1, LegibleAppend
    <3> QED
      BY <3>2 DEF OneMore
  <2> QED
    BY <2>2, <2>3
<1>4. Legible(h) = Legible(m.about)
  BY Understood
<1>5. A[u][n] = Legible(m.about) /\ n \in DOMAIN A[u] /\ Len(D[u]) + 1 = n
  <2>1. A[u] = [i \in DOMAIN sent[u] |-> Legible(sent[u][i])]
    BY DEF AllLegible
  <2>2. D[u] = [i \in 1..Len(got[u]) |-> Legible(got[u][i])]
    BY <1>1 DEF AllLegible
  <2>3. Len(got[u]) \in Nat
    BY <1>1
  <2> HIDE DEF A
  <2>4. A[u][n] = Legible(m.about) /\ n \in DOMAIN A[u]
    BY <2>1
  <2>5. Len(D[u]) = Len(got[u])
    BY <2>2, <2>3
  <2> QED
    BY <2>4, <2>5
<1>6. AllLegible(sent)' = A
  BY DEF AllLegible
<1>7. Promise!Deliver(u)
  <2>1. AllLegible(got)' = [D EXCEPT ![u] = Append(D[u], A[u][Len(D[u]) + 1])]
    BY <1>3, <1>4, <1>5
  <2> QED
    BY <1>5, <1>6, <2>1 DEF Promise!Deliver
<1> QED
  BY <1>7 DEF Promised, Promise!Next

\* A new connection takes what was under way with it.
LEMMA ConnectPromised == ASSUME Connect PROVE Promised
<1>1. AllLegible(sent') = Promise!Empty /\ AllLegible(got') = Promise!Empty
  BY DEF Connect, AllLegible, Promise!Empty
<1>2. AllLegible(sent)' = AllLegible(sent') /\ AllLegible(got)' = AllLegible(got')
  BY DEF AllLegible
<1>3. Promise!Reconnect
  BY <1>1, <1>2 DEF Promise!Reconnect
<1> QED
  BY <1>3 DEF Promised, Promise!Next

LEMMA StepMoves ==
  ASSUME ChannelIInv, NEW s \in Side,
         \/ Construct(s) \/ Destroy(s) \/ InitializeFails(s) \/ ManagerStep(s)
         \/ SenderStep(s) \/ SenderCheckTimesOut(s) \/ SenderLockTimesOut(s)
         \/ ReceiverStep(s) \/ ReceiverLockTimesOut(s)
         \/ AppPosts(s) \/ PostStep(s)
  PROVE  Moved /\ Promised
<1>1. IInv /\ Histories /\ Belongs /\ Listening
  BY DEF ChannelIInv
<1>2. CASE Construct(s) \/ Destroy(s) \/ InitializeFails(s) \/ ManagerStep(s)
  <2>1. CASE Cleanup(s)
    <3>1. UNCHANGED <<sent, got>>
      BY <2>1 DEF Cleanup
    <3> QED
      BY <2>1, <3>1, EndsMoved, StutterPromised
  <2>2. CASE Connect
    BY <2>2, ConnectMoved, ConnectPromised
  <2> QED
    BY <1>1, <1>2, <2>1, <2>2, ManagerUnmoved, UnmovedMoves DEF ManagerStep
<1>3. CASE SenderStep(s) \/ SenderCheckTimesOut(s) \/ SenderLockTimesOut(s)
  <2>1. CASE AssertionFails(s)
    <3>1. UNCHANGED <<sent, got>>
      BY <2>1 DEF AssertionFails, history
    <3> QED
      BY <2>1, <3>1, EndsMoved, StutterPromised
  <2>2. CASE SenderLocks(s)
    <3>1. got' = got
      BY <2>2 DEF SenderLocks
    <3> QED
      BY <1>1, <2>2, <3>1, LocksMoved, LocksPromised
  <2>3. CASE SenderWrites(s)
    BY <2>3, WritesMoved, StutterPromised
  <2> QED
    BY <1>1, <1>3, <2>1, <2>2, <2>3, SenderUnmoved, PopUnmoved, UnmovedMoves DEF SenderStep, Thread
<1>4. CASE ReceiverStep(s) \/ ReceiverLockTimesOut(s)
  <2>1. CASE ReceiverLocks(s)
    BY <2>1, ReceiverLocksMoved, StutterPromised
  <2>2. CASE ReceiverReads(s)
    BY <2>2, ReadsMoved, StutterPromised
  <2>3. CASE ReceiverProcesses(s)
    <3>1. Moved /\ got' \in [Side -> Seq(Handlings)]
      BY <2>3, ProcessesMoved DEF Moved, Histories
    <3>2. Promised
      BY <1>1, <2>3, <3>1, ProcessesMoved, ProcessesPromised
    <3> QED
      BY <3>1, <3>2
  <2> QED
    BY <1>1, <1>4, <2>1, <2>2, <2>3, ReceiverUnmoved, UnmovedMoves DEF ReceiverStep
<1>5. CASE AppPosts(s) \/ PostStep(s)
  <2>1. PICK t \in Thread : AppPosts(s) \/ Push(s, t) \/ Release(s, t)
    BY <1>5 DEF PostStep, Thread
  <2> QED
    BY <1>1, <2>1, PostUnmoved, UnmovedMoves
<1> QED
  BY <1>2, <1>3, <1>4, <1>5

\* gogoc-messaging's promise: cut into packets, written by one thread and read by another
\* of the other process, across the loss of connections and the end of either program,
\* every message that a handler is given is the one that was sent, in order and once.
THEOREM ChannelImplemented == MessagingSpec => ImplementsChannel
<1>1. ASSUME ChannelIInv, [MessagingNext]_messagingVars PROVE Moved /\ Promised
  <2>1. CASE Killed
    <3>1. UNCHANGED <<sent, got>> /\ "gui" \in Side
      BY <2>1 DEF Killed, history, Side
    <3> QED
      BY <1>1, <2>1, <3>1, EndsMoved, StutterPromised
  <2>2. CASE UNCHANGED messagingVars
    <3>1. Unmoved
      BY <1>1, <2>2 DEF ChannelIInv, Unmoved, Histories, Belongs, Listening, StaysAt, ReaderStays,
         WriterStays, Fresh, messagingVars, manager, pipes, sender, receiver, posts, history
    <3> QED
      BY <1>1, <3>1, UnmovedMoves
  <2> QED
    BY <1>1, <2>1, <2>2, StepMoves DEF MessagingNext
<1>2. ChannelIInv /\ IInv' /\ [MessagingNext]_messagingVars => ChannelIInv' /\ [Promise!Next]_(Promise!vars)
  BY <1>1 DEF ChannelIInv, Moved, Promised
<1> QED
  BY <1>2, ChannelInit, Invariance, PTL DEF MessagingSpec, ImplementsChannel, Promise!Spec

=============================================================================

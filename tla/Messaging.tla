----------------------------- MODULE Messaging -----------------------------
(***************************************************************************)
(* gogoc-messaging, the channel between gogoc ("client", the pipe server)  *)
(* and its user interface ("gui", the pipe client), on the one platform    *)
(* for which the repository has a pipe: windows/.  Each side has           *)
(*   - a manager thread that connects, and connects anew after a failure   *)
(*     (CommunicationsManager::Work, mpc);                                 *)
(*   - a sender thread that takes messages from a queue, cuts them into    *)
(*     packets and writes them to the pipe (SenderThread::Work, spc);      *)
(*   - a receiver thread that puts packets together and hands the message  *)
(*     to its translator (ReceiverThread::Work, rpc);                      *)
(*   - the threads that post messages: the program's own and, for gogoc,   *)
(*     the receiver thread, which answers requests.                        *)
(* One semaphore serialises the threads' use of the pipe (mutex); another  *)
(* counts the messages of the queue (sem).                                 *)
(***************************************************************************)
EXTENDS MessageFormat, Naturals, Sequences, FiniteSets

CONSTANTS
    PacketMax,     \* PKT_USERDATA_MAX, in cells
    PipeSize,      \* PIPE_BUFSIZ, in cells
    MaxQueue,      \* MAX_QUEUE_ITEMS
    SeqNums,       \* message sequence numbers are taken modulo SeqNums
    InitErrors,    \* INITERRORS_THRESHOLD
    Postings,      \* by side: the messages its program may post
    Answers,       \* by request: the messages gogoc may answer with
    MaxPosts,      \* bound, by side: messages its program posts
    MaxConns,      \* bound: connections
    MaxEvents,     \* bound: messages the programs post and faults, together
    MaxFaults      \* bound: times a messenger is destroyed, its process killed, a thread
                   \* not created, or a wait for a mutex that is not lost takes 15 s

Side == {"client", "gui"}
Other(s) == IF s = "client" THEN "gui" ELSE "client"
Thread == {"app", "receiver"}

\* A message as it waits in the queue: its bytes, and what it is about.
Message(id, raw, info) == [raw |-> raw, about |-> <<id, Normal(id, info)>>]

\* The packets of a message of n cells.
Fragments(n) == (n + PacketMax - 1) \div PacketMax

ASSUME SizesAssumption ==
    /\ {PacketMax, PipeSize, MaxQueue, SeqNums} \subseteq Nat \ {0}
    /\ MaxPosts \in [Side -> Nat]
    /\ {InitErrors, MaxConns, MaxEvents, MaxFaults} \subseteq Nat

\* All that is ever posted.
Messages == UNION ({Postings[s] : s \in Side} \cup {Answers[r] : r \in DOMAIN Answers})

\* What a side's sender may be given: only gogoc answers.
Sendable(s) ==
    Postings[s] \cup IF s = "client" THEN UNION {Answers[r] : r \in DOMAIN Answers} ELSE {}

ASSUME AnswersAssumption == DOMAIN Answers \subseteq Requests

\* What a sender is given is what the function that sends its kind of message makes of
\* the information, of the types in gogocmsgdata.h, and the kind is one its program sends.
ASSUME SentAssumption ==
    \A s \in Side : \A m \in Sendable(s) :
        LET id == m.about[1]
            info == m.about[2]
        IN /\ m.about = <<id, info>> /\ m.raw = Send(id, info)
           /\ id \in (IF s = "client" THEN FromClient ELSE FromGUI)
           /\ WellTyped(id, info)

\* A message is a sequence of cells, its header and what follows.
ASSUME MessagesAssumption ==
    \A m \in Messages :
        /\ Len(m.raw) \in Nat /\ Len(m.raw) >= MSG_HEADER_LEN
        /\ m.raw = [k \in 1 .. Len(m.raw) |-> m.raw[k]]

\* PIPE_BUFSIZ "should be large enough to accomodate user messages": a message
\* with its packet headers (one cell each) fits into an empty pipe.
ASSUME PipeAssumption ==
    \A m \in Messages : Len(m.raw) + Fragments(Len(m.raw)) <= PipeSize

VARIABLES
    mpc,          \* the manager thread
    mstate,       \* m_eManagerStatus; the queue takes messages when "connected"
    nErrorCount,  \* consecutive initialisations that failed
    quitting,     \* the messenger is being destroyed
    link,         \* this side's end of the pipe
    pipe,         \* packets this side has written and the other has not read
    mutex,        \* m_pSemIPCMutex: the thread that holds it; "lost" with a dead one
    spc,          \* the sender thread
    nFragSeqNum,  \* its fragment number
    nSeqNum,      \* its static message number
    rpc,          \* the receiver thread
    buf,          \* what it has read of the present message
    queue,        \* m_SendQueue
    sem,          \* the count of m_pSemaphore
    post,         \* PostMessage() of each thread
    conns, ends, timeouts, posted,  \* counters for the bounds
    sent,         \* by sender: messages whose sending began on this connection
    got,          \* by sender: what the other side's translator made of them
    raced         \* a post met another post, the sender's pop() or a Reset() halfway

manager == <<mpc, mstate, nErrorCount, quitting>>
pipes   == <<link, pipe, mutex>>
sender  == <<spc, nFragSeqNum, nSeqNum>>
receiver == <<rpc, buf>>
posts   == <<queue, sem, post>>
bounds  == <<conns, ends, timeouts, posted>>
history == <<sent, got, raced>>
messagingVars == <<manager, pipes, sender, receiver, posts, bounds, history>>

NoPacket == [data |-> <<>>, seq |-> NULL, frag |-> NULL]
NoPost == [pc |-> "idle", msg |-> NULL]

MessagingInit ==
    /\ mpc = [s \in Side |-> "off"]
    /\ mstate = [s \in Side |-> "disconnected"]
    /\ nErrorCount = [s \in Side |-> 0]
    /\ quitting = [s \in Side |-> FALSE]
    /\ link = [s \in Side |-> "none"]
    /\ pipe = [s \in Side |-> <<>>]
    /\ mutex = [s \in Side |-> "free"]
    /\ spc = [s \in Side |-> "none"]
    /\ nFragSeqNum = [s \in Side |-> 0]
    /\ nSeqNum = [s \in Side |-> 0]
    /\ rpc = [s \in Side |-> "none"]
    /\ buf = [s \in Side |-> NoPacket]
    /\ queue = [s \in Side |-> <<>>]
    /\ sem = [s \in Side |-> 0]
    /\ post = [s \in Side |-> [t \in Thread |-> NoPost]]
    /\ conns = 0 /\ ends = 0 /\ timeouts = 0
    /\ posted = [s \in Side |-> 0]
    /\ sent = [s \in Side |-> <<>>]
    /\ got = [s \in Side |-> <<>>]
    /\ raced = [s \in Side |-> FALSE]

\* What may happen yet, by the bounds.
EventsLeft == posted["client"] + posted["gui"] + ends + timeouts < MaxEvents

FaultsLeft == ends + timeouts < MaxFaults /\ EventsLeft

----------------------------------------------------------------------------
(* The manager thread.                                                     *)

\* SetState(): the manager's state, and with it whether messages are taken.
SetState(s, state) == mstate' = [mstate EXCEPT ![s] = state]

Goto(s, at) == mpc' = [mpc EXCEPT ![s] = at]

\* initialize_messaging() and the messengers' constructors: a new manager, a
\* new Servent with a free mutex, and the manager thread.
Construct(s) ==
    /\ mpc[s] = "off"
    /\ Goto(s, "loop")
    /\ SetState(s, "disconnected")
    /\ nErrorCount' = [nErrorCount EXCEPT ![s] = 0]
    /\ mutex' = [mutex EXCEPT ![s] = "free"]
    /\ queue' = [queue EXCEPT ![s] = <<>>]
    /\ sem' = [sem EXCEPT ![s] = 0]
    /\ UNCHANGED <<quitting, link, pipe, sender, receiver, post, bounds, history>>

\* Work(): a disconnected manager cleans up before it connects.
StartCleanup(s) ==
    /\ mpc[s] = "loop" /\ mstate[s] = "disconnected"
    /\ Goto(s, "stopSender")
    /\ UNCHANGED <<mstate, nErrorCount, quitting, pipes, sender, receiver, posts, bounds, history>>

\* Work() returns after a fatal error.
GiveUp(s) ==
    /\ mpc[s] = "loop" /\ mstate[s] = "fatal"
    /\ Goto(s, "ended")
    /\ UNCHANGED <<mstate, nErrorCount, quitting, pipes, sender, receiver, posts, bounds, history>>

\* uninitialize_messaging() and the destructors: the manager thread is stopped
\* wherever it waits (for the next round, for the other side or for a thread's
\* end), then this thread cleans up.
Destroy(s) ==
    /\ mpc[s] \in {"loop", "initialize", "accept", "stopSender", "stopReceiver", "ended"}
    /\ ~quitting[s]
    /\ FaultsLeft
    /\ post[s]["app"] = NoPost
    /\ ends' = ends + 1
    /\ quitting' = [quitting EXCEPT ![s] = TRUE]
    /\ Goto(s, "stopSender")
    /\ UNCHANGED <<mstate, nErrorCount, pipes, sender, receiver, posts,
                   conns, timeouts, posted, history>>

\* ThreadWrapper::Stop() of the sender, which has ended or was never started.
StopSender(s) ==
    /\ mpc[s] = "stopSender" /\ spc[s] \in {"none", "ended"}
    /\ spc' = [spc EXCEPT ![s] = "none"]
    /\ Goto(s, "stopReceiver")
    /\ UNCHANGED <<mstate, nErrorCount, quitting, pipes, nFragSeqNum, nSeqNum,
                   receiver, posts, bounds, history>>

\* The next packet of the message at the head of the queue, and whether the
\* pipe has room for it.
PacketCells(s) ==
    LET raw == Head(queue[s]).raw
        first == nFragSeqNum[s] * PacketMax
    IN SubSeq(raw, first + 1, Min({first + PacketMax, Len(raw)}))

CellsOf(packets) ==
    LET cells[n \in 0 .. Len(packets)] ==
            IF n = 0 THEN 0 ELSE cells[n - 1] + Len(packets[n].data) + 1
    IN cells[Len(packets)]

\* Mutant: the pipe's buffer holds no more than a packet.
RoomOnePacket(s) == pipe[s] = <<>>

Room(s) == CellsOf(pipe[s]) + Len(PacketCells(s)) + 1 <= PipeSize

\* Where a sender can be for longer than the 200 ms that Stop() waits: in a
\* write to a full pipe, or waiting for the other thread's mutex.
SenderBlocked(s) ==
    \/ spc[s] = "writing" /\ link[s] = "up" /\ ~Room(s)
    \/ spc[s] \in {"check", "lock"} /\ mutex[s] # "free"

ReceiverBlocked(s) ==
    \/ rpc[s] = "reading" /\ link[s] = "up" /\ pipe[Other(s)] = <<>>
    \/ rpc[s] \in {"poll", "lock"} /\ mutex[s] # "free"

\* Stop() terminates a thread that does not end, with what it holds.
TerminateSender(s) ==
    /\ mpc[s] = "stopSender" /\ SenderBlocked(s)
    /\ spc' = [spc EXCEPT ![s] = "none"]
    /\ mutex' = [mutex EXCEPT ![s] = IF spc[s] = "writing" THEN "lost" ELSE @]
    /\ Goto(s, "stopReceiver")
    /\ UNCHANGED <<mstate, nErrorCount, quitting, link, pipe, nFragSeqNum, nSeqNum,
                   receiver, posts, bounds, history>>

StopReceiver(s) ==
    /\ mpc[s] = "stopReceiver" /\ rpc[s] \in {"none", "ended"}
    /\ rpc' = [rpc EXCEPT ![s] = "none"]
    /\ Goto(s, "close")
    /\ UNCHANGED <<mstate, nErrorCount, quitting, pipes, sender, buf, posts, bounds, history>>

TerminateReceiver(s) ==
    /\ mpc[s] = "stopReceiver" /\ ReceiverBlocked(s)
    /\ rpc' = [rpc EXCEPT ![s] = "none"]
    /\ mutex' = [mutex EXCEPT ![s] = IF rpc[s] = "reading" THEN "lost" ELSE @]
    /\ Goto(s, "close")
    /\ UNCHANGED <<mstate, nErrorCount, quitting, link, pipe, sender, buf, posts, bounds, history>>

\* This side's end of the pipe is closed; the other finds it broken.
CloseEnd(s) ==
    /\ link' = [link EXCEPT ![s] = "none",
                            ![Other(s)] = IF @ = "up" THEN "broken" ELSE @]
    /\ pipe' = [pipe EXCEPT ![Other(s)] = <<>>]

\* Mutant: the emptied queue keeps its semaphore.
CleanupSemaphoreKept(s) ==
    /\ mpc[s] = "close"
    /\ CloseEnd(s)
    /\ queue' = [queue EXCEPT ![s] = <<>>]
    /\ raced' = [raced EXCEPT ![s] = @ \/ \E t \in Thread : post[s][t].pc = "release"]
    /\ Goto(s, IF quitting[s] THEN "off" ELSE "initialize")
    /\ SetState(s, IF quitting[s] THEN "disconnected" ELSE "pending")
    /\ quitting' = [quitting EXCEPT ![s] = FALSE]
    /\ UNCHANGED <<sem, nErrorCount, mutex, sender, receiver, post, bounds, sent, got>>

\* UnInitialize(), then MessageSender::Reset(): the queue is emptied and gets a
\* new semaphore, whoever is posting.
Cleanup(s) ==
    /\ mpc[s] = "close"
    /\ CloseEnd(s)
    /\ queue' = [queue EXCEPT ![s] = <<>>]
    /\ sem' = [sem EXCEPT ![s] = 0]
    /\ raced' = [raced EXCEPT ![s] = @ \/ \E t \in Thread : post[s][t].pc = "release"]
    /\ Goto(s, IF quitting[s] THEN "off" ELSE "initialize")
    /\ SetState(s, IF quitting[s] THEN "disconnected" ELSE "pending")
    /\ quitting' = [quitting EXCEPT ![s] = FALSE]
    /\ UNCHANGED <<nErrorCount, mutex, sender, receiver, post, bounds, sent, got>>

\* The server creates its pipe and signals that it is ready.
CreateConnectionPoint ==
    /\ mpc["client"] = "initialize"
    /\ link' = [link EXCEPT !["client"] = "listening"]
    /\ Goto("client", "accept")
    /\ UNCHANGED <<mstate, nErrorCount, quitting, pipe, mutex, sender, receiver, posts,
                   bounds, history>>

\* The user interface opens the pipe: a new connection.
Connect ==
    /\ mpc["gui"] = "initialize" /\ link["client"] = "listening"
    /\ conns < MaxConns
    /\ conns' = conns + 1
    /\ link' = [s \in Side |-> "up"]
    /\ pipe' = [s \in Side |-> <<>>]
    /\ sent' = [s \in Side |-> <<>>]
    /\ got' = [s \in Side |-> <<>>]
    /\ Goto("gui", "start")
    /\ UNCHANGED <<mstate, nErrorCount, quitting, mutex, sender, receiver, posts,
                   ends, timeouts, posted, raced>>

\* ConnectNamedPipe() returns, with a client that may have gone again.
AcceptConnection ==
    /\ mpc["client"] = "accept" /\ link["client"] \in {"up", "broken"}
    /\ Goto("client", "start")
    /\ UNCHANGED <<mstate, nErrorCount, quitting, pipes, sender, receiver, posts, bounds, history>>

\* Initialize() fails: CreateNamedPipe(), ConnectNamedPipe() or CreateFile().
InitializeFails(s) ==
    /\ \/ mpc[s] = "initialize"
       \/ mpc[s] = "accept" /\ link[s] # "up"
    /\ nErrorCount' = [nErrorCount EXCEPT ![s] = @ + 1]
    /\ SetState(s, IF nErrorCount[s] + 1 > InitErrors THEN "fatal" ELSE "disconnected")
    /\ Goto(s, "loop")
    /\ UNCHANGED <<quitting, pipes, sender, receiver, posts, bounds, history>>

\* Initialize() starts the two threads, and does not ask whether they run ...
StartThreads(s) ==
    /\ mpc[s] = "start"
    /\ \E spcs \in {"wait", "none"}, rpcs \in {"poll", "none"} :
          /\ spc' = [spc EXCEPT ![s] = spcs]
          /\ rpc' = [rpc EXCEPT ![s] = rpcs]
          /\ IF "none" \in {spcs, rpcs}
             THEN FaultsLeft /\ ends' = ends + 1
             ELSE ends' = ends
    /\ Goto(s, "started")
    /\ UNCHANGED <<mstate, nErrorCount, quitting, pipes, nFragSeqNum, nSeqNum, buf, posts,
                   conns, timeouts, posted, history>>

\* ... and Work() calls the manager connected, whatever they found meanwhile.
SetConnected(s) ==
    /\ mpc[s] = "started"
    /\ nErrorCount' = [nErrorCount EXCEPT ![s] = 0]
    /\ SetState(s, "connected")
    /\ Goto(s, "loop")
    /\ UNCHANGED <<quitting, pipes, sender, receiver, posts, bounds, history>>

ManagerStep(s) ==
    \/ StartCleanup(s) \/ GiveUp(s) \/ StopSender(s) \/ TerminateSender(s)
    \/ StopReceiver(s) \/ TerminateReceiver(s) \/ Cleanup(s)
    \/ s = "client" /\ (CreateConnectionPoint \/ AcceptConnection)
    \/ s = "gui" /\ Connect
    \/ StartThreads(s) \/ SetConnected(s)

----------------------------------------------------------------------------
(* The sender thread.                                                      *)

\* What is left of a process that ends at once: its end of the pipe is closed.
ProcessEnds(s, at) ==
    /\ Goto(s, at)
    /\ SetState(s, "disconnected")
    /\ quitting' = [quitting EXCEPT ![s] = FALSE]
    /\ CloseEnd(s)
    /\ spc' = [spc EXCEPT ![s] = "none"]
    /\ rpc' = [rpc EXCEPT ![s] = "none"]
    /\ post' = [post EXCEPT ![s] = [t \in Thread |-> NoPost]]
    /\ queue' = [queue EXCEPT ![s] = <<>>]

\* The while condition: told to stop, the thread takes nothing more.
SenderStops(s) ==
    /\ spc[s] = "wait" /\ mpc[s] = "stopSender"
    /\ spc' = [spc EXCEPT ![s] = "ended"]
    /\ UNCHANGED <<manager, pipes, nFragSeqNum, nSeqNum, receiver, posts, bounds, history>>

\* A message was posted.
SenderTakes(s) ==
    /\ spc[s] = "wait" /\ mpc[s] # "stopSender" /\ sem[s] > 0 /\ queue[s] # <<>>
    /\ sem' = [sem EXCEPT ![s] = @ - 1]
    /\ spc' = [spc EXCEPT ![s] = "check"]
    /\ UNCHANGED <<manager, pipes, nFragSeqNum, nSeqNum, receiver, queue, post, bounds, history>>

\* assert( m_CommMgr->m_SendQueue.size() > 0 )
AssertionFails(s) ==
    /\ spc[s] = "wait" /\ mpc[s] # "stopSender" /\ sem[s] > 0 /\ queue[s] = <<>>
    /\ sem' = [sem EXCEPT ![s] = @ - 1]
    /\ ProcessEnds(s, "aborted")
    /\ UNCHANGED <<nErrorCount, mutex, nFragSeqNum, nSeqNum, buf, bounds, history>>

\* Messages are coming in: the semaphore is given back, they are read first.
SenderWaitsForReceiver(s) ==
    /\ spc[s] = "check" /\ mutex[s] = "free" /\ pipe[Other(s)] # <<>>
    /\ sem' = [sem EXCEPT ![s] = @ + 1]
    /\ spc' = [spc EXCEPT ![s] = "wait"]
    /\ UNCHANGED <<manager, pipes, nFragSeqNum, nSeqNum, receiver, queue, post, bounds, history>>

SenderMayWrite(s) ==
    /\ spc[s] = "check" /\ mutex[s] = "free" /\ link[s] = "up" /\ pipe[Other(s)] = <<>>
    /\ spc' = [spc EXCEPT ![s] = "lock"]
    /\ UNCHANGED <<manager, pipes, nFragSeqNum, nSeqNum, receiver, posts, bounds, history>>

\* A wait for the mutex ends after MUTEX_TIMEOUT: it is held, or lost for good.
TimesOut(s) ==
    /\ mutex[s] # "free"
    /\ mutex[s] # "lost" => FaultsLeft
    /\ timeouts' = IF mutex[s] = "lost" THEN timeouts ELSE timeouts + 1

\* CanRead() leaves NOERROR and FALSE when it could not get the mutex.
SenderCheckTimesOut(s) ==
    /\ spc[s] = "check" /\ TimesOut(s)
    /\ spc' = [spc EXCEPT ![s] = "lock"]
    /\ UNCHANGED <<manager, pipes, nFragSeqNum, nSeqNum, receiver, posts,
                   conns, ends, posted, history>>

\* Servent::WriteData() gets the mutex.
SenderLocks(s) ==
    /\ spc[s] = "lock" /\ mutex[s] = "free"
    /\ mutex' = [mutex EXCEPT ![s] = "sender"]
    /\ nFragSeqNum' = [nFragSeqNum EXCEPT ![s] = 0]
    /\ sent' = [sent EXCEPT ![s] = Append(@, Head(queue[s]).about)]
    /\ spc' = [spc EXCEPT ![s] = "writing"]
    /\ UNCHANGED <<manager, link, pipe, nSeqNum, receiver, posts, bounds, got, raced>>

LastPacket(s) == (nFragSeqNum[s] + 1) * PacketMax >= Len(Head(queue[s]).raw)

\* The message types of the packets.
PacketType(s) ==
    CASE nFragSeqNum[s] = 0 /\ LastPacket(s)  -> "NONFRAGDATA"
      [] nFragSeqNum[s] = 0 /\ ~LastPacket(s) -> "FRAGDATAFIRST"
      [] nFragSeqNum[s] > 0 /\ LastPacket(s)  -> "FRAGDATALAST"
      [] OTHER                                -> "FRAGDATA"

\* MakePacket()
Packet(s) == [type |-> PacketType(s), seq |-> nSeqNum[s], frag |-> nFragSeqNum[s],
              data |-> PacketCells(s)]

\* _WriteData(): a packet; the mutex is released after the last.
SenderWrites(s) ==
    /\ spc[s] = "writing" /\ link[s] = "up" /\ Room(s)
    /\ pipe' = [pipe EXCEPT ![s] = Append(@, Packet(s))]
    /\ IF LastPacket(s)
       THEN /\ mutex' = [mutex EXCEPT ![s] = "free"]
            /\ nSeqNum' = [nSeqNum EXCEPT ![s] = (@ + 1) % SeqNums]
            /\ spc' = [spc EXCEPT ![s] = "pop"]
            /\ UNCHANGED nFragSeqNum
       ELSE /\ nFragSeqNum' = [nFragSeqNum EXCEPT ![s] = @ + 1]
            /\ UNCHANGED <<mutex, nSeqNum, spc>>
    /\ UNCHANGED <<manager, link, receiver, posts, bounds, history>>

\* m_SendQueue.pop(): unsynchronised.
SenderPops(s) ==
    /\ spc[s] = "pop"
    /\ spc' = [spc EXCEPT ![s] = "wait"]
    /\ queue' = [queue EXCEPT ![s] = Tail(@)]
    /\ UNCHANGED <<manager, pipes, nFragSeqNum, nSeqNum, receiver, sem, post, bounds, history>>

\* Of a pop() and a push() at once, each of which counts the queue anew, one may not
\* count: the pushed message is lost, or there is one more than was pushed, whose
\* place holds what the memory of a message that was sent, and freed, now holds.
SenderPopsMidPush(s, t) ==
    /\ spc[s] = "pop" /\ post[s][t].pc = "push"
    /\ spc' = [spc EXCEPT ![s] = "wait"]
    /\ post' = [post EXCEPT ![s][t].pc = "release"]
    /\ \/ queue' = [queue EXCEPT ![s] = Tail(@)]
       \/ \E m \in Sendable(s) : queue' = [queue EXCEPT ![s] = Tail(@) \o <<post[s][t].msg, m>>]
    /\ raced' = [raced EXCEPT ![s] = TRUE]
    /\ UNCHANGED <<manager, pipes, nFragSeqNum, nSeqNum, receiver, sem, bounds, sent, got>>

\* An error ends the thread and tells the manager.
SenderEnds(s) ==
    /\ spc' = [spc EXCEPT ![s] = "ended"]
    /\ SetState(s, "disconnected")
    /\ UNCHANGED <<mpc, nErrorCount, quitting, link, pipe, nFragSeqNum, nSeqNum, receiver,
                   posts, conns, ends, posted, history>>

SenderFails(s) ==
    /\ link[s] # "up"
    /\ \/ spc[s] = "check" /\ mutex[s] = "free"
       \/ spc[s] = "writing"
    /\ mutex' = [mutex EXCEPT ![s] = "free"]
    /\ SenderEnds(s)
    /\ UNCHANGED timeouts

\* GOGOCM_UIS_IOWAITTIMEOUT
SenderLockTimesOut(s) ==
    /\ spc[s] = "lock" /\ TimesOut(s)
    /\ SenderEnds(s)
    /\ UNCHANGED mutex

SenderStep(s) ==
    \/ SenderStops(s) \/ SenderTakes(s) \/ AssertionFails(s) \/ SenderWaitsForReceiver(s)
    \/ SenderMayWrite(s) \/ SenderLocks(s) \/ SenderWrites(s) \/ SenderPops(s) \/ SenderFails(s)
    \/ \E t \in Thread : SenderPopsMidPush(s, t)

----------------------------------------------------------------------------
(* The receiver thread.                                                    *)

ReceiverStops(s) ==
    /\ rpc[s] = "poll" /\ mpc[s] = "stopReceiver"
    /\ rpc' = [rpc EXCEPT ![s] = "ended"]
    /\ UNCHANGED <<manager, pipes, sender, buf, posts, bounds, history>>

ReceiverSees(s) ==
    /\ rpc[s] = "poll" /\ mpc[s] # "stopReceiver"
    /\ mutex[s] = "free" /\ pipe[Other(s)] # <<>>
    /\ rpc' = [rpc EXCEPT ![s] = "lock"]
    /\ UNCHANGED <<manager, pipes, sender, buf, posts, bounds, history>>

\* Servent::ReadData() gets the mutex.
ReceiverLocks(s) ==
    /\ rpc[s] = "lock" /\ mutex[s] = "free"
    /\ mutex' = [mutex EXCEPT ![s] = "receiver"]
    /\ buf' = [buf EXCEPT ![s] = NoPacket]
    /\ rpc' = [rpc EXCEPT ![s] = "reading"]
    /\ UNCHANGED <<manager, link, pipe, sender, posts, bounds, history>>

\* _ReadData() rejects a packet of another message, or out of order.
InOrder(last, p) == last.seq = NULL \/ (p.seq = last.seq /\ p.frag = last.frag + 1)

EndsMessage(p) == p.type \in {"NONFRAGDATA", "FRAGDATALAST"}

ReceiverEnds(s) ==
    /\ rpc' = [rpc EXCEPT ![s] = "ended"]
    /\ SetState(s, "disconnected")

\* _ReadData(): one packet; the mutex is released after the last.
ReceiverReads(s) ==
    /\ rpc[s] = "reading" /\ pipe[Other(s)] # <<>>
    /\ pipe' = [pipe EXCEPT ![Other(s)] = Tail(@)]
    /\ LET p == Head(pipe[Other(s)])
           done == ~InOrder(buf[s], p) \/ EndsMessage(p)
       IN /\ buf' = [buf EXCEPT ![s] = [data |-> @.data \o p.data, seq |-> p.seq, frag |-> p.frag]]
          /\ mutex' = [mutex EXCEPT ![s] = IF done THEN "free" ELSE @]
          /\ IF InOrder(buf[s], p)
             THEN /\ rpc' = [rpc EXCEPT ![s] = IF done THEN "process" ELSE @]
                  /\ UNCHANGED mstate
             ELSE ReceiverEnds(s)
    /\ UNCHANGED <<mpc, nErrorCount, quitting, link, sender, posts, bounds, history>>

ReceiverFails(s) ==
    /\ link[s] # "up"
    /\ \/ rpc[s] = "poll" /\ mutex[s] = "free"
       \/ rpc[s] = "reading"
    /\ mutex' = [mutex EXCEPT ![s] = "free"]
    /\ ReceiverEnds(s)
    /\ UNCHANGED <<mpc, nErrorCount, quitting, link, pipe, sender, buf, posts, bounds, history>>

ReceiverLockTimesOut(s) ==
    /\ rpc[s] = "lock" /\ TimesOut(s)
    /\ ReceiverEnds(s)
    /\ UNCHANGED <<mpc, nErrorCount, quitting, pipes, sender, buf, posts,
                   conns, ends, posted, history>>

----------------------------------------------------------------------------
(* MessageSender::PostMessage(), which any thread may call.                *)

\* The state and the size are tested; a message that is not taken is dropped.
Takes(s) == mstate[s] = "connected" /\ Len(queue[s]) < MaxQueue

StartPost(s, t, m) ==
    post' = [post EXCEPT ![s][t] = IF Takes(s) THEN [pc |-> "push", msg |-> m] ELSE NoPost]

\* m_SendQueue.push(): unsynchronised.  Of two threads that push at once, the
\* one may overwrite what the other stores.
Push(s, t) ==
    /\ post[s][t].pc = "push"
    /\ post' = [post EXCEPT ![s][t].pc = "release"]
    /\ \/ /\ queue' = [queue EXCEPT ![s] = Append(@, post[s][t].msg)]
          /\ UNCHANGED raced
       \/ /\ \E u \in Thread \ {t} : post[s][u].pc = "push"
          /\ raced' = [raced EXCEPT ![s] = TRUE]
          /\ UNCHANGED queue
    /\ UNCHANGED <<manager, pipes, sender, receiver, sem, bounds, sent, got>>

\* Mutant: the sender is not told of the message.
ReleaseNot(s, t) ==
    /\ post[s][t].pc = "release"
    /\ post' = [post EXCEPT ![s][t] = NoPost]
    /\ UNCHANGED <<manager, pipes, sender, receiver, queue, sem, bounds, history>>

\* m_pSemaphore->ReleaseLock()
Release(s, t) ==
    /\ post[s][t].pc = "release"
    /\ sem' = [sem EXCEPT ![s] = @ + 1]
    /\ post' = [post EXCEPT ![s][t] = NoPost]
    /\ UNCHANGED <<manager, pipes, sender, receiver, queue, bounds, history>>

\* The program posts: a request or a configuration, a status that has changed.
AppPosts(s) ==
    /\ mpc[s] \notin {"off", "aborted"} /\ ~quitting[s]
    /\ post[s]["app"] = NoPost
    /\ posted[s] < MaxPosts[s] /\ EventsLeft
    /\ posted' = [posted EXCEPT ![s] = @ + 1]
    /\ \E m \in Postings[s] : StartPost(s, "app", m)
    /\ UNCHANGED <<manager, pipes, sender, receiver, queue, sem, conns, ends, timeouts, history>>

\* What the translator hands to its messenger.
Handled(s) ==
    IF s = "client" THEN ServerMsgTranslator(buf[s].data) ELSE ClientMsgTranslator(buf[s].data)

\* RetrieveStatusInfo() and its like: what gogoc can tell of the moment.
Retrieve(id) == IF id \in DOMAIN Answers THEN Answers[id] ELSE {}

\* Recv_StatusInfoRequest() and its like: what is asked for is retrieved and
\* posted.  Other messages, and requests that cannot be met, are not answered.
Recv_Request(s, id) ==
    \/ \E m \in Retrieve(id) : StartPost(s, "receiver", m)
    \/ UNCHANGED post

\* ProcessMessage(): the handler, and what it posts.
ReceiverProcesses(s) ==
    /\ rpc[s] = "process"
    /\ got' = [got EXCEPT ![Other(s)] = Append(@, Handled(s))]
    /\ Recv_Request(s, Handled(s)[1])
    /\ rpc' = [rpc EXCEPT ![s] = "posting"]
    /\ UNCHANGED <<manager, pipes, sender, buf, queue, sem, bounds, sent, raced>>

\* PostMessage() and ProcessMessage() have returned.
ReceiverGoesOn(s) ==
    /\ rpc[s] = "posting" /\ post[s]["receiver"] = NoPost
    /\ rpc' = [rpc EXCEPT ![s] = "poll"]
    /\ UNCHANGED <<manager, pipes, sender, buf, posts, bounds, history>>

ReceiverStep(s) ==
    \/ ReceiverStops(s) \/ ReceiverSees(s) \/ ReceiverLocks(s) \/ ReceiverReads(s)
    \/ ReceiverFails(s) \/ ReceiverProcesses(s) \/ ReceiverGoesOn(s)

PostStep(s) == \E t \in Thread : Push(s, t) \/ Release(s, t)

----------------------------------------------------------------------------
(* The user interface is killed, in the middle of anything.                *)

Killed ==
    /\ mpc["gui"] \notin {"off", "aborted"}
    /\ FaultsLeft
    /\ ends' = ends + 1
    /\ ProcessEnds("gui", "off")
    /\ UNCHANGED <<nErrorCount, mutex, nFragSeqNum, nSeqNum, buf, sem,
                   conns, timeouts, posted, history>>

MessagingNext ==
    \/ Killed
    \/ \E s \in Side :
          \/ Construct(s) \/ Destroy(s) \/ InitializeFails(s) \/ ManagerStep(s)
          \/ SenderStep(s) \/ SenderCheckTimesOut(s) \/ SenderLockTimesOut(s)
          \/ ReceiverStep(s) \/ ReceiverLockTimesOut(s)
          \/ AppPosts(s) \/ PostStep(s)

\* Every thread runs on: each is scheduled again and again, and no lock is
\* asked for while it is always free.  A wait that ends in a time-out does so
\* only if the mutex is lost.
Fairness ==
    \A s \in Side :
        /\ WF_messagingVars(ManagerStep(s))
        /\ WF_messagingVars(SenderStep(s))
        /\ WF_messagingVars(ReceiverStep(s))
        /\ WF_messagingVars(PostStep(s))
        /\ WF_messagingVars(mutex[s] = "lost" /\ (SenderCheckTimesOut(s) \/ SenderLockTimesOut(s)))

MessagingSpec == MessagingInit /\ [][MessagingNext]_messagingVars /\ Fairness

----------------------------------------------------------------------------
(* Properties.                                                             *)

\* What of a message reaches the other side's handler: all of it, but for the
\* distances behind the first broker's (see BuildBrokerList).
Legible(about) ==
    IF about[1] = "BrokerList"
    THEN <<about[1], [k \in DOMAIN about[2] |->
                        IF k = 1 THEN about[2][k] ELSE [about[2][k] EXCEPT !.nDistance = NULL]]>>
    ELSE about

AllLegible(messages) == [s \in Side |-> [n \in DOMAIN messages[s] |-> Legible(messages[s][n])]]

Promise == INSTANCE Channel WITH accepted <- AllLegible(sent), delivered <- AllLegible(got)

\* Cut into packets, written by one thread and read by another while the threads
\* of the two processes compete for two mutexes, every message that the other
\* side's handlers are given is the one that was sent, in order and once, across
\* the loss of the connection and the end of either program.
ImplementsChannel == Promise!Spec

\* The two senders never wait for one another, each in a write to a full pipe
\* with its process' mutex held, so that neither receiver can make room: what
\* the test of CanRead() before a write is for ("preventing deadlocks").  It
\* takes a wait of 15 seconds for a mutex, after which CanRead() reports that
\* nothing is there, to get there.
NoMutualBlock ==
    timeouts = 0 => \E s \in Side : ~(spc[s] = "writing" /\ link[s] = "up" /\ ~Room(s))

\* The assertion of the sender thread, that a message is there when the
\* semaphore says so, fails only after a post has met another post, the sender's
\* pop() or the Reset() of a reconnection halfway: nothing else in the threads'
\* interleaving, and no lost connection, makes the semaphore and the queue disagree.
AssertionHolds == \A s \in Side : mpc[s] = "aborted" => raced[s]

\* While the four threads run, a message does not stay in a queue, whatever comes
\* in meanwhile.  A terminated thread that held the mutex can keep it there, as
\* can posts that met one another or the sender's pop().
Runs(pc) == pc \notin {"none", "ended"}

QueueServed ==
    \A s \in Side :
        []<>\/ queue[s] = <<>>
            \/ \E u \in Side : ~Runs(spc[u]) \/ ~Runs(rpc[u]) \/ mutex[u] = "lost"
            \/ raced[s]
=============================================================================

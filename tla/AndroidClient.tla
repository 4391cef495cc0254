---------------------------- MODULE AndroidClient ----------------------------
(***************************************************************************)
(* The Android application around the client: GogocService (Java, its main *)
(* thread), the native threads that run tspMain() through JNI, TunStop()   *)
(* and TunMainLoop(), and the dialogs of GogocActivity.                    *)
(*                                                                         *)
(* The main thread and the native threads share indSigHUP, g_pipefd and    *)
(* the pipes, without a lock; each access is a step.  tspMain() is reduced *)
(* to what the other threads see of it (TspMain has the rest): it looks at *)
(* the stop flag between sessions, a session fails, asks the user, or      *)
(* enters the tunnel loop.  A pipe is named after the thread that opened   *)
(* it, and g_pipefd after its pipe.                                        *)
(***************************************************************************)
EXTENDS Integers, Sequences

CONSTANTS
  Threads,        \* the native threads that may be started
  None,           \* no thread, no descriptor
  MaxQuestions,   \* bound on the questions asked
  MayOverlap      \* whether a start may come while an earlier thread still runs

ASSUME ThreadsAssumption ==
  None \notin Threads /\ MaxQuestions \in Nat /\ MayOverlap \in BOOLEAN

VARIABLES
  (* GogocService, its main thread *)
  registered,     \* its receiver is registered
  thread,         \* the field 'thread'
  main,           \* where stopProcess() is; idle between two calls
  interrupted,    \* the threads whose interrupt status is set
  (* the native side *)
  pc,             \* where each native thread is
  indSigHUP,
  g_pipefd,
  tunPipe,        \* the write end of each thread's pipe: none, open, closed
  written,        \* the threads whose pipe holds a byte
  (* questions *)
  mAnswer,
  signalled,      \* the waiting threads mAnswerReady was signalled to
  dialogs,        \* dialogs shown
  answers,        \* answers on their way from the activity to the service
  asked,          \* questions asked so far
  (* history *)
  told,           \* threads a stopProcess() found running
  mixed           \* two native threads were alive at once

javaVars == <<registered, thread, main, interrupted, told>>
pipeVars == <<g_pipefd, tunPipe, written>>
askVars == <<mAnswer, signalled, dialogs, answers, asked>>
vars == <<registered, thread, main, interrupted, pc, indSigHUP, g_pipefd, tunPipe, written,
          mAnswer, signalled, dialogs, answers, asked, told, mixed>>

----------------------------------------------------------------------------
Alive(t) == pc[t] \notin {"unborn", "over"}
PastReset(t) == Alive(t) /\ pc[t] # "born"

Init ==
  /\ registered = FALSE /\ thread = None /\ main = "idle" /\ interrupted = {}
  /\ pc = [t \in Threads |-> "unborn"]
  /\ indSigHUP = FALSE
  /\ g_pipefd = None /\ tunPipe = [t \in Threads |-> "none"] /\ written = {}
  /\ mAnswer = FALSE /\ signalled = {} /\ dialogs = 0 /\ answers = <<>> /\ asked = 0
  /\ told = {} /\ mixed = FALSE

MoveTo(t, where) == pc' = [pc EXCEPT ![t] = where]

----------------------------------------------------------------------------
(* GogocService *)

\* A second start finds the field set and starts nothing.
onStartCommand ==
  /\ main = "idle"
  /\ registered' = TRUE
  /\ \/ /\ thread = None
        /\ \E t \in Threads :
             /\ pc[t] = "unborn"
             /\ MayOverlap \/ \A u \in Threads : ~Alive(u)
             /\ MoveTo(t, "born")
             /\ thread' = t
             /\ mixed' = (mixed \/ \E u \in Threads : Alive(u))
     \/ thread # None /\ UNCHANGED <<thread, pc, mixed>>
  /\ UNCHANGED <<main, interrupted, indSigHUP, told>>
  /\ UNCHANGED pipeVars /\ UNCHANGED askVars

\* Mutant: the thread is forgotten without an interrupt.
InterruptThreadForgotten ==
  /\ thread' = None
  /\ UNCHANGED interrupted
  /\ told' = IF thread # None /\ PastReset(thread) THEN told \cup {thread} ELSE told

InterruptThread ==
  /\ thread' = None
  /\ interrupted' = IF thread # None /\ Alive(thread)
                    THEN interrupted \cup {thread} ELSE interrupted
  /\ told' = IF thread # None /\ PastReset(thread) THEN told \cup {thread} ELSE told

\* stopProcess(), from a quit command or from onDestroy(), which also unregisters the
\* receiver; TunStop() follows, a step at a time.
stopProcess ==
  /\ main = "idle"
  /\ registered
  /\ registered' \in BOOLEAN
  /\ InterruptThread
  /\ main' = "flag"
  /\ UNCHANGED <<pc, indSigHUP, mixed>>
  /\ UNCHANGED pipeVars /\ UNCHANGED askVars

SetStopFlag ==
  /\ main = "flag"
  /\ indSigHUP' = TRUE
  /\ main' = "test"
  /\ UNCHANGED <<registered, thread, interrupted, told, pc, mixed>>
  /\ UNCHANGED pipeVars /\ UNCHANGED askVars

TestPipe ==
  /\ main = "test"
  /\ main' = IF g_pipefd = None THEN "idle" ELSE "write"
  /\ UNCHANGED <<registered, thread, interrupted, told, pc, indSigHUP, mixed>>
  /\ UNCHANGED pipeVars /\ UNCHANGED askVars

\* g_pipefd is read again: its pipe may be closed by now, or it may be -1.
WritePipe ==
  /\ main = "write"
  /\ main' = "idle"
  /\ written' = IF g_pipefd # None /\ tunPipe[g_pipefd] = "open"
                THEN written \cup {g_pipefd} ELSE written
  /\ UNCHANGED <<registered, thread, interrupted, told, pc, indSigHUP, g_pipefd, tunPipe,
                 mixed>>
  /\ UNCHANGED askVars

\* The answer command: mAnswer is set and one waiting thread is signalled.
onAnswer ==
  /\ main = "idle"
  /\ answers # <<>>
  /\ answers' = Tail(answers)
  /\ IF registered
     THEN /\ mAnswer' = Head(answers)
          /\ LET waiting == {t \in Threads : pc[t] = "await"} \ signalled IN
             \/ waiting = {} /\ UNCHANGED signalled
             \/ \E t \in waiting : signalled' = signalled \cup {t}
     ELSE UNCHANGED <<mAnswer, signalled>>
  /\ UNCHANGED <<dialogs, asked, pc, indSigHUP, mixed>>
  /\ UNCHANGED javaVars /\ UNCHANGED pipeVars

----------------------------------------------------------------------------
(* GogocActivity *)

\* What each button sends: both answer yes.
AnswerSent(button) == TRUE

\* Mutant: the buttons stay active once one was pressed.
PressAgain(button) ==
  /\ main = "idle"
  /\ asked > 0 /\ Len(answers) < MaxQuestions
  /\ dialogs' = dialogs - 1
  /\ answers' = Append(answers, AnswerSent(button))
  /\ UNCHANGED <<mAnswer, signalled, asked, pc, indSigHUP, mixed>>
  /\ UNCHANGED javaVars /\ UNCHANGED pipeVars

Press(button) ==
  /\ main = "idle"
  /\ dialogs > 0
  /\ dialogs' = dialogs - 1
  /\ answers' = Append(answers, AnswerSent(button))
  /\ UNCHANGED <<mAnswer, signalled, asked, pc, indSigHUP, mixed>>
  /\ UNCHANGED javaVars /\ UNCHANGED pipeVars

----------------------------------------------------------------------------
(* A native thread: startup(), main() and tspMain() *)

nativeOnly == <<indSigHUP, mixed>>

\* main() forgets a stop that was asked for before it ran.  startup() may fail to get
\* its references, and tspMain() may end before its loop.
Main(t) ==
  /\ pc[t] = "born"
  /\ \/ MoveTo(t, "top") /\ indSigHUP' = FALSE
     \/ MoveTo(t, "over") /\ (indSigHUP' = FALSE \/ UNCHANGED indSigHUP)
  /\ UNCHANGED mixed
  /\ UNCHANGED javaVars /\ UNCHANGED pipeVars /\ UNCHANGED askVars

TopOfLoop(t) ==
  /\ pc[t] = "top"
  /\ MoveTo(t, IF indSigHUP THEN "over" ELSE "session")
  /\ UNCHANGED nativeOnly
  /\ UNCHANGED javaVars /\ UNCHANGED pipeVars /\ UNCHANGED askVars

\* The session fails, and is tried again at once or later; or there is a tunnel.
SessionEnds(t) ==
  /\ pc[t] \in {"session", "agreed"}
  /\ \E next \in {"top", "wait", "tun"} : MoveTo(t, next)
  /\ UNCHANGED nativeOnly
  /\ UNCHANGED javaVars /\ UNCHANGED pipeVars /\ UNCHANGED askVars

\* The delays between connections are seconds, cut short by the flag: the few
\* instructions of a stopProcess() under way are over before one is.
WaitEnds(t) ==
  /\ pc[t] = "wait"
  /\ indSigHUP \/ main = "idle"
  /\ MoveTo(t, "top")
  /\ UNCHANGED nativeOnly
  /\ UNCHANGED javaVars /\ UNCHANGED pipeVars /\ UNCHANGED askVars

\* An unknown server key: the question is sent to the activity, which shows a dialog.
Ask(t) ==
  /\ pc[t] = "session"
  /\ asked < MaxQuestions
  /\ asked' = asked + 1
  /\ dialogs' = dialogs + 1
  /\ MoveTo(t, "ask")
  /\ UNCHANGED <<mAnswer, signalled, answers>>
  /\ UNCHANGED nativeOnly /\ UNCHANGED javaVars /\ UNCHANGED pipeVars

\* await(): it throws at once when the thread is already interrupted.
Await(t) ==
  /\ pc[t] = "ask"
  /\ t \notin interrupted
  /\ MoveTo(t, "await")
  /\ UNCHANGED nativeOnly
  /\ UNCHANGED javaVars /\ UNCHANGED pipeVars /\ UNCHANGED askVars

AwaitInterrupted(t) ==
  /\ pc[t] \in {"ask", "await"}
  /\ t \in interrupted
  /\ interrupted' = interrupted \ {t}
  /\ signalled' = signalled \ {t}
  /\ MoveTo(t, "wait")
  /\ UNCHANGED <<registered, thread, main, told, mAnswer, dialogs, answers, asked>>
  /\ UNCHANGED nativeOnly /\ UNCHANGED pipeVars

\* A refused key fails the session.
Answered(t) ==
  /\ pc[t] = "await"
  /\ t \in signalled
  /\ signalled' = signalled \ {t}
  /\ MoveTo(t, IF mAnswer THEN "agreed" ELSE "wait")
  /\ UNCHANGED <<mAnswer, dialogs, answers, asked>>
  /\ UNCHANGED nativeOnly /\ UNCHANGED javaVars /\ UNCHANGED pipeVars

----------------------------------------------------------------------------
(* TunMainLoop() *)

OpenPipe(t) ==
  /\ pc[t] = "tun"
  /\ \/ /\ g_pipefd' = t
        /\ tunPipe' = [tunPipe EXCEPT ![t] = "open"]
        /\ MoveTo(t, "check")
     \/ MoveTo(t, "wait") /\ UNCHANGED <<g_pipefd, tunPipe>>
  /\ UNCHANGED written
  /\ UNCHANGED nativeOnly /\ UNCHANGED javaVars /\ UNCHANGED askVars

CheckForStop(t) ==
  /\ pc[t] = "check"
  /\ MoveTo(t, IF indSigHUP THEN "close" ELSE "select")
  /\ UNCHANGED nativeOnly
  /\ UNCHANGED javaVars /\ UNCHANGED pipeVars /\ UNCHANGED askVars

\* The byte TunStop() wrote, or the end of a pipe another thread closed.
WokenByPipe(t) ==
  /\ pc[t] = "select"
  /\ t \in written \/ tunPipe[t] # "open"
  /\ MoveTo(t, "close")
  /\ UNCHANGED nativeOnly
  /\ UNCHANGED javaVars /\ UNCHANGED pipeVars /\ UNCHANGED askVars

\* A packet from the tunnel or the socket, or the week is over; or reading or writing
\* a packet fails, as it does when the VPN is revoked.
TunnelPacket(t) ==
  /\ pc[t] = "select"
  /\ \E next \in {"check", "close"} : MoveTo(t, next)
  /\ UNCHANGED nativeOnly
  /\ UNCHANGED javaVars /\ UNCHANGED pipeVars /\ UNCHANGED askVars

CloseWriteEnd(t) ==
  /\ pc[t] = "close"
  /\ IF g_pipefd = None
     THEN MoveTo(t, "closeread") /\ UNCHANGED tunPipe
     ELSE /\ tunPipe' = [tunPipe EXCEPT ![g_pipefd] = "closed"]
          /\ MoveTo(t, "forget")
  /\ UNCHANGED <<g_pipefd, written>>
  /\ UNCHANGED nativeOnly /\ UNCHANGED javaVars /\ UNCHANGED askVars

\* Mutant: the descriptor stays in g_pipefd once it is closed.
ForgetPipeNot(t) ==
  /\ pc[t] = "forget"
  /\ MoveTo(t, "closeread")
  /\ UNCHANGED nativeOnly
  /\ UNCHANGED javaVars /\ UNCHANGED pipeVars /\ UNCHANGED askVars

ForgetPipe(t) ==
  /\ pc[t] = "forget"
  /\ g_pipefd' = None
  /\ MoveTo(t, "closeread")
  /\ UNCHANGED <<tunPipe, written>>
  /\ UNCHANGED nativeOnly /\ UNCHANGED javaVars /\ UNCHANGED askVars

\* With it goes what was written; the loop is left and the session is over.
CloseReadEnd(t) ==
  /\ pc[t] = "closeread"
  /\ written' = written \ {t}
  /\ \E next \in {"top", "wait"} : MoveTo(t, next)
  /\ UNCHANGED <<g_pipefd, tunPipe>>
  /\ UNCHANGED nativeOnly /\ UNCHANGED javaVars /\ UNCHANGED askVars

----------------------------------------------------------------------------
NativeStep(t) ==
  \/ Main(t) \/ TopOfLoop(t) \/ SessionEnds(t) \/ WaitEnds(t)
  \/ Await(t) \/ AwaitInterrupted(t) \/ Answered(t)
  \/ OpenPipe(t) \/ CheckForStop(t) \/ WokenByPipe(t)
  \/ CloseWriteEnd(t) \/ ForgetPipe(t) \/ CloseReadEnd(t)

StopStep == SetStopFlag \/ TestPipe \/ WritePipe

Next ==
  \/ onStartCommand \/ stopProcess \/ StopStep \/ onAnswer
  \/ \E button \in {"yes", "no"} : Press(button)
  \/ \E t \in Threads : NativeStep(t) \/ Ask(t) \/ TunnelPacket(t)

Spec == Init /\ [][Next]_vars

\* Threads run, and a session is over in time: each exchange with the server is
\* bounded (Rudp).  Nobody has to press a button, and no packet has to come.
FairSpec ==
  /\ Spec
  /\ WF_vars(StopStep)
  /\ \A t \in Threads : WF_vars(NativeStep(t))

----------------------------------------------------------------------------
(* Properties *)

NativePcs ==
  {"unborn", "born", "top", "session", "agreed", "wait", "ask", "await", "tun", "check",
   "select", "close", "forget", "closeread", "over"}

TypeOK ==
  /\ registered \in BOOLEAN
  /\ thread \in Threads \cup {None}
  /\ main \in {"idle", "flag", "test", "write"}
  /\ interrupted \subseteq Threads /\ told \subseteq Threads /\ signalled \subseteq Threads
  /\ pc \in [Threads -> NativePcs]
  /\ indSigHUP \in BOOLEAN /\ mixed \in BOOLEAN /\ mAnswer \in BOOLEAN
  /\ g_pipefd \in Threads \cup {None}
  /\ tunPipe \in [Threads -> {"none", "open", "closed"}]
  /\ written \subseteq Threads
  /\ dialogs \in 0..MaxQuestions /\ asked \in 0..MaxQuestions
  /\ answers \in Seq(BOOLEAN)

\* As long as one client runs at a time, the pipe TunStop() would write to is the one the
\* tunnel loop sleeps on, and no pipe stays open when there is no tunnel.
InTunnel == {"check", "select", "close"}
PipeOfClient ==
  ~mixed => \A t \in Threads :
    /\ pc[t] \in InTunnel => g_pipefd = t
    /\ tunPipe[t] = "open" <=> pc[t] \in InTunnel
    /\ g_pipefd = t => pc[t] \in InTunnel \cup {"forget"}

\* However the stop and the tunnel loop interleave, a client that sleeps in the loop
\* after TunStop() is done has been woken: the flag is set before the pipe is looked for,
\* and the pipe is there before the flag is looked at.
NoSleepThroughStop ==
  ~mixed /\ indSigHUP /\ main = "idle" =>
    \A t \in Threads : pc[t] = "select" => t \in written

\* A quit that finds the client running ends it, wherever it is: connecting, waiting,
\* asking a question nobody answers, or in a tunnel nothing comes through.
StopEndsClient ==
  \A t \in Threads : t \in told /\ ~mixed ~> pc[t] = "over" \/ mixed

\* Two clients never run at the same time in the process.
OneClient == ~mixed
==============================================================================

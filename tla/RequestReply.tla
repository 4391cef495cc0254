---------------------------- MODULE RequestReply ----------------------------
(***************************************************************************)
(* What the TSP session relies on when it calls nt->netsendrecv(): calls   *)
(* are numbered, one at a time; a call that returns gives the answer to    *)
(* that very call, and a call that fails makes the connection unusable     *)
(* until it is closed.                                                     *)
(***************************************************************************)
EXTENDS Naturals

VARIABLES
  phase,    \* of the connection
  call,     \* number of the last request
  result    \* number of the request the last answer belongs to

vars == <<phase, call, result>>

TypeOK ==
  /\ phase \in {"closed", "idle", "waiting", "failed"}
  /\ call \in Nat
  /\ result \in Nat

Init == phase = "closed" /\ call = 0 /\ result = 0

Open ==
  /\ phase = "closed"
  /\ phase' = "idle"
  /\ UNCHANGED <<call, result>>

Call ==
  /\ phase = "idle"
  /\ phase' = "waiting"
  /\ call' = call + 1
  /\ UNCHANGED result

Return ==
  /\ phase = "waiting"
  /\ phase' = "idle"
  /\ result' = call
  /\ UNCHANGED call

\* The call times out, or cannot be sent at all.
Abort ==
  /\ phase \in {"idle", "waiting"}
  /\ phase' = "failed"
  /\ UNCHANGED <<call, result>>

Close ==
  /\ phase \in {"idle", "failed"}
  /\ phase' = "closed"
  /\ UNCHANGED <<call, result>>

Next == Open \/ Call \/ Return \/ Abort \/ Close

Spec == Init /\ [][Next]_vars
=============================================================================

------------------------------- MODULE MCRudp -------------------------------
(***************************************************************************)
(* Instances of Rudp for TLC.  Half-second ticks let a late answer arrive  *)
(* inside a second and across one; TMAX is twice TMIN, so that a back-off  *)
(* both doubles the time-out and meets the cap.                            *)
(***************************************************************************)
EXTENDS Rudp

CONSTANTS h1, h2

MCHosts == {h1, h2}
=============================================================================

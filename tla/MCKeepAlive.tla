---------------------------- MODULE MCKeepAlive ----------------------------
(***************************************************************************)
(* Instances of KeepAlive for TLC: echoes that time out before the next    *)
(* request, as with the default interval (30 s against 5 s), and after it, *)
(* so that two or three events are in the list; with and without a lease.  *)
(***************************************************************************)
EXTENDS KeepAlive

P(i, t, k, l) == [send_interval |-> i, echo_timeout |-> t,
                  echo_timeout_threshold |-> k, lease |-> l]

MCParms == {P(3, 2, 2, FALSE), P(2, 3, 3, TRUE), P(2, 5, 2, FALSE)}
=============================================================================

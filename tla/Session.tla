------------------------------ MODULE Session ------------------------------
(***************************************************************************)
(* What the connection loop relies on when it calls tspSetupTunnel(): the  *)
(* status tells how far the session came, and the last-server file names a *)
(* server only after that server has offered a tunnel.                     *)
(***************************************************************************)
EXTENDS GogocStatus

CONSTANTS
  Servers,  \* the values of conf->server
  NoAddr    \* an absent last-server line

VARIABLES
  stage,       \* how far the session came
  server,      \* conf->server
  status,      \* the status returned last, or "none"
  lastServer   \* the last-server file

vars == <<stage, server, status, lastServer>>

Init ==
  /\ stage = "idle"
  /\ server \in Servers
  /\ status = "none"
  /\ lastServer \in Servers \cup {NoAddr}

\* tspMain() calls tspSetupTunnel().
Begin ==
  /\ stage = "idle"
  /\ stage' = "unreached"
  /\ server' \in Servers
  /\ status' = "none"
  /\ UNCHANGED lastServer

\* The first answer of a TSP listener.
Reach ==
  /\ stage = "unreached"
  /\ stage' = "reached"
  /\ UNCHANGED <<server, status, lastServer>>

\* The server offers a tunnel.
Negotiate ==
  /\ stage = "reached"
  /\ stage' = "negotiated"
  /\ UNCHANGED <<server, status, lastServer>>

\* The server is written to the last-server file, or the file is left empty.
Save ==
  /\ stage = "negotiated"
  /\ lastServer' \in {server, NoAddr}
  /\ UNCHANGED <<stage, server, status>>

\* tspSetupTunnel() returns.
Return ==
  /\ \/ stage = "unreached"  /\ status' \in UnreachedStatuses \cup {"SOCKET_IO", "TSP_GENERIC_ERROR"}
     \/ stage = "reached"    /\ status' \in AllStatuses \ (UnreachedStatuses \cup TunnelStatuses)
     \/ stage = "negotiated" /\ status' \in TunnelStatuses \cup {"SOCKET_IO"}
  /\ stage' = "idle"
  /\ UNCHANGED <<server, lastServer>>

\* The process dies in the middle of a session.
Die ==
  /\ stage # "idle"
  /\ stage' = "idle" /\ status' = "none"
  /\ UNCHANGED <<server, lastServer>>

Next == Begin \/ Reach \/ Negotiate \/ Save \/ Return \/ Die

Spec == Init /\ [][Next]_vars
=============================================================================

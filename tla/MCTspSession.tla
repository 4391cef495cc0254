---------------------------- MODULE MCTspSession ----------------------------
(***************************************************************************)
(* Instances of TspSession for TLC: two good servers and a malformed one,  *)
(* two addresses of the host, two keys; every method and tunnel mode.      *)
(***************************************************************************)
EXTENDS TspSession

CONSTANTS s1, s2, bad, a1, a2, k1, k2

MCServers == {s1, s2, bad}
MCMalformed == {bad}
MCAddrs == {a1, a2}
MCKeys == {k1, k2}

Conf(mode, method, client, last) ==
  [tunnel_mode |-> mode, auth_method |-> method, client |-> client,
   last_server_file |-> last]

\* Between them every tunnel mode and method, 'auto' and a fixed address.
MCConfs ==
  {Conf("V6ANYV4", "any", AutoAddr, TRUE), Conf("V6UDPV4", "PASSDSS", AutoAddr, FALSE),
   Conf("V6V4", "DIGEST", a1, FALSE), Conf("V6V4", "ANONYMOUS", AutoAddr, FALSE)}

\* A server with everything, one that has only PLAIN, one without the tunnel.
MCCaps ==
  {[tunnels |-> {"V6V4", "V6UDPV4"}, auths |-> Methods],
   [tunnels |-> {"V6V4", "V6UDPV4"}, auths |-> {"PLAIN"}],
   [tunnels |-> {}, auths |-> {"DIGEST", "ANONYMOUS"}]}

\* An empty file, and one with a line of s2 and part of one of s1.
MCKeyfiles ==
  {[lines |-> <<>>, torn |-> Ended],
   [lines |-> <<[host |-> s2, key |-> k2]>>, torn |-> [host |-> s1, key |-> Broken]]}
=============================================================================

---------------------------- MODULE MCLocalSetup ----------------------------
(***************************************************************************)
(* tspStartLocal() for TLC.  Every platform meets a router and a host, and *)
(* tunnels with and without a prefix and of every type.  What needs one    *)
(* more dimension (no root, no template script, HACCESS) is one more       *)
(* configuration.  Two tunnels in one process are what a stale prefix      *)
(* takes; two starts are what a script left behind takes.                  *)
(***************************************************************************)
EXTENDS LocalSetup

CONSTANTS a, b, none, unset

conf(router) == [router |-> router, nodaemon |-> FALSE, root |-> TRUE, template |-> TRUE, haccess |-> "off"]

AllPlatforms == DOMAIN Stages

\* One prefix begins like the clients' addresses.
MCAlike == {a}

MCConfs ==
    {conf(TRUE), [conf(FALSE) EXCEPT !.nodaemon = TRUE], [conf(FALSE) EXCEPT !.root = FALSE],
     [conf(TRUE) EXCEPT !.template = FALSE], [conf(FALSE) EXCEPT !.haccess = "proxy"],
     [conf(FALSE) EXCEPT !.haccess = "web"]}

tun(type, prefix, keepalive) ==
    [type |-> type, prefix |-> prefix, dns |-> TRUE, valid |-> TRUE, keepalive |-> keepalive]

MCTunnels ==
    {tun("v6udpv4", a, TRUE), tun("v6udpv4", none, FALSE), tun("v6v4", b, FALSE), tun("v4v6", none, FALSE),
     [tun("v6v4", none, TRUE) EXCEPT !.dns = FALSE], [tun("v6udpv4", b, TRUE) EXCEPT !.valid = FALSE]}
=============================================================================

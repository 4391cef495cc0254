----------------------------- MODULE LocalSetup -----------------------------
(***************************************************************************)
(* tspStartLocal() on the platforms other than Android: what gogoc does    *)
(* between a negotiated tunnel and the end of that tunnel.  It opens the   *)
(* tunnel device, runs the template script that configures the interface   *)
(* (in a child process, or in its own on gogocpe), stays in the tunnel     *)
(* loop, and undoes the configuration by running the script again.         *)
(*                                                                         *)
(* Each platform has a tspStartLocal() of its own.  What tells them apart  *)
(* is the order of the stages and where a stage that fails goes: a table   *)
(* per platform, read off its function.  The stages are actions.           *)
(*                                                                         *)
(* The processes are gogoc, the child it forks for the setup script, and   *)
(* the scripts they leave behind when they are killed.  Each has an        *)
(* environment; what the scripts do to the system is in net.  The daemons  *)
(* a script starts (radvd, rtadvd, in.ndpd, dibbler-server) outlive it.    *)
(***************************************************************************)
EXTENDS Naturals, Sequences

CONSTANTS
    Platforms,    \* the builds of gogoc
    Confs,        \* the configurations: [router, nodaemon, root, template, haccess]
    Tunnels,      \* the tunnels a server grants: [type, prefix, dns, valid, keepalive]
    Alike,        \* the prefixes that begin like the clients' addresses
    NoPrefix,     \* the prefix of a tunnel that has none
    Unset,        \* the prefix of an environment without TSP_PREFIX
    MaxSessions,  \* how many tunnels gogoc gets, a bound
    MaxStarts     \* how often gogoc is started, a bound

VARIABLES
    platform, cfg,  \* the build and its configuration, constant
    starts,         \* how often gogoc has been started
    sessions,       \* the tunnels gogoc has had
    pc,             \* the stage of tspStartLocal() gogoc is in, or "idle", "exited", "dead"
    hup,            \* indSigHUP
    detached,       \* whether gogoc has become a daemon
    tunnel,         \* the tunnel of the session
    status,         \* what tspStartLocal() will return or returned last
    tunfd,          \* whether gogoc holds the tunnel device open
    env, path,      \* gogoc's environment, and the static buffer of get_template_script()
    jobs,           \* the template scripts under way, and their processes
    net,            \* what the scripts have configured
    held,           \* whether a daemon of a script has the tunnel device open
    added,          \* what this session's setup script has configured (history)
    ka,             \* the keepalive engine of the tunnel loop
    redirect,       \* gogocpe: the kernel moves the packets
    haccess         \* gogocpe: the flags of tspStartLocal() and the state of haccess-platform.c

process == <<starts, sessions, hup, detached, tunnel>>
vars == <<platform, cfg, process, pc, status, tunfd, env, path, jobs, net, held, added, ka, redirect,
          haccess>>

-----------------------------------------------------------------------------
\* The stages of each tspStartLocal(): where each goes when it succeeds and when it fails.

To(ok, fail) == [ok |-> ok, fail |-> fail]

\* A failed fork, wait or script still closes the device and tears the tunnel down.
Linux ==
  [root     |-> To("ipv6", "return"),       ipv6     |-> To("daemon", "return"),
   daemon   |-> To("mode", "return"),       mode     |-> To("device", "return"),
   device   |-> To("fork", "return"),       fork     |-> To("wait", "close"),
   wait     |-> To("loop", "close"),        loop     |-> To("close", "close"),
   close    |-> To("teardown", "teardown"), teardown |-> To("return", "return")]

\* As Linux, without the test for IPv6 support; CheckMode refuses no tunnel here.
FreeBSD == [Linux EXCEPT !.root = To("daemon", "return")]

Darwin == [Linux EXCEPT !.root = To("daemon", "return")]

OpenBSD == [Linux EXCEPT !.root = To("daemon", "return")]

\* No tunnel device; a failed fork, wait or script returns at once, with nothing torn down.
NetBSD ==
  [root |-> To("daemon", "return"), daemon   |-> To("mode", "return"),
   mode |-> To("fork", "return"),   fork     |-> To("wait", "return"),
   wait |-> To("loop", "return"),   loop     |-> To("teardown", "teardown"),
                                    teardown |-> To("return", "return")]

SunOS == NetBSD

\* No daemon and no child: the script runs in gogoc's process.  The device is closed last.
GogoCPE ==
  [root           |-> To("ipv6", "return"),
   ipv6           |-> To("mode", "return"),
   mode           |-> To("device", "return"),
   device         |-> To("redirect", "return"),
   redirect       |-> To("script", "close"),
   script         |-> To("haccess_setup", "close"),
   haccess_setup  |-> To("haccess_expose", "haccess_hide"),
   haccess_expose |-> To("loop", "haccess_hide"),
   loop           |-> To("haccess_hide", "haccess_hide"),
   haccess_hide   |-> To("teardown", "teardown"),
   teardown       |-> To("close", "close"),
   close          |-> To("return", "return")]

Stages == [linux |-> Linux, freebsd |-> FreeBSD, darwin |-> Darwin, openbsd |-> OpenBSD,
           netbsd |-> NetBSD, sunos |-> SunOS, gogocpe |-> GogoCPE]

ASSUME PlatformsAssumption == Platforms \subseteq DOMAIN Stages

Forks == "fork" \in DOMAIN Stages[platform]

Goto(outcome) == pc' = Stages[platform][pc][outcome]

Proceed == Goto("ok") /\ UNCHANGED status
Fail(s) == Goto("fail") /\ status' = s

-----------------------------------------------------------------------------
\* Processes, environments and the tunnel device.

\* tspSetEnv() ends the process on a NULL value (a tunnel without a DNS server) except here.
SetEnvOfNull == IF platform \in {"freebsd", "sunos"} THEN "ignored" ELSE "dies"

Dies(t) == ~t.dns /\ SetEnvOfNull = "dies"

FreshEnv == [op |-> "none", mode |-> "none", prefix |-> Unset]

\* Mutant: only a setup names the prefix.
PrefixAtSetupOnly(e, op, t) ==
    [op |-> op, mode |-> t.type,
     prefix |-> IF t.prefix = NoPrefix \/ op # "create" THEN e.prefix ELSE t.prefix]

\* TSP_PREFIX keeps its value when the tunnel has no prefix.
set_tsp_env_variables(e, op, t) ==
    [op |-> op, mode |-> t.type, prefix |-> IF t.prefix = NoPrefix THEN e.prefix ELSE t.prefix]

\* The buffer is filled once; a path that could not be opened stays in it, and is found next time.
get_template_script(p) ==
    IF p = "empty"
    THEN IF cfg.template THEN [found |-> TRUE, path |-> "command"] ELSE [found |-> FALSE, path |-> "raw"]
    ELSE [found |-> TRUE, path |-> p]

NoTunnel == [type |-> "none"]

\* A process that runs the script: the child or gogoc itself, how far it is, its environment and
\* buffer, the tunnel it is for, what the script has yet to do, its exit status, and whether it
\* has the tunnel device open.
NoJob == [at |-> "none", env |-> FreshEnv, path |-> "empty", tunnel |-> NoTunnel, todo |-> <<>>,
          code |-> "SUCCESS", holds |-> FALSE]

Owners == {"client", "child", "orphan"}

Address(mode)  == <<"address", mode>>
Prefix(prefix) == <<"prefix", prefix>>
Daemons        == <<"daemons", "all">>

\* What the template script configures for an environment, in this order: the tunnel's address, and
\* for a router the address on the home interface and the daemons that advertise its prefix.
Configures(e) ==
    IF cfg.router /\ ~(platform = "freebsd" /\ e.mode = "v4v6")
    THEN <<Address(e.mode), Prefix(e.prefix), Daemons>>
    ELSE <<Address(e.mode)>>

AlikePrefixes == {Prefix(p) : p \in Alike}

\* What its teardown tries to remove.  gogocpe.sh looks on the home interface for an address that
\* begins like the client's own; the others name the prefix.
Removes(e) ==
    {Address(e.mode)} \cup
    IF ~cfg.router THEN {}
    ELSE {Daemons} \cup (IF platform = "gogocpe" THEN AlikePrefixes ELSE {Prefix(e.prefix)})

\* What the interfaces and daemons can be once an item has been configured.  Linux's script and
\* gogocpe's first remove one old address alike; two confuse their test.  gogocpe's does not look
\* whether its daemons started, and SunOS need not have any.
Configured(item) ==
    CASE item[1] = "prefix" /\ platform \in {"linux", "gogocpe"} ->
             {net \cup {item}, (net \ AlikePrefixes) \cup {item}}
      [] item = Daemons /\ platform \in {"sunos", "gogocpe"} -> {net \cup {item}, net \ {item}}
      [] OTHER -> {net \cup {item}}

\* The system destroys the tunnel interface with the last descriptor of its device.
Surviving(n, fd, js, h) ==
    IF fd \/ h \/ (\E o \in Owners : js[o].holds) THEN n ELSE n \ {Address("v6udpv4")}

DeviceOpen == tunfd \/ held \/ (\E o \in Owners : jobs[o].holds)

-----------------------------------------------------------------------------
NoHaccess == [setup |-> FALSE, exposed |-> FALSE, thread |-> "none", active |-> FALSE,
              done |-> FALSE, waiter |-> "none"]

\* The process is gone, and what it kept with it.
EndOfProcess ==
    /\ hup' = FALSE /\ detached' = FALSE /\ tunnel' = NoTunnel
    /\ status' = "SUCCESS" /\ tunfd' = FALSE /\ env' = FreshEnv /\ path' = "empty"
    /\ added' = {} /\ ka' = "off" /\ redirect' = FALSE /\ haccess' = NoHaccess
    /\ UNCHANGED <<platform, cfg, starts, sessions>>

Init ==
    /\ platform \in Platforms /\ cfg \in {c \in Confs : c.haccess = "off" \/ platform = "gogocpe"}
    /\ starts = 1 /\ sessions = 0 /\ hup = FALSE /\ detached = FALSE /\ tunnel = NoTunnel
    /\ pc = "idle" /\ status = "SUCCESS" /\ tunfd = FALSE /\ env = FreshEnv /\ path = "empty"
    /\ jobs = [o \in Owners |-> NoJob]
    /\ net = {} /\ held = FALSE /\ added = {} /\ ka = "off" /\ redirect = FALSE /\ haccess = NoHaccess

Alive == pc \notin {"exited", "dead"}

\* SIGHUP: signal_handler().
Hangup ==
    /\ Alive /\ ~hup
    /\ hup' = TRUE
    /\ UNCHANGED <<platform, cfg, starts, sessions, detached, tunnel, pc, status, tunfd, env, path, jobs,
                   net, held, added, ka, redirect, haccess>>

\* tspMain() returns, on a stop or a status that ends its loop (module TspMain).
Exit ==
    /\ pc = "idle"
    /\ hup \/ status \notin {"SUCCESS", "KEEPALIVE_TIMEOUT", "KEEPALIVE_ERROR", "TUNNEL_IO", "TUN_LEASE_EXPIRED"}
    /\ pc' = "exited"
    /\ EndOfProcess
    /\ UNCHANGED <<jobs, net, held>>

\* gogoc is killed, or ends on its own fault.  Its child, its scripts and their daemons go on
\* without it.
Killed ==
    /\ jobs["orphan"].at = "none"
    /\ LET left == {o \in {"client", "child"} : jobs[o].at \in {"forked", "setup", "script"}}
       IN jobs' = [o \in Owners |->
                     IF o = "orphan" /\ left # {} THEN jobs[CHOOSE l \in left : TRUE] ELSE NoJob]
    /\ pc' = "dead"
    /\ EndOfProcess
    /\ net' = Surviving(net, FALSE, jobs', held)
    /\ UNCHANGED held

Kill == Alive /\ Killed

\* gogoc is started again.
Start ==
    /\ ~Alive /\ starts < MaxStarts
    /\ starts' = starts + 1 /\ pc' = "idle"
    /\ UNCHANGED <<platform, cfg, sessions, hup, detached, tunnel, status, tunfd, env, path, jobs, net,
                   held, added,
                   ka, redirect, haccess>>

-----------------------------------------------------------------------------
\* The stages before the script.

\* The negotiation ended with a tunnel: tspStartLocal() is called.
tspStartLocal ==
    /\ pc = "idle" /\ sessions < MaxSessions
    /\ sessions' = sessions + 1
    /\ \E t \in Tunnels : tunnel' = t
    /\ pc' = "root" /\ status' = "SUCCESS" /\ added' = {} /\ redirect' = FALSE
    /\ haccess' = [haccess EXCEPT !.setup = FALSE, !.exposed = FALSE]
    /\ UNCHANGED <<platform, cfg, starts, hup, detached, tunfd, env, path, jobs, net, held, ka>>

CheckRoot ==
    /\ pc = "root"
    /\ IF cfg.root THEN Proceed ELSE Fail("INTERFACE_SETUP_FAILED")
    /\ UNCHANGED <<platform, cfg, process, tunfd, env, path, jobs, net, held, added, ka, redirect,
                   haccess>>

tspTestIPv6Support ==
    /\ pc = "ipv6"
    /\ Proceed \/ Fail("INTERFACE_SETUP_FAILED")
    /\ UNCHANGED <<platform, cfg, process, tunfd, env, path, jobs, net, held, added, ka, redirect,
                   haccess>>

\* daemon(), unless gogoc need not or has; SunOS forks in every session.
GoDaemon ==
    /\ pc = "daemon"
    /\ IF platform # "sunos" /\ (cfg.nodaemon \/ detached)
       THEN Proceed /\ UNCHANGED detached
       ELSE \/ Proceed /\ detached' = TRUE
            \/ Fail("INTERFACE_SETUP_FAILED") /\ UNCHANGED detached
    /\ UNCHANGED <<platform, cfg, starts, sessions, hup, tunnel, tunfd, env, path, jobs, net, held,
                   added, ka,
                   redirect, haccess>>

Refused == CASE platform = "freebsd" -> {}
             [] platform \in {"netbsd", "sunos"} -> {"v6udpv4", "v4v6"}
             [] OTHER -> {"v4v6"}

CheckMode ==
    /\ pc = "mode"
    /\ IF tunnel.type \in Refused THEN Fail("INTERFACE_SETUP_FAILED") ELSE Proceed
    /\ UNCHANGED <<platform, cfg, process, tunfd, env, path, jobs, net, held, added, ka, redirect,
                   haccess>>

\* Whether TunInit() can open the device while another process holds it: FreeBSD's /dev/tun makes a new one.
OpensAnother == platform = "freebsd"

TunInit ==
    /\ pc = "device"
    /\ IF tunnel.type # "v6udpv4"
       THEN Proceed /\ UNCHANGED tunfd
       ELSE \/ /\ OpensAnother \/ ~DeviceOpen
               /\ Proceed /\ tunfd' = TRUE
            \/ Fail("INTERFACE_SETUP_FAILED") /\ UNCHANGED tunfd
    /\ UNCHANGED <<platform, cfg, process, env, path, jobs, net, held, added, ka, redirect, haccess>>

\* gogocpe: the kernel may be told to move the packets itself.
TunRedirect ==
    /\ pc = "redirect"
    /\ \/ Proceed /\ UNCHANGED redirect
       \/ tunnel.type = "v6udpv4" /\ redirect' = TRUE /\ (Proceed \/ Fail("TUNNEL_IO"))
    /\ UNCHANGED <<platform, cfg, process, tunfd, env, path, jobs, net, held, added, ka, haccess>>

-----------------------------------------------------------------------------
\* The template script.

\* tspSetupInterface() up to the script: what it returns, or the script it starts.
SetupInterface(job) ==
    LET set      == set_tsp_env_variables(job.env, "create", job.tunnel)
        template == get_template_script(job.path)
        ended(code) == [job EXCEPT !.at = "done", !.code = code, !.holds = FALSE]
    IN CASE ~job.tunnel.valid -> ended("BAD_TUNNEL_PARAM")
         [] job.tunnel.valid /\ Dies(job.tunnel) -> ended("killed")
         [] job.tunnel.valid /\ ~Dies(job.tunnel) /\ ~template.found ->
                [ended("INVAL_CFG_FILE") EXCEPT !.env = set, !.path = template.path]
         [] OTHER -> [job EXCEPT !.at = "script", !.env = set, !.path = template.path, !.todo = Configures(set)]

\* fork(): the child has a copy of everything, the tunnel device too.
Fork ==
    /\ pc = "fork"
    /\ \/ Fail("INTERFACE_SETUP_FAILED") /\ UNCHANGED jobs
       \/ /\ Proceed
          /\ jobs' = [jobs EXCEPT !["child"] = [NoJob EXCEPT !.at = "forked", !.env = env, !.path = path,
                                                             !.tunnel = tunnel, !.holds = tunfd]]
    /\ UNCHANGED <<platform, cfg, process, tunfd, env, path, net, held, added, ka, redirect, haccess>>

\* Mutant: the child keeps its copy of the device.
ChildKeepsDevice(o) ==
    /\ jobs[o].at = "forked"
    /\ jobs' = [jobs EXCEPT ![o].at = "setup"]
    /\ UNCHANGED <<platform, cfg, process, pc, status, tunfd, env, path, net, held, added, ka, redirect,
                   haccess>>

\* The child closes its copy of the device before anything else.
ChildCloses(o) ==
    /\ jobs[o].at = "forked"
    /\ jobs' = [jobs EXCEPT ![o].at = "setup", ![o].holds = FALSE]
    /\ net' = Surviving(net, tunfd, jobs', held)
    /\ UNCHANGED <<platform, cfg, process, pc, status, tunfd, env, path, held, added, ka, redirect,
                   haccess>>

ChildSetsUp(o) ==
    /\ jobs[o].at = "setup"
    /\ LET job == SetupInterface(jobs[o])
       IN jobs' = [jobs EXCEPT ![o] = IF o = "orphan" /\ job.at = "done" THEN NoJob ELSE job]
    /\ UNCHANGED <<platform, cfg, process, pc, status, tunfd, env, path, net, held, added, ka, redirect,
                   haccess>>

\* The child is killed: its script, if it runs, is left behind.
ChildKilled ==
    /\ jobs["child"].at \in {"setup", "script"}
    /\ jobs["orphan"].at = "none"
    /\ jobs' = [jobs EXCEPT !["child"] = [NoJob EXCEPT !.at = "done", !.code = "killed"],
                            !["orphan"] = IF jobs["child"].at = "script" THEN jobs["child"] ELSE NoJob]
    /\ UNCHANGED <<platform, cfg, process, pc, status, tunfd, env, path, net, held, added, ka, redirect,
                   haccess>>

Finished(o, code) ==
    jobs' = [jobs EXCEPT ![o] = IF o = "orphan" THEN NoJob
                                ELSE [@ EXCEPT !.at = "done", !.code = code, !.todo = <<>>, !.holds = FALSE]]

\* The setup script configures one thing; with the last it is done.  execScript() takes it for
\* failed when it cannot open what the script printed.  An address needs the interface.  Daemons
\* inherit the device from a script that has it; earlier ones are stopped first, if that works.
ScriptConfigures(o) ==
    /\ jobs[o].at = "script" /\ jobs[o].todo # <<>> /\ jobs[o].path = "command"
    /\ LET item == Head(jobs[o].todo)
           rest == Tail(jobs[o].todo)
       IN /\ item = Address("v6udpv4") => DeviceOpen
          /\ IF rest # <<>>
             THEN jobs' = [jobs EXCEPT ![o].todo = rest]
             ELSE \E code \in {"SUCCESS", "INTERFACE_SETUP_FAILED"} : Finished(o, code)
          /\ \E n \in Configured(item) :
                /\ added' = IF Alive /\ o \in {"client", "child"} THEN added \cup ({item} \cap n) ELSE added
                /\ IF item # Daemons THEN UNCHANGED held
                   ELSE held' \in {h \in BOOLEAN : h => Daemons \in n /\ (held \/ jobs[o].holds)}
                /\ net' = Surviving(n, tunfd, jobs', held')
    /\ UNCHANGED <<platform, cfg, process, pc, status, tunfd, env, path, ka, redirect, haccess>>

\* A command of the setup script fails: Exec() ends it.  So does a path without its interpreter.
ScriptFails(o) ==
    /\ jobs[o].at = "script"
    /\ Finished(o, "INTERFACE_SETUP_FAILED")
    /\ net' = Surviving(net, tunfd, jobs', held)
    /\ UNCHANGED <<platform, cfg, process, pc, status, tunfd, env, path, held, added, ka, redirect,
                   haccess>>

\* The teardown script: any of its deletions may fail, for most are not checked, and one that is
\* (gogocpe, Darwin) ends it early.  What it returns nobody looks at.
ScriptRemoves(o) ==
    /\ jobs[o].at = "script" /\ jobs[o].env.op = "teardown" /\ jobs[o].path = "command"
    /\ Finished(o, "SUCCESS")
    /\ \E removed \in SUBSET Removes(jobs[o].env) :
          /\ held' \in {h \in BOOLEAN : h => held /\ Daemons \notin removed}
          /\ net' = Surviving(net \ removed, tunfd, jobs', held')
    /\ UNCHANGED <<platform, cfg, process, pc, status, tunfd, env, path, added, ka, redirect, haccess>>

-----------------------------------------------------------------------------
\* The stages from the script on.

\* gogoc waits for its child.  A child that was killed, or that ends with a status of its own,
\* fails the setup; on SunOS so does a SIGHUP, and the child goes on.
Wait ==
    /\ pc = "wait"
    /\ \/ /\ jobs["child"].at = "done"
          /\ CASE jobs["child"].code = "SUCCESS" -> Proceed
               [] jobs["child"].code = "killed"  -> Fail("INTERFACE_SETUP_FAILED")
               [] OTHER -> Fail(jobs["child"].code)
          /\ jobs' = [jobs EXCEPT !["child"] = NoJob]
       \/ /\ platform = "sunos" /\ hup /\ jobs["child"].at # "done" /\ jobs["orphan"].at = "none"
          /\ Fail("INTERFACE_SETUP_FAILED")
          /\ jobs' = [jobs EXCEPT !["child"] = NoJob, !["orphan"] = jobs["child"]]
    /\ UNCHANGED <<platform, cfg, process, tunfd, env, path, net, held, added, ka, redirect, haccess>>

\* gogocpe: the script inherits the tunnel device.
RunScript ==
    /\ pc = "script" /\ jobs["client"].at = "none"
    /\ LET job == SetupInterface([NoJob EXCEPT !.env = env, !.path = path, !.tunnel = tunnel, !.holds = tunfd])
       IN IF job.code = "killed"
          THEN Killed
          ELSE /\ jobs' = [jobs EXCEPT !["client"] = job]
               /\ env' = job.env /\ path' = job.path
               /\ UNCHANGED <<platform, cfg, process, pc, status, tunfd, net, held, added, ka, redirect,
                              haccess>>

ScriptDone ==
    /\ pc = "script" /\ jobs["client"].at = "done"
    /\ IF jobs["client"].code = "SUCCESS" THEN Proceed ELSE Fail(jobs["client"].code)
    /\ jobs' = [jobs EXCEPT !["client"] = NoJob]
    /\ UNCHANGED <<platform, cfg, process, tunfd, env, path, net, held, added, ka, redirect, haccess>>

\* KA_init() and KA_start(), or no keepalive at all.
LoopBegins ==
    /\ pc = "loop" /\ ka = "off" /\ status = "SUCCESS"
    /\ \/ tunnel.keepalive /\ ka' = "ongoing" /\ UNCHANGED <<pc, status>>
       \/ tunnel.keepalive /\ Fail("KEEPALIVE_ERROR") /\ UNCHANGED ka
       \/ ~tunnel.keepalive /\ ka' = "none" /\ UNCHANGED <<pc, status>>
    /\ UNCHANGED <<platform, cfg, process, tunfd, env, path, jobs, net, held, added, redirect, haccess>>

KeepaliveEnds ==
    /\ ka = "ongoing"
    /\ ka' \in {"timeout", "error"}
    /\ UNCHANGED <<platform, cfg, process, pc, status, tunfd, env, path, jobs, net, held, added,
                   redirect, haccess>>

\* The failures of one pass of TunMainLoop() that end it.
LinuxFaults == {"read tun", "send", "receive", "write tun"}

FreeBSDFaults == LinuxFaults \cup {"size of the packet"}

OpenBSDFaults == LinuxFaults \cup {"size of the packet"}

\* A failed read has the count -1, which the send or write that follows "sent" in full.
DarwinFaults == {"send", "write tun"}

GogoCPEFaults == IF redirect THEN {"redirection lost"} ELSE LinuxFaults

Faults == CASE platform = "linux"   -> LinuxFaults
            [] platform = "freebsd" -> FreeBSDFaults
            [] platform = "openbsd" -> OpenBSDFaults
            [] platform = "darwin"  -> DarwinFaults
            [] platform = "gogocpe" -> GogoCPEFaults
            [] OTHER -> {}

\* TunMainLoop() for V6UDPV4, tspPerformTunnelLoop() otherwise: the pass in which it ends.
LoopEnds ==
    /\ pc = "loop" /\ ka # "off"
    /\ \/ ka = "timeout" /\ status' = "KEEPALIVE_TIMEOUT"
       \/ ka = "error" /\ status' = "KEEPALIVE_ERROR"
       \/ hup /\ ka \in {"ongoing", "none"} /\ status' = "SUCCESS"
       \/ tunnel.type = "v6udpv4" /\ Faults # {} /\ status' = "TUNNEL_IO"
       \/ tunnel.type = "v4v6" /\ status' = "TUN_LEASE_EXPIRED"
    /\ Goto("ok") /\ ka' = "off"
    /\ UNCHANGED <<platform, cfg, process, tunfd, env, path, jobs, net, held, added, redirect, haccess>>

\* close(tunfd): before the teardown, except on gogocpe.
CloseDevice ==
    /\ pc = "close"
    /\ Proceed /\ tunfd' = FALSE
    /\ net' = Surviving(net, FALSE, jobs, held)
    /\ UNCHANGED <<platform, cfg, process, env, path, jobs, held, added, ka, redirect, haccess>>

\* tspTearDownTunnel(): the same script, in gogoc's own process.  What it returns is ignored.
tspTearDownTunnel ==
    /\ pc = "teardown" /\ jobs["client"].at = "none"
    /\ LET set      == set_tsp_env_variables(env, "teardown", tunnel)
           template == get_template_script(path)
       IN IF Dies(tunnel)
          THEN Killed
          ELSE /\ env' = set /\ path' = template.path
               /\ IF template.found
                  THEN /\ jobs' = [jobs EXCEPT !["client"] =
                                     [NoJob EXCEPT !.at = "script", !.env = set, !.path = template.path,
                                                   !.tunnel = tunnel, !.holds = tunfd]]
                       /\ UNCHANGED <<pc, status>>
                  ELSE Proceed /\ UNCHANGED jobs
               /\ UNCHANGED <<platform, cfg, process, tunfd, net, held, added, ka, redirect, haccess>>

TeardownDone ==
    /\ pc = "teardown" /\ jobs["client"].at = "done"
    /\ Proceed
    /\ jobs' = [jobs EXCEPT !["client"] = NoJob]
    /\ UNCHANGED <<platform, cfg, process, tunfd, env, path, net, held, added, ka, redirect, haccess>>

Return ==
    /\ pc = "return"
    /\ pc' = "idle"
    /\ UNCHANGED <<platform, cfg, process, status, tunfd, env, path, jobs, net, held, added, ka,
                   redirect, haccess>>

-----------------------------------------------------------------------------
\* HACCESS, in the gogocpe build: its devices' names are in the DNS while the tunnel is up.
\* A thread of the HACCESS library, once started, sends the DDNS requests for as long as gogoc runs.

HaccessSetup ==
    /\ pc = "haccess_setup"
    /\ IF cfg.haccess = "off"
       THEN Proceed /\ UNCHANGED haccess
       ELSE /\ haccess' = [haccess EXCEPT !.setup = TRUE]
            /\ Proceed \/ Fail("HACCESS_SETUP")
    /\ UNCHANGED <<platform, cfg, process, tunfd, env, path, jobs, net, held, added, ka, redirect>>

\* do_haccess_hide_devices is set whether or not the devices were exposed.
HaccessExpose ==
    /\ pc = "haccess_expose"
    /\ IF cfg.haccess # "proxy"
       THEN Proceed /\ UNCHANGED haccess
       ELSE \/ Proceed /\ haccess' = [haccess EXCEPT !.exposed = TRUE,
                                        !.thread = IF @ = "none" THEN "works" ELSE @]
            \/ Fail("HACCESS_EXPOSE_DEVICES") /\ haccess' = [haccess EXCEPT !.exposed = TRUE]
    /\ UNCHANGED <<platform, cfg, process, tunfd, env, path, jobs, net, held, added, ka, redirect>>

\* HIDE_DEVICES begins: _haccess_platform_wait_ddns_hiding_done() announces that it will wait.
HidingBegins ==
    /\ pc = "haccess_hide" /\ haccess.exposed /\ haccess.waiter = "none"
    /\ haccess' = [haccess EXCEPT !.active = TRUE, !.waiter = "about to wait"]
    /\ UNCHANGED <<platform, cfg, process, pc, status, tunfd, env, path, jobs, net, held, added, ka,
                   redirect>>

\* pthread_cond_timedwait(): a signal sent before this step is lost.
HidingWaits ==
    /\ haccess.waiter = "about to wait"
    /\ haccess' = [haccess EXCEPT !.waiter = "waits"]
    /\ UNCHANGED <<platform, cfg, process, pc, status, tunfd, env, path, jobs, net, held, added, ka,
                   redirect>>

\* Mutant: without the timeout.
HidingIsSignalled ==
    /\ haccess.waiter = "woken" /\ haccess.done
    /\ haccess' = [haccess EXCEPT !.waiter = "none", !.exposed = FALSE]
    /\ UNCHANGED <<platform, cfg, process, pc, status, tunfd, env, path, jobs, net, held, added, ka,
                   redirect>>

\* The wait is over: woken when it is done, or timed out, done or not.
HidingEnds ==
    /\ haccess.waiter = "waits" \/ (haccess.waiter = "woken" /\ haccess.done)
    /\ haccess' = [haccess EXCEPT !.waiter = "none", !.exposed = FALSE]
    /\ UNCHANGED <<platform, cfg, process, pc, status, tunfd, env, path, jobs, net, held, added, ka,
                   redirect>>

\* _haccess_platform_signal_ddns_request_queue_empty(), under one mutex and then the other;
\* nothing ever resets done.
DdnsReadsActive ==
    /\ haccess.thread = "works" /\ haccess.active
    /\ haccess' = [haccess EXCEPT !.thread = "signals"]
    /\ UNCHANGED <<platform, cfg, process, pc, status, tunfd, env, path, jobs, net, held, added, ka,
                   redirect>>

DdnsSignals ==
    /\ haccess.thread = "signals"
    /\ haccess' = [haccess EXCEPT !.thread = "deactivates", !.done = TRUE,
                                  !.waiter = IF @ = "waits" THEN "woken" ELSE @]
    /\ UNCHANGED <<platform, cfg, process, pc, status, tunfd, env, path, jobs, net, held, added, ka,
                   redirect>>

DdnsDeactivates ==
    /\ haccess.thread = "deactivates"
    /\ haccess' = [haccess EXCEPT !.thread = "works", !.active = FALSE]
    /\ UNCHANGED <<platform, cfg, process, pc, status, tunfd, env, path, jobs, net, held, added, ka,
                   redirect>>

\* The SIGHUP may interrupt the thread's sleep, which ends it.
DdnsThreadEnds ==
    /\ haccess.thread = "works" /\ hup
    /\ haccess' = [haccess EXCEPT !.thread = "ended"]
    /\ UNCHANGED <<platform, cfg, process, pc, status, tunfd, env, path, jobs, net, held, added, ka,
                   redirect>>

HaccessTeardown ==
    /\ pc = "haccess_hide" /\ ~haccess.exposed
    /\ Proceed
    /\ haccess' = [haccess EXCEPT !.setup = FALSE]
    /\ UNCHANGED <<platform, cfg, process, tunfd, env, path, jobs, net, held, added, ka, redirect>>

-----------------------------------------------------------------------------
Script(o) == ScriptConfigures(o) \/ ScriptFails(o) \/ ScriptRemoves(o)

Child(o) == ChildCloses(o) \/ ChildSetsUp(o)

\* What gogoc does by itself, until it returns.
Client ==
    \/ CheckRoot \/ tspTestIPv6Support \/ GoDaemon \/ CheckMode \/ TunInit \/ TunRedirect
    \/ Fork \/ Wait \/ RunScript \/ ScriptDone \/ LoopBegins \/ LoopEnds \/ CloseDevice
    \/ tspTearDownTunnel \/ TeardownDone \/ Return \/ Exit
    \/ HaccessSetup \/ HaccessExpose \/ HidingBegins \/ HidingWaits \/ HidingEnds \/ HaccessTeardown

\* The DDNS thread, which HACCESS starts.
Ddns == DdnsReadsActive \/ DdnsSignals \/ DdnsDeactivates \/ DdnsThreadEnds

Next ==
    \/ Hangup \/ Kill \/ ChildKilled \/ Start \/ KeepaliveEnds
    \/ tspStartLocal \/ Client \/ Ddns
    \/ \E o \in {"child", "orphan"} : Child(o)
    \/ \E o \in Owners : Script(o)

Spec == Init /\ [][Next]_vars

\* Each process goes on, and its script ends, one way or the other.
FairSpec ==
    /\ Spec
    /\ WF_vars(Client \/ Script("client"))
    /\ \A o \in {"child", "orphan"} : WF_vars(Child(o) \/ Script(o))

-----------------------------------------------------------------------------
\* gogocpe.sh does not find the address of a prefix that begins otherwise than the client's.
Overlooked(item) == platform = "gogocpe" /\ item[1] = "prefix" /\ item[2] \notin Alike

\* The teardown script is about all that the session's setup script, in a process and with an
\* environment of its own, has configured, save what gogocpe.sh overlooks: what is left is what could
\* not be deleted (tspTearDownTunnel(), set_tsp_env_variables()).
TeardownUndoesSetup ==
    [][ScriptRemoves("client") =>
          \A item \in added : item \in Removes(jobs["client"].env) \/ Overlooked(item)]_vars

\* The device is not left open when gogoc has ended its session or was killed ("otherwise the tunnel
\* will stay open if we get killed"), save where the script runs in gogoc's own process: by that
\* script, and by the daemons it has started until they are stopped.
DeviceFollowsClient ==
    DeviceOpen =>
        \/ tunfd /\ pc \notin {"idle", "teardown", "return", "exited", "dead"}
        \/ ~Forks /\ ((tunfd /\ pc = "teardown") \/ jobs["orphan"].at = "script" \/ Daemons \in net)
        \/ Forks /\ jobs["orphan"].at = "forked"

\* A SIGHUP ends gogoc, whichever stage, script or wait it meets (signal_handler(),
\* tspCheckForStopOrWait(); _haccess_platform_wait_ddns_hiding_done() may have missed its signal).
HangupEndsClient == hup ~> ~Alive

=============================================================================

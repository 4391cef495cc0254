-------------------------- MODULE LocalSetupProofs --------------------------
(***************************************************************************)
(* Proofs about LocalSetup: the tunnel device is open only while gogoc is  *)
(* in a session, or in what gogocpe's script has left behind, whoever      *)
(* inherits it and whoever is killed; and the teardown script is about all *)
(* that the setup script did.                                              *)
(***************************************************************************)
EXTENDS LocalSetup, TLAPS

----------------------------------------------------------------------------
(* The inductive invariant.                                                *)

JobFields == {"at", "env", "path", "tunnel", "todo", "code", "holds"}

Domains ==
    /\ platform \in DOMAIN Stages
    /\ pc \in DOMAIN Stages[platform] \cup {"idle", "return", "exited", "dead"}
    /\ DOMAIN jobs = Owners /\ \A o \in Owners : DOMAIN jobs[o] = JobFields
    /\ tunfd \in BOOLEAN /\ \A o \in Owners : jobs[o].holds \in BOOLEAN

\* Who runs a script when.
JobStages ==
    /\ jobs["child"].at \in {"none", "forked", "setup", "script", "done"}
    /\ jobs["client"].at \in {"none", "script", "done"}
    /\ jobs["child"].at # "none" => pc = "wait"
    /\ jobs["client"].at # "none" => pc \in {"script", "teardown"}
    /\ \A o \in {"client", "child"} : jobs[o].at = "none" => jobs[o] = NoJob

\* The stages in which gogoc may have the device open.
OpenStages(p) ==
    IF p \in {"netbsd", "sunos"} THEN {}
    ELSE IF p = "gogocpe"
         THEN {"redirect", "script", "haccess_setup", "haccess_expose", "loop", "haccess_hide", "teardown", "close"}
         ELSE {"fork", "wait", "loop", "close"}

\* Who has the device open besides gogoc: its child until it has closed its copy, and the scripts
\* it runs in its own process.  A killed gogoc leaves both behind.
DeviceHolders ==
    /\ tunfd => pc \in OpenStages(platform)
    /\ jobs["child"].holds => tunfd /\ jobs["child"].at = "forked"
    /\ jobs["client"].holds => tunfd
    /\ jobs["orphan"].holds => jobs["orphan"].at = IF Forks THEN "forked" ELSE "script"

\* What the session's setup script is to configure, and the teardown script to remove.
Items(e) == {Configures(e)[i] : i \in DOMAIN Configures(e)}
Wanted == Items(set_tsp_env_variables(env, "create", tunnel))

\* The environments of the scripts are made of gogoc's, and agree.
Environments ==
    /\ \A item \in added : item \in Wanted
    /\ jobs["child"].at \in {"forked", "setup"} => jobs["child"].env = env /\ jobs["child"].tunnel = tunnel
    /\ \A o \in {"client", "child"} : jobs[o].todo \in Seq(Wanted)
    /\ jobs["client"].at = "script" /\ jobs["client"].env.op = "teardown" => Items(jobs["client"].env) = Wanted

IInv == Domains /\ JobStages /\ DeviceHolders /\ Environments

\* Only a script in gogoc's own process has the device, and only its daemons inherit it.
DaemonHolds == held => ~Forks /\ Daemons \in net

----------------------------------------------------------------------------
(* The tables of the stages.                                               *)

\* Where a stage goes: to a stage of the platform or out, and from a stage with the device open only
\* to one that deals with it.
Sound(p, table, st) ==
    /\ {table[st].ok, table[st].fail} \subseteq DOMAIN table \cup {"return"}
    /\ st \in OpenStages(p) /\ st # "close" => {table[st].ok, table[st].fail} \subseteq OpenStages(p)
    /\ st = "device" => table[st].ok \in OpenStages(p)
    /\ st = "fork" => table[st].ok = "wait"

ForkStages == {"ipv6", "root", "daemon", "mode", "device", "fork", "wait", "loop", "close", "teardown"}

LEMMA LinuxTable ==
    /\ DOMAIN Linux = ForkStages
    /\ \A p \in {"linux", "freebsd", "darwin", "openbsd"} : \A st \in ForkStages : Sound(p, Linux, st)
  BY DEF Linux, To, Sound, OpenStages, ForkStages

LEMMA RootSkipsIPv6 ==
    LET table == [Linux EXCEPT !.root = To("daemon", "return")]
    IN /\ DOMAIN table = ForkStages
       /\ \A p \in {"freebsd", "darwin", "openbsd"} : \A st \in ForkStages : Sound(p, table, st)
<1> DEFINE table == [Linux EXCEPT !.root = To("daemon", "return")]
<1>1. DOMAIN table = ForkStages
  BY LinuxTable
<1>2. table["root"] = To("daemon", "return") /\ \A st \in ForkStages \ {"root"} : table[st] = Linux[st]
  BY LinuxTable DEF ForkStages
<1> HIDE DEF table
<1>3. \A p \in {"freebsd", "darwin", "openbsd"} : Sound(p, table, "root")
  BY <1>1, <1>2 DEF Sound, OpenStages, ForkStages, To
<1>4. \A p \in {"freebsd", "darwin", "openbsd"} : \A st \in ForkStages \ {"root"} : Sound(p, table, st)
  BY <1>1, <1>2, LinuxTable DEF Sound
<1> QED
  BY <1>1, <1>3, <1>4 DEF table

LEMMA NetBSDTable ==
    \A p \in {"netbsd", "sunos"} : \A st \in DOMAIN NetBSD : Sound(p, NetBSD, st)
  BY DEF NetBSD, To, Sound, OpenStages

LEMMA GogoCPETable == \A st \in DOMAIN GogoCPE : Sound("gogocpe", GogoCPE, st)
  BY DEF GogoCPE, To, Sound, OpenStages

LEMMA Tables ==
    ASSUME NEW p \in DOMAIN Stages
    PROVE  /\ \A st \in DOMAIN Stages[p] : Sound(p, Stages[p], st)
           /\ "root" \in DOMAIN Stages[p]
           /\ DOMAIN Stages[p] \cap {"idle", "return", "exited", "dead"} = {}
           /\ p \in {"netbsd", "sunos"} => "device" \notin DOMAIN Stages[p]
           /\ ("fork" \in DOMAIN Stages[p]) = (p # "gogocpe")
           /\ p = "gogocpe" => "wait" \notin DOMAIN Stages[p]
           /\ p # "gogocpe" => "script" \notin DOMAIN Stages[p]
<1>1. p \in {"linux", "freebsd", "darwin", "openbsd", "netbsd", "sunos", "gogocpe"}
  BY DEF Stages
<1>2. CASE p = "linux"
  BY <1>2, LinuxTable DEF Stages, ForkStages
<1>3. CASE p \in {"freebsd", "darwin", "openbsd"}
  <2>1. Stages[p] = [Linux EXCEPT !.root = To("daemon", "return")]
    BY <1>3 DEF Stages, FreeBSD, Darwin, OpenBSD
  <2> DEFINE table == Stages[p]
  <2>2. DOMAIN table = ForkStages /\ \A st \in ForkStages : Sound(p, table, st)
    BY <1>3, <2>1, RootSkipsIPv6, Zenon
  <2>3. /\ "root" \in ForkStages /\ ForkStages \cap {"idle", "return", "exited", "dead"} = {}
        /\ "fork" \in ForkStages /\ "script" \notin ForkStages
    BY DEF ForkStages
  <2> HIDE DEF table
  <2>4. \A st \in DOMAIN table : Sound(p, table, st)
    BY <2>2, Zenon
  <2>5. /\ "root" \in DOMAIN table /\ DOMAIN table \cap {"idle", "return", "exited", "dead"} = {}
        /\ "fork" \in DOMAIN table /\ "script" \notin DOMAIN table
    BY <2>2, <2>3
  <2>6. p \notin {"netbsd", "sunos", "gogocpe"}
    BY <1>3
  <2> QED
    BY <2>4, <2>5, <2>6 DEF table
<1>4. CASE p \in {"netbsd", "sunos"}
  <2>1. Stages[p] = NetBSD
    BY <1>4 DEF Stages, SunOS
  <2>2. DOMAIN NetBSD = {"root", "daemon", "mode", "fork", "wait", "loop", "teardown"}
    BY DEF NetBSD
  <2> QED
    BY <1>4, <2>1, <2>2, NetBSDTable
<1>5. CASE p = "gogocpe"
  <2>1. Stages[p] = GogoCPE
    BY <1>5 DEF Stages
  <2>2. DOMAIN GogoCPE = {"root", "ipv6", "mode", "device", "redirect", "script", "haccess_setup",
                          "haccess_expose", "loop", "haccess_hide", "teardown", "close"}
    BY DEF GogoCPE
  <2> QED
    BY <1>5, <2>1, <2>2, GogoCPETable
<1> QED
  BY <1>1, <1>2, <1>3, <1>4, <1>5

\* Where a stage of the present platform goes.
LEMMA Moves ==
    ASSUME Domains, pc \notin {"idle", "return", "exited", "dead"}, NEW outcome \in {"ok", "fail"}, Goto(outcome)
    PROVE  /\ pc' \in DOMAIN Stages[platform] \cup {"return"}
           /\ pc \in OpenStages(platform) /\ pc # "close" => pc' \in OpenStages(platform)
           /\ pc = "device" /\ outcome = "ok" => pc' \in OpenStages(platform)
           /\ pc = "fork" /\ outcome = "ok" => pc' = "wait"
<1>1. pc \in DOMAIN Stages[platform] /\ platform \in DOMAIN Stages
  BY DEF Domains
<1>2. Sound(platform, Stages[platform], pc)
  BY <1>1, Tables
<1>3. pc' \in {Stages[platform][pc].ok, Stages[platform][pc].fail}
      /\ (outcome = "ok" => pc' = Stages[platform][pc].ok)
  BY DEF Goto
<1> QED
  BY <1>2, <1>3 DEF Sound

----------------------------------------------------------------------------
(* Environments and jobs.                                                  *)

LEMMA NoJobFacts ==
    DOMAIN NoJob = JobFields /\ NoJob.at = "none" /\ NoJob.todo = <<>> /\ NoJob.holds = FALSE
  BY DEF NoJob, JobFields

\* What the scripts do follows from the mode and the prefix, and setting these twice changes nothing.
LEMMA SameItems ==
    ASSUME NEW e, NEW op, NEW op2, NEW t
    PROVE  LET set == set_tsp_env_variables(e, op, t)
           IN /\ Items(set) = Items(set_tsp_env_variables(e, "create", t))
              /\ Items(set_tsp_env_variables(set, op2, t)) = Items(set)
  BY DEF Items, Configures, set_tsp_env_variables

LEMMA OneOrThree ==
    ASSUME NEW x, NEW y, NEW z
    PROVE  /\ {<<x>>[i] : i \in DOMAIN <<x>>} = {x} /\ <<x>> \in Seq({x})
           /\ {<<x, y, z>>[i] : i \in DOMAIN <<x, y, z>>} = {x, y, z} /\ <<x, y, z>> \in Seq({x, y, z})
<1>1. DOMAIN <<x, y, z>> = {1, 2, 3} /\ DOMAIN <<x>> = {1}
  OBVIOUS
<1>2. {<<x, y, z>>[i] : i \in {1, 2, 3}} = {x, y, z}
  OBVIOUS
<1> QED
  BY <1>1, <1>2

LEMMA ConfiguresItems == ASSUME NEW e PROVE Configures(e) \in Seq(Items(e))
<1>1. Configures(e) = <<Address(e.mode)>> \/ Configures(e) = <<Address(e.mode), Prefix(e.prefix), Daemons>>
  BY DEF Configures
<1>2. CASE Configures(e) = <<Address(e.mode)>>
  <2>1. Items(e) = {Address(e.mode)}
    BY <1>2, OneOrThree DEF Items
  <2> QED
    BY <1>2, <2>1, OneOrThree
<1>3. CASE Configures(e) = <<Address(e.mode), Prefix(e.prefix), Daemons>>
  <2>1. Items(e) = {Address(e.mode), Prefix(e.prefix), Daemons}
    BY <1>3, OneOrThree DEF Items
  <2> QED
    BY <1>3, <2>1, OneOrThree
<1> QED
  BY <1>1, <1>2, <1>3

LEMMA NothingToDo == ASSUME NEW S PROVE <<>> \in Seq(S)
  OBVIOUS

\* What a session's scripts are about depends on the configuration, the environment and the tunnel.
LEMMA SameWanted ==
    ASSUME UNCHANGED <<platform, cfg, env, tunnel>>
    PROVE  Wanted' = Wanted
  BY DEF Wanted, Items, Configures, set_tsp_env_variables

\* The environments agree as long as the session and its scripts stay as they are.
LEMMA SameEnvironments ==
    ASSUME Environments, UNCHANGED <<platform, cfg, env, tunnel>>, \A item \in added' : item \in Wanted,
           \A o \in {"client", "child"} :
               jobs'[o] = jobs[o] \/ (jobs'[o].at \in {"none", "done"} /\ jobs'[o].todo = <<>>)
    PROVE  Environments'
<1>1. Wanted' = Wanted
  BY SameWanted
<1>2. \A o \in {"client", "child"} : (jobs[o].todo)' \in Seq(Wanted)
  BY NothingToDo DEF Environments
<1>3. (jobs["client"].at = "script" /\ jobs["client"].env.op = "teardown" => Items(jobs["client"].env) = Wanted)'
  <2> SUFFICES ASSUME jobs'["client"].at = "script", jobs'["client"].env.op = "teardown"
               PROVE  (Items(jobs["client"].env) = Wanted)'
    OBVIOUS
  <2>1. jobs'["client"] = jobs["client"]
    OBVIOUS
  <2>2. Items(jobs["client"].env) = Wanted
    BY <2>1 DEF Environments
  <2> QED
    BY <1>1, <2>1, <2>2 DEF Items, Configures
<1>4. ((jobs["child"].at \in {"forked", "setup"}) => (jobs["child"].env = env /\ jobs["child"].tunnel = tunnel))'
  BY DEF Environments
<1> QED
  BY <1>1, <1>2, <1>3, <1>4 DEF Environments

\* Nothing is under way, and nothing has been configured.
LEMMA NoEnvironments ==
    ASSUME added' = {}, \A o \in {"client", "child"} : jobs'[o] = NoJob
    PROVE  Environments'
<1>1. \A o \in {"client", "child"} : (jobs[o].todo)' \in Seq(Wanted')
  BY NothingToDo, NoJobFacts
<1> QED
  BY <1>1, NoJobFacts DEF Environments

\* What tspSetupInterface() makes of a job.
LEMMA SetupOutcome ==
    ASSUME NEW job, DOMAIN job = JobFields, job.holds \in BOOLEAN
    PROVE  LET s == SetupInterface(job)
               set == set_tsp_env_variables(job.env, "create", job.tunnel)
           IN /\ DOMAIN s = JobFields /\ s.at \in {"done", "script"}
              /\ s.holds \in BOOLEAN /\ (s.holds => job.holds /\ s.at = "script")
              /\ s.env \in {job.env, set}
              /\ s.todo = job.todo \/ s.todo = Configures(set)
              /\ s.at = "script" => s.env = set
  BY DEF SetupInterface, JobFields, get_template_script

----------------------------------------------------------------------------
(* The steps.                                                              *)

LEMMA InitIInv == Init => IInv
<1> SUFFICES ASSUME Init PROVE IInv
  OBVIOUS
<1>1. Domains
  BY PlatformsAssumption, NoJobFacts DEF Init, Domains
<1>2. JobStages
  BY NoJobFacts DEF Init, JobStages, Owners
<1>3. DeviceHolders
  BY NoJobFacts DEF Init, DeviceHolders, Owners
<1>4. Environments
  BY NoJobFacts, NothingToDo DEF Init, Environments, Owners
<1> QED
  BY <1>1, <1>2, <1>3, <1>4 DEF IInv

\* A stage, or another process, that leaves the device, the scripts and their environments alone.
LEMMA QuietStep ==
    ASSUME IInv, UNCHANGED <<platform, cfg, tunnel, tunfd, env, jobs, added>>,
           \/ pc' = pc
           \/ /\ pc \notin {"idle", "return", "exited", "dead", "wait", "script", "teardown", "close"}
              /\ Goto("ok") \/ Goto("fail")
           \/ pc \in {"return", "exited", "dead"} /\ pc' = "idle"
    PROVE  IInv'
<1> USE DEF IInv
<1>1. Domains' /\ (pc' # pc => pc' \in OpenStages(platform) \/ pc \notin OpenStages(platform))
  <2>1. CASE pc' = pc
    BY <2>1 DEF Domains
  <2>2. CASE pc \in {"return", "exited", "dead"} /\ pc' = "idle"
    BY <2>2 DEF Domains, OpenStages
  <2>3. CASE /\ pc \notin {"idle", "return", "exited", "dead", "wait", "script", "teardown", "close"}
             /\ Goto("ok") \/ Goto("fail")
    BY <2>3, Moves DEF Domains
  <2> QED
    BY <2>1, <2>2, <2>3
<1>2. JobStages'
  BY DEF JobStages
<1>3. DeviceHolders'
  BY <1>1 DEF DeviceHolders, Forks
<1>4. Environments'
  BY SameEnvironments DEF Environments
<1> QED
  BY <1>1, <1>2, <1>3, <1>4

\* The end of gogoc, whose child or script becomes an orphan.
LEMMA KilledStep == ASSUME IInv, Killed PROVE IInv'
<1> USE DEF IInv
<1> DEFINE left == {o \in {"client", "child"} : jobs[o].at \in {"forked", "setup", "script"}}
<1>1. /\ platform' = platform /\ pc' = "dead" /\ tunfd' = FALSE /\ added' = {}
      /\ jobs'["client"] = NoJob /\ jobs'["child"] = NoJob
      /\ jobs'["orphan"] = NoJob \/ \E l \in left : jobs'["orphan"] = jobs[l]
      /\ DOMAIN jobs' = Owners
  BY DEF Killed, EndOfProcess, Owners
<1>2. Domains'
  BY <1>1, NoJobFacts DEF Domains, Owners
<1>3. JobStages'
  BY <1>1, NoJobFacts DEF JobStages
<1>4. DeviceHolders'
  <2>1. CASE jobs'["orphan"] = NoJob
    BY <1>1, <2>1, NoJobFacts DEF DeviceHolders
  <2>2. CASE "child" \in left /\ jobs'["orphan"] = jobs["child"]
    <3>1. platform # "gogocpe"
      BY <2>2, Tables DEF JobStages, Domains
    <3> QED
      BY <1>1, <2>2, <3>1, NoJobFacts, Tables DEF DeviceHolders, Forks, Domains
  <2>3. CASE "client" \in left /\ jobs'["orphan"] = jobs["client"]
    <3>1. jobs["client"].at = "script" /\ pc \in {"script", "teardown"}
      BY <2>3 DEF JobStages
    <3>2. jobs["client"].holds => platform = "gogocpe"
      BY <3>1, Tables DEF DeviceHolders, Domains, OpenStages
    <3> QED
      BY <1>1, <2>3, <3>1, <3>2, NoJobFacts, Tables DEF DeviceHolders, Forks, Domains
  <2> QED
    BY <1>1, <2>1, <2>2, <2>3
<1>5. Environments'
  BY <1>1, NoEnvironments
<1> QED
  BY <1>2, <1>3, <1>4, <1>5

LEMMA ExitStep == ASSUME IInv, Exit PROVE IInv'
<1> USE DEF IInv
<1>1. /\ platform' = platform /\ pc' = "exited" /\ tunfd' = FALSE /\ added' = {} /\ jobs' = jobs
      /\ pc = "idle"
  BY DEF Exit, EndOfProcess
<1>2. jobs["client"] = NoJob /\ jobs["child"] = NoJob /\ ~tunfd
  BY <1>1 DEF JobStages, DeviceHolders, OpenStages
<1>3. Domains' /\ JobStages' /\ DeviceHolders'
  BY <1>1, <1>2, NoJobFacts DEF Domains, JobStages, DeviceHolders, Forks
<1>4. Environments'
  BY <1>1, <1>2, NoEnvironments
<1> QED
  BY <1>3, <1>4

\* A new session: nothing of it is configured yet.
LEMMA StartLocalStep == ASSUME IInv, tspStartLocal PROVE IInv'
<1> USE DEF IInv
<1>1. /\ platform' = platform /\ pc' = "root" /\ pc = "idle" /\ UNCHANGED <<tunfd, jobs>> /\ added' = {}
  BY DEF tspStartLocal
<1>2. jobs["client"] = NoJob /\ jobs["child"] = NoJob /\ ~tunfd
  BY <1>1 DEF JobStages, DeviceHolders, OpenStages
<1>3. "root" \in DOMAIN Stages[platform]
  BY Tables DEF Domains
<1>4. Domains' /\ JobStages' /\ DeviceHolders'
  BY <1>1, <1>2, <1>3, NoJobFacts DEF Domains, JobStages, DeviceHolders, Forks
<1>5. Environments'
  BY <1>1, <1>2, NoEnvironments
<1> QED
  BY <1>4, <1>5

\* The device is opened, in the stage that opens it.
LEMMA TunInitStep == ASSUME IInv, TunInit PROVE IInv'
<1> USE DEF IInv
<1>1. /\ UNCHANGED <<platform, cfg, tunnel, env, jobs, added>> /\ pc = "device"
      /\ \/ tunfd' = tunfd /\ (Goto("ok") \/ Goto("fail"))
         \/ tunfd' = TRUE /\ Goto("ok")
  BY DEF TunInit, Proceed, Fail, process
<1>2. CASE tunfd' = tunfd
  BY <1>1, <1>2, QuietStep
<1>3. CASE tunfd' = TRUE /\ Goto("ok")
  <2>1. pc' \in DOMAIN Stages[platform] \cup {"return"} /\ pc' \in OpenStages(platform)
    BY <1>1, <1>3, Moves
  <2>2. jobs["client"] = NoJob /\ jobs["child"] = NoJob
    BY <1>1 DEF JobStages
  <2>3. Domains' /\ JobStages' /\ DeviceHolders'
    BY <1>1, <1>3, <2>1, <2>2, NoJobFacts DEF Domains, JobStages, DeviceHolders, Forks
  <2>4. Environments'
    BY <1>1, SameEnvironments DEF Environments
  <2> QED
    BY <2>3, <2>4
<1> QED
  BY <1>1, <1>2, <1>3

\* The child inherits the device, and gogoc waits for it.
LEMMA ForkStep == ASSUME IInv, Fork PROVE IInv'
<1> USE DEF IInv
<1> DEFINE child == [NoJob EXCEPT !.at = "forked", !.env = env, !.path = path, !.tunnel = tunnel, !.holds = tunfd]
<1>1. /\ UNCHANGED <<platform, cfg, tunnel, tunfd, env, added>> /\ pc = "fork"
      /\ \/ UNCHANGED jobs /\ Goto("fail")
         \/ Goto("ok") /\ jobs' = [jobs EXCEPT !["child"] = child]
  BY DEF Fork, Proceed, Fail, process
<1>2. CASE UNCHANGED jobs /\ Goto("fail")
  BY <1>1, <1>2, QuietStep
<1>3. CASE Goto("ok") /\ jobs' = [jobs EXCEPT !["child"] = child]
  <2>1. /\ DOMAIN child = JobFields /\ child.at = "forked" /\ child.env = env /\ child.tunnel = tunnel
        /\ child.holds = tunfd /\ child.todo = <<>>
    BY NoJobFacts DEF JobFields
  <2> HIDE DEF child
  <2>2. jobs'["child"] = child /\ \A o \in Owners \ {"child"} : jobs'[o] = jobs[o]
    BY <1>3 DEF Domains, Owners
  <2>3. pc' = "wait" /\ pc' \in DOMAIN Stages[platform] \cup {"return"} /\ (tunfd => pc' \in OpenStages(platform))
    BY <1>1, <1>3, Moves DEF DeviceHolders
  <2>4. Domains' /\ JobStages'
    BY <1>1, <1>3, <2>1, <2>2, <2>3 DEF Domains, JobStages, Owners
  <2>5. DeviceHolders'
    BY <1>1, <2>1, <2>2, <2>3 DEF DeviceHolders, Forks, Domains, Owners
  <2>6. Environments'
    <3>1. Wanted' = Wanted
      BY <1>1, SameWanted
    <3>2. \A o \in {"client", "child"} : (jobs[o].todo)' \in Seq(Wanted)
      BY <2>1, <2>2, NothingToDo DEF Environments, Owners
    <3>3. jobs'["client"].at = "none"
      BY <1>1, <2>2 DEF JobStages, Owners
    <3> QED
      BY <1>1, <2>1, <2>2, <3>1, <3>2, <3>3 DEF Environments
  <2> QED
    BY <2>4, <2>5, <2>6
<1> QED
  BY <1>1, <1>2, <1>3

\* A child that goes on without gogoc (SunOS) has no device; its work is done, or its own.
LEMMA WaitStep == ASSUME IInv, Wait PROVE IInv'
<1> USE DEF IInv
<1>1. /\ UNCHANGED <<platform, cfg, tunnel, tunfd, env, added>> /\ pc = "wait"
      /\ Goto("ok") \/ Goto("fail")
      /\ DOMAIN jobs' = Owners /\ jobs'["child"] = NoJob /\ jobs'["client"] = jobs["client"]
      /\ \/ jobs'["orphan"] = jobs["orphan"]
         \/ platform = "sunos" /\ jobs'["orphan"] = jobs["child"]
  BY DEF Wait, Proceed, Fail, process, Domains, Owners
<1>2. pc' \in DOMAIN Stages[platform] \cup {"return"} /\ (tunfd => pc' \in OpenStages(platform))
  BY <1>1, Moves DEF DeviceHolders, OpenStages
<1>3. jobs["client"] = NoJob
  BY <1>1 DEF JobStages
<1>4. Domains' /\ JobStages'
  BY <1>1, <1>2, <1>3, NoJobFacts DEF Domains, JobStages, Owners
<1>5. DeviceHolders'
  <2>1. platform = "sunos" => ~jobs["child"].holds
    BY DEF DeviceHolders, OpenStages, Domains, Owners
  <2> QED
    BY <1>1, <1>2, <1>3, <2>1, NoJobFacts DEF DeviceHolders, Forks
<1>6. Environments'
  BY <1>1, NoJobFacts, SameEnvironments DEF Environments
<1> QED
  BY <1>4, <1>5, <1>6

LEMMA ChildClosesStep == ASSUME IInv, NEW o \in {"child", "orphan"}, ChildCloses(o) PROVE IInv'
<1> USE DEF IInv
<1>1. /\ UNCHANGED <<platform, cfg, tunnel, tunfd, env, added, pc>>
      /\ DOMAIN jobs' = Owners /\ \A other \in Owners \ {o} : jobs'[other] = jobs[other]
      /\ jobs[o].at = "forked" /\ DOMAIN jobs'[o] = JobFields
      /\ jobs'[o].at = "setup" /\ jobs'[o].holds = FALSE
      /\ jobs'[o].env = jobs[o].env /\ jobs'[o].tunnel = jobs[o].tunnel /\ jobs'[o].todo = jobs[o].todo
  BY DEF ChildCloses, process, Domains, Owners, JobFields
<1>2. Domains' /\ JobStages'
  BY <1>1 DEF Domains, JobStages, Owners
<1>3. DeviceHolders'
  BY <1>1 DEF DeviceHolders, Forks, Owners
<1>4. Environments'
  <2>1. Wanted' = Wanted
    BY <1>1, SameWanted
  <2>2. jobs'["client"] = jobs["client"] /\ (Items(jobs["client"].env))' = Items(jobs["client"].env)
    BY <1>1 DEF Owners, Items, Configures
  <2>3. \A job \in {"client", "child"} : (jobs[job].todo)' \in Seq(Wanted)
    BY <1>1 DEF Environments, Owners
  <2> QED
    BY <1>1, <2>1, <2>2, <2>3 DEF Environments, Owners
<1> QED
  BY <1>2, <1>3, <1>4

\* The child makes its environment as gogoc would.
LEMMA ChildSetsUpStep == ASSUME IInv, NEW o \in {"child", "orphan"}, ChildSetsUp(o) PROVE IInv'
<1> USE DEF IInv
<1> DEFINE set == set_tsp_env_variables(jobs[o].env, "create", jobs[o].tunnel)
<1>1. /\ UNCHANGED <<platform, cfg, tunnel, tunfd, env, added, pc>>
      /\ DOMAIN jobs' = Owners /\ \A other \in Owners \ {o} : jobs'[other] = jobs[other]
      /\ jobs[o].at = "setup"
      /\ jobs'[o] = SetupInterface(jobs[o]) \/ (o = "orphan" /\ jobs'[o] = NoJob)
  BY DEF ChildSetsUp, process, Domains, Owners
<1>2. ~jobs[o].holds
  BY <1>1 DEF DeviceHolders
<1>3. DOMAIN jobs[o] = JobFields /\ jobs[o].holds \in BOOLEAN
  BY DEF Domains, Owners
<1>4. LET s == SetupInterface(jobs[o])
      IN /\ DOMAIN s = JobFields /\ s.at \in {"done", "script"} /\ s.holds = FALSE
         /\ s.todo = jobs[o].todo \/ s.todo = Configures(set)
  BY <1>2, <1>3, SetupOutcome
<1>5. Domains' /\ JobStages'
  <2> DEFINE made == SetupInterface(jobs[o])
  <2>1. DOMAIN made = JobFields /\ made.at \in {"done", "script"} /\ made.holds = FALSE
    BY <1>4
  <2>2. jobs'[o] = made \/ (o = "orphan" /\ jobs'[o] = NoJob)
    BY <1>1
  <2> HIDE DEF made
  <2>3. DOMAIN jobs'[o] = JobFields /\ jobs'[o].holds = FALSE
        /\ (o = "child" => jobs'[o].at \in {"done", "script"})
    BY <2>1, <2>2, NoJobFacts
  <2>4. Domains'
    BY <1>1, <2>3 DEF Domains
  <2>5. jobs'["client"] = jobs["client"] /\ (o = "orphan" => jobs'["child"] = jobs["child"])
    BY <1>1 DEF Owners
  <2>6. JobStages'
    BY <1>1, <2>3, <2>5 DEF JobStages
  <2> QED
    BY <2>4, <2>6
<1>6. DeviceHolders'
  BY <1>1, <1>4, NoJobFacts DEF DeviceHolders, Forks, Owners
<1>7. Environments'
  <2>1. Wanted' = Wanted
    BY <1>1, SameWanted
  <2>2. jobs'["client"] = jobs["client"] /\ (Items(jobs["client"].env))' = Items(jobs["client"].env)
    BY <1>1 DEF Owners, Items, Configures
  <2>3. o = "child" => jobs'["child"].todo \in Seq(Wanted)
    <3>1. SUFFICES ASSUME o = "child" PROVE jobs'["child"].todo \in Seq(Wanted)
      OBVIOUS
    <3>2. Items(set) = Wanted
      BY <1>1, <3>1 DEF Environments, Wanted
    <3>3. Configures(set) \in Seq(Wanted)
      BY <3>2, ConfiguresItems
    <3> QED
      BY <1>1, <1>4, <3>1, <3>3 DEF Environments
  <2>4. \A job \in {"client", "child"} : (jobs[job].todo)' \in Seq(Wanted)
    BY <1>1, <2>3 DEF Environments, Owners
  <2>5. jobs'["child"].at \in {"forked", "setup"} => jobs'["child"] = jobs["child"]
    BY <1>1, <1>4 DEF Owners
  <2> QED
    BY <1>1, <2>1, <2>2, <2>4, <2>5 DEF Environments, Owners
<1> QED
  BY <1>5, <1>6, <1>7

LEMMA ChildKilledStep == ASSUME IInv, ChildKilled PROVE IInv'
<1> USE DEF IInv
<1>1. /\ UNCHANGED <<platform, cfg, tunnel, tunfd, env, added, pc>>
      /\ DOMAIN jobs' = Owners /\ jobs'["client"] = jobs["client"]
      /\ jobs["child"].at \in {"setup", "script"}
      /\ jobs'["child"] = [NoJob EXCEPT !.at = "done", !.code = "killed"]
      /\ jobs'["orphan"] = jobs["child"] \/ jobs'["orphan"] = NoJob
  BY DEF ChildKilled, process, Domains, Owners
<1>2. DOMAIN jobs'["child"] = JobFields /\ jobs'["child"].at = "done" /\ jobs'["child"].todo = <<>>
      /\ jobs'["child"].holds = FALSE
  BY <1>1, NoJobFacts DEF JobFields
<1>3. Domains' /\ JobStages'
  <2>1. pc = "wait"
    BY <1>1 DEF JobStages
  <2>2. Domains'
    <3>1. DOMAIN jobs'["child"] = JobFields /\ jobs'["child"].holds \in BOOLEAN
      BY <1>2
    <3>2. DOMAIN jobs'["orphan"] = JobFields /\ jobs'["orphan"].holds \in BOOLEAN
      <4>1. CASE jobs'["orphan"] = jobs["child"]
        BY <4>1 DEF Domains, Owners
      <4>2. CASE jobs'["orphan"] = NoJob
        BY <4>2, NoJobFacts
      <4> QED
        BY <1>1, <4>1, <4>2
    <3>3. DOMAIN jobs'["client"] = JobFields /\ jobs'["client"].holds \in BOOLEAN
      BY <1>1 DEF Domains, Owners
    <3> QED
      BY <1>1, <3>1, <3>2, <3>3 DEF Domains, Owners
  <2>3. JobStages'
    BY <1>1, <1>2, <2>1 DEF JobStages
  <2> QED
    BY <2>2, <2>3
<1>4. DeviceHolders'
  BY <1>1, <1>2, NoJobFacts DEF DeviceHolders, Forks
<1>5. Environments'
  BY <1>1, <1>2, SameEnvironments DEF Environments
<1> QED
  BY <1>3, <1>4, <1>5

\* A script that is over: its process is gone, and so is its hold on the device.
LEMMA FinishedStep ==
    ASSUME IInv, NEW o \in Owners, NEW code, Finished(o, code), jobs[o].at = "script",
           UNCHANGED <<platform, cfg, tunnel, tunfd, env, pc>>, \A item \in added' : item \in Wanted
    PROVE  IInv'
<1> USE DEF IInv
<1>1. /\ DOMAIN jobs' = Owners /\ \A other \in Owners \ {o} : jobs'[other] = jobs[other]
      /\ o # "orphan" => /\ DOMAIN jobs'[o] = JobFields
                          /\ jobs'[o].at = "done" /\ jobs'[o].todo = <<>> /\ jobs'[o].holds = FALSE
      /\ o = "orphan" => jobs'[o] = NoJob
  BY DEF Finished, Domains, Owners, JobFields
<1>2. Domains'
  BY <1>1, NoJobFacts DEF Domains, Owners
<1>3. JobStages'
  BY <1>1, NoJobFacts DEF JobStages, Owners
<1>4. DeviceHolders'
  BY <1>1, NoJobFacts DEF DeviceHolders, Forks, Owners
<1>5. Environments'
  BY <1>1, SameEnvironments DEF Environments, Owners
<1> QED
  BY <1>2, <1>3, <1>4, <1>5

LEMMA HeadAndTail ==
    ASSUME NEW S, NEW s \in Seq(S), s # <<>>
    PROVE  Head(s) \in S /\ Tail(s) \in Seq(S)
  OBVIOUS

\* What a setup script configures is what the session's environment names.
LEMMA ScriptConfiguresStep == ASSUME IInv, NEW o \in Owners, ScriptConfigures(o) PROVE IInv'
<1> USE DEF IInv
<1>1. /\ UNCHANGED <<platform, cfg, tunnel, tunfd, env, pc>> /\ jobs[o].at = "script" /\ jobs[o].todo # <<>>
      /\ \/ jobs' = [jobs EXCEPT ![o].todo = Tail(jobs[o].todo)]
         \/ \E code \in {"SUCCESS", "INTERFACE_SETUP_FAILED"} : Finished(o, code)
      /\ added' = added \/ (o \in {"client", "child"} /\ \E n : added' = added \cup ({Head(jobs[o].todo)} \cap n))
  BY DEF ScriptConfigures, process
<1>2. o \in {"client", "child"} => Head(jobs[o].todo) \in Wanted /\ Tail(jobs[o].todo) \in Seq(Wanted)
  BY <1>1, HeadAndTail DEF Environments
<1>3. \A item \in added' : item \in Wanted
  BY <1>1, <1>2 DEF Environments
<1>4. CASE \E code \in {"SUCCESS", "INTERFACE_SETUP_FAILED"} : Finished(o, code)
  BY <1>1, <1>3, <1>4, FinishedStep
<1>5. CASE jobs' = [jobs EXCEPT ![o].todo = Tail(jobs[o].todo)]
  <2>1. /\ DOMAIN jobs' = Owners /\ \A other \in Owners \ {o} : jobs'[other] = jobs[other]
        /\ DOMAIN jobs'[o] = JobFields /\ jobs'[o].todo = Tail(jobs[o].todo)
        /\ jobs'[o].at = jobs[o].at /\ jobs'[o].env = jobs[o].env /\ jobs'[o].tunnel = jobs[o].tunnel
        /\ jobs'[o].holds = jobs[o].holds
    BY <1>5 DEF Domains, JobFields
  <2>2. Domains'
    BY <1>1, <2>1 DEF Domains, Owners
  <2>3. JobStages'
    BY <1>1, <2>1 DEF JobStages, Owners
  <2>4. DeviceHolders'
    BY <1>1, <2>1 DEF DeviceHolders, Forks, Owners
  <2>5. Environments'
    <3>1. Wanted' = Wanted
      BY <1>1, SameWanted
    <3>2. \A job \in {"client", "child"} : (jobs[job].todo)' \in Seq(Wanted)
      BY <1>2, <2>1 DEF Environments, Owners
    <3>3. /\ jobs'["client"].at = jobs["client"].at /\ jobs'["client"].env = jobs["client"].env
          /\ jobs'["child"].at = jobs["child"].at /\ jobs'["child"].env = jobs["child"].env
          /\ jobs'["child"].tunnel = jobs["child"].tunnel
      BY <2>1 DEF Owners
    <3>4. (Items(jobs["client"].env))' = Items(jobs["client"].env)
      BY <1>1, <3>3 DEF Items, Configures
    <3> QED
      BY <1>1, <1>3, <3>1, <3>2, <3>3, <3>4 DEF Environments
  <2> QED
    BY <2>2, <2>3, <2>4, <2>5
<1> QED
  BY <1>1, <1>4, <1>5

LEMMA ScriptFailsStep == ASSUME IInv, NEW o \in Owners, ScriptFails(o) PROVE IInv'
  BY FinishedStep DEF ScriptFails, process, IInv, Environments

LEMMA ScriptRemovesStep == ASSUME IInv, NEW o \in Owners, ScriptRemoves(o) PROVE IInv'
  BY FinishedStep DEF ScriptRemoves, process, IInv, Environments

\* gogocpe: the script is gogoc's own, and so is its environment.
LEMMA RunScriptStep == ASSUME IInv, RunScript PROVE IInv'
<1> USE DEF IInv
<1> DEFINE start == [NoJob EXCEPT !.env = env, !.path = path, !.tunnel = tunnel, !.holds = tunfd]
           job   == SetupInterface(start)
           set   == set_tsp_env_variables(env, "create", tunnel)
<1>1. CASE Killed
  BY <1>1, KilledStep
<1>2. CASE ~Killed
  <2>1. /\ UNCHANGED <<platform, cfg, tunnel, tunfd, added, pc>> /\ pc = "script"
        /\ jobs' = [jobs EXCEPT !["client"] = job] /\ env' = job.env
    BY <1>2, Zenon DEF RunScript, process
  <2>2. /\ DOMAIN start = JobFields /\ start.env = env /\ start.tunnel = tunnel /\ start.holds = tunfd
        /\ start.todo = <<>>
    BY NoJobFacts DEF JobFields
  <2>3. /\ DOMAIN job = JobFields /\ job.at \in {"done", "script"}
        /\ job.holds \in BOOLEAN /\ (job.holds => tunfd)
        /\ job.env \in {env, set}
        /\ job.todo = <<>> \/ job.todo = Configures(set)
        /\ job.at = "script" => job.env = set
    <3> HIDE DEF start
    <3> QED
      BY <2>2, SetupOutcome DEF Domains
  <2> HIDE DEF job
  <2>4. /\ DOMAIN jobs' = Owners /\ jobs'["client"] = job
        /\ \A other \in Owners \ {"client"} : jobs'[other] = jobs[other]
    BY <2>1 DEF Domains, Owners
  <2>5. Domains'
    BY <2>1, <2>3, <2>4 DEF Domains, Owners
  <2>6. JobStages'
    BY <2>1, <2>3, <2>4 DEF JobStages, Owners
  <2>7. DeviceHolders'
    BY <2>1, <2>3, <2>4 DEF DeviceHolders, Forks, Owners
  <2>8. Environments'
    <3>1. Items(set) = Wanted /\ Items(set_tsp_env_variables(set, "create", tunnel)) = Wanted
      BY SameItems DEF Wanted
    <3>2. Wanted' = Wanted
      <4>1. Wanted' = Items(set_tsp_env_variables(env', "create", tunnel))
        BY <2>1 DEF Wanted, Items, Configures, set_tsp_env_variables
      <4> HIDE DEF set
      <4> QED
        BY <2>1, <2>3, <3>1, <4>1 DEF Wanted
    <3>3. Configures(set) \in Seq(Wanted)
      BY <3>1, ConfiguresItems
    <3>4. jobs'["client"].at = "script" => jobs'["client"].env.op = "create"
      BY <2>3, <2>4 DEF set_tsp_env_variables
    <3>5. jobs'["child"].at = "none"
      BY <2>1, <2>4 DEF JobStages, Owners
    <3>6. \A o \in {"client", "child"} : (jobs[o].todo)' \in Seq(Wanted)
      BY <2>3, <2>4, <3>3, NothingToDo DEF Environments, Owners
    <3> QED
      BY <2>1, <3>2, <3>4, <3>5, <3>6 DEF Environments
  <2> QED
    BY <2>5, <2>6, <2>7, <2>8
<1> QED
  BY <1>1, <1>2

LEMMA ScriptDoneStep == ASSUME IInv, ScriptDone PROVE IInv'
<1> USE DEF IInv
<1>1. /\ UNCHANGED <<platform, cfg, tunnel, tunfd, env, added>> /\ pc = "script" /\ (Goto("ok") \/ Goto("fail"))
      /\ DOMAIN jobs' = Owners /\ jobs'["client"] = NoJob
      /\ jobs'["child"] = jobs["child"] /\ jobs'["orphan"] = jobs["orphan"]
  BY DEF ScriptDone, Proceed, Fail, process, Domains, Owners
<1>2. pc' \in DOMAIN Stages[platform] \cup {"return"} /\ (tunfd => pc' \in OpenStages(platform))
  BY <1>1, Moves DEF DeviceHolders, OpenStages
<1>3. jobs["child"] = NoJob
  BY <1>1 DEF JobStages
<1>4. Domains' /\ JobStages'
  BY <1>1, <1>2, <1>3, NoJobFacts DEF Domains, JobStages, Owners
<1>5. DeviceHolders'
  BY <1>1, <1>2, <1>3, NoJobFacts DEF DeviceHolders, Forks
<1>6. Environments'
  BY <1>1, NoJobFacts, SameEnvironments DEF Environments
<1> QED
  BY <1>4, <1>5, <1>6

\* gogoc's last descriptor of the device: nobody else has one by then.
LEMMA CloseDeviceStep == ASSUME IInv, CloseDevice PROVE IInv'
<1> USE DEF IInv
<1>1. /\ UNCHANGED <<platform, cfg, tunnel, env, added, jobs>> /\ tunfd' = FALSE /\ pc = "close" /\ Goto("ok")
  BY DEF CloseDevice, Proceed, process
<1>2. pc' \in DOMAIN Stages[platform] \cup {"return"}
  BY <1>1, Moves
<1>3. jobs["client"] = NoJob /\ jobs["child"] = NoJob
  BY <1>1 DEF JobStages
<1>4. Domains' /\ JobStages' /\ DeviceHolders'
  BY <1>1, <1>2, <1>3, NoJobFacts DEF Domains, JobStages, DeviceHolders, Forks
<1>5. Environments'
  BY <1>1, SameEnvironments DEF Environments
<1> QED
  BY <1>4, <1>5

\* The environment of the teardown script names what that of the setup script did.
LEMMA TearDownStep == ASSUME IInv, tspTearDownTunnel PROVE IInv'
<1> USE DEF IInv
<1> DEFINE set == set_tsp_env_variables(env, "teardown", tunnel)
           job == [NoJob EXCEPT !.at = "script", !.env = set, !.path = get_template_script(path).path,
                                !.tunnel = tunnel, !.holds = tunfd]
<1>1. CASE Killed
  BY <1>1, KilledStep
<1>2. CASE ~Killed
  <2>1. /\ UNCHANGED <<platform, cfg, tunnel, tunfd, added>> /\ pc = "teardown" /\ env' = set
        /\ jobs["client"].at = "none"
        /\ \/ jobs' = [jobs EXCEPT !["client"] = job] /\ pc' = pc
           \/ jobs' = jobs /\ Goto("ok")
    BY <1>2 DEF tspTearDownTunnel, Proceed, process
  <2>2. /\ DOMAIN job = JobFields /\ job.at = "script" /\ job.env = set /\ job.holds = tunfd /\ job.todo = <<>>
    BY NoJobFacts DEF JobFields
  <2> HIDE DEF job
  <2>3. Wanted' = Wanted /\ Items(set) = Wanted /\ (Items(jobs["client"].env))' = Items(jobs'["client"].env)
    <3>1. Wanted' = Items(set_tsp_env_variables(env', "create", tunnel))
      BY <2>1 DEF Wanted, Items, Configures, set_tsp_env_variables
    <3>2. (Items(jobs["client"].env))' = Items(jobs'["client"].env)
      BY <2>1 DEF Items, Configures
    <3>3. Items(set) = Wanted /\ Items(set_tsp_env_variables(set, "create", tunnel)) = Wanted
      BY SameItems DEF Wanted
    <3> HIDE DEF set
    <3> QED
      BY <2>1, <3>1, <3>2, <3>3
  <2> HIDE DEF set
  <2>4. jobs["child"] = NoJob
    BY <2>1 DEF JobStages
  <2>5. CASE jobs' = [jobs EXCEPT !["client"] = job] /\ pc' = pc
    <3>1. /\ DOMAIN jobs' = Owners /\ jobs'["client"] = job
          /\ \A other \in Owners \ {"client"} : jobs'[other] = jobs[other]
      BY <2>5 DEF Domains, Owners
    <3>2. Domains'
      BY <2>1, <2>2, <2>5, <3>1 DEF Domains, Owners
    <3>3. JobStages'
      BY <2>1, <2>2, <2>5, <3>1 DEF JobStages, Owners
    <3>4. DeviceHolders'
      BY <2>1, <2>2, <2>5, <3>1 DEF DeviceHolders, Forks, Owners
    <3>5. \A o \in {"client", "child"} : (jobs[o].todo)' \in Seq(Wanted)
      BY <2>2, <2>4, <3>1, NothingToDo, NoJobFacts DEF Owners
    <3>6. Environments'
      BY <2>1, <2>2, <2>3, <2>4, <3>1, <3>5, NoJobFacts DEF Environments, Owners
    <3> QED
      BY <3>2, <3>3, <3>4, <3>6
  <2>6. CASE jobs' = jobs /\ Goto("ok")
    <3>1. pc' \in DOMAIN Stages[platform] \cup {"return"} /\ (tunfd => pc' \in OpenStages(platform))
      BY <2>1, <2>6, Moves DEF DeviceHolders
    <3>2. Domains' /\ JobStages'
      BY <2>1, <2>4, <2>6, <3>1, NoJobFacts DEF Domains, JobStages
    <3>3. DeviceHolders'
      BY <2>1, <2>4, <2>6, <3>1, NoJobFacts DEF DeviceHolders, Forks
    <3>4. Environments'
      BY <2>1, <2>3, <2>4, <2>6, NoJobFacts DEF Environments
    <3> QED
      BY <3>2, <3>3, <3>4
  <2> QED
    BY <2>1, <2>5, <2>6
<1> QED
  BY <1>1, <1>2

LEMMA TeardownDoneStep == ASSUME IInv, TeardownDone PROVE IInv'
<1> USE DEF IInv
<1>1. /\ UNCHANGED <<platform, cfg, tunnel, tunfd, env, added>> /\ pc = "teardown" /\ Goto("ok")
      /\ DOMAIN jobs' = Owners /\ jobs'["client"] = NoJob
      /\ jobs'["child"] = jobs["child"] /\ jobs'["orphan"] = jobs["orphan"]
  BY DEF TeardownDone, Proceed, process, Domains, Owners
<1>2. pc' \in DOMAIN Stages[platform] \cup {"return"} /\ (tunfd => pc' \in OpenStages(platform))
  BY <1>1, Moves DEF DeviceHolders, OpenStages
<1>3. jobs["child"] = NoJob
  BY <1>1 DEF JobStages
<1>4. Domains' /\ JobStages'
  BY <1>1, <1>2, <1>3, NoJobFacts DEF Domains, JobStages, Owners
<1>5. DeviceHolders'
  BY <1>1, <1>2, <1>3, NoJobFacts DEF DeviceHolders, Forks
<1>6. Environments'
  BY <1>1, NoJobFacts, SameEnvironments DEF Environments
<1> QED
  BY <1>4, <1>5, <1>6

\* The stages that have nothing to do with the device or the scripts.
LEMMA QuietStages ==
    ASSUME IInv,
           \/ CheckRoot \/ tspTestIPv6Support \/ GoDaemon \/ CheckMode \/ TunRedirect
           \/ LoopBegins \/ LoopEnds \/ HaccessSetup \/ HaccessExpose \/ HaccessTeardown
    PROVE  IInv'
<1>1. /\ UNCHANGED <<platform, cfg, tunnel, tunfd, env, jobs, added>>
      /\ pc \in {"root", "ipv6", "daemon", "mode", "redirect", "loop", "haccess_setup", "haccess_expose",
                 "haccess_hide"}
      /\ pc' = pc \/ Goto("ok") \/ Goto("fail")
  BY DEF CheckRoot, tspTestIPv6Support, GoDaemon, CheckMode, TunRedirect, LoopBegins, LoopEnds, HaccessSetup,
         HaccessExpose, HaccessTeardown, Proceed, Fail, process
<1> QED
  BY <1>1, QuietStep

\* What happens beside the stages, and the way out and back in.
LEMMA QuietEvents ==
    ASSUME IInv,
           \/ Hangup \/ Start \/ KeepaliveEnds \/ Return \/ HidingBegins \/ HidingWaits \/ HidingEnds \/ Ddns
    PROVE  IInv'
<1>1. /\ UNCHANGED <<platform, cfg, tunnel, tunfd, env, jobs, added>>
      /\ pc' = pc \/ (pc \in {"return", "exited", "dead"} /\ pc' = "idle")
  BY DEF Hangup, Start, KeepaliveEnds, Return, HidingBegins, HidingWaits, HidingEnds, Ddns, DdnsReadsActive,
         DdnsSignals, DdnsDeactivates, DdnsThreadEnds, Alive, process
<1> QED
  BY <1>1, QuietStep

LEMMA NextIInv == ASSUME IInv, [Next]_vars PROVE IInv'
<1>1. CASE UNCHANGED vars
  BY <1>1, QuietStep DEF vars, process
<1>2. CASE Kill
  BY <1>2, KilledStep DEF Kill
<1>3. CASE ChildKilled
  BY <1>3, ChildKilledStep
<1>4. CASE tspStartLocal
  BY <1>4, StartLocalStep
<1>5. CASE Client
  BY <1>5, QuietStages, QuietEvents, TunInitStep, ForkStep, WaitStep, RunScriptStep, ScriptDoneStep,
     CloseDeviceStep, TearDownStep, TeardownDoneStep, ExitStep DEF Client
<1>6. CASE \E o \in {"child", "orphan"} : Child(o)
  BY <1>6, ChildClosesStep, ChildSetsUpStep DEF Child
<1>7. CASE \E o \in Owners : Script(o)
  BY <1>7, ScriptConfiguresStep, ScriptFailsStep, ScriptRemovesStep DEF Script
<1>8. CASE Hangup \/ Start \/ KeepaliveEnds \/ Ddns
  BY <1>8, QuietEvents
<1> QED
  BY <1>1, <1>2, <1>3, <1>4, <1>5, <1>6, <1>7, <1>8 DEF Next

----------------------------------------------------------------------------
(* The daemons of the scripts.                                             *)

LEMMA SurvivingKeeps ==
    ASSUME NEW n, NEW fd, NEW js, NEW h
    PROVE  Daemons \in Surviving(n, fd, js, h) <=> Daemons \in n
<1>1. Daemons # Address("v6udpv4")
  BY DEF Daemons, Address
<1> QED
  BY <1>1 DEF Surviving

\* Where gogoc forks, no script has the device.
LEMMA ScriptsHold ==
    ASSUME IInv, NEW o \in Owners, jobs[o].at = "script", jobs[o].holds
    PROVE  ~Forks
<1> USE DEF IInv
<1>1. CASE o = "child"
  BY <1>1 DEF DeviceHolders
<1>2. CASE o = "orphan"
  BY <1>2 DEF DeviceHolders
<1>3. CASE o = "client"
  <2>1. pc \in OpenStages(platform) /\ pc \in {"script", "teardown"}
    BY <1>3 DEF DeviceHolders, JobStages
  <2>2. platform = "gogocpe"
    BY <2>1 DEF OpenStages
  <2> QED
    BY <2>2, Tables DEF Forks, Domains
<1> QED
  BY <1>1, <1>2, <1>3 DEF Owners

LEMMA InitDaemons == Init => DaemonHolds
  BY DEF Init, DaemonHolds

\* A step of anything but a script leaves the daemons alone.
LEMMA DaemonsStay ==
    ASSUME DaemonHolds, UNCHANGED <<platform, held>>, Daemons \in net => Daemons \in net'
    PROVE  DaemonHolds'
  BY DEF DaemonHolds, Forks

LEMMA ConfiguresDaemons == ASSUME IInv, DaemonHolds, NEW o \in Owners, ScriptConfigures(o) PROVE DaemonHolds'
<1> DEFINE item == Head(jobs[o].todo)
<1>1. PICK n \in Configured(item) :
          /\ IF item # Daemons THEN UNCHANGED held
             ELSE held' \in {h \in BOOLEAN : h => Daemons \in n /\ (held \/ jobs[o].holds)}
          /\ net' = Surviving(n, tunfd, jobs', held')
  BY DEF ScriptConfigures
<1>2. platform' = platform /\ jobs[o].at = "script"
  BY DEF ScriptConfigures
<1>3. CASE item # Daemons
  <2>1. Daemons \in net => Daemons \in n
    <3>1. Daemons \notin AlikePrefixes
      BY DEF AlikePrefixes, Daemons, Prefix
    <3> HIDE DEF item
    <3> QED
      BY <1>1, <1>3, <3>1 DEF Configured
  <2>2. held' = held
    BY <1>1, <1>3
  <2> QED
    BY <1>1, <1>2, <2>1, <2>2, SurvivingKeeps, DaemonsStay
<1>4. CASE item = Daemons
  <2>1. held' => Daemons \in n /\ (held \/ jobs[o].holds)
    BY <1>1, <1>4
  <2>2. jobs[o].holds => ~Forks
    BY <1>2, ScriptsHold
  <2>3. held => ~Forks
    BY DEF DaemonHolds
  <2>4. Forks' = Forks
    BY <1>2 DEF Forks
  <2> QED
    BY <1>1, <2>1, <2>2, <2>3, <2>4, SurvivingKeeps DEF DaemonHolds
<1> QED
  BY <1>3, <1>4

LEMMA RemovesDaemons == ASSUME DaemonHolds, NEW o \in Owners, ScriptRemoves(o) PROVE DaemonHolds'
<1>1. PICK removed \in SUBSET Removes(jobs[o].env) :
          /\ held' \in {h \in BOOLEAN : h => held /\ Daemons \notin removed}
          /\ net' = Surviving(net \ removed, tunfd, jobs', held')
  BY DEF ScriptRemoves
<1>2. Forks' = Forks
  BY DEF ScriptRemoves, Forks
<1>3. held' => held /\ Daemons \notin removed
  BY <1>1
<1> QED
  BY <1>1, <1>2, <1>3, SurvivingKeeps DEF DaemonHolds

LEMMA NextDaemons == ASSUME IInv, DaemonHolds, [Next]_vars PROVE DaemonHolds'
<1>1. CASE UNCHANGED vars
  BY <1>1, DaemonsStay DEF vars
<1>2. CASE Kill
  BY <1>2, SurvivingKeeps, DaemonsStay DEF Kill, Killed, EndOfProcess
<1>3. CASE Client
  <2>1. UNCHANGED platform
    BY <1>3 DEF Client, CheckRoot, tspTestIPv6Support, GoDaemon, CheckMode, TunInit, TunRedirect, Fork, Wait,
       RunScript, ScriptDone, LoopBegins, LoopEnds, CloseDevice, tspTearDownTunnel, TeardownDone, Return, Exit,
       HaccessSetup, HaccessExpose, HidingBegins, HidingWaits, HidingEnds, HaccessTeardown, Killed, EndOfProcess
  <2>2. UNCHANGED held
    BY <1>3 DEF Client, CheckRoot, tspTestIPv6Support, GoDaemon, CheckMode, TunInit, TunRedirect, Fork, Wait,
       RunScript, ScriptDone, LoopBegins, LoopEnds, CloseDevice, tspTearDownTunnel, TeardownDone, Return, Exit,
       HaccessSetup, HaccessExpose, HidingBegins, HidingWaits, HidingEnds, HaccessTeardown, Killed, EndOfProcess
  <2>3. UNCHANGED net \/ Killed \/ CloseDevice
    BY <1>3 DEF Client, CheckRoot, tspTestIPv6Support, GoDaemon, CheckMode, TunInit, TunRedirect, Fork, Wait,
       RunScript, ScriptDone, LoopBegins, LoopEnds, tspTearDownTunnel, TeardownDone, Return, Exit,
       HaccessSetup, HaccessExpose, HidingBegins, HidingWaits, HidingEnds, HaccessTeardown
  <2>4. Daemons \in net => Daemons \in net'
    BY <2>3, SurvivingKeeps DEF Killed, CloseDevice
  <2> QED
    BY <2>1, <2>2, <2>4, DaemonsStay
<1>4. CASE \E o \in {"child", "orphan"} : Child(o)
  BY <1>4, SurvivingKeeps, DaemonsStay DEF Child, ChildCloses, ChildSetsUp
<1>5. CASE \E o \in Owners : Script(o)
  <2>1. PICK o \in Owners : Script(o)
    BY <1>5
  <2>2. CASE ScriptFails(o)
    BY <2>2, SurvivingKeeps, DaemonsStay DEF ScriptFails
  <2> QED
    BY <2>1, <2>2, ConfiguresDaemons, RemovesDaemons DEF Script
<1>6. CASE Hangup \/ Start \/ KeepaliveEnds \/ Ddns \/ ChildKilled \/ tspStartLocal
  BY <1>6, DaemonsStay DEF Hangup, Start, KeepaliveEnds, Ddns, DdnsReadsActive, DdnsSignals, DdnsDeactivates,
     DdnsThreadEnds, ChildKilled, tspStartLocal
<1> QED
  BY <1>1, <1>2, <1>3, <1>4, <1>5, <1>6 DEF Next

----------------------------------------------------------------------------
(* The theorems.                                                           *)

\* Whoever inherits the tunnel device from gogoc, closes it late or is killed, and whatever the
\* platform's tspStartLocal() does with a failed stage, the device is open only between TunInit()
\* and the close() of a session, in a child that has yet to close its copy, or, on gogocpe, in a
\* script that outlives gogoc and the daemons it has started.
THEOREM DeviceAlwaysFollowsClient == Spec => []DeviceFollowsClient
<1>1. IInv /\ DaemonHolds => DeviceFollowsClient
  <2> SUFFICES ASSUME IInv, DaemonHolds, DeviceOpen PROVE DeviceFollowsClient
    BY DEF DeviceFollowsClient
  <2> USE DEF IInv
  <2>1. tunfd \/ held \/ jobs["orphan"].holds
    BY DEF DeviceOpen, DeviceHolders, Owners
  <2>2. CASE tunfd
    <3>1. pc \in OpenStages(platform)
      BY <2>2 DEF DeviceHolders
    <3>2. pc = "teardown" => ~Forks
      BY <3>1, Tables DEF OpenStages, Forks, Domains
    <3> QED
      BY <2>2, <3>1, <3>2 DEF OpenStages, DeviceFollowsClient
  <2>3. CASE jobs["orphan"].holds
    BY <2>3 DEF DeviceHolders, DeviceFollowsClient
  <2>4. CASE held
    BY <2>4 DEF DaemonHolds, DeviceFollowsClient
  <2> QED
    BY <2>1, <2>2, <2>3, <2>4
<1>2. Init => IInv /\ DaemonHolds
  BY InitIInv, InitDaemons
<1>3. IInv /\ DaemonHolds /\ [Next]_vars => IInv' /\ DaemonHolds'
  BY NextIInv, NextDaemons
<1> QED
  BY <1>1, <1>2, <1>3, PTL DEF Spec

\* What the session's scripts are about, the teardown script tries to remove, or gogocpe.sh overlooks.
LEMMA ItemsRemoved == ASSUME NEW e, NEW item \in Items(e) PROVE item \in Removes(e) \/ Overlooked(item)
<1>1. item = Address(e.mode) \/ (cfg.router /\ item \in {Prefix(e.prefix), Daemons})
  BY DEF Items, Configures
<1>2. CASE cfg.router /\ item = Prefix(e.prefix)
  BY <1>2 DEF Removes, Overlooked, AlikePrefixes, Prefix
<1>3. CASE item = Address(e.mode)
  BY <1>3 DEF Removes
<1>4. CASE cfg.router /\ item = Daemons
  BY <1>4 DEF Removes
<1> QED
  BY <1>1, <1>2, <1>3, <1>4

\* tspTearDownTunnel() has the script deal with all that the setup script of the session has
\* configured, though the environment of each script is put together anew by
\* set_tsp_env_variables() and the setup script ran in a copy of it.
THEOREM TeardownAlwaysUndoesSetup == Spec => TeardownUndoesSetup
<1> DEFINE Covers == \A item \in added : item \in Removes(jobs["client"].env) \/ Overlooked(item)
<1>1. ASSUME IInv, [Next]_vars PROVE [ScriptRemoves("client") => Covers]_vars
  <2> SUFFICES ASSUME ScriptRemoves("client") PROVE Covers
    OBVIOUS
  <2>1. Items(jobs["client"].env) = Wanted /\ \A item \in added : item \in Wanted
    BY <1>1 DEF IInv, Environments, ScriptRemoves
  <2> QED
    BY <2>1, ItemsRemoved
<1> QED
  BY <1>1, InitIInv, NextIInv, PTL DEF Spec, TeardownUndoesSetup

=============================================================================

--------------------------- MODULE GogocConfigProofs ---------------------------
(***************************************************************************)
(* Proofs about the configuration library and the programs that use it.    *)
(* What gogoc runs on is the configuration the file holds when it is read, *)
(* and makes sense as a whole; what a program has saved is what the next   *)
(* one reads.                                                              *)
(***************************************************************************)
EXTENDS GogocConfig, TLAPS, SequenceTheorems, WellFoundedInduction

----------------------------------------------------------------------------
(* What a verdict of validity says about the data.                         *)

\* The getters' values in the configuration data, as the rules constrain them.
DataConsistent(data) ==
    /\ Get(data, "auth_method") # "anonymous" => Get(data, "passwd") # ""
    /\ Get(data, "proxy_client") = "yes" =>
          Get(data, "tunnel_mode") # "v6udpv4" /\ Get(data, "keepalive") # "yes"
    /\ Get(data, "keepalive") = "yes" => Number(Get(data, "keepalive_interval")) # 0
    /\ \A i \in Needed(Get(data, "tunnel_mode")) : Get(data, i) # ""
    /\ Get(data, "host_type") = "router" => Get(data, "if_prefix") # ""
    /\ Number(Get(data, "retry_delay")) <= Number(Get(data, "retry_delay_max"))

\* The delays are variables of one group only: their defaults are those of that group.
LEMMA DelayDefaults ==
    /\ "retry_delay" \in Variables /\ "retry_delay_max" \in Variables
    /\ Default["retry_delay"] = "30" /\ Default["retry_delay_max"] = "300"
<1> DEFINE InGroup(n) == CHOOSE g \in Groups : n \in DOMAIN g
<1>1. ConnectVars \in Groups
  BY DEF Groups
<1>2. \A n \in {"retry_delay", "retry_delay_max"} :
         /\ n \in DOMAIN ConnectVars
         /\ \A g \in Groups : n \in DOMAIN g => g = ConnectVars
  <2>1. /\ "retry_delay" \in DOMAIN ConnectVars /\ "retry_delay_max" \in DOMAIN ConnectVars
    BY DEF ConnectVars
  <2>2. ASSUME NEW n \in {"retry_delay", "retry_delay_max"}
        PROVE  /\ n \notin DOMAIN AccountVars /\ n \notin DOMAIN TunnelVars
               /\ n \notin DOMAIN ServerVars /\ n \notin DOMAIN LogVars
               /\ n \notin DOMAIN HaccessVars /\ n \notin DOMAIN LogDevices
    BY DEF AccountVars, TunnelVars, ServerVars, LogVars, HaccessVars, LogDevices
  <2> QED
    BY <2>1, <2>2 DEF Groups
<1>3. \A n \in {"retry_delay", "retry_delay_max"} : InGroup(n) = ConnectVars /\ n \in Variables
  BY <1>1, <1>2 DEF Variables
<1>4. \A n \in {"retry_delay", "retry_delay_max"} : Default[n] = ConnectVars[n]
  BY <1>3 DEF Default
<1> QED
  BY <1>3, <1>4 DEF ConnectVars

LEMMA DelayRange == /\ \A k : k \in 0 .. CFG_MAX_RETRYDELAY => k \in Int
                    /\ \A k : k \in 0 .. CFG_MAX_RETRYDELAYMAX => k \in Int
<1>1. CFG_MAX_RETRYDELAY \in Int /\ CFG_MAX_RETRYDELAYMAX \in Int
  BY DEF CFG_MAX_RETRYDELAY, CFG_MAX_RETRYDELAYMAX
<1> QED
  BY <1>1

\* A delay that passed its validation is a number.
LEMMA DelaysAreNumbers ==
    ASSUME NEW data, InvalidValues(data) = {}
    PROVE  /\ Number(Get(data, "retry_delay")) \in Int
           /\ Number(Get(data, "retry_delay_max")) \in Int
<1>1. ASSUME NEW n \in {"retry_delay", "retry_delay_max"}
      PROVE  \/ Get(data, n) = Default[n]
             \/ Number(Get(data, n)) \in Int
  <2>1. CASE n \notin DOMAIN data.nv
    BY <2>1 DEF Get, GetVariableValue, Blank
  <2>2. CASE n \in DOMAIN data.nv
    <3>1. n \in (DOMAIN data.nv \cap Variables) \ {"auto_retry_connect"}
      BY <2>2, DelayDefaults
    <3> DEFINE value == GetVariableValue(data, n)
    <3>2. Validate(n, value)
      BY <3>1 DEF InvalidValues
    <3>3. value = "" \/ Number(value) \in Int
      <4> HIDE DEF value
      <4>1. CASE n = "retry_delay"
        <5>1. Validate("retry_delay", value) = Validate_RetryDelay(value)
          BY DEF Validate
        <5>2. Validate_RetryDelay(value)
          BY <3>2, <4>1, <5>1
        <5> QED
          BY <5>2, DelayRange, Zenon DEF Validate_RetryDelay
      <4>2. CASE n = "retry_delay_max"
        <5>1. Validate("retry_delay_max", value) = Validate_RetryDelayMax(value)
          BY DEF Validate
        <5>2. Validate_RetryDelayMax(value)
          BY <3>2, <4>2, <5>1
        <5> QED
          BY <5>2, DelayRange, Zenon DEF Validate_RetryDelayMax
      <4> QED
        BY <4>1, <4>2
    <3>4. Get(data, n) = IF value = "" THEN Default[n] ELSE value
      BY DEF Get
    <3> HIDE DEF value
    <3> QED
      BY <3>3, <3>4
  <2> QED
    BY <2>1, <2>2
<1>2. Number("30") \in Int /\ Number("300") \in Int
  BY DefaultDelays DEF Number
<1> QED
  BY <1>1, <1>2, DelayDefaults

\* Data found valid breaks none of the rules: nothing is invalid, no rule is broken.
LEMMA ValidIsConsistent ==
    ASSUME NEW data, ValidateConfigData(data).valid
    PROVE  DataConsistent(data)
<1> DEFINE broken == {i \in DOMAIN Rules : BrokenRules(data)[i]}
<1>1. InvalidValues(data) = {} /\ broken = {}
  BY DEF ValidateConfigData, Verdict
<1>2. DOMAIN Rules = 1 .. 9
  BY DEF Rules
<1>3. \A i \in 1 .. 9 : ~BrokenRules(data)[i]
  BY <1>1, <1>2
<1>4. /\ ~PasswordMissing(data) /\ ~UdpThroughProxy(data) /\ ~KeepaliveThroughProxy(data)
      /\ ~IntervalZero(data) /\ ~InterfaceMissing(data) /\ ~PrefixInterfaceMissing(data)
      /\ ~DelaysCrossed(data)
  <2>1. /\ ~BrokenRules(data)[1] /\ ~BrokenRules(data)[2] /\ ~BrokenRules(data)[3]
        /\ ~BrokenRules(data)[4] /\ ~BrokenRules(data)[5] /\ ~BrokenRules(data)[6]
        /\ ~BrokenRules(data)[7]
    BY <1>3
  <2> QED
    BY <2>1 DEF BrokenRules
<1>5. Number(Get(data, "retry_delay")) <= Number(Get(data, "retry_delay_max"))
  BY <1>1, <1>4, DelaysAreNumbers DEF DelaysCrossed
<1> QED
  BY <1>4, <1>5 DEF DataConsistent, PasswordMissing, UdpThroughProxy, KeepaliveThroughProxy,
     IntervalZero, InterfaceMissing, PrefixInterfaceMissing

----------------------------------------------------------------------------
(* What gogoc reads.                                                       *)

\* An object gogoc could start with.
Served(ob) == get_server(ob) # ""

\* What the C wrapper's object is before it has read anything.
LEMMA NoObjectUseless == NoObject.init = FALSE /\ ~Served(NoObject)
  BY Zenon DEF NoObject, Served, get_server

LEMMA NewObject ==
       LET ob == New("AM_RW", "")
       IN ob.init = TRUE /\ ob.valid = FALSE /\ ob.mode = "AM_RW"
  BY Zenon DEF NoObject, New, Served, get_server

\* A validation that aborts does not find the data valid.
LEMMA AbortIsInvalid ==
    ASSUME NEW data, ValidateConfigData(data).aborts
    PROVE  ~ValidateConfigData(data).valid
  BY DEF ValidateConfigData, Verdict

\* What reading a file may come to: its data, the end of the process or no file.
LEMMA ReadOutcomes ==
    ASSUME NEW f, NEW old, NEW r \in ReadFile(f, old)
    PROVE  \/ file[f].exists /\ r = ReadConfigurationData(file[f].lines)
           \/ r.result = "aborts" /\ r.data = NoData
           \/ r.result = "OPENFAIL" /\ r.data = old
<1>1. CASE file[f].exists
  <2>1. r \in Readings(file[f].lines)
    BY <1>1 DEF ReadFile
  <2> QED
    BY <1>1, <2>1 DEF Readings
<1>2. CASE ~file[f].exists
  BY <1>2 DEF ReadFile
<1> QED
  BY <1>1, <1>2

\* initialize() without an object left from an earlier call: success means that the file is there,
\* was read to its end and was found valid; and a failure leaves an object without a server.
LEMMA FreshRead ==
    ASSUME ~obj["client"].init, NEW a \in Initialized
    PROVE  /\ a.result = "true" =>
                 /\ file["config"].exists
                 /\ a.ob.data = ReadConfigurationData(file["config"].lines).data
                 /\ ValidateConfigData(a.ob.data).valid
           /\ a.result # "true" => ~Served(a.ob)
<1> DEFINE new == New("AM_RW", "")
<1> HIDE DEF new
<1>1. LoadConfiguration("client", new) = ReadFile("config", new.data)
  BY NewObject DEF LoadConfiguration, FileOf, new
<1>2. Initialized = {AfterLoad("client", new, r) : r \in LoadConfiguration("client", new)}
  BY DEF Initialized, new
<1>3. PICK read \in ReadFile("config", new.data) : a = AfterLoad("client", new, read)
  BY <1>1, <1>2
<1> DEFINE verdict == ValidateConfigData(read.data)
<1>4. new.valid = FALSE
  BY NewObject DEF new
<1>5. DOMAIN new = {"init", "data", "valid", "errors", "mode", "dflt"}
  BY Zenon DEF new, New, NoObject
<1>6. CASE read.result = "true"
  <2>1. a = Judged(new, read.data, verdict)
    BY <1>3, <1>6 DEF AfterLoad, Validated
  <2>2. /\ a.ob.data = read.data /\ a.ob.valid = verdict.valid
        /\ a.result = IF verdict.aborts THEN "aborts" ELSE IF verdict.valid THEN "true" ELSE "false"
    BY <2>1, <1>5 DEF Judged
  <2>3. file["config"].exists /\ read.data = ReadConfigurationData(file["config"].lines).data
    BY <1>6, ReadOutcomes
  <2>4. a.result # "true" => ~a.ob.valid
    BY <2>2, AbortIsInvalid
  <2>5. a.result # "true" => ~Served(a.ob)
    BY <2>4, Zenon DEF Served, get_server
  <2> QED
    BY <2>2, <2>3, <2>5
<1>7. CASE read.result # "true"
  <2>1. a = [ob |-> [new EXCEPT !.data = read.data], result |-> read.result]
    BY <1>3, <1>7 DEF AfterLoad
  <2>2. a.result # "true" /\ a.ob.valid = FALSE
    BY <2>1, <1>4, <1>5, <1>7
  <2>3. ~Served(a.ob)
    BY <2>2, Zenon DEF Served, get_server
  <2> QED
    BY <2>2, <2>3
<1> QED
  BY <1>6, <1>7

----------------------------------------------------------------------------
(* The inductive invariant.                                                *)

ConfigDomains ==
    /\ DOMAIN obj = Objects /\ DOMAIN pc = Objects
    /\ DOMAIN ret = Objects /\ DOMAIN calls = Objects

\* The object the C wrapper keeps after a call that failed is one gogoc cannot start with: the
\* next call, which takes it for one that has read the file, fails too.
KeptIsUseless ==
    obj["client"].init => ~Served(obj["client"])

\* gogoc itself never writes.
ClientReads == pc["client"] # "writing"

ConfigIInv == ConfigDomains /\ KeptIsUseless /\ ClientReads /\ UsedConfigConsistent

\* What the actions of the other processes leave as it is.
ofClient == <<obj["client"], pc["client"], ret["client"], calls["client"], conf, cast>>

\* A call by another process is none of gogoc's business.
LEMMA CallByOther ==
    ASSUME ConfigDomains, NEW o \in Objects \ {"client"}, NEW ob, NEW r, Call(o, ob, r)
    PROVE  ConfigDomains' /\ UNCHANGED <<obj["client"], pc["client"], ret["client"], calls["client"]>>
  BY DEF ConfigDomains, Call, Objects

LEMMA StartByOther ==
    ASSUME ConfigDomains, NEW o \in Objects \ {"client"}, NEW ob, NEW then, StartWriting(o, ob, then)
    PROVE  ConfigDomains' /\ UNCHANGED <<obj["client"], pc["client"], ret["client"], calls["client"]>>
  BY DEF ConfigDomains, StartWriting, Objects

LEMMA CallByClient ==
    ASSUME ConfigDomains, NEW ob, NEW r, Call("client", ob, r)
    PROVE  /\ ConfigDomains'
           /\ obj'["client"] = ob /\ ret'["client"] = r /\ pc'["client"] # "writing"
  BY DEF ConfigDomains, Call, Objects

\* The steps of Next: gogoc's own, and those that leave it alone.
ClientStep ==
    tspInitialize \/ PrintUsage \/ AndroidRead
    \/ \E n \in 0 .. Len(pending["client"].lines) : Kill("client", n)

LEMMA OthersLeaveClient ==
    ASSUME ConfigDomains, ClientReads, Next, ~ClientStep
    PROVE  ConfigDomains' /\ UNCHANGED ofClient
<1> USE DEF Objects, ofClient
<1>1. CASE LoadDefaults
  BY <1>1, CallByOther, StartByOther DEF LoadDefaults
<1>2. ASSUME NEW i \in Openings, Initialize(i[1], i[2])
      PROVE  ConfigDomains' /\ UNCHANGED ofClient
  BY <1>2, CallByOther DEF Initialize
<1>3. ASSUME NEW mode \in {"AM_READ", "AM_RW"}, InitDevmap(mode)
      PROVE  ConfigDomains' /\ UNCHANGED ofClient
  BY <1>3, CallByOther DEF InitDevmap
<1>4. ASSUME NEW o \in Objects, Load(o) \/ CancelChanges(o) \/ Delete(o)
      PROVE  ConfigDomains' /\ UNCHANGED ofClient
  BY <1>4, CallByOther DEF Load, CancelChanges, Delete
<1>5. ASSUME NEW o \in Objects, Save(o)
      PROVE  ConfigDomains' /\ UNCHANGED ofClient
  BY <1>5, CallByOther, StartByOther DEF Save
<1>6. ASSUME NEW e \in Edits, SetValue(e[1], e[2])
      PROVE  ConfigDomains' /\ UNCHANGED ofClient
  BY <1>6, CallByOther DEF SetValue
<1>7. ASSUME NEW e \in Mappings, SetDeviceAddress(e[1], e[2]) \/ DelDeviceMapping(e[1])
      PROVE  ConfigDomains' /\ UNCHANGED ofClient
  BY <1>7, CallByOther DEF SetDeviceAddress, DelDeviceMapping
<1>8. ASSUME NEW o \in Objects, NEW n \in 0 .. Len(pending[o].lines), FinishWriting(o, n)
      PROVE  ConfigDomains' /\ UNCHANGED ofClient
  <2>1. o # "client"
    BY <1>8 DEF FinishWriting, ClientReads
  <2> QED
    BY <1>8, <2>1 DEF FinishWriting, ConfigDomains
<1>9. ASSUME NEW o \in Objects, NEW n \in 0 .. Len(pending[o].lines), Kill(o, n)
      PROVE  ConfigDomains' /\ UNCHANGED ofClient
  <2>1. o # "client"
    BY <1>9 DEF ClientStep
  <2> QED
    BY <1>9, <2>1 DEF Kill, ConfigDomains
<1>10. ASSUME NEW f, NEW new, Touch(f, new)
       PROVE  ConfigDomains' /\ UNCHANGED ofClient
  BY <1>10 DEF Touch, ConfigDomains
<1> QED
  BY <1>1, <1>2, <1>3, <1>4, <1>5, <1>6, <1>7, <1>8, <1>9, <1>10 DEF Next, ClientStep

----------------------------------------------------------------------------
(* The configuration made of valid data.                                   *)

Interfaces == {"if_tunnel_v6v4", "if_tunnel_v6udpv4", "if_tunnel_v4v6"}

LEMMA NeededInterfaces == \A mode : Needed(mode) \subseteq Interfaces
  BY DEF Needed, Interfaces

HasServer(data) == Get(data, "server") # ""

\* Without options on the command line the structure holds what the getters returned.
LEMMA FieldsOfConf ==
    ASSUME NEW data, DOMAIN cast.argv = {}
    PROVE  LET c == Override(TConf(data))
               mode == Get(data, "tunnel_mode")
           IN /\ c.account = AccountConf(data)
              /\ c.connect = ConnectConf(data)
              /\ c.tunnel.proxy_client = (Get(data, "proxy_client") = "yes")
              /\ c.tunnel.tunnel_mode = IF Supported(mode) THEN mode ELSE "0"
              /\ \A i \in Interfaces : c.tunnel[i] = Get(data, i)
<1>1. \A n, value : Option(n, value) = value
  BY DEF Option
<1>2. DOMAIN TConf(data) = {"account", "connect", "tunnel", "files", "log", "haccess"}
  BY DEF TConf
<1>3. DOMAIN TunnelConf(data) = {"tunnel_mode", "if_tunnel_v6v4", "if_tunnel_v6udpv4", "if_tunnel_v4v6",
                                 "client_v4", "client_v6", "template", "proxy_client"}
  BY DEF TunnelConf
<1>4. TConf(data).tunnel = TunnelConf(data)
  BY DEF TConf
<1> DEFINE c == TConf(data)
<1>5. /\ Override(c).tunnel = Overridden(c.tunnel)
      /\ Override(c).account = c.account /\ Override(c).connect = c.connect
  <2> HIDE DEF c
  <2> QED
    BY <1>2 DEF Override, c
<1>7. \A t : \A x \in DOMAIN t : Overridden(t)[x] = t[x]
  BY <1>1 DEF Overridden
<1>6. /\ TunnelConf(data).proxy_client = (Get(data, "proxy_client") = "yes")
      /\ TunnelConf(data).tunnel_mode = IF Supported(Get(data, "tunnel_mode"))
                                        THEN Get(data, "tunnel_mode") ELSE "0"
      /\ \A i \in Interfaces : TunnelConf(data)[i] = Get(data, i)
  BY DEF TunnelConf, Interfaces, Yes
<1>8. \A x \in DOMAIN TunnelConf(data) : Override(c).tunnel[x] = TunnelConf(data)[x]
  BY <1>4, <1>5, <1>7
<1>9. c.account = AccountConf(data) /\ c.connect = ConnectConf(data)
  BY DEF TConf
<1> QED
  BY <1>3, <1>5, <1>6, <1>8, <1>9 DEF Interfaces

LEMMA ConsistentConf ==
    ASSUME NEW data, ValidateConfigData(data).valid, HasServer(data), DOMAIN cast.argv = {}
    PROVE  Consistent(Override(TConf(data)))
<1> DEFINE c == Override(TConf(data))
           mode == Get(data, "tunnel_mode")
<1>1. DataConsistent(data)
  BY ValidIsConsistent
<1>2. /\ c.account = AccountConf(data) /\ c.connect = ConnectConf(data)
      /\ c.tunnel.proxy_client = (Get(data, "proxy_client") = "yes")
      /\ c.tunnel.tunnel_mode = IF Supported(mode) THEN mode ELSE "0"
      /\ \A i \in Interfaces : c.tunnel[i] = Get(data, i)
  BY FieldsOfConf
<1> HIDE DEF c
<1>3. /\ c.account.server = Get(data, "server") /\ c.account.passwd = Get(data, "passwd")
      /\ c.account.auth_method = Get(data, "auth_method")
      /\ c.account.host_type = Get(data, "host_type") /\ c.account.if_prefix = Get(data, "if_prefix")
      /\ c.connect.keepalive = (Get(data, "keepalive") = "yes")
      /\ c.connect.keepalive_interval = Number(Get(data, "keepalive_interval"))
      /\ c.connect.retry_delay = Number(Get(data, "retry_delay"))
      /\ c.connect.retry_delay_max = Number(Get(data, "retry_delay_max"))
  <2>1. c.account = AccountConf(data) /\ c.connect = ConnectConf(data)
    BY <1>2, Zenon
  <2>2. /\ c.account.server = Get(data, "server") /\ c.account.passwd = Get(data, "passwd")
        /\ c.account.auth_method = Get(data, "auth_method")
        /\ c.account.host_type = Get(data, "host_type") /\ c.account.if_prefix = Get(data, "if_prefix")
    BY <2>1 DEF AccountConf
  <2>3. /\ c.connect.keepalive = (Get(data, "keepalive") = "yes")
        /\ c.connect.keepalive_interval = Number(Get(data, "keepalive_interval"))
        /\ c.connect.retry_delay = Number(Get(data, "retry_delay"))
        /\ c.connect.retry_delay_max = Number(Get(data, "retry_delay_max"))
    BY <2>1 DEF ConnectConf, Yes
  <2> QED
    BY <2>2, <2>3
<1>4. c.account.server # "" /\ (c.account.auth_method # "anonymous" => c.account.passwd # "")
  BY <1>1, <1>3, Zenon DEF DataConsistent, HasServer
<1>5. c.tunnel.proxy_client => c.tunnel.tunnel_mode # "v6udpv4" /\ ~c.connect.keepalive
  <2>1. Get(data, "proxy_client") = "yes" => mode # "v6udpv4" /\ Get(data, "keepalive") # "yes"
    BY <1>1, Zenon DEF DataConsistent
  <2> QED
    BY <2>1, <1>2, <1>3
<1>6. c.connect.keepalive => c.connect.keepalive_interval # 0
  <2>1. Get(data, "keepalive") = "yes" => Number(Get(data, "keepalive_interval")) # 0
    BY <1>1, Zenon DEF DataConsistent
  <2> QED
    BY <2>1, <1>3
<1>7. \A i \in Needed(c.tunnel.tunnel_mode) : c.tunnel[i] # ""
  <2>1. Needed("0") = {}
    BY DEF Needed
  <2>2. \A i \in Needed(c.tunnel.tunnel_mode) : i \in Needed(mode) /\ c.tunnel[i] = Get(data, i)
    BY <1>2, <2>1, NeededInterfaces
  <2>3. \A i \in Needed(mode) : Get(data, i) # ""
    BY <1>1, Zenon DEF DataConsistent
  <2> QED
    BY <2>2, <2>3, Zenon
<1>8. c.account.host_type = "router" => c.account.if_prefix # ""
  BY <1>1, <1>3, Zenon DEF DataConsistent
<1>9. c.connect.retry_delay <= c.connect.retry_delay_max
  <2>1. Number(Get(data, "retry_delay")) <= Number(Get(data, "retry_delay_max"))
    BY <1>1, Zenon DEF DataConsistent
  <2> QED
    BY <2>1, <1>3
<1> QED
  BY <1>4, <1>5, <1>6, <1>7, <1>8, <1>9, Zenon DEF Consistent, c

----------------------------------------------------------------------------
(* The invariant is inductive.                                             *)

LEMMA InitIInv == Init => ConfigIInv
<1> SUFFICES ASSUME Init PROVE ConfigIInv
  OBVIOUS
<1>1. ConfigDomains /\ ClientReads
  BY DEF Init, ConfigDomains, ClientReads, Objects
<1>2. obj["client"].init = FALSE
  BY NoObjectUseless DEF Init, Objects
<1>3. conf.read = FALSE
  BY DEF Init, NoConf
<1> QED
  BY <1>1, <1>2, <1>3 DEF ConfigIInv, KeptIsUseless, UsedConfigConsistent

\* The outcomes of tspInitialize().  It succeeds on data that was just read and found valid.
LEMMA InitializeOutcomes ==
    ASSUME ConfigIInv, tspInitialize
    PROVE  /\ ConfigDomains' /\ KeptIsUseless' /\ ClientReads' /\ UNCHANGED <<cast, file>>
           /\ \/ UNCHANGED conf /\ ret'["client"] # "SUCCESS"
              \/ \E data :
                   /\ conf' = [read |-> TRUE, c |-> Override(TConf(data))]
                   /\ file["config"].exists
                   /\ data = ReadConfigurationData(file["config"].lines).data
                   /\ ValidateConfigData(data).valid
                   /\ HasServer(data)
<1> DEFINE Done(ob, r) == Call("client", ob, r)
<1>0. cast' = cast /\ file' = file
  BY DEF tspInitialize
<1>1. PICK a \in Initialized :
         \/ a.result \in {"hangs", "aborts"} /\ Done(a.ob, a.result) /\ conf' = conf
         \/ (a.result # "true" \/ ~Served(a.ob)) /\ Done(a.ob, "ERR_INVAL_CFG_FILE") /\ conf' = conf
         \/ /\ a.result = "true" /\ Served(a.ob) /\ Done(NoObject, "SUCCESS")
            /\ conf' = [read |-> TRUE, c |-> Override(TConf(a.ob.data))]
         \/ a.result = "true" /\ Served(a.ob) /\ Done(NoObject, "ERR_MEMORY_STARVATION") /\ conf' = conf
  BY Zenon DEF tspInitialize, un_initialize, Served
<1>2. obj["client"].init => a.result = "true" /\ ~Served(a.ob)
  BY DEF ConfigIInv, KeptIsUseless, Initialized
<1>3. ~obj["client"].init /\ a.result # "true" => ~Served(a.ob)
  BY FreshRead
<1>4. ConfigDomains
  BY DEF ConfigIInv
<1>5. CASE UNCHANGED conf /\ \E r : r # "SUCCESS" /\ Done(a.ob, r) /\ ~Served(a.ob)
  BY <1>0, <1>4, <1>5, CallByClient DEF KeptIsUseless, ClientReads
<1>6. CASE Done(NoObject, "SUCCESS") /\ a.result = "true" /\ Served(a.ob)
           /\ conf' = [read |-> TRUE, c |-> Override(TConf(a.ob.data))]
  <2>1. ~obj["client"].init
    BY <1>2, <1>6
  <2>2. /\ file["config"].exists
        /\ a.ob.data = ReadConfigurationData(file["config"].lines).data
        /\ ValidateConfigData(a.ob.data).valid
    BY <1>6, <2>1, FreshRead
  <2>3. HasServer(a.ob.data)
    BY <1>6, Zenon DEF Served, get_server, HasServer
  <2>4. ConfigDomains' /\ KeptIsUseless' /\ ClientReads'
    BY <1>4, <1>6, CallByClient, NoObjectUseless DEF KeptIsUseless, ClientReads
  <2> QED
    BY <1>0, <1>6, <2>2, <2>3, <2>4, Zenon
<1>7. CASE Done(NoObject, "ERR_MEMORY_STARVATION") /\ UNCHANGED conf
  <2>1. Call("client", NoObject, "ERR_MEMORY_STARVATION") /\ ConfigDomains
    BY <1>4, <1>7
  <2>2. ConfigDomains' /\ KeptIsUseless' /\ ClientReads' /\ ret'["client"] # "SUCCESS"
    BY <2>1, CallByClient, NoObjectUseless DEF KeptIsUseless, ClientReads
  <2> QED
    BY <1>0, <1>7, <2>2, Zenon
<1> QED
  BY <1>1, <1>2, <1>3, <1>5, <1>6, <1>7

\* gogoc's other steps do not read the file to the end of tspInitialize().
LEMMA OtherOutcomes ==
    ASSUME ConfigIInv, ClientStep, ~tspInitialize
    PROVE  /\ ConfigDomains' /\ KeptIsUseless' /\ ClientReads' /\ UNCHANGED cast
           /\ conf' = conf \/ conf'.read = FALSE \/ cast.platform = "android"
           /\ cast.platform = "unix" => ret'["client"] # "SUCCESS"
<1>1. CASE PrintUsage
  <2>1. Call("client", NoObject, "aborts") /\ UNCHANGED <<cast, conf>> /\ ConfigDomains
    BY <1>1 DEF PrintUsage, ConfigIInv
  <2> QED
    BY <2>1, CallByClient, NoObjectUseless DEF KeptIsUseless, ClientReads
<1>2. CASE AndroidRead
  BY <1>2, CallByClient, NoObjectUseless DEF AndroidRead, ConfigIInv, KeptIsUseless, ClientReads
<1>3. ASSUME NEW n, Kill("client", n)
      PROVE  /\ ConfigDomains' /\ KeptIsUseless' /\ ClientReads' /\ UNCHANGED cast
             /\ conf'.read = FALSE /\ ret'["client"] # "SUCCESS"
  BY <1>3, NoObjectUseless DEF Kill, ConfigIInv, ConfigDomains, KeptIsUseless, ClientReads,
     NoConf, Objects
<1> QED
  BY <1>1, <1>2, <1>3 DEF ClientStep

LEMMA NextIInv == ConfigIInv /\ [Next]_vars => ConfigIInv'
<1> SUFFICES ASSUME ConfigIInv, [Next]_vars PROVE ConfigIInv'
  OBVIOUS
<1>1. CASE tspInitialize
  <2>1. /\ ConfigDomains' /\ KeptIsUseless' /\ ClientReads' /\ cast' = cast
        /\ \/ conf' = conf
           \/ \E data : /\ conf' = [read |-> TRUE, c |-> Override(TConf(data))]
                         /\ ValidateConfigData(data).valid
                         /\ HasServer(data)
    BY <1>1, InitializeOutcomes, Zenon
  <2>2. CASE conf' = conf
    BY <2>1, <2>2 DEF ConfigIInv, UsedConfigConsistent
  <2>3. CASE conf' # conf
    <3>1. ASSUME DOMAIN cast.argv = {} PROVE Consistent(conf'.c)
      <4>1. PICK d : conf'.c = Override(TConf(d)) /\ ValidateConfigData(d).valid /\ HasServer(d)
        BY <2>1, <2>3
      <4> QED
        BY <4>1, <3>1, ConsistentConf
    <3> QED
      BY <2>1, <3>1 DEF ConfigIInv, UsedConfigConsistent
  <2> QED
    BY <2>2, <2>3
<1>2. CASE ClientStep /\ ~tspInitialize
  BY <1>2, OtherOutcomes DEF ConfigIInv, UsedConfigConsistent
<1>3. CASE Next /\ ~ClientStep
  BY <1>3, OthersLeaveClient DEF ConfigIInv, ofClient, KeptIsUseless, ClientReads,
     UsedConfigConsistent
<1>4. CASE UNCHANGED vars
  BY <1>4 DEF vars, ConfigIInv, ConfigDomains, KeptIsUseless, ClientReads, UsedConfigConsistent
<1> QED
  BY <1>1, <1>2, <1>3, <1>4 DEF ClientStep

----------------------------------------------------------------------------
\* The invariant holds in every reachable state.
LEMMA AlwaysIInv == Spec => []ConfigIInv
  BY InitIInv, NextIInv, PTL DEF Spec

\* gogoc never runs on a configuration that contradicts itself, whatever files, edits, torn writes
\* and earlier failures it meets (ValidateConfigData(), the C wrapper, tspInitialize()).
THEOREM ConfigAlwaysConsistent == Spec => []UsedConfigConsistent
<1>1. ConfigIInv => UsedConfigConsistent
  BY DEF ConfigIInv
<1> QED
  BY <1>1, AlwaysIInv, PTL

\* A start that succeeds runs on what the file holds at that moment, never on an object kept from
\* an earlier call (initialize() of the C wrapper, tspReadConfigFile()).
THEOREM SuccessIsNeverStale == Spec => NoStaleSuccess
<1> DEFINE Fresh ==
      (cast.platform = "unix" /\ ret'["client"] = "SUCCESS" /\ calls'["client"] # calls["client"]) =>
         /\ file["config"].exists
         /\ conf'.c = Override(TConf(ReadConfigurationData(file["config"].lines).data))
<1>1. ConfigIInv /\ [Next]_vars => [Fresh]_vars
  <2> SUFFICES ASSUME ConfigIInv, Next PROVE Fresh
    OBVIOUS
  <2>1. CASE tspInitialize
    <3>1. \/ ret'["client"] # "SUCCESS"
          \/ \E data : /\ conf' = [read |-> TRUE, c |-> Override(TConf(data))]
                        /\ file["config"].exists
                        /\ data = ReadConfigurationData(file["config"].lines).data
      BY <2>1, InitializeOutcomes, Zenon
    <3> QED
      BY <3>1
  <2>2. CASE ClientStep /\ ~tspInitialize
    BY <2>2, OtherOutcomes
  <2>3. CASE ~ClientStep
    BY <2>3, OthersLeaveClient DEF ConfigIInv, ofClient
  <2> QED
    BY <2>1, <2>2, <2>3
<1> QED
  BY <1>1, AlwaysIInv, PTL DEF Spec, NoStaleSuccess

----------------------------------------------------------------------------
(* Natural numbers and sequences.                                          *)

\* The natural numbers have no infinite descent.
LEMMA Induction ==
  ASSUME NEW T, 0 \in T, \A n \in Nat : n \in T => n + 1 \in T
  PROVE  Nat \subseteq T
<1> DEFINE U == {n \in Nat : n \notin T}
<1> SUFFICES ASSUME U # {} PROVE FALSE
  OBVIOUS
<1>1. PICK n \in U : \A m \in U : ~(<<m, n>> \in OpToRel(<, Nat))
  <2>1. U \subseteq Nat
    OBVIOUS
  <2> HIDE DEF U
  <2> QED
    BY <2>1, NatLessThanWellFounded, WFMin, Zenon
<1>2. n # 0 /\ n - 1 \in Nat /\ n - 1 \in U
  OBVIOUS
<1>3. <<n - 1, n>> \in OpToRel(<, Nat)
  BY <1>2 DEF OpToRel
<1> QED
  BY <1>1, <1>2, <1>3

\* The least of some natural numbers.
LEMMA Least ==
  ASSUME NEW S, S \subseteq Nat, S # {}
  PROVE  \E i \in S : \A j \in S : i <= j
<1>1. PICK i \in S : \A j \in S : ~(<<j, i>> \in OpToRel(<, Nat))
  BY NatLessThanWellFounded, WFMin, Zenon
<1>2. ASSUME NEW j \in S PROVE i <= j
  <2> SUFFICES ASSUME j < i PROVE FALSE
    OBVIOUS
  <2>1. <<j, i>> \in OpToRel(<, Nat)
    BY DEF OpToRel
  <2> QED
    BY <1>1, <2>1
<1> QED
  BY <1>2

\* The greatest of some numbers up to n.
LEMMA Greatest ==
  ASSUME NEW n \in Nat, NEW S, S \subseteq 1..n, S # {}
  PROVE  \E i \in S : \A j \in S : j <= i
<1> DEFINE U == {n - i : i \in S}
<1>1. U \subseteq Nat /\ U # {}
  <2>1. \A i \in S : i \in 1..n
    OBVIOUS
  <2>2. \A i \in 1..n : n - i \in Nat
    OBVIOUS
  <2> QED
    BY <2>1, <2>2
<1> HIDE DEF U
<1>2. PICK u \in U : \A v \in U : u <= v
  BY <1>1, Least
<1>3. PICK i \in S : u = n - i
  BY DEF U
<1>4. \A j \in S : n - j \in U
  BY DEF U
<1>5. \A j \in S : n - i <= n - j
  BY <1>2, <1>3, <1>4
<1>6. \A j \in S : j <= i
  BY <1>5
<1> QED
  BY <1>6

----------------------------------------------------------------------------
(* Only.                                                                   *)

\* What is selected of a sequence with e at its end, if q is selected of the rest.
Selected(q, e, S) == IF e \in S THEN Append(q, e) ELSE q

\* f is the recursion of Only(), up to the m-th element.
Selects(f, s, S, m) == f = [n \in 0..m |-> IF n = 0 THEN <<>> ELSE Selected(f[n - 1], s[n], S)]

\* The recursion of Only() exists: the function it is defined by.
LEMMA OnlyRecursion ==
  ASSUME NEW s, Len(s) \in Nat, NEW S
  PROVE  \E f : Selects(f, s, S, Len(s)) /\ Only(s, S) = f[Len(s)]
<1>1. \E f : Selects(f, s, S, 0)
  <2> DEFINE f == [n \in 0..0 |-> <<>>]
  <2>1. Selects(f, s, S, 0)
    BY DEF Selects
  <2> QED
    BY <2>1
<1>2. ASSUME NEW m \in Nat, NEW f, Selects(f, s, S, m) PROVE \E g : Selects(g, s, S, m + 1)
  <2> DEFINE g == [n \in 0..(m + 1) |-> IF n = 0 THEN <<>> ELSE Selected(f[n - 1], s[n], S)]
  <2>1. \A n \in 0..m : g[n] = f[n]
    BY <1>2 DEF Selects
  <2>2. \A n \in 0..(m + 1) : n # 0 => g[n - 1] = f[n - 1]
    <3> SUFFICES ASSUME NEW n \in 0..(m + 1), n # 0 PROVE g[n - 1] = f[n - 1]
      OBVIOUS
    <3>1. n - 1 \in 0..m
      OBVIOUS
    <3> HIDE DEF g
    <3> QED
      BY <2>1, <3>1
  <2>3. Selects(g, s, S, m + 1)
    BY <2>2 DEF Selects
  <2> QED
    BY <2>3
<1> DEFINE T == {m \in Nat : \E f : Selects(f, s, S, m)}
<1>3. 0 \in T /\ \A n \in Nat : n \in T => n + 1 \in T
  BY <1>1, <1>2
<1> HIDE DEF T
<1>4. Len(s) \in T
  BY <1>3, Induction
<1>5. \E f : Selects(f, s, S, Len(s))
  BY <1>4 DEF T
<1> QED
  BY <1>5 DEF Selects, Only, Selected

\* What Only() returns: a sequence of the elements of s that are in S.
LEMMA OnlyFacts ==
  ASSUME NEW L, NEW s \in Seq(L), NEW S
  PROVE  Only(s, S) \in Seq(L) /\ Range(Only(s, S)) = Range(s) \cap S
<1> DEFINE N == Len(s)
<1>1. N \in Nat /\ \A n \in 1..N : s[n] \in L
  OBVIOUS
<1>2. Range(s) = {s[n] : n \in 1..N}
  BY DEF Range
<1>3. PICK f : Selects(f, s, S, N) /\ Only(s, S) = f[N]
  BY <1>1, OnlyRecursion
<1> HIDE DEF N
<1>4. /\ f[0] = <<>>
      /\ \A n \in 1..N : f[n] = Selected(f[n - 1], s[n], S)
  BY <1>1, <1>3 DEF Selects
<1> DEFINE First(n) == {s[k] : k \in 1..n} \cap S
           T == {n \in Nat : n <= N => f[n] \in Seq(L) /\ Range(f[n]) = First(n)}
<1>5. 0 \in T
  <2>1. <<>> \in Seq(L) /\ Range(<<>>) = {}
    BY DEF Range
  <2>2. First(0) = {}
    OBVIOUS
  <2> HIDE DEF First
  <2> QED
    BY <1>4, <2>1, <2>2
<1>6. ASSUME NEW n \in Nat, n \in T PROVE n + 1 \in T
  <2> SUFFICES ASSUME n + 1 <= N PROVE f[n + 1] \in Seq(L) /\ Range(f[n + 1]) = First(n + 1)
    OBVIOUS
  <2> DEFINE q == f[n]
             e == s[n + 1]
  <2>1. q \in Seq(L) /\ Range(q) = First(n)
    BY <1>1, <1>6
  <2>2. f[n + 1] = IF e \in S THEN Append(q, e) ELSE q
    BY <1>1, <1>4 DEF Selected
  <2>3. e \in L
    BY <1>1
  <2>4. First(n + 1) = IF e \in S THEN First(n) \cup {e} ELSE First(n)
    <3>1. \A k : k \in 1..(n + 1) <=> k \in 1..n \/ k = n + 1
      OBVIOUS
    <3> QED
      BY <3>1
  <2> HIDE DEF q, e, First
  <2>5. Append(q, e) \in Seq(L) /\ Range(Append(q, e)) = Range(q) \cup {e}
    <3> DEFINE a == Append(q, e)
    <3>1. a \in Seq(L) /\ Len(a) = Len(q) + 1 /\ Len(q) \in Nat
          /\ (\A k \in 1..Len(q) : a[k] = q[k]) /\ a[Len(q) + 1] = e
      BY <2>1, <2>3
    <3>2. DOMAIN q = 1..Len(q) /\ DOMAIN a = 1..(Len(q) + 1)
      BY <2>1, <3>1
    <3> HIDE DEF a
    <3>3. \A k : k \in DOMAIN a <=> k \in DOMAIN q \/ k = Len(q) + 1
      BY <3>1, <3>2
    <3>4. Range(a) = Range(q) \cup {e}
      BY <3>1, <3>2, <3>3 DEF Range
    <3> QED
      BY <3>1, <3>4 DEF a
  <2> QED
    BY <2>1, <2>2, <2>4, <2>5
<1>7. Nat \subseteq T
  <2> HIDE DEF T
  <2> QED
    BY <1>5, <1>6, Induction
<1>8. N \in T
  BY <1>1, <1>7
<1>9. f[N] \in Seq(L) /\ Range(f[N]) = First(N)
  BY <1>1, <1>8
<1> QED
  BY <1>2, <1>3, <1>9

----------------------------------------------------------------------------
(* Lines and the data read from them.                                      *)

EntryTypes == {"nv", "comment", "empty"}

\* What the parser's and the setters' entries are: SetVariableValue() takes a line that is
\* not a variable's for one of the variable "#" or of the empty name.
SoundEntry(e) ==
  /\ e = [type |-> e.type, text |-> e.text] /\ e.type \in EntryTypes
  /\ e.type # "nv" => e.text \in {"#", Blank}

SoundData(data) ==
  data.ffd \in Seq(Range(data.ffd)) /\ \A e \in Range(data.ffd) : SoundEntry(e)

\* A name that a file keeps as it is.
KeptName(data, n) == n \in NamesIn(data.ffd) /\ Trim(n) = n /\ n # Blank

Writable(data) == \A n \in DOMAIN data.nv : KeptName(data, n)

\* A text without blanks around it stays as it is.
LEMMA TrimTwice == ASSUME NEW n PROVE Trim(Trim(n)) = Trim(n)
  BY TrimIdempotent DEF Trim

\* A sequence is one of its own elements.
LEMMA InRange == ASSUME NEW L, NEW s \in Seq(L) PROVE s \in Seq(Range(s)) /\ Range(s) \subseteq L
<1>1. Len(s) \in Nat /\ s = [i \in 1..Len(s) |-> s[i]] /\ DOMAIN s = 1..Len(s)
      /\ \A i \in 1..Len(s) : s[i] \in L
  OBVIOUS
<1>2. Range(s) = {s[i] : i \in 1..Len(s)}
  BY <1>1 DEF Range
<1>3. \A i \in 1..Len(s) : s[i] \in Range(s)
  BY <1>2
<1>4. [i \in 1..Len(s) |-> s[i]] \in Seq(Range(s))
  BY <1>1, <1>3, IsASeq
<1> QED
  BY <1>1, <1>2, <1>4

\* The names of a file are those of its variables' lines, wherever they are.
LEMMA NamesInRange == ASSUME NEW ffd PROVE NamesIn(ffd) = {e.text : e \in {x \in Range(ffd) : x.type = "nv"}}
  BY DEF NamesIn, Range

\* A sequence made of another by a function of its elements.
LEMMA Mapped ==
  ASSUME NEW L, NEW s \in Seq(L), NEW t, DOMAIN t = DOMAIN s, t = [i \in DOMAIN s |-> t[i]]
  PROVE  t \in Seq(Range(t)) /\ Len(t) = Len(s)
<1>1. Len(s) \in Nat /\ DOMAIN s = 1..Len(s)
  OBVIOUS
<1>2. \A i \in 1..Len(s) : t[i] \in Range(t)
  BY <1>1 DEF Range
<1>3. [i \in 1..Len(s) |-> t[i]] \in Seq(Range(t))
  BY <1>1, <1>2, IsASeq
<1>4. t = [i \in 1..Len(s) |-> t[i]]
  BY <1>1
<1>5. t \in Seq(Range(t))
  BY <1>3, <1>4
<1> QED
  BY <1>1, <1>5

Named(lines) == {l \in Range(lines) : HasName(l) /\ Trim(l.name) # Blank}

\* The parser's data for any lines.
LEMMA EntriesFacts ==
  ASSUME NEW L, NEW lines \in Seq(L)
  PROVE  /\ Entries(lines) \in Seq(Range(Entries(lines)))
         /\ \A e \in Range(Entries(lines)) : SoundEntry(e)
         /\ NamesIn(Entries(lines)) = {Trim(l.name) : l \in Named(lines)}
<1> DEFINE good == {l \in Range(lines) : HasName(l) => Trim(l.name) # Blank}
           kept == Only(lines, good)
           ffd  == Entries(lines)
<1>1. kept \in Seq(L) /\ Range(kept) = Range(lines) \cap good
  BY OnlyFacts
<1>2. ffd = [i \in DOMAIN kept |-> Entry(kept[i])]
  BY DEF Entries
<1> HIDE DEF kept, ffd
<1>3. DOMAIN ffd = DOMAIN kept /\ ffd = [i \in DOMAIN kept |-> ffd[i]]
      /\ \A i \in DOMAIN kept : ffd[i] = Entry(kept[i])
  BY <1>2
<1>4. ffd \in Seq(Range(ffd))
  BY <1>1, <1>3, Mapped
<1>5. Range(ffd) = {Entry(l) : l \in Range(kept)}
  BY <1>3 DEF Range
<1>6. Range(ffd) = {Entry(l) : l \in good}
  BY <1>1, <1>5
<1>7. \A l : SoundEntry(Entry(l))
  BY DEF SoundEntry, Entry, EntryTypes
<1>8. \A l \in good : /\ Entry(l).type = "nv" <=> HasName(l)
                      /\ HasName(l) => Entry(l).text = Trim(l.name)
  BY DEF Entry
<1>9. NamesIn(ffd) = {e.text : e \in {x \in Range(ffd) : x.type = "nv"}}
  BY NamesInRange
<1>10. NamesIn(ffd) = {Trim(l.name) : l \in {x \in good : HasName(x)}}
  <2> HIDE DEF good
  <2>1. ASSUME NEW n \in NamesIn(ffd) PROVE n \in {Trim(l.name) : l \in {x \in good : HasName(x)}}
    <3>1. PICK e \in Range(ffd) : e.type = "nv" /\ n = e.text
      BY <1>9
    <3>2. PICK l \in good : e = Entry(l)
      BY <1>6
    <3> QED
      BY <1>8, <3>1, <3>2
  <2>2. ASSUME NEW l \in good, HasName(l) PROVE Trim(l.name) \in NamesIn(ffd)
    BY <1>6, <1>8, <1>9, <2>2
  <2> QED
    BY <2>1, <2>2
<1>11. Named(lines) = {x \in good : HasName(x)}
  BY DEF Named
<1> QED
  BY <1>4, <1>6, <1>7, <1>10, <1>11 DEF ffd

\* Whatever the lines, the data read of them could be written and read back.
LEMMA ReadIsWritable ==
  ASSUME NEW L, NEW lines \in Seq(L)
  PROVE  SoundData(DataOf(lines)) /\ Writable(DataOf(lines))
<1> DEFINE ffd == Entries(lines)
           data == DataOf(lines)
<1>1. data.ffd = ffd /\ DOMAIN data.nv = NamesIn(ffd)
  BY DEF DataOf
<1>2. \A n \in NamesIn(ffd) : Trim(n) = n /\ n # Blank
  BY EntriesFacts, TrimTwice DEF Named
<1> HIDE DEF data, ffd
<1>3. ffd \in Seq(Range(ffd)) /\ \A e \in Range(ffd) : SoundEntry(e)
  BY EntriesFacts DEF ffd
<1> QED
  BY <1>1, <1>2, <1>3 DEF SoundData, Writable, KeptName, data

\* What ReadConfigurationData() stores, also of a file it does not read to its end.
LEMMA ReadFacts ==
  ASSUME NEW L, NEW lines \in Seq(L)
  PROVE  LET d == ReadConfigurationData(lines).data IN SoundData(d) /\ Writable(d)
<1> DEFINE stops == {i \in DOMAIN lines : lines[i].type = "separators" \/ TooLong(lines[i])}
           first == CHOOSE i \in stops : \A j \in stops : i <= j
<1>1. CASE stops = {}
  <2>1. Append(lines, EmptyLine) \in Seq(L \cup {EmptyLine})
    OBVIOUS
  <2>2. ReadConfigurationData(lines).data = DataOf(Append(lines, EmptyLine))
    BY <1>1 DEF ReadConfigurationData
  <2> QED
    BY <2>1, <2>2, ReadIsWritable
<1>2. CASE stops # {}
  <2>1. stops \subseteq 1..Len(lines) /\ Len(lines) \in Nat
    OBVIOUS
  <2>2. \E i \in stops : \A j \in stops : i <= j
    <3> HIDE DEF stops
    <3>1. stops \subseteq Nat
      BY <2>1
    <3> QED
      BY <1>2, <3>1, Least
  <2> HIDE DEF stops
  <2>3. first \in 1..Len(lines)
    BY <2>1, <2>2
  <2> HIDE DEF first
  <2>4. SubSeq(lines, 1, first - 1) \in Seq(L)
    <3>1. \A i \in 1..(first - 1) : lines[i] \in L
      BY <2>1, <2>3
    <3> QED
      BY <2>3, <3>1, SubSeqProperties
  <2>5. ReadConfigurationData(lines).data = DataOf(SubSeq(lines, 1, first - 1))
    BY <1>2 DEF ReadConfigurationData, stops, first
  <2> QED
    BY <2>4, <2>5, ReadIsWritable
<1> QED
  BY <1>1, <1>2

\* What is written of some data: a line for each entry, names with the value they have.
LEMMA WrittenFacts ==
  ASSUME NEW data, SoundData(data)
  PROVE  /\ Written(data) \in Seq(Range(Written(data)))
         /\ \A l \in Range(Written(data)) :
              /\ l.type \in EntryTypes /\ l.indent = 0
              /\ l.type = "nv" => l.name \in DOMAIN data.nv /\ l.value = data.nv[l.name]
         /\ \A n \in NamesIn(data.ffd) \cap DOMAIN data.nv : NV(n, data.nv[n]) \in Range(Written(data))
<1> DEFINE good == {e \in Range(data.ffd) : e.type = "nv" => e.text \in DOMAIN data.nv}
           kept == Only(data.ffd, good)
           LineOf(e) == IF e.type = "nv" THEN NV(e.text, data.nv[e.text])
                        ELSE IF e.type = "comment" THEN Comment ELSE EmptyLine
           lines == Written(data)
<1>1. kept \in Seq(Range(data.ffd)) /\ Range(kept) = Range(data.ffd) \cap good
  BY OnlyFacts DEF SoundData
<1>2. lines = [i \in DOMAIN kept |-> LineOf(kept[i])]
  BY DEF Written
<1> HIDE DEF kept, lines
<1>3. DOMAIN lines = DOMAIN kept /\ lines = [i \in DOMAIN kept |-> lines[i]]
      /\ \A i \in DOMAIN kept : lines[i] = LineOf(kept[i])
  BY <1>2
<1>4. lines \in Seq(Range(lines))
  BY <1>1, <1>3, Mapped
<1>5. Range(lines) = {LineOf(e) : e \in good}
  <2> HIDE DEF good
  <2>1. Range(lines) = {LineOf(e) : e \in Range(kept)}
    BY <1>3 DEF Range
  <2> QED
    BY <1>1, <2>1 DEF good
<1>6. \A e \in good : /\ LineOf(e).type \in EntryTypes /\ LineOf(e).indent = 0
                      /\ LineOf(e).type = "nv" => LineOf(e) = NV(e.text, data.nv[e.text]) /\ e.type = "nv"
  <2>1. \A n, v : NV(n, v).type = "nv" /\ NV(n, v).indent = 0
    BY DEF NV, Line
  <2>2. Comment.type = "comment" /\ Comment.indent = 0 /\ EmptyLine.type = "empty" /\ EmptyLine.indent = 0
    BY DEF Comment, EmptyLine, Line
  <2> QED
    BY <2>1, <2>2 DEF EntryTypes
<1>7. \A n, v : NV(n, v).type = "nv" /\ NV(n, v).name = n /\ NV(n, v).value = v
  BY DEF NV, Line
<1>8. ASSUME NEW l \in Range(lines)
      PROVE  /\ l.type \in EntryTypes /\ l.indent = 0
             /\ l.type = "nv" => l.name \in DOMAIN data.nv /\ l.value = data.nv[l.name]
  <2>1. PICK e \in good : l = LineOf(e)
    BY <1>5
  <2>2. e.type = "nv" => e.text \in DOMAIN data.nv
    OBVIOUS
  <2> HIDE DEF good, LineOf
  <2> QED
    BY <1>6, <1>7, <2>1, <2>2
<1>9. ASSUME NEW n \in NamesIn(data.ffd) \cap DOMAIN data.nv PROVE NV(n, data.nv[n]) \in Range(lines)
  <2>1. PICK e \in Range(data.ffd) : e.type = "nv" /\ e.text = n
    BY NamesInRange
  <2>2. e \in good /\ LineOf(e) = NV(n, data.nv[n])
    BY <2>1
  <2> QED
    BY <1>5, <2>2
<1> QED
  BY <1>4, <1>8, <1>9 DEF lines

\* What was written of data without odd names reads back.
LEMMA ReadBack ==
  ASSUME NEW data, SoundData(data), Writable(data),
         \A i \in DOMAIN Written(data) : ~TooLong(Written(data)[i])
  PROVE  \A r \in Readings(Written(data)) :
            r.result = "true" /\ r.data.nv = [n \in {m \in DOMAIN data.nv : ~Hash(m)} |-> Trim(data.nv[n])]
<1> DEFINE lines == Written(data)
           all == Append(lines, EmptyLine)
           L == Range(lines) \cup {EmptyLine}
           shown == {m \in DOMAIN data.nv : ~Hash(m)}
<1>1. /\ lines \in Seq(Range(lines))
      /\ \A l \in Range(lines) :
           /\ l.type \in EntryTypes /\ l.indent = 0
           /\ l.type = "nv" => l.name \in DOMAIN data.nv /\ l.value = data.nv[l.name]
      /\ \A n \in NamesIn(data.ffd) \cap DOMAIN data.nv : NV(n, data.nv[n]) \in Range(lines)
  BY WrittenFacts
<1> HIDE DEF lines
<1>2. \A i \in DOMAIN lines : lines[i] \in Range(lines)
  BY DEF Range
<1>3. {i \in DOMAIN lines : lines[i].type = "separators" \/ TooLong(lines[i])} = {}
  BY <1>1, <1>2 DEF EntryTypes, lines
<1>4. ReadConfigurationData(lines) = [result |-> "true", data |-> DataOf(all)]
  BY <1>3 DEF ReadConfigurationData
<1>5. all \in Seq(L) /\ DOMAIN all = 1..(Len(lines) + 1) /\ Len(lines) \in Nat /\ DOMAIN lines = 1..Len(lines)
      /\ (\A i \in 1..Len(lines) : all[i] = lines[i]) /\ all[Len(lines) + 1] = EmptyLine
  BY <1>1
<1> HIDE DEF all, L
<1>6. Range(all) = Range(lines) \cup {EmptyLine}
  <2>1. \A i : i \in DOMAIN all <=> i \in DOMAIN lines \/ i = Len(lines) + 1
    BY <1>5
  <2> QED
    BY <1>5, <2>1 DEF Range
<1>7. /\ ~HasName(EmptyLine)
      /\ \A l : HasName(l) /\ l.type \in EntryTypes => l.type = "nv"
      /\ \A l : HasName(l) /\ l.type \in EntryTypes => ~Hash(l.name)
      /\ \A n, v : NV(n, v).name = n /\ (~Hash(n) => HasName(NV(n, v)))
  <2>1. /\ \A n, v : NV(n, v).type = "nv" /\ NV(n, v).name = n
        /\ EmptyLine.type = "empty" /\ EmptyLine.indent = 0
    BY DEF NV, EmptyLine, Line
  <2> QED
    BY <2>1 DEF HasName, EntryTypes
<1>8. \A l \in Range(all) : HasName(l) =>
        l.name \in shown /\ l.value = data.nv[l.name] /\ Trim(l.name) = l.name /\ l.name # Blank
  BY <1>1, <1>6, <1>7 DEF Writable, KeptName
<1>9. NamesIn(Entries(all)) = shown
  <2>1. NamesIn(Entries(all)) = {Trim(l.name) : l \in Named(all)}
    BY <1>5, EntriesFacts
  <2>2. ASSUME NEW l \in Named(all) PROVE Trim(l.name) \in shown
    BY <1>8 DEF Named
  <2>3. ASSUME NEW n \in shown PROVE \E l \in Named(all) : Trim(l.name) = n
    <3> DEFINE l == NV(n, data.nv[n])
    <3>1. n \in NamesIn(data.ffd) /\ Trim(n) = n /\ n # Blank
      BY DEF Writable, KeptName
    <3>2. l \in Range(all)
      BY <1>1, <1>6, <3>1
    <3>3. HasName(l) /\ l.name = n
      BY <1>7
    <3> HIDE DEF l
    <3>4. l \in Named(all)
      BY <3>1, <3>2, <3>3 DEF Named
    <3> QED
      BY <3>1, <3>3, <3>4
  <2> QED
    BY <2>1, <2>2, <2>3
<1>10. ASSUME NEW n \in shown PROVE LastValue(all, n) = Trim(data.nv[n])
  <2> DEFINE with == {i \in DOMAIN all : HasName(all[i]) /\ Trim(all[i].name) = n}
             last == CHOOSE i \in with : \A j \in with : j <= i
  <2>1. with # {}
    <3>1. PICK l \in Named(all) : Trim(l.name) = n
      BY <1>5, <1>9, EntriesFacts
    <3>2. PICK i \in DOMAIN all : all[i] = l
      BY DEF Named, Range
    <3> QED
      BY <3>1, <3>2 DEF Named
  <2> DEFINE m == Len(lines) + 1
  <2>2. with \subseteq 1..m /\ m \in Nat
    BY <1>5
  <2>3. \E i \in with : \A j \in with : j <= i
    <3> HIDE DEF with, m
    <3> QED
      BY <2>1, <2>2, Greatest
  <2>4. last \in with
    <3> HIDE DEF with
    <3> QED
      BY <2>3
  <2> HIDE DEF last
  <2>5. all[last] \in Range(all) /\ HasName(all[last]) /\ Trim(all[last].name) = n
    BY <2>4 DEF Range
  <2>6. all[last].value = data.nv[n]
    BY <1>8, <2>5
  <2>7. LastValue(all, n) = Trim(all[last].value)
    BY DEF LastValue, last
  <2> QED
    BY <2>6, <2>7
<1>11. DataOf(all).nv = [n \in NamesIn(Entries(all)) |-> LastValue(all, n)]
  BY DEF DataOf
<1>12. DataOf(all).nv = [n \in shown |-> Trim(data.nv[n])]
  <2> HIDE DEF shown
  <2> QED
    BY <1>9, <1>10, <1>11
<1>13. ReadConfigurationData(lines).result = "true" /\ ReadConfigurationData(lines).data = DataOf(all)
  BY <1>4
<1>14. ~Overruns(lines)
  <2>1. \A i \in DOMAIN all : all[i].indent = 0
    <3>1. EmptyLine.indent = 0
      BY DEF EmptyLine, Line
    <3> QED
      BY <1>1, <1>2, <1>5, <3>1
  <2>2. ASSUME NEW i \in DOMAIN all, NEW j \in 1 .. i - 1 PROVE ~(all[j].indent > 0)
    <3>1. j \in DOMAIN all
      BY <1>5
    <3> QED
      BY <2>1, <3>1
  <2> QED
    BY <2>2 DEF Overruns, all
<1>15. Readings(lines) = {ReadConfigurationData(lines)}
  BY <1>14 DEF Readings
<1> QED
  BY <1>12, <1>13, <1>15 DEF lines

----------------------------------------------------------------------------
(* The data of the programs that write.                                    *)

Writers == {"editor", "devices"}
Files   == {"config", "default", "devmap"}

\* A device's name may be one that a file does not keep, until it is validated.
Entered(data, n) == n \in DOMAIN Facts /\ (n \in NamesIn(data.ffd) \/ n \in {"#", Blank})

GoodData(o, data) ==
  /\ SoundData(data)
  /\ \A n \in DOMAIN data.nv : KeptName(data, n) \/ (o = "devices" /\ Entered(data, n))

GoodObject(o, ob) == "data" \in DOMAIN ob /\ GoodData(o, ob.data)

FilesSound == DOMAIN file = Files /\ \A f \in Files : file[f].lines \in Seq(Range(file[f].lines))

\* What a program is about to write is what its object holds, and can be read back.
WritesItsData ==
  \A o \in Writers : pc[o] = "writing" =>
    /\ pending[o].lines = Written(obj[o].data)
    /\ Writable(obj[o].data)

WriteIInv ==
  /\ ConfigDomains /\ ClientReads /\ DOMAIN pending = Objects /\ cast \in Casts
  /\ FilesSound
  /\ \A o \in Writers : GoodObject(o, obj[o])
  /\ WritesItsData

----------------------------------------------------------------------------
(* What the changes do to the data.                                        *)

\* The editor's names are variables': a file keeps them.
LEMMA EditorsIsWritable ==
  ASSUME NEW data, GoodData("editor", data)
  PROVE  Writable(data)
  BY DEF GoodData, Writable

\* An object that has read nothing.
LEMMA NothingIsGood == ASSUME NEW o PROVE GoodData(o, NoData)
<1>1. NoData.ffd = <<>> /\ NoData.nv = <<>>
  BY DEF NoData
<1>2. <<>> \in Seq(Range(<<>>)) /\ Range(<<>>) = {} /\ DOMAIN <<>> = {}
  BY DEF Range
<1> HIDE DEF NoData
<1> QED
  BY <1>1, <1>2 DEF GoodData, SoundData

\* Reading a file, or failing to.
LEMMA ReadIsGood ==
  ASSUME FilesSound, NEW o, NEW f \in Files, NEW old, GoodData(o, old), NEW r \in ReadFile(f, old)
  PROVE  GoodData(o, r.data) /\ (r.result = "true" => Writable(r.data))
<1> DEFINE lines == file[f].lines
           d == ReadConfigurationData(lines).data
<1>1. SoundData(d) /\ Writable(d)
  BY ReadFacts DEF FilesSound
<1> HIDE DEF lines, d
<1>2. GoodData(o, d)
  BY <1>1 DEF GoodData, Writable
<1>3. r.data = d \/ (r.data \in {NoData, old} /\ r.result # "true")
  <2>1. r = ReadConfigurationData(lines) \/ (r.data \in {NoData, old} /\ r.result # "true")
    BY ReadOutcomes DEF lines
  <2> QED
    BY <2>1 DEF d
<1> QED
  BY <1>1, <1>2, <1>3, NothingIsGood

\* A variable that is set is one of the file's lines.
LEMMA SetFacts ==
  ASSUME NEW data, SoundData(data), NEW n, NEW v
  PROVE  LET d == SetVariableValue(data, n, v)
         IN /\ SoundData(d)
            /\ DOMAIN d.nv = DOMAIN data.nv \cup {n}
            /\ NamesIn(data.ffd) \subseteq NamesIn(d.ffd)
            /\ n \in NamesIn(d.ffd) \/ n \in {"#", Blank}
<1> DEFINE d == SetVariableValue(data, n, v)
           e == [type |-> "nv", text |-> n]
           more == Append(data.ffd, e)
<1>1. DOMAIN d.nv = DOMAIN data.nv \cup {n}
  BY DEF SetVariableValue
<1>2. CASE \E i \in DOMAIN data.ffd : data.ffd[i].text = n
  <2>1. d.ffd = data.ffd
    BY <1>2 DEF SetVariableValue
  <2>2. PICK x \in Range(data.ffd) : x.text = n
    BY <1>2 DEF Range
  <2>3. x.type # "nv" => n \in {"#", Blank}
    BY <2>2 DEF SoundData, SoundEntry
  <2>4. x.type = "nv" => n \in NamesIn(data.ffd)
    BY <2>2, NamesInRange
  <2> QED
    BY <1>1, <2>1, <2>3, <2>4 DEF SoundData
<1>3. CASE ~\E i \in DOMAIN data.ffd : data.ffd[i].text = n
  <2>1. d.ffd = more
    BY <1>3 DEF SetVariableValue
  <2>2. more \in Seq(Range(more)) /\ Range(more) = Range(data.ffd) \cup {e}
    <3> DEFINE q == data.ffd
    <3>1. q \in Seq(Range(q))
      BY DEF SoundData
    <3> HIDE DEF q, e
    <3> DEFINE a == Append(q, e)
               L == Range(q) \cup {e}
    <3>2. q \in Seq(L) /\ e \in L
      BY <3>1
    <3>3. a \in Seq(L) /\ Len(a) = Len(q) + 1 /\ Len(q) \in Nat
          /\ (\A k \in 1..Len(q) : a[k] = q[k]) /\ a[Len(q) + 1] = e
      BY <3>2
    <3>4. DOMAIN q = 1..Len(q) /\ DOMAIN a = 1..(Len(q) + 1)
      BY <3>2, <3>3
    <3>5. \A k : k \in DOMAIN a <=> k \in DOMAIN q \/ k = Len(q) + 1
      BY <3>3, <3>4
    <3>6. a \in Seq(Range(a))
      BY <3>3, InRange
    <3> HIDE DEF a, L
    <3>7. Range(a) = Range(q) \cup {e}
      BY <3>3, <3>4, <3>5 DEF Range
    <3> QED
      BY <3>6, <3>7 DEF a, q
  <2>3. e.type = "nv" /\ e.text = n /\ SoundEntry(e)
    BY DEF SoundEntry, EntryTypes
  <2> HIDE DEF more, e, d
  <2>4. SoundData(d)
    BY <2>1, <2>2, <2>3 DEF SoundData
  <2>5. NamesIn(data.ffd) \subseteq NamesIn(more) /\ n \in NamesIn(more)
    BY <2>2, <2>3, NamesInRange
  <2> QED
    BY <1>1, <2>1, <2>4, <2>5 DEF d
<1> QED
  BY <1>2, <1>3

\* The setters of GOGOCConfig.
LEMMA SetIsGood ==
  ASSUME NEW data, GoodData("editor", data), NEW n \in Variables, NEW v
  PROVE  GoodData("editor", Set(data, n, v))
<1> DEFINE w == IF n = "haccess_document_root" THEN Facts[v].slash ELSE v
           d == SetVariableValue(data, n, w)
<1>1. Set(data, n, v) = d
  BY DEF Set
<1> HIDE DEF w
<1>2. /\ SoundData(d) /\ DOMAIN d.nv = DOMAIN data.nv \cup {n}
      /\ NamesIn(data.ffd) \subseteq NamesIn(d.ffd)
      /\ n \in NamesIn(d.ffd) \/ n \in {"#", Blank}
  BY SetFacts DEF GoodData
<1>3. Trim(n) = n /\ n # Blank /\ n # "#"
  BY NamesAssumption
<1> HIDE DEF d
<1>4. \A m \in DOMAIN d.nv : KeptName(d, m)
  BY <1>2, <1>3 DEF GoodData, KeptName
<1> QED
  BY <1>1, <1>2, <1>4 DEF GoodData

\* AddDeviceMapping(), SetDeviceAddress().
LEMMA AddressIsGood ==
  ASSUME NEW data, GoodData("devices", data), NEW n \in DOMAIN Facts, NEW v
  PROVE  GoodData("devices", SetVariableValue(data, n, v))
<1> DEFINE d == SetVariableValue(data, n, v)
<1>1. /\ SoundData(d) /\ DOMAIN d.nv = DOMAIN data.nv \cup {n}
      /\ NamesIn(data.ffd) \subseteq NamesIn(d.ffd)
      /\ n \in NamesIn(d.ffd) \/ n \in {"#", Blank}
  BY SetFacts DEF GoodData
<1> HIDE DEF d
<1>2. ASSUME NEW m \in DOMAIN d.nv PROVE KeptName(d, m) \/ Entered(d, m)
  BY <1>1 DEF GoodData, KeptName, Entered
<1> QED
  BY <1>1, <1>2 DEF GoodData, d

\* Lines of variables that have no value any more may go.
LEMMA FewerFacts ==
  ASSUME NEW data, SoundData(data), NEW kept, NEW nv, NEW o,
         \A e \in Range(data.ffd) : e.type = "nv" /\ e.text \in DOMAIN nv => e \in kept,
         DOMAIN nv \subseteq DOMAIN data.nv, GoodData(o, data)
  PROVE  LET d == [ffd |-> Only(data.ffd, kept), nv |-> nv]
         IN GoodData(o, d) /\ \A n \in DOMAIN nv : n \in NamesIn(data.ffd) => n \in NamesIn(d.ffd)
<1> DEFINE ffd == Only(data.ffd, kept)
           d == [ffd |-> ffd, nv |-> nv]
<1>1. ffd \in Seq(Range(data.ffd)) /\ Range(ffd) = Range(data.ffd) \cap kept
  BY OnlyFacts DEF SoundData
<1>2. d.ffd = ffd /\ d.nv = nv
  OBVIOUS
<1> HIDE DEF ffd, d
<1>3. ffd \in Seq(Range(ffd))
  BY <1>1, InRange
<1>4. SoundData(d)
  BY <1>1, <1>2, <1>3 DEF SoundData
<1>5. ASSUME NEW n \in DOMAIN nv, n \in NamesIn(data.ffd) PROVE n \in NamesIn(ffd)
  <2>1. PICK e \in Range(data.ffd) : e.type = "nv" /\ e.text = n
    BY <1>5, NamesInRange
  <2>2. e \in Range(ffd)
    BY <1>1, <2>1
  <2> QED
    BY <2>1, <2>2, NamesInRange
<1>6. ASSUME NEW n \in DOMAIN d.nv PROVE KeptName(d, n) \/ (o = "devices" /\ Entered(d, n))
  <2>1. n \in DOMAIN data.nv /\ n \in DOMAIN nv
    BY <1>2
  <2>2. KeptName(data, n) \/ (o = "devices" /\ Entered(data, n))
    BY <2>1 DEF GoodData
  <2> QED
    BY <1>2, <1>5, <2>1, <2>2 DEF KeptName, Entered
<1> QED
  BY <1>2, <1>4, <1>5, <1>6 DEF GoodData, d, ffd

\* DelDeviceMapping().
LEMMA RemoveIsGood ==
  ASSUME NEW data, GoodData("devices", data), NEW n
  PROVE  GoodData("devices", RemoveVariable(data, n))
<1> DEFINE kept == Range(data.ffd) \ {[type |-> "nv", text |-> n]}
           nv == [m \in DOMAIN data.nv \ {n} |-> data.nv[m]]
<1>1. DOMAIN nv = DOMAIN data.nv \ {n}
  OBVIOUS
<1>2. \A e \in Range(data.ffd) : e.type = "nv" /\ e.text \in DOMAIN nv => e \in kept
  BY <1>1
<1>3. RemoveVariable(data, n) = [ffd |-> Only(data.ffd, kept), nv |-> nv]
  BY DEF RemoveVariable
<1>4. SoundData(data) /\ DOMAIN nv \subseteq DOMAIN data.nv
  BY <1>1 DEF GoodData
<1> HIDE DEF kept, nv
<1> QED
  BY <1>2, <1>3, <1>4, FewerFacts

\* Validated data is as good as it was, and can be read back when it is found valid.
LEMMA ValidatedIsGood ==
  ASSUME NEW o \in Objects, NEW ob, "data" \in DOMAIN ob, NEW data, GoodData(o, data)
  PROVE  LET v == Validated(o, ob, data)
         IN GoodObject(o, v.ob) /\ (v.result = "true" /\ o \in Writers => Writable(v.ob.data))
<1>1. CASE o # "devices"
  <2> DEFINE v == ValidateConfigData(data)
             new == [ob EXCEPT !.data = data, !.valid = v.valid, !.errors = v.errors]
  <2>1. Validated(o, ob, data).ob = new
    BY <1>1 DEF Validated, Judged
  <2>2. DOMAIN new = DOMAIN ob /\ new.data = data
    OBVIOUS
  <2> HIDE DEF new
  <2>3. o \in Writers => Writable(data)
    BY <1>1, EditorsIsWritable DEF Writers
  <2> QED
    BY <2>1, <2>2, <2>3 DEF GoodObject
<1>2. CASE o = "devices"
  <2> DEFINE bad == {n \in DOMAIN data.nv : ~(ValidateDeviceName(n) /\ ValidateIPAddress(data.nv[n]))}
             kept == {e \in Range(data.ffd) : ~(e.type = "nv" /\ e.text \in bad)}
             nv == [n \in DOMAIN data.nv \ bad |-> data.nv[n]]
             d == [ffd |-> Only(data.ffd, kept), nv |-> nv]
             new == [ob EXCEPT !.data = d]
             v == ValidateMappings(ob, data)
  <2>1. v.ob = new /\ v.result = IF bad = {} THEN "true" ELSE "false"
    BY DEF ValidateMappings
  <2>2. DOMAIN nv = DOMAIN data.nv \ bad
    OBVIOUS
  <2>3. \A e \in Range(data.ffd) : e.type = "nv" /\ e.text \in DOMAIN nv => e \in kept
    BY <2>2
  <2>4. \A n \in DOMAIN data.nv \ bad : ValidateDeviceName(n)
    OBVIOUS
  <2>5. SoundData(data)
    BY DEF GoodData
  <2> HIDE DEF kept, nv, bad
  <2>6. GoodData(o, d) /\ \A n \in DOMAIN nv : n \in NamesIn(data.ffd) => n \in NamesIn(d.ffd)
    BY <2>2, <2>3, <2>5, FewerFacts
  <2>7. d.nv = nv
    OBVIOUS
  <2> HIDE DEF d
  <2>8. DOMAIN new = DOMAIN ob /\ new.data = d
    OBVIOUS
  <2> HIDE DEF new, v
  <2>9. ASSUME NEW n \in DOMAIN nv PROVE KeptName(d, n)
    <3>1. n # Blank /\ Is(n, "device")
      BY <2>2, <2>4 DEF ValidateDeviceName
    <3>2. CASE n \in DOMAIN Facts
      <4>1. Trim(n) = n /\ n # "#"
        BY <3>1, <3>2, NamesAssumption DEF Is, Trim
      <4> QED
        BY <2>6, <2>7, <3>1, <4>1 DEF GoodData, KeptName, Entered
    <3>3. CASE n \notin DOMAIN Facts
      BY <2>6, <2>7, <3>3 DEF GoodData, Entered
    <3> QED
      BY <3>2, <3>3
  <2>10. Writable(d)
    BY <2>7, <2>9 DEF Writable
  <2>11. Validated(o, ob, data) = v
    BY <1>2 DEF Validated, v
  <2> QED
    BY <2>1, <2>6, <2>8, <2>10, <2>11 DEF GoodObject
<1> QED
  BY <1>1, <1>2

----------------------------------------------------------------------------
(* The steps of the programs.                                              *)

\* A new object.
LEMMA NewIsGood ==
  ASSUME NEW o PROVE GoodObject(o, NoObject) /\ \A mode, dflt : GoodObject(o, New(mode, dflt))
<1>1. "data" \in DOMAIN NoObject /\ NoObject.data = NoData
  BY Zenon DEF NoObject
<1> HIDE DEF NoObject
<1>2. \A mode, dflt : "data" \in DOMAIN New(mode, dflt) /\ New(mode, dflt).data = NoObject.data
  BY <1>1 DEF New
<1> QED
  BY <1>1, <1>2, NothingIsGood DEF GoodObject

\* A call that touches no file.
LEMMA CallKeeps ==
  ASSUME WriteIInv, NEW o \in Objects, NEW ob, NEW r, Call(o, ob, r), UNCHANGED <<cast, file, pending>>,
         o \in Writers => GoodObject(o, ob)
  PROVE  WriteIInv'
<1>1. /\ obj' = [obj EXCEPT ![o] = ob] /\ ret' = [ret EXCEPT ![o] = r]
      /\ \E p \in {"hangs", "dead", "run"} : pc' = [pc EXCEPT ![o] = p]
      /\ calls' = [calls EXCEPT ![o] = @ + 1]
  BY DEF Call
<1>2. DOMAIN obj = Objects /\ DOMAIN pc = Objects /\ ConfigDomains
  BY DEF WriteIInv, ConfigDomains
<1>3. ConfigDomains'
  BY <1>1, <1>2 DEF ConfigDomains
<1>4. /\ obj'[o] = ob /\ \A p \in Objects \ {o} : obj'[p] = obj[p]
      /\ pc'[o] # "writing" /\ \A p \in Objects \ {o} : pc'[p] = pc[p]
  BY <1>1, <1>2
<1>5. ClientReads'
  BY <1>4 DEF WriteIInv, ClientReads, Objects
<1>6. Writers \subseteq Objects
  BY DEF Writers, Objects
<1>7. \A p \in Writers : GoodObject(p, obj'[p])
  BY <1>4, <1>6 DEF WriteIInv
<1>8. \A p \in Writers : pc'[p] = "writing" =>
         pending'[p].lines = Written(obj'[p].data) /\ Writable(obj'[p].data)
  BY <1>4, <1>6 DEF WriteIInv, WritesItsData
<1> QED
  BY <1>3, <1>5, <1>7, <1>8 DEF WriteIInv, FilesSound, WritesItsData

\* Opening the output stream.
LEMMA StartKeeps ==
  ASSUME WriteIInv, NEW o \in Writers, NEW ob, NEW then, StartWriting(o, ob, then), UNCHANGED cast,
         GoodObject(o, ob), Writable(ob.data)
  PROVE  WriteIInv'
<1> DEFINE p == [then |-> then, lines |-> Written(ob.data)]
<1>1. /\ obj' = [obj EXCEPT ![o] = ob] /\ ret' = [ret EXCEPT ![o] = "none"]
      /\ pc' = [pc EXCEPT ![o] = "writing"] /\ calls' = [calls EXCEPT ![o] = @ + 1]
      /\ pending' = [pending EXCEPT ![o] = p]
      /\ file' = [file EXCEPT ![FileOf[o]] = Lines(<<>>)]
  BY DEF StartWriting
<1>2. DOMAIN obj = Objects /\ DOMAIN pc = Objects /\ DOMAIN pending = Objects /\ ConfigDomains
  BY DEF WriteIInv, ConfigDomains
<1>3. p.lines = Written(ob.data)
  OBVIOUS
<1> HIDE DEF p
<1>4. ConfigDomains' /\ DOMAIN pending' = Objects
  BY <1>1, <1>2 DEF ConfigDomains
<1>5. o \in Objects /\ o # "client" /\ Writers \subseteq Objects
  BY DEF Writers, Objects
<1>6. /\ obj'[o] = ob /\ pending'[o] = p
      /\ \A q \in Objects \ {o} : obj'[q] = obj[q] /\ pc'[q] = pc[q] /\ pending'[q] = pending[q]
  BY <1>1, <1>2, <1>5
<1>7. ClientReads'
  BY <1>5, <1>6 DEF WriteIInv, ClientReads, Objects
<1>8. \A q \in Writers : GoodObject(q, obj'[q])
  BY <1>5, <1>6 DEF WriteIInv
<1>9. \A q \in Writers : pc'[q] = "writing" =>
         pending'[q].lines = Written(obj'[q].data) /\ Writable(obj'[q].data)
  BY <1>3, <1>5, <1>6 DEF WriteIInv, WritesItsData
<1>10. FilesSound'
  <2>1. Lines(<<>>).lines = <<>> /\ <<>> \in Seq(Range(<<>>))
    BY DEF Lines
  <2> QED
    BY <1>1, <2>1 DEF WriteIInv, FilesSound
<1> QED
  BY <1>4, <1>7, <1>8, <1>9, <1>10 DEF WriteIInv, WritesItsData

\* Every program has a file.
LEMMA FileOfWriter == \A o \in Objects : FileOf[o] \in Files
  BY DEF FileOf, Objects, Files

\* LoadConfiguration(), whatever is in the file.
LEMMA LoadConfigurationIsGood ==
  ASSUME WriteIInv, NEW o \in Writers, NEW ob, GoodObject(o, ob), NEW r \in LoadConfiguration(o, ob)
  PROVE  GoodData(o, r.data)
<1>1. FileOf[o] \in Files /\ FilesSound /\ GoodData(o, ob.data)
  BY FileOfWriter DEF Writers, Objects, WriteIInv, GoodObject
<1>2. r.data = ob.data \/ r \in ReadFile(FileOf[o], ob.data)
  BY DEF LoadConfiguration
<1> QED
  BY <1>1, <1>2, ReadIsGood

\* Load().
LEMMA AfterLoadIsGood ==
  ASSUME WriteIInv, NEW o \in Writers, NEW ob, GoodObject(o, ob), NEW r \in LoadConfiguration(o, ob)
  PROVE  GoodObject(o, AfterLoad(o, ob, r).ob)
<1>1. GoodData(o, r.data) /\ "data" \in DOMAIN ob /\ o \in Objects
  BY LoadConfigurationIsGood DEF GoodObject, Writers, Objects
<1>2. CASE r.result = "true"
  BY <1>1, <1>2, ValidatedIsGood DEF AfterLoad
<1>3. CASE r.result # "true"
  <2> DEFINE new == [ob EXCEPT !.data = r.data]
  <2>1. DOMAIN new = DOMAIN ob /\ new.data = r.data
    BY <1>1
  <2>2. AfterLoad(o, ob, r).ob = new
    BY <1>3 DEF AfterLoad
  <2> HIDE DEF new
  <2> QED
    BY <1>1, <2>1, <2>2 DEF GoodObject
<1> QED
  BY <1>2, <1>3

\* An object with other data, or marked as valid, is as good as its data.
LEMMA ChangedObject ==
  ASSUME NEW o, NEW ob, "data" \in DOMAIN ob
  PROVE  /\ \A d : GoodData(o, d) => GoodObject(o, [ob EXCEPT !.data = d])
         /\ \A d : [ob EXCEPT !.data = d].data = d
         /\ GoodObject(o, ob) => GoodObject(o, MarkValid(o, ob)) /\ MarkValid(o, ob).data = ob.data
<1>1. ASSUME NEW d
      PROVE  DOMAIN [ob EXCEPT !.data = d] = DOMAIN ob /\ [ob EXCEPT !.data = d].data = d
  OBVIOUS
<1>2. DOMAIN MarkValid(o, ob) = DOMAIN ob /\ MarkValid(o, ob).data = ob.data
  BY DEF MarkValid
<1> QED
  BY <1>1, <1>2 DEF GoodObject

\* Save() writes only what was found valid.
LEMMA SaveKeeps ==
  ASSUME WriteIInv, NEW o \in Objects, Save(o)
  PROVE  WriteIInv'
<1> DEFINE v == Validated(o, obj[o], obj[o].data)
<1>1. o \in Writers /\ cast' = cast
  BY DEF Save, Writers, Objects
<1>2. GoodObject(o, obj[o]) /\ "data" \in DOMAIN obj[o] /\ GoodData(o, obj[o].data)
  BY <1>1 DEF WriteIInv, GoodObject
<1>3. GoodObject(o, v.ob) /\ (v.result = "true" => Writable(v.ob.data))
  BY <1>1, <1>2, ValidatedIsGood
<1>4. GoodObject(o, MarkValid(o, v.ob))
  BY <1>3, ChangedObject DEF GoodObject
<1>5. \/ /\ \E r : Call(o, MarkValid(o, v.ob), r) \/ Call(o, v.ob, r)
         /\ UNCHANGED <<file, pending>>
      \/ v.result = "true" /\ StartWriting(o, v.ob, "save")
  BY DEF Save
<1> HIDE DEF v
<1>6. CASE v.result = "true" /\ StartWriting(o, v.ob, "save")
  BY <1>1, <1>3, <1>6, StartKeeps
<1>7. ASSUME NEW r, Call(o, MarkValid(o, v.ob), r) \/ Call(o, v.ob, r), UNCHANGED <<file, pending>>
      PROVE  WriteIInv'
  BY <1>1, <1>3, <1>4, <1>7, CallKeeps
<1> QED
  BY <1>5, <1>6, <1>7

\* LoadDefaults() writes what it read.
LEMMA LoadDefaultsKeeps ==
  ASSUME WriteIInv, LoadDefaults
  PROVE  WriteIInv'
<1> DEFINE ob == obj["editor"]
           With(r) == [ob EXCEPT !.data = r.data]
<1>1. "editor" \in Writers /\ "editor" \in Objects /\ "default" \in Files
  BY DEF Writers, Objects, Files
<1>2. GoodObject("editor", ob) /\ GoodData("editor", ob.data) /\ "data" \in DOMAIN ob /\ FilesSound
  BY <1>1 DEF WriteIInv, GoodObject
<1>3. cast' = cast
  BY DEF LoadDefaults
<1>4. \/ \E e : Call("editor", ob, e) /\ UNCHANGED <<file, pending>>
      \/ \E r \in ReadFile("default", ob.data) :
            \/ r.result = "true" /\ StartWriting("editor", With(r), "defaults")
            \/ \E e : Call("editor", With(r), e) /\ UNCHANGED <<file, pending>>
  BY DEF LoadDefaults
<1>5. ASSUME NEW e, Call("editor", ob, e), UNCHANGED <<file, pending>> PROVE WriteIInv'
  BY <1>1, <1>2, <1>3, <1>5, CallKeeps
<1>6. ASSUME NEW r \in ReadFile("default", ob.data),
             \/ r.result = "true" /\ StartWriting("editor", With(r), "defaults")
             \/ \E e : Call("editor", With(r), e) /\ UNCHANGED <<file, pending>>
      PROVE  WriteIInv'
  <2>1. GoodData("editor", r.data) /\ (r.result = "true" => Writable(r.data))
    BY <1>1, <1>2, ReadIsGood
  <2> DEFINE new == With(r)
  <2>2. GoodObject("editor", new) /\ new.data = r.data
    BY <1>2, <2>1, ChangedObject
  <2>3. \/ r.result = "true" /\ StartWriting("editor", new, "defaults")
        \/ \E e : Call("editor", new, e) /\ UNCHANGED <<file, pending>>
    BY <1>6
  <2> HIDE DEF new, ob
  <2>4. CASE r.result = "true" /\ StartWriting("editor", new, "defaults")
    BY <1>1, <1>3, <2>1, <2>2, <2>4, StartKeeps
  <2>5. ASSUME NEW e, Call("editor", new, e), UNCHANGED <<file, pending>> PROVE WriteIInv'
    BY <1>1, <1>3, <2>2, <2>5, CallKeeps
  <2> QED
    BY <2>3, <2>4, <2>5
<1> QED
  BY <1>4, <1>5, <1>6

\* The calls that touch no file.
LEMMA CallsKeep ==
  ASSUME WriteIInv, NEW o \in Objects,
         \/ tspInitialize \/ PrintUsage \/ AndroidRead
         \/ \E i \in Openings : Initialize(i[1], i[2])
         \/ \E mode \in {"AM_READ", "AM_RW"} : InitDevmap(mode)
         \/ Load(o) \/ CancelChanges(o) \/ Delete(o)
         \/ \E e \in Edits : SetValue(e[1], e[2])
         \/ \E e \in Mappings : SetDeviceAddress(e[1], e[2]) \/ DelDeviceMapping(e[1])
  PROVE  WriteIInv'
<1>1. "client" \in Objects /\ "client" \notin Writers /\ {"editor", "devices"} \subseteq Writers
      /\ Writers \subseteq Objects /\ \A p \in Objects : p # "client" => p \in Writers
  BY DEF Writers, Objects
<1>2. \A p \in Writers : GoodObject(p, obj[p]) /\ "data" \in DOMAIN obj[p] /\ GoodData(p, obj[p].data)
  BY DEF WriteIInv, GoodObject
<1> HIDE DEF Objects, Writers
<1>3. CASE tspInitialize
  <2>1. \E ob, r : Call("client", ob, r) /\ UNCHANGED <<cast, file, pending>>
    BY <1>3, Zenon DEF tspInitialize
  <2> QED
    BY <1>1, <2>1, CallKeeps
<1>4. CASE PrintUsage \/ AndroidRead
  <2>1. \E ob, r : Call("client", ob, r) /\ UNCHANGED <<cast, file, pending>>
    BY <1>4, Zenon DEF PrintUsage, AndroidRead
  <2> QED
    BY <1>1, <2>1, CallKeeps
<1>5. ASSUME NEW mode, NEW dflt, Initialize(mode, dflt) PROVE WriteIInv'
  <2> DEFINE new == [obj["editor"] EXCEPT !.init = TRUE, !.data = NoData, !.mode = mode, !.dflt = dflt]
  <2>1. Call("editor", new, "void") /\ UNCHANGED <<cast, file, pending>>
    BY <1>5 DEF Initialize
  <2>2. "data" \in DOMAIN new /\ new.data = NoData
    BY <1>1, <1>2
  <2> HIDE DEF new
  <2>3. GoodObject("editor", new)
    BY <2>2, NothingIsGood DEF GoodObject
  <2> QED
    BY <1>1, <2>1, <2>3, CallKeeps
<1>6. ASSUME NEW mode, InitDevmap(mode) PROVE WriteIInv'
  <2> DEFINE new == New(mode, "")
  <2>1. GoodObject("devices", new)
    BY NewIsGood
  <2>2. PICK r \in LoadConfiguration("devices", new) :
           \E e : Call("devices", AfterLoad("devices", new, r).ob, e)
    BY <1>6, Zenon DEF InitDevmap
  <2>3. UNCHANGED <<cast, file, pending>>
    BY <1>6 DEF InitDevmap
  <2>4. GoodObject("devices", AfterLoad("devices", new, r).ob)
    BY <1>1, <2>1, AfterLoadIsGood
  <2> QED
    BY <1>1, <2>2, <2>3, <2>4, CallKeeps
<1>7. CASE Load(o)
  <2>1. o \in Writers
    BY <1>1, <1>7 DEF Load
  <2>2. PICK r \in LoadConfiguration(o, obj[o]) : \E e : Call(o, AfterLoad(o, obj[o], r).ob, e)
    BY <1>7, Zenon DEF Load
  <2>3. UNCHANGED <<cast, file, pending>>
    BY <1>7 DEF Load
  <2>4. GoodObject(o, AfterLoad(o, obj[o], r).ob)
    BY <1>2, <2>1, AfterLoadIsGood
  <2> QED
    BY <2>2, <2>3, <2>4, CallKeeps
<1>8. CASE CancelChanges(o)
  <2>1. o \in Writers /\ UNCHANGED <<cast, file, pending>>
    BY <1>1, <1>8 DEF CancelChanges
  <2>2. \/ \E e : Call(o, obj[o], e)
        \/ \E r \in LoadConfiguration(o, obj[o]) : \E e : Call(o, [obj[o] EXCEPT !.data = r.data], e)
    BY <1>8, Zenon DEF CancelChanges
  <2>3. ASSUME NEW e, Call(o, obj[o], e) PROVE WriteIInv'
    BY <1>2, <2>1, <2>3, CallKeeps
  <2>4. ASSUME NEW r \in LoadConfiguration(o, obj[o]), NEW e, Call(o, [obj[o] EXCEPT !.data = r.data], e)
        PROVE  WriteIInv'
    <3>1. GoodData(o, r.data)
      BY <1>2, <2>1, LoadConfigurationIsGood
    <3>2. GoodObject(o, [obj[o] EXCEPT !.data = r.data])
      BY <1>2, <2>1, <3>1, ChangedObject
    <3> QED
      BY <2>1, <2>4, <3>2, CallKeeps
  <2> QED
    BY <2>2, <2>3, <2>4
<1>9. CASE Delete(o)
  BY <1>9, NewIsGood, CallKeeps DEF Delete
<1>10. ASSUME NEW e \in Edits, SetValue(e[1], e[2]) PROVE WriteIInv'
  <2> DEFINE ob == obj["editor"]
             d == Set(ob.data, e[1], e[2])
  <2>1. GoodObject("editor", ob) /\ GoodData("editor", ob.data) /\ "data" \in DOMAIN ob
    BY <1>1, <1>2
  <2>2. GoodData("editor", d)
    BY <2>1, SetIsGood, NamesAssumption
  <2>3. /\ \E r : Call("editor", ob, r) \/ Call("editor", [ob EXCEPT !.data = d], r)
        /\ UNCHANGED <<cast, file, pending>>
    BY <1>10 DEF SetValue
  <2> HIDE DEF ob, d
  <2>4. GoodObject("editor", [ob EXCEPT !.data = d])
    BY <2>1, <2>2, ChangedObject
  <2> QED
    BY <1>1, <2>1, <2>3, <2>4, CallKeeps
<1>11. ASSUME NEW e \in Mappings, SetDeviceAddress(e[1], e[2]) \/ DelDeviceMapping(e[1]) PROVE WriteIInv'
  <2> DEFINE ob == obj["devices"]
             added == SetVariableValue(ob.data, e[1], e[2])
             less == RemoveVariable(ob.data, e[1])
  <2>1. GoodObject("devices", ob) /\ GoodData("devices", ob.data) /\ "data" \in DOMAIN ob
    BY <1>1, <1>2
  <2>2. GoodData("devices", added) /\ GoodData("devices", less)
    BY <2>1, AddressIsGood, RemoveIsGood, NamesAssumption
  <2>3. /\ \E r : Call("devices", [ob EXCEPT !.data = added], r) \/ Call("devices", [ob EXCEPT !.data = less], r)
        /\ UNCHANGED <<cast, file, pending>>
    BY <1>11 DEF SetDeviceAddress, DelDeviceMapping
  <2> HIDE DEF ob, added, less
  <2>4. GoodObject("devices", [ob EXCEPT !.data = added]) /\ GoodObject("devices", [ob EXCEPT !.data = less])
    BY <2>1, <2>2, ChangedObject
  <2> QED
    BY <1>1, <2>3, <2>4, CallKeeps
<1> QED
  BY <1>3, <1>4, <1>5, <1>6, <1>7, <1>8, <1>9, <1>10, <1>11

\* What is in a file is a sequence of lines, cut off anywhere.
LEMMA CutOff ==
  ASSUME NEW s, s \in Seq(Range(s)), NEW n \in 0..Len(s)
  PROVE  SubSeq(s, 1, n) \in Seq(Range(SubSeq(s, 1, n)))
<1>1. Len(s) \in Nat
  OBVIOUS
<1>2. \A i \in 1..n : s[i] \in Range(s)
  <2>1. \A i \in 1..n : i \in DOMAIN s
    OBVIOUS
  <2> QED
    BY <2>1 DEF Range
<1>3. SubSeq(s, 1, n) \in Seq(Range(s))
  BY <1>1, <1>2, SubSeqProperties
<1> QED
  BY <1>3, InRange

\* A full disk, or a kill, leaves the beginning of what was to be written.
LEMMA CutOffFile ==
  ASSUME WriteIInv, NEW o \in Writers, pc[o] = "writing", NEW n \in 0..Len(pending[o].lines),
         file' = [file EXCEPT ![FileOf[o]] = Lines(SubSeq(pending[o].lines, 1, n))]
  PROVE  FilesSound'
<1> DEFINE text == SubSeq(pending[o].lines, 1, n)
<1>1. pending[o].lines = Written(obj[o].data) /\ SoundData(obj[o].data)
  BY DEF WriteIInv, WritesItsData, GoodObject, GoodData
<1>2. text \in Seq(Range(text))
  <2> DEFINE s == pending[o].lines
  <2>1. s \in Seq(Range(s))
    BY <1>1, WrittenFacts
  <2> HIDE DEF s
  <2>2. n \in 0..Len(s)
    BY DEF s
  <2>3. SubSeq(s, 1, n) \in Seq(Range(SubSeq(s, 1, n)))
    BY <2>1, <2>2, CutOff
  <2> QED
    BY <2>3 DEF s
<1> HIDE DEF text
<1>3. Lines(text).lines = text
  BY DEF Lines
<1> QED
  BY <1>2, <1>3 DEF WriteIInv, FilesSound, text

\* The rest of Save() and LoadDefaults().
LEMMA FinishKeeps ==
  ASSUME WriteIInv, NEW o \in Objects, NEW n \in 0..Len(pending[o].lines), FinishWriting(o, n)
  PROVE  WriteIInv'
<1>1. pc[o] = "writing" /\ o \in Writers /\ Writers \subseteq Objects
  BY DEF FinishWriting, WriteIInv, ClientReads, Writers, Objects
<1>2. FilesSound'
  BY <1>1, CutOffFile DEF FinishWriting
<1>3. GoodObject(o, obj[o]) /\ "data" \in DOMAIN obj[o] /\ GoodData(o, obj[o].data)
  BY <1>1 DEF WriteIInv, GoodObject
<1>4. GoodObject(o, MarkValid(o, obj[o])) /\ GoodObject(o, Validated(o, obj[o], obj[o].data).ob)
  BY <1>3, ChangedObject, ValidatedIsGood
<1> DEFINE v == Validated(o, obj[o], obj[o].data)
           Leaves(ob, r, p) ==
             /\ obj' = [obj EXCEPT ![o] = ob] /\ ret' = [ret EXCEPT ![o] = r] /\ pc' = [pc EXCEPT ![o] = p]
<1>5. /\ cast' = cast /\ calls' = calls /\ pending' = [pending EXCEPT ![o] = NoWrite]
      /\ \/ Leaves(MarkValid(o, obj[o]), "true", "run")
         \/ Leaves(v.ob, v.result, IF v.result = "aborts" THEN "dead" ELSE "run")
  BY DEF FinishWriting
<1> HIDE DEF v, Leaves
<1>6. PICK ob, r, p : GoodObject(o, ob) /\ p # "writing" /\ Leaves(ob, r, p)
  BY <1>4, <1>5 DEF v
<1>7. DOMAIN obj = Objects /\ DOMAIN pc = Objects /\ DOMAIN pending = Objects /\ ConfigDomains
  BY DEF WriteIInv, ConfigDomains
<1>8. ConfigDomains' /\ DOMAIN pending' = Objects
  BY <1>5, <1>6, <1>7 DEF ConfigDomains, Leaves
<1>9. /\ obj'[o] = ob /\ pc'[o] # "writing"
      /\ \A q \in Objects \ {o} : obj'[q] = obj[q] /\ pc'[q] = pc[q] /\ pending'[q] = pending[q]
  BY <1>5, <1>6, <1>7 DEF Leaves
<1>10. ClientReads'
  BY <1>1, <1>9 DEF WriteIInv, ClientReads, Objects
<1>11. \A q \in Writers : GoodObject(q, obj'[q])
  BY <1>1, <1>6, <1>9 DEF WriteIInv
<1>12. WritesItsData'
  BY <1>1, <1>9 DEF WriteIInv, WritesItsData
<1> QED
  BY <1>2, <1>5, <1>8, <1>10, <1>11, <1>12 DEF WriteIInv

\* A process is killed, perhaps while it writes.
LEMMA KillKeeps ==
  ASSUME WriteIInv, NEW o \in Objects, NEW n \in 0..Len(pending[o].lines), Kill(o, n)
  PROVE  WriteIInv'
<1>1. Writers \subseteq Objects
  BY DEF Writers, Objects
<1>2. /\ obj' = [obj EXCEPT ![o] = NoObject] /\ pc' = [pc EXCEPT ![o] = "run"]
      /\ pending' = [pending EXCEPT ![o] = NoWrite] /\ ret' = [ret EXCEPT ![o] = "none"]
      /\ calls' = [calls EXCEPT ![o] = @ + 1] /\ cast' = cast
      /\ file' = IF pc[o] = "writing"
                 THEN [file EXCEPT ![FileOf[o]] = Lines(SubSeq(pending[o].lines, 1, n))]
                 ELSE file
  BY DEF Kill
<1>3. FilesSound'
  <2>1. CASE pc[o] = "writing"
    <3>1. o \in Writers
      BY <2>1 DEF WriteIInv, ClientReads, Writers, Objects
    <3> QED
      BY <1>2, <2>1, <3>1, CutOffFile
  <2>2. CASE pc[o] # "writing"
    BY <1>2, <2>2 DEF WriteIInv, FilesSound
  <2> QED
    BY <2>1, <2>2
<1>4. DOMAIN obj = Objects /\ DOMAIN pc = Objects /\ DOMAIN pending = Objects /\ ConfigDomains
  BY DEF WriteIInv, ConfigDomains
<1>5. ConfigDomains' /\ DOMAIN pending' = Objects
  BY <1>2, <1>4 DEF ConfigDomains
<1>6. /\ obj'[o] = NoObject /\ pc'[o] # "writing"
      /\ \A q \in Objects \ {o} : obj'[q] = obj[q] /\ pc'[q] = pc[q] /\ pending'[q] = pending[q]
  BY <1>2, <1>4
<1>7. ClientReads'
  BY <1>6 DEF WriteIInv, ClientReads, Objects
<1>8. \A q \in Writers : GoodObject(q, obj'[q])
  BY <1>1, <1>6, NewIsGood DEF WriteIInv
<1>9. WritesItsData'
  BY <1>1, <1>6 DEF WriteIInv, WritesItsData
<1> QED
  BY <1>2, <1>3, <1>5, <1>7, <1>8, <1>9 DEF WriteIInv

\* What people leave in the files.
LEMMA SoundText ==
  /\ \A c \in Casts : \A t \in Texts[c.texts] : t \in Seq(Range(t))
  /\ \A t \in DeviceTexts \cup DefaultTexts : t \in Seq(Range(t))
  /\ <<>> \in Seq(Range(<<>>))
<1>1. ASSUME NEW c \in Casts, NEW t \in Texts[c.texts] PROVE t \in UNION {Texts[k] : k \in DOMAIN Texts}
  BY TextsAssumption
<1>2. \A c \in Casts : \A t \in Texts[c.texts] : t \in Seq(Range(t))
  BY <1>1, TextsAssumption
<1>3. \A t \in DeviceTexts \cup DefaultTexts : t \in Seq(Range(t))
  BY TextsAssumption
<1>4. <<>> \in Seq(Range(<<>>))
  BY DEF Range
<1> QED
  BY <1>2, <1>3, <1>4

\* A file is edited by hand.
LEMMA TouchKeeps ==
  ASSUME WriteIInv, NEW f, NEW new, Touch(f, new), new.lines \in Seq(Range(new.lines))
  PROVE  WriteIInv'
<1>1. FilesSound'
  BY DEF Touch, WriteIInv, FilesSound
<1> QED
  BY <1>1 DEF Touch, WriteIInv, ConfigDomains, ClientReads, WritesItsData

\* The invariant holds initially.
LEMMA WriteInit == Init => WriteIInv
<1> SUFFICES ASSUME Init PROVE WriteIInv
  OBVIOUS
<1>1. ConfigDomains /\ ClientReads /\ DOMAIN pending = Objects /\ cast \in Casts /\ Writers \subseteq Objects
  BY DEF Init, ConfigDomains, ClientReads, Objects, Writers
<1>2. FilesSound
  <2>1. \A t : Lines(t).lines = t
    BY DEF Lines
  <2>2. NoFile.lines = <<>>
    BY DEF NoFile
  <2> HIDE DEF Lines, NoFile
  <2>3. \/ \E m \in DeviceTexts : file = [config |-> NoFile, default |-> NoFile, devmap |-> Lines(m)]
        \/ \E c \in Texts[cast.texts], d \in DefaultTexts :
              file = [config |-> Lines(c), default |-> Lines(d), devmap |-> NoFile]
    BY DEF Init
  <2>4. ASSUME NEW f \in Files PROVE file[f].lines = <<>> \/ \E t : file[f].lines = t /\ t \in Seq(Range(t))
    BY <1>1, <2>1, <2>2, <2>3, SoundText DEF Files
  <2>5. DOMAIN file = Files
    BY <2>3 DEF Files
  <2> QED
    BY <2>4, <2>5, SoundText DEF FilesSound
<1>3. \A o \in Writers : GoodObject(o, obj[o]) /\ pc[o] # "writing"
  BY <1>1, NewIsGood DEF Init
<1> QED
  BY <1>1, <1>2, <1>3 DEF WriteIInv, WritesItsData

\* Every step keeps the invariant.
LEMMA WriteNext == WriteIInv /\ [Next]_vars => WriteIInv'
<1> SUFFICES ASSUME WriteIInv, [Next]_vars PROVE WriteIInv'
  OBVIOUS
<1>1. CASE tspInitialize \/ PrintUsage \/ AndroidRead
  BY <1>1, CallsKeep DEF Objects
<1>2. CASE LoadDefaults
  BY <1>2, LoadDefaultsKeeps
<1>3. CASE \/ \E i \in Openings : Initialize(i[1], i[2])
           \/ \E mode \in {"AM_READ", "AM_RW"} : InitDevmap(mode)
  BY <1>3, CallsKeep DEF Objects
<1>4. ASSUME NEW o \in Objects, Load(o) \/ CancelChanges(o) \/ Delete(o) PROVE WriteIInv'
  BY <1>4, CallsKeep
<1>5. ASSUME NEW o \in Objects, Save(o) PROVE WriteIInv'
  BY <1>5, SaveKeeps
<1>6. CASE \/ \E e \in Edits : SetValue(e[1], e[2])
           \/ \E e \in Mappings : SetDeviceAddress(e[1], e[2]) \/ DelDeviceMapping(e[1])
  BY <1>6, CallsKeep DEF Objects
<1>7. ASSUME NEW o \in Objects, NEW n \in 0 .. Len(pending[o].lines), FinishWriting(o, n) PROVE WriteIInv'
  BY <1>7, FinishKeeps
<1>8. ASSUME NEW o \in Objects, NEW n \in 0 .. Len(pending[o].lines), Kill(o, n) PROVE WriteIInv'
  BY <1>8, KillKeeps
<1>9. CASE \/ \E t \in Texts[cast.texts] : Touch("config", Lines(t))
           \/ \E t \in DeviceTexts : Touch("devmap", Lines(t))
           \/ \E f \in DOMAIN file : Touch(f, NoFile)
  <2>1. \A t : Lines(t).lines = t
    BY DEF Lines
  <2>2. NoFile.lines = <<>>
    BY DEF NoFile
  <2>3. cast \in Casts
    BY DEF WriteIInv
  <2> HIDE DEF Lines, NoFile
  <2> QED
    BY <1>9, <2>1, <2>2, <2>3, SoundText, TouchKeeps
<1>10. CASE UNCHANGED vars
  BY <1>10 DEF vars, WriteIInv, ConfigDomains, ClientReads, FilesSound, WritesItsData
<1> QED
  BY <1>1, <1>2, <1>3, <1>4, <1>5, <1>6, <1>7, <1>8, <1>9, <1>10 DEF Next

\* What a program has saved is what the next one reads: every variable has the value that was set,
\* without the blanks around it, whatever files, comments, duplicates, defaults and settings the
\* object went through before, but for names that begin with a "#" (NameValueParser's reading and
\* writing, NameValueConfig's setters and the validation of the device map).
THEOREM SavedIsAlwaysReadBack == Spec => SavedIsReadBack
<1> DEFINE ReadsBack ==
      \A o \in Objects :
         (/\ pc[o] = "writing" /\ ret'[o] = "true" /\ file'[FileOf[o]].lines = pending[o].lines
          /\ \A i \in DOMAIN pending[o].lines : ~TooLong(pending[o].lines[i])) =>
            LET nv == obj[o].data.nv
            IN \A r \in Readings(file'[FileOf[o]].lines) :
                  r.result = "true" /\ r.data.nv = [n \in {m \in DOMAIN nv : ~Hash(m)} |-> Trim(nv[n])]
<1>1. WriteIInv /\ [Next]_vars => [ReadsBack]_vars
  <2> SUFFICES ASSUME WriteIInv, NEW o \in Objects, pc[o] = "writing",
                      file'[FileOf[o]].lines = pending[o].lines,
                      \A i \in DOMAIN pending[o].lines : ~TooLong(pending[o].lines[i])
               PROVE  LET nv == obj[o].data.nv
                      IN \A r \in Readings(file'[FileOf[o]].lines) :
                            /\ r.result = "true"
                            /\ r.data.nv = [n \in {m \in DOMAIN nv : ~Hash(m)} |-> Trim(nv[n])]
    OBVIOUS
  <2>1. o \in Writers
    BY DEF WriteIInv, ClientReads, Writers, Objects
  <2>2. SoundData(obj[o].data) /\ Writable(obj[o].data) /\ pending[o].lines = Written(obj[o].data)
    BY <2>1 DEF WriteIInv, WritesItsData, GoodObject, GoodData
  <2> QED
    BY <2>2, ReadBack
<1>2. WriteIInv /\ [Next]_vars => WriteIInv'
  BY WriteNext
<1> QED
  BY <1>1, <1>2, WriteInit, PTL DEF Spec, SavedIsReadBack

===============================================================================

---------------------------- MODULE ConfigData ----------------------------
(***************************************************************************)
(* What gogoc-config knows of the configuration's variables: which values  *)
(* are valid, which values exclude each other, what a missing value stands *)
(* for, and what the C wrapper makes of a value.                           *)
(*                                                                         *)
(* A value is a text.  What the code can tell about it is in Facts: its    *)
(* length, the character classes it lies in, the number strtol() reads     *)
(* from its beginning, whether it names a directory, an IPv4 address in    *)
(* inet_ntoa()'s form or an IPv6 address; slash is the text with the       *)
(* backslashes turned, trim the text without the blanks around it, hash    *)
(* whether it begins with a "#".                                           *)
(***************************************************************************)
EXTENDS NameValueFile

CONSTANTS
    HACCESS,      \* BOOLEAN: HACCESS is built in
    V4V6_SUPPORT, \* BOOLEAN: IPv4 in IPv6 is built in, as on FreeBSD
    DEBUG         \* BOOLEAN: a debug build, the assertions are compiled in

ASSUME Builds == HACCESS \in BOOLEAN /\ V4V6_SUPPORT \in BOOLEAN /\ DEBUG \in BOOLEAN

\* What strtol() makes of the delays that stand for none.
ASSUME DefaultDelays == Facts["30"].number = 30 /\ Facts["300"].number = 300

Is(v, class) == class \in Facts[v].chars
Number(v)    == Facts[v].number
Length(v)    == Facts[v].len

\* C's conversion of a number to a short.  Numbers are taken to fit an int.
Short(n) == ((n + 32768) % 65536) - 32768

----------------------------------------------------------------------------
(* gogocvalidation.cc.                                                     *)

Validate_UserID(v) == Length(v) <= 253 /\ Is(v, "printable")
Validate_Passwd(v) == Length(v) <= 128 /\ Is(v, "printable")
Validate_Server(v) == Length(v) <= 1025 /\ Is(v, "server")
Validate_HostType(v) == v \in {"", "host", "router"}
\* The number is narrowed to a short before it is compared.
Validate_PrefixLen(v) == v = "" \/ (Is(v, "numeric") /\ Short(Number(v)) \in 1 .. 128)
Validate_IfPrefix(v) == Is(v, "filename")
Validate_DnsServer(v) == Length(v) <= 1025 /\ Is(v, "dnslist")
Validate_gogocDir(v) == v = "" \/ Facts[v].dir
Validate_AuthMethod(v) == v \in {"", "anonymous", "any", "digest-md5", "plain", "passdss-3des-1"}
Validate_AutoRetryConnect(v) == v \in {"", "yes", "no"}
CFG_MAX_RETRYDELAY    == 3600
CFG_MAX_RETRYDELAYMAX == 3600
Validate_RetryDelay(v) == v = "" \/ (Is(v, "numeric") /\ Number(v) \in 0 .. CFG_MAX_RETRYDELAY)
Validate_RetryDelayMax(v) == v = "" \/ (Is(v, "numeric") /\ Number(v) \in 0 .. CFG_MAX_RETRYDELAYMAX)
Validate_KeepAlive(v) == v \in {"", "yes", "no"}
Validate_KeepAliveInterval(v) == v = "" \/ (Is(v, "numeric") /\ Number(v) >= 0)
Validate_TunnelMode(v) == v \in {"", "v6anyv4", "v6v4", "v6udpv4", "v4v6", "dslite"}
Validate_IfTunV6V4(v) == Is(v, "dns")
Validate_IfTunV6UDPV4(v) == Is(v, "dns")
Validate_IfTunV4V6(v) == Is(v, "dns")
Validate_ClientV4(v) == v \in {"", "auto"} \/ Facts[v].v4
Validate_DSLite(v) == v = "" \/ Facts[v].v4
Validate_ClientV6(v) == v \in {"", "auto"} \/ Facts[v].v6
Validate_Template(v) ==
    v \in {"freebsd", "netbsd", "linux", "windows", "darwin", "cisco", "sunos", "openbsd", "openwrt", "gogocpe"}
Validate_ProxyClient(v) == v \in {"", "yes", "no"}
Validate_BrokerLstFile(v) == Length(v) <= 256 /\ Is(v, "filename")
Validate_LastServFile(v) == Length(v) <= 256 /\ Is(v, "filename")
Validate_AlwaysUseLastSrv(v) == v \in {"", "yes", "no"}
Validate_LogDevice(d) == d \in {"console", "stderr", "file", "syslog"}
\* The level is read from the beginning of the text, whatever follows.
Validate_LogLevel(v) == v = "" \/ Number(v) \in 0 .. 3
Validate_LogFileName(v) == Length(v) <= 256 /\ Is(v, "filename")
Validate_LogRotation(v) == v \in {"", "yes", "no"}
Validate_LogRotationSz(v) == v \in {"", "16", "32", "128", "1024"}
Validate_LogRotationDel(v) == v \in {"", "yes", "no"}
Validate_SysLogFacility(v) ==
    v \in {"", "USER", "LOCAL0", "LOCAL1", "LOCAL2", "LOCAL3", "LOCAL4", "LOCAL5", "LOCAL6", "LOCAL7"}
Validate_haccessProxyEnabled(v) == v \in {"", "yes", "no"}
Validate_haccessWebEnabled(v) == v \in {"", "yes", "no"}
Validate_haccessDocumentRoot(v) == v = "" \/ Facts[v].dir

Validate(name, v) ==
    CASE name = "userid" -> Validate_UserID(v)
      [] name = "passwd" -> Validate_Passwd(v)
      [] name = "server" -> Validate_Server(v)
      [] name \in {"dslite_server", "dslite_client"} -> Validate_DSLite(v)
      [] name = "host_type" -> Validate_HostType(v)
      [] name = "prefixlen" -> Validate_PrefixLen(v)
      [] name = "if_prefix" -> Validate_IfPrefix(v)
      [] name = "dns_server" -> Validate_DnsServer(v)
      [] name = "gogoc_dir" -> Validate_gogocDir(v)
      [] name = "auth_method" -> Validate_AuthMethod(v)
      [] name = "auto_retry_connect" -> Validate_AutoRetryConnect(v)
      [] name = "retry_delay" -> Validate_RetryDelay(v)
      [] name = "retry_delay_max" -> Validate_RetryDelayMax(v)
      [] name = "keepalive" -> Validate_KeepAlive(v)
      [] name = "keepalive_interval" -> Validate_KeepAliveInterval(v)
      [] name = "tunnel_mode" -> Validate_TunnelMode(v)
      [] name = "if_tunnel_v6v4" -> Validate_IfTunV6V4(v)
      [] name = "if_tunnel_v6udpv4" -> Validate_IfTunV6UDPV4(v)
      [] name = "if_tunnel_v4v6" -> Validate_IfTunV4V6(v)
      [] name = "client_v4" -> Validate_ClientV4(v)
      [] name = "client_v6" -> Validate_ClientV6(v)
      [] name = "template" -> Validate_Template(v)
      [] name = "proxy_client" -> Validate_ProxyClient(v)
      [] name = "broker_list" -> Validate_BrokerLstFile(v)
      [] name = "last_server" -> Validate_LastServFile(v)
      [] name = "always_use_same_server" -> Validate_AlwaysUseLastSrv(v)
      [] name \in {"log_console", "log_stderr", "log_syslog", "log_file"} -> Validate_LogLevel(v)
      [] name = "log_filename" -> Validate_LogFileName(v)
      [] name = "log_rotation" -> Validate_LogRotation(v)
      [] name = "log_rotation_size" -> Validate_LogRotationSz(v)
      [] name = "log_rotation_delete" -> Validate_LogRotationDel(v)
      [] name = "syslog_facility" -> Validate_SysLogFacility(v)
      [] name = "haccess_proxy_enabled" -> Validate_haccessProxyEnabled(v)
      [] name = "haccess_web_enabled" -> Validate_haccessWebEnabled(v)
      [] name = "haccess_document_root" -> Validate_haccessDocumentRoot(v)

----------------------------------------------------------------------------
(* gogocconfig.cc: the accessors.  The records give what a getter puts in  *)
(* the place of an empty value.                                            *)

AccountVars == [userid |-> "", passwd |-> "", server |-> "", host_type |-> "host",
                prefixlen |-> "64", if_prefix |-> "", dns_server |-> "", gogoc_dir |-> ""]
ConnectVars == [auth_method |-> "any", auto_retry_connect |-> "yes", retry_delay |-> "30",
                retry_delay_max |-> "300", keepalive |-> "yes", keepalive_interval |-> "30"]
TunnelVars  == [tunnel_mode |-> "v6anyv4", if_tunnel_v6v4 |-> "", if_tunnel_v6udpv4 |-> "",
                if_tunnel_v4v6 |-> "", dslite_server |-> "192.0.0.1", dslite_client |-> "192.0.0.2",
                client_v4 |-> "auto", client_v6 |-> "auto"]
ServerVars  == [template |-> "", proxy_client |-> "no", broker_list |-> "tsp-broker-list.txt",
                last_server |-> "tsp-last-server.txt", always_use_same_server |-> "no"]
LogVars     == [log_filename |-> "gogoc.log", log_rotation |-> "yes", log_rotation_size |-> "32",
                log_rotation_delete |-> "no", syslog_facility |-> "USER"]
HaccessVars == [haccess_proxy_enabled |-> "no", haccess_web_enabled |-> "no", haccess_document_root |-> ""]

\* GetDfltLogLevelForDevice() elsewhere than on Windows.
LogDevices  == [log_console |-> "0", log_stderr |-> "1", log_syslog |-> "0", log_file |-> "0"]

Groups == {AccountVars, ConnectVars, TunnelVars, ServerVars, LogVars, HaccessVars, LogDevices}
Variables == UNION {DOMAIN g : g \in Groups}
Default == [n \in Variables |-> (CHOOSE g \in Groups : n \in DOMAIN g)[n]]

Get(data, name) ==
    LET v == GetVariableValue(data, name)
        w == IF v = "" THEN Default[name] ELSE v
    IN IF name = "haccess_document_root" THEN Facts[w].slash ELSE w

\* A setter's effect once the value has been found valid.
Set(data, name, v) ==
    SetVariableValue(data, name, IF name = "haccess_document_root" THEN Facts[v].slash ELSE v)

----------------------------------------------------------------------------
(* ValidateConfigData().                                                   *)

\* auto_retry_connect is the variable it forgets.  Of the variables that have
\* no value only the template has to have one.
InvalidValues(data) ==
    {n \in {"template"} \cup ((DOMAIN data.nv \cap Variables) \ {"auto_retry_connect"}) :
        ~Validate(n, GetVariableValue(data, n))}

PasswordMissing(data) == Get(data, "auth_method") # "anonymous" /\ Get(data, "passwd") = ""
UdpThroughProxy(data) == Get(data, "proxy_client") = "yes" /\ Get(data, "tunnel_mode") = "v6udpv4"
KeepaliveThroughProxy(data) == Get(data, "proxy_client") = "yes" /\ Get(data, "keepalive") = "yes"
IntervalZero(data) == Get(data, "keepalive") = "yes" /\ Number(Get(data, "keepalive_interval")) = 0

\* The interfaces a tunnel mode needs; the last branch of the chain of ifs is
\* an assertion, for modes the validation was not to let through.
Needed(mode) ==
    CASE mode = "v6anyv4" -> {"if_tunnel_v6v4", "if_tunnel_v6udpv4"}
      [] mode = "v6v4"    -> {"if_tunnel_v6v4"}
      [] mode = "v6udpv4" -> {"if_tunnel_v6udpv4"}
      [] mode = "v4v6"    -> {"if_tunnel_v4v6"}
      [] OTHER            -> {}
ModeUnexpected(data) == Get(data, "tunnel_mode") \notin {"v6anyv4", "v6v4", "v6udpv4", "v4v6"}
InterfaceMissing(data) == \E i \in Needed(Get(data, "tunnel_mode")) : Get(data, i) = ""
PrefixInterfaceMissing(data) == Get(data, "host_type") = "router" /\ Get(data, "if_prefix") = ""
DelaysCrossed(data) == Number(Get(data, "retry_delay")) > Number(Get(data, "retry_delay_max"))
RootMissing(data) ==
    HACCESS /\ Get(data, "haccess_web_enabled") = "yes" /\ Get(data, "haccess_document_root") = ""
\* The second value compared with "yes" is the tunnel mode itself.
HaccessInV4V6(data) ==
    HACCESS /\ Get(data, "haccess_web_enabled") = "yes" /\ Get(data, "tunnel_mode") = "v4v6"

\* The errors the rules report, in their order.
Rules == <<"SUPPLYPASSWDWHENNOTANON", "PROXYCINVALIDMODE", "PROXYANDKEEPALIVE", "KAINTERVALINVALID",
           "IFTUNREQUIRED", "IFPREFIXMUSTBESPEC", "RETRYDELAYGREATERRETRYDELAYMAX",
           "HACCESSDOCROOTNOTSPEC", "HACCESSINCOMPV4V6">>

\* Mutant: the check of the interfaces is left out.
RulesWithoutInterfaces(data) ==
    <<PasswordMissing(data), UdpThroughProxy(data), KeepaliveThroughProxy(data), IntervalZero(data),
      FALSE, PrefixInterfaceMissing(data), DelaysCrossed(data),
      RootMissing(data), HaccessInV4V6(data)>>

BrokenRules(data) ==
    <<PasswordMissing(data), UdpThroughProxy(data), KeepaliveThroughProxy(data), IntervalZero(data),
      InterfaceMissing(data), PrefixInterfaceMissing(data), DelaysCrossed(data),
      RootMissing(data), HaccessInV4V6(data)>>

\* The rules are looked at in order.  The first one broken makes the data
\* invalid, and then the next getter throws: no other rule is looked at.  The
\* fifth begins with the tunnel modes.
Verdict(invalid, broken, unexpected) ==
    LET first == CHOOSE i \in broken : \A j \in broken : i <= j
    IN CASE invalid # {} -> [valid |-> FALSE, errors |-> invalid, aborts |-> FALSE]
         [] invalid = {} /\ broken = {} -> [valid |-> ~unexpected, errors |-> {}, aborts |-> unexpected]
         [] OTHER -> [valid |-> FALSE, errors |-> {Rules[first]}, aborts |-> unexpected /\ first >= 5]
ValidateConfigData(data) ==
    Verdict(InvalidValues(data), {i \in DOMAIN Rules : BrokenRules(data)[i]}, ModeUnexpected(data) /\ DEBUG)

----------------------------------------------------------------------------
(* gogoc_c_wrapper.cc and tspReadConfigFile(): the tConf structure.  The   *)
(* wrapper's getters turn yes and no into truth values and numbers into    *)
(* ints.                                                                   *)

Yes(v) == v = "yes"    \* pal_strcasecmp(); the values are lower case here

AccountConf(data) ==
    [userid |-> Get(data, "userid"), passwd |-> Get(data, "passwd"), server |-> Get(data, "server"),
     host_type |-> Get(data, "host_type"), prefixlen |-> Number(Get(data, "prefixlen")),
     if_prefix |-> Get(data, "if_prefix"), dns_server |-> Get(data, "dns_server"),
     tsp_dir |-> Get(data, "gogoc_dir"), auth_method |-> Get(data, "auth_method")]

ConnectConf(data) ==
    [auto_retry_connect |-> Yes(Get(data, "auto_retry_connect")),
     retry_delay |-> Number(Get(data, "retry_delay")),
     retry_delay_max |-> Number(Get(data, "retry_delay_max")),
     keepalive |-> Yes(Get(data, "keepalive")),
     keepalive_interval |-> Number(Get(data, "keepalive_interval"))]

\* A mode the build does not support leaves the zero the structure was filled
\* with; no build supports dslite.
Supported(mode) == mode \in {"v6anyv4", "v6v4", "v6udpv4"} \/ (mode = "v4v6" /\ V4V6_SUPPORT)

TunnelConf(data) ==
    LET mode == Get(data, "tunnel_mode")
    IN [tunnel_mode |-> IF Supported(mode) THEN mode ELSE "0",
        if_tunnel_v6v4 |-> Get(data, "if_tunnel_v6v4"), if_tunnel_v6udpv4 |-> Get(data, "if_tunnel_v6udpv4"),
        if_tunnel_v4v6 |-> Get(data, "if_tunnel_v4v6"), client_v4 |-> Get(data, "client_v4"),
        client_v6 |-> Get(data, "client_v6"), template |-> Get(data, "template"),
        proxy_client |-> Yes(Get(data, "proxy_client"))]

FilesConf(data) ==
    [broker_list_file |-> Get(data, "broker_list"), last_server_file |-> Get(data, "last_server"),
     always_use_same_server |-> Yes(Get(data, "always_use_same_server"))]

LogConf(data) ==
    [levels |-> [d \in DOMAIN LogDevices |-> Short(Number(Get(data, d)))],
     log_filename |-> Get(data, "log_filename"), log_rotation |-> Yes(Get(data, "log_rotation")),
     log_rotation_size |-> Number(Get(data, "log_rotation_size")),
     log_rotation_delete |-> Yes(Get(data, "log_rotation_delete")),
     syslog_facility |-> Get(data, "syslog_facility")]

HaccessConf(data) ==
    [proxy_enabled |-> Yes(Get(data, "haccess_proxy_enabled")),
     web_enabled |-> Yes(Get(data, "haccess_web_enabled")),
     document_root |-> Get(data, "haccess_document_root")]

TConf(data) ==
    [account |-> AccountConf(data), connect |-> ConnectConf(data), tunnel |-> TunnelConf(data),
     files |-> FilesConf(data), log |-> LogConf(data), haccess |-> HaccessConf(data)]
=============================================================================

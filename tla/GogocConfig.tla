---------------------------- MODULE GogocConfig ----------------------------
(***************************************************************************)
(* The configuration library at work: gogoc reading its configuration at   *)
(* every start (tspInitialize), a program of the user's editing the same   *)
(* file through the GOGOCConfig class, the HACCESS device map behind the   *)
(* same base classes, and people who edit the files by hand.               *)
(*                                                                         *)
(* Each object lives in a process of its own.  Reading a file is one step; *)
(* writing is two, the truncation and the rest, so that a file is found    *)
(* half written by the others, and may stay so: the disk may be full,      *)
(* which the writer does not notice, or the process may be killed.         *)
(*                                                                         *)
(* gogoc itself only reads: nothing calls the C wrapper's save_config()    *)
(* and setters.                                                            *)
(***************************************************************************)
EXTENDS ConfigData

CONSTANTS
    Texts,        \* what people leave in the configuration file: sets of sequences of lines
    DeviceTexts,  \* the same for the device map
    DefaultTexts, \* the default configuration files there may be
    Openings,     \* the <<access mode, default file>> pairs the editor opens the file with
    Edits,        \* the <<name, value>> pairs the editor sets
    Mappings,     \* the <<device, address>> pairs entered in the device map
    Casts         \* which build of gogoc it is (platform), its command line (argv, a function
                  \* from the options given to their values), which of the Texts there are (texts),
                  \* and how often each process may act and the files be changed by hand (calls,
                  \* touches, two bounds): the device map shares no file with the others, and
                  \* Android has only gogoc

ASSUME TextsAssumption ==
    /\ \A t \in (UNION {Texts[k] : k \in DOMAIN Texts}) \cup DeviceTexts \cup DefaultTexts :
          t \in Seq(Range(t))
    /\ \A c \in Casts : c.texts \in DOMAIN Texts

\* The names people set are those of variables, or entered as a device's; only
\* letters, digits and "-" are in the class of device names.
ASSUME NamesAssumption ==
    /\ \A e \in Edits : e[1] \in Variables
    /\ \A n \in Variables : Trim(n) = n /\ ~Hash(n) /\ n \notin {"#", Blank}
    /\ \A e \in Mappings : e[1] \in DOMAIN Facts
    /\ \A s \in DOMAIN Facts : "device" \in Facts[s].chars => Facts[s].trim = s /\ ~Facts[s].hash /\ s # "#"

VARIABLES
    cast,      \* gogoc's build and command line and the processes there are, constant
    file,      \* the files: whether each exists, and its lines
    obj,       \* the configuration object in each process
    pc,        \* what each process does: "run", "writing", "hangs", "dead"
    pending,   \* what a process that writes has yet to write, and what it does then
    ret,       \* what its last call returned or threw
    conf,      \* gogoc's tConf, from the last read that succeeded
    calls, touches

vars == <<cast, file, obj, pc, pending, ret, conf, calls, touches>>

Objects == {"client", "editor", "devices"}
FileOf  == [client |-> "config", editor |-> "config", devices |-> "devmap"]

NoObject == [init |-> FALSE, data |-> NoData, valid |-> FALSE, errors |-> {}, mode |-> "", dflt |-> ""]
New(mode, dflt) == [NoObject EXCEPT !.init = TRUE, !.mode = mode, !.dflt = dflt]

NoFile      == [exists |-> FALSE, lines |-> <<>>]
Lines(text) == [exists |-> TRUE, lines |-> text]
NoWrite     == [then |-> "", lines |-> <<>>]
NoConf      == [read |-> FALSE]

Init ==
    /\ cast \in Casts
    /\ IF cast.calls["devices"] > 0
       THEN \E m \in DeviceTexts : file = [config |-> NoFile, default |-> NoFile, devmap |-> Lines(m)]
       ELSE \E c \in Texts[cast.texts], d \in DefaultTexts :
               file = [config |-> Lines(c), default |-> Lines(d), devmap |-> NoFile]
    /\ obj = [o \in Objects |-> NoObject]
    /\ pc = [o \in Objects |-> "run"]
    /\ pending = [o \in Objects |-> NoWrite]
    /\ ret = [o \in Objects |-> "none"]
    /\ conf = NoConf
    /\ calls = [o \in Objects |-> 0]
    /\ touches = 0

May(o) == calls[o] < cast.calls[o]

\* A call by o that leaves it with the object ob and the result r.
Call(o, ob, r) ==
    /\ pc[o] = "run" /\ May(o)
    /\ obj' = [obj EXCEPT ![o] = ob]
    /\ ret' = [ret EXCEPT ![o] = r]
    /\ pc' = [pc EXCEPT ![o] = CASE r = "hangs" -> "hangs" [] r = "aborts" -> "dead" [] OTHER -> "run"]
    /\ calls' = [calls EXCEPT ![o] = @ + 1]

----------------------------------------------------------------------------
(* Validation, by the class of the object.                                 *)

ValidateDeviceName(n) == n # Blank /\ Length(n) <= 64 /\ Is(n, "device")
ValidateIPAddress(a) == a # "" /\ Length(a) <= 40 /\ Is(a, "address") /\ (Facts[a].v4 \/ Facts[a].v6)

\* HACCESSDeviceMappingConfig::ValidateConfig(): every mapping that is not
\* valid is removed.
ValidateMappings(ob, data) ==
    LET bad == {n \in DOMAIN data.nv : ~(ValidateDeviceName(n) /\ ValidateIPAddress(data.nv[n]))}
        remaining == [ffd |-> Only(data.ffd, {e \in Range(data.ffd) : ~(e.type = "nv" /\ e.text \in bad)}),
                      nv  |-> [n \in DOMAIN data.nv \ bad |-> data.nv[n]]]
    IN [ob |-> [ob EXCEPT !.data = remaining], result |-> IF bad = {} THEN "true" ELSE "false"]

Judged(ob, data, v) ==
    [ob |-> [ob EXCEPT !.data = data, !.valid = v.valid, !.errors = v.errors],
     result |-> IF v.aborts THEN "aborts" ELSE IF v.valid THEN "true" ELSE "false"]
Validated(o, ob, data) ==
    IF o = "devices" THEN ValidateMappings(ob, data) ELSE Judged(ob, data, ValidateConfigData(data))

----------------------------------------------------------------------------
(* Reading.                                                                *)

\* What reading a file may come to.  The file is opened before the old data is
\* cleared.
ReadFile(f, old) ==
    IF file[f].exists
    THEN Readings(file[f].lines)
    ELSE {[result |-> "OPENFAIL", data |-> old]}

LoadConfiguration(o, ob) ==
    IF ob.mode = "AM_CREATE"
    THEN {[result |-> "CANNOTLOADWHENCREATE", data |-> ob.data]}
    ELSE ReadFile(FileOf[o], ob.data)

\* What Load() makes of what was read; what it throws leaves m_bValid alone.
AfterLoad(o, ob, r) ==
    IF r.result = "true"
    THEN Validated(o, ob, r.data)
    ELSE [ob |-> [ob EXCEPT !.data = r.data], result |-> r.result]

Load(o) ==
    /\ obj[o].init /\ o # "client"
    /\ \E r \in LoadConfiguration(o, obj[o]) :
          \E a \in {AfterLoad(o, obj[o], r)} : Call(o, a.ob, a.result)
    /\ UNCHANGED <<cast, file, pending, conf, touches>>

\* The file is read again and nothing is validated.
CancelChanges(o) ==
    /\ obj[o].init /\ o # "client"
    /\ \/ obj[o].mode = "AM_READ" /\ Call(o, obj[o], "CANNOTCANCELWHENREAD")
       \/ /\ obj[o].mode # "AM_READ"
          /\ \E r \in LoadConfiguration(o, obj[o]) : Call(o, [obj[o] EXCEPT !.data = r.data], r.result)
    /\ UNCHANGED <<cast, file, pending, conf, touches>>

----------------------------------------------------------------------------
(* Making and dropping objects.                                            *)

\* GOGOCConfig::Initialize() of the editor, which makes the object's parser
\* anew; m_bValid and the errors of an object used before stay.
Initialize(mode, dflt) ==
    /\ Call("editor", [obj["editor"] EXCEPT !.init = TRUE, !.data = NoData, !.mode = mode, !.dflt = dflt],
            "void")
    /\ UNCHANGED <<cast, file, pending, conf, touches>>

\* init_haccess_devmap(), and Initialize() and Load() by a program that
\* changes the map.
InitDevmap(mode) ==
    /\ ~obj["devices"].init
    /\ \E r \in LoadConfiguration("devices", New(mode, "")) :
          \E a \in {AfterLoad("devices", New(mode, ""), r)} : Call("devices", a.ob, a.result)
    /\ UNCHANGED <<cast, file, pending, conf, touches>>

\* The destructor; un_initialize(), uninit_haccess_devmap().
Delete(o) ==
    /\ obj[o].init /\ o # "client"
    /\ Call(o, NoObject, "void")
    /\ UNCHANGED <<cast, file, pending, conf, touches>>

----------------------------------------------------------------------------
(* Changing the data.                                                      *)

\* The setters of GOGOCConfig.
SetValue(n, v) ==
    LET ob == obj["editor"]
    IN /\ ob.init
       /\ \/ ~ob.valid /\ Call("editor", ob, "INVALIDCONF")
          \/ ob.valid /\ ~Validate(n, v) /\ Call("editor", ob, n)
          \/ ob.valid /\ Validate(n, v) /\ Call("editor", [ob EXCEPT !.data = Set(@, n, v)], "void")
       /\ UNCHANGED <<cast, file, pending, conf, touches>>

\* AddDeviceMapping(), SetDeviceAddress(): nothing is validated here.
SetDeviceAddress(n, a) ==
    /\ obj["devices"].init
    /\ Call("devices", [obj["devices"] EXCEPT !.data = SetVariableValue(@, n, a)], "true")
    /\ UNCHANGED <<cast, file, pending, conf, touches>>

DelDeviceMapping(n) ==
    /\ obj["devices"].init
    /\ Call("devices", [obj["devices"] EXCEPT !.data = RemoveVariable(@, n)], "true")
    /\ UNCHANGED <<cast, file, pending, conf, touches>>

----------------------------------------------------------------------------
(* Writing.                                                                *)

\* The output stream is opened, which empties the file.
StartWriting(o, ob, then) ==
    /\ pc[o] = "run" /\ May(o)
    /\ obj' = [obj EXCEPT ![o] = ob]
    /\ file' = [file EXCEPT ![FileOf[o]] = Lines(<<>>)]
    /\ pending' = [pending EXCEPT ![o] = [then |-> then, lines |-> Written(ob.data)]]
    /\ pc' = [pc EXCEPT ![o] = "writing"]
    /\ ret' = [ret EXCEPT ![o] = "none"]
    /\ calls' = [calls EXCEPT ![o] = @ + 1]

\* GOGOCConfig::Save() leaves m_bValid set unless the writing throws, whatever
\* the validation said.
MarkValid(o, ob) == IF o = "devices" THEN ob ELSE [ob EXCEPT !.valid = TRUE]

Save(o) ==
    /\ obj[o].init /\ o # "client"
    /\ \E v \in {Validated(o, obj[o], obj[o].data)} :
          \/ /\ v.result # "true"
             /\ Call(o, MarkValid(o, v.ob), v.result)
             /\ UNCHANGED <<file, pending>>
          \/ /\ v.result = "true" /\ v.ob.mode = "AM_READ"
             /\ Call(o, v.ob, "CANNOTAPPLYWHENREAD")
             /\ UNCHANGED <<file, pending>>
          \/ /\ v.result = "true" /\ v.ob.mode # "AM_READ"
             /\ Call(o, v.ob, "OPENFAILWRITE")
             /\ UNCHANGED <<file, pending>>
          \/ /\ v.result = "true" /\ v.ob.mode # "AM_READ"
             /\ StartWriting(o, v.ob, "save")
    /\ UNCHANGED <<cast, conf, touches>>

\* LoadDefaults() and OverrideConfiguration(): the default file is read and
\* written over the configuration file; only then is the data validated.
LoadDefaults ==
    LET ob == obj["editor"]
    IN /\ ob.init
       /\ \/ /\ ob.dflt = "" \/ ob.dflt = "config" \/ ob.mode = "AM_READ"
             /\ Call("editor", ob, CASE ob.dflt = "" -> "FAILLOADDFLTCONF"
                                     [] ob.dflt = "config" -> "CANNOTOVERRIDESAMECONTENTS"
                                     [] OTHER -> "CANNOTOVERRIDEWHENREAD")
             /\ UNCHANGED <<file, pending>>
          \/ /\ ob.dflt = "default" /\ ob.mode # "AM_READ"
             /\ \E r \in ReadFile(ob.dflt, ob.data) :
                   \/ /\ r.result = "true"
                      /\ StartWriting("editor", [ob EXCEPT !.data = r.data], "defaults")
                   \/ /\ Call("editor", [ob EXCEPT !.data = r.data],
                              IF r.result = "true" THEN "OPENFAILWRITE" ELSE r.result)
                      /\ UNCHANGED <<file, pending>>
       /\ UNCHANGED <<cast, conf, touches>>

\* The stream's errors are not looked at: a full disk leaves the first n lines.
FinishWriting(o, n) ==
    /\ pc[o] = "writing" /\ n \in 0 .. Len(pending[o].lines)
    /\ file' = [file EXCEPT ![FileOf[o]] = Lines(SubSeq(pending[o].lines, 1, n))]
    /\ pending' = [pending EXCEPT ![o] = NoWrite]
    /\ \/ /\ pending[o].then = "save"
          /\ obj' = [obj EXCEPT ![o] = MarkValid(o, @)]
          /\ ret' = [ret EXCEPT ![o] = "true"]
          /\ pc' = [pc EXCEPT ![o] = "run"]
       \/ /\ pending[o].then = "defaults"
          /\ \E v \in {Validated(o, obj[o], obj[o].data)} :
                /\ obj' = [obj EXCEPT ![o] = v.ob]
                /\ ret' = [ret EXCEPT ![o] = v.result]
                /\ pc' = [pc EXCEPT ![o] = IF v.result = "aborts" THEN "dead" ELSE "run"]
    /\ UNCHANGED <<cast, conf, calls, touches>>

----------------------------------------------------------------------------
(* gogoc.                                                                  *)

\* initialize() of the C wrapper: an object left by an earlier call is taken
\* for one that has read the file.
Initialized ==
    IF obj["client"].init
    THEN {[ob |-> obj["client"], result |-> "true"]}
    ELSE LET ob == New("AM_RW", "") IN {AfterLoad("client", ob, r) : r \in LoadConfiguration("client", ob)}

\* The wrapper's getters turn what GOGOCConfig's throw into an empty text.
get_server(ob) == IF ob.valid THEN Get(ob.data, "server") ELSE ""

\* Mutant: the object is kept for the next call.
KeepObject(ob) == ob

\* un_initialize() at the end of tspReadConfigFile(), the only call of it.
un_initialize(ob) == NoObject

Option(name, value) == IF name \in DOMAIN cast.argv THEN cast.argv[name] ELSE value

\* tspInitialize(): what the command line says goes over the file, unchecked.
\* The option for the retry delay (-r) is read and used nowhere.
Overridden(t) ==
    [t EXCEPT !.if_tunnel_v6v4 = Option("i", @), !.if_tunnel_v6udpv4 = Option("u", @),
              !.client_v4 = Option("s", @), !.tunnel_mode = Option("m", @)]
Override(c) == [c EXCEPT !.tunnel = Overridden(@)]

\* tspReadConfigFile() and the rest of tspInitialize(), which may run out of
\* memory after the file has been read.
tspInitialize ==
    /\ cast.platform = "unix" /\ "h" \notin DOMAIN cast.argv
    /\ \E a \in Initialized :
          \/ /\ a.result \in {"hangs", "aborts"}
             /\ Call("client", a.ob, a.result)
             /\ UNCHANGED conf
          \/ /\ a.result \notin {"hangs", "aborts"}
             /\ a.result # "true" \/ get_server(a.ob) = ""
             /\ Call("client", a.ob, "ERR_INVAL_CFG_FILE")
             /\ UNCHANGED conf
          \/ /\ a.result = "true" /\ get_server(a.ob) # ""
             /\ Call("client", un_initialize(a.ob), "SUCCESS")
             /\ conf' = [read |-> TRUE, c |-> Override(TConf(a.ob.data))]
          \/ /\ a.result = "true" /\ get_server(a.ob) # ""
             /\ Call("client", un_initialize(a.ob), "ERR_MEMORY_STARVATION")
             /\ UNCHANGED conf
    /\ UNCHANGED <<cast, file, pending, touches>>

\* ParseArguments(): help, and options it does not know, end the process.
PrintUsage ==
    /\ "h" \in DOMAIN cast.argv
    /\ Call("client", NoObject, "aborts")
    /\ UNCHANGED <<cast, file, pending, conf, touches>>

----------------------------------------------------------------------------
(* Android's tspReadConfigFile().                                          *)

AndroidDefaults ==
    [auth_method |-> "anonymous", server |-> "anonymous.freenet6.net", gogoc_dir |-> "",
     template |-> "android", broker_list |-> "broker_list_file", last_server |-> "last_server_file",
     dsa_keys |-> "gogockeys.pub", if_prefix |-> "", dns_server |-> "", tunnel_mode |-> "v6anyv4",
     if_tunnel_v6v4 |-> "sit1", if_tunnel_v6udpv4 |-> "tun", if_tunnel_v4v6 |-> "sit0",
     userid |-> "", passwd |-> ""]

\* The value of the last line with exactly this name at its beginning; a tunnel
\* mode that is not known is passed over.
AndroidValue(lines, name) ==
    LET modes == {"v6v4", "v6udpv4", "v4v6", "v6anyv4"}
        with  == {i \in DOMAIN lines : /\ lines[i].type = "nv" /\ lines[i].indent = 0
                                       /\ lines[i].name = name
                                       /\ name = "tunnel_mode" => lines[i].value \in modes}
    IN IF with = {} THEN AndroidDefaults[name] ELSE lines[CHOOSE i \in with : \A j \in with : j <= i].value

\* A known name without a "=" has a null pointer for its value.  A line too
\* long for the buffer is written into memory that realloc() may have freed.
AndroidRead ==
    LET lines == file["config"].lines
        null  == \E i \in DOMAIN lines : lines[i].type = "word" /\ lines[i].indent = 0 /\ lines[i].name \in DOMAIN AndroidDefaults
        long  == \E i \in DOMAIN lines : lines[i].type = "long"
    IN /\ cast.platform = "android"
       /\ \/ /\ null \/ long
             /\ Call("client", NoObject, "aborts")
             /\ UNCHANGED conf
          \/ /\ ~null
             /\ Call("client", NoObject, "SUCCESS")
             /\ conf' = [read |-> TRUE, android |-> [n \in DOMAIN AndroidDefaults |-> AndroidValue(lines, n)]]
       /\ UNCHANGED <<cast, file, pending, touches>>

----------------------------------------------------------------------------
(* The world around.                                                       *)

\* A process is killed, perhaps while it writes, or starts again after it has
\* died.  For a program between two calls of the library that is Delete();
\* gogoc has no such call.
Kill(o, n) ==
    /\ May(o) /\ (pc[o] # "run" \/ o = "client")
    /\ n \in 0 .. Len(pending[o].lines)
    /\ file' = IF pc[o] = "writing"
               THEN [file EXCEPT ![FileOf[o]] = Lines(SubSeq(pending[o].lines, 1, n))]
               ELSE file
    /\ obj' = [obj EXCEPT ![o] = NoObject]
    /\ pc' = [pc EXCEPT ![o] = "run"]
    /\ pending' = [pending EXCEPT ![o] = NoWrite]
    /\ ret' = [ret EXCEPT ![o] = "none"]
    /\ calls' = [calls EXCEPT ![o] = @ + 1]
    /\ conf' = IF o = "client" THEN NoConf ELSE conf
    /\ UNCHANGED <<cast, touches>>

\* A file is edited by hand, or removed, while no program writes it.
Touch(f, new) ==
    /\ touches < cast.touches
    /\ \A o \in Objects : FileOf[o] = f => pc[o] # "writing"
    /\ file' = [file EXCEPT ![f] = new]
    /\ touches' = touches + 1
    /\ UNCHANGED <<cast, obj, pc, pending, ret, conf, calls>>

Next ==
    \/ tspInitialize \/ PrintUsage \/ AndroidRead
    \/ LoadDefaults
    \/ \E i \in Openings : Initialize(i[1], i[2])
    \/ \E mode \in {"AM_READ", "AM_RW"} : InitDevmap(mode)
    \/ \E o \in Objects : Load(o) \/ CancelChanges(o) \/ Delete(o) \/ Save(o)
    \/ \E e \in Edits : SetValue(e[1], e[2])
    \/ \E e \in Mappings : SetDeviceAddress(e[1], e[2]) \/ DelDeviceMapping(e[1])
    \/ \E o \in Objects : \E n \in 0 .. Len(pending[o].lines) :
          FinishWriting(o, n) \/ Kill(o, n)
    \/ \E t \in Texts[cast.texts] : Touch("config", Lines(t))
    \/ \E t \in DeviceTexts : Touch("devmap", Lines(t))
    \/ \E f \in DOMAIN file : Touch(f, NoFile)

Spec == Init /\ [][Next]_vars

----------------------------------------------------------------------------
(* Properties.                                                             *)

\* What a program has saved is what the next one reads: when a Save() returns
\* true and the disk was not full, the file can be read, and gives every
\* variable its value without the blanks around it, whatever lines, defaults,
\* duplicates and settings the object went through before.  But a name that
\* begins with a "#", once the tab before it is trimmed, is a comment when it
\* is read back.  And no line may have become too long: most values are valid
\* in any length, and then the next reader hangs.
SavedIsReadBack ==
    [][\A o \in Objects :
         (/\ pc[o] = "writing" /\ ret'[o] = "true" /\ file'[FileOf[o]].lines = pending[o].lines
          /\ \A i \in DOMAIN pending[o].lines : ~TooLong(pending[o].lines[i])) =>
            LET nv == obj[o].data.nv
            IN \A r \in Readings(file'[FileOf[o]].lines) :
                  r.result = "true" /\ r.data.nv = [n \in {m \in DOMAIN nv : ~Hash(m)} |-> Trim(nv[n])]]_vars

\* gogoc never runs on an old configuration: when tspInitialize() succeeds,
\* what it read is what the file holds at that moment, though the object in
\* the C wrapper outlives the calls that failed.
NoStaleSuccess ==
    [][(cast.platform = "unix" /\ ret'["client"] = "SUCCESS" /\ calls'["client"] # calls["client"]) =>
         /\ file["config"].exists
         /\ conf'.c = Override(TConf(ReadConfigurationData(file["config"].lines).data))]_vars

\* The configuration gogoc runs on makes sense as a whole, with the defaults
\* and the conversions applied: a server, a password unless anonymous, the
\* interfaces the tunnel mode needs, no UDP and no keepalives through a proxy,
\* a keepalive interval, a prefix interface for a router, delays in order.
\* The command line can spoil it: the property is about starts without one.
Consistent(c) ==
    /\ c.account.server # ""
    /\ c.account.auth_method # "anonymous" => c.account.passwd # ""
    /\ c.tunnel.proxy_client => c.tunnel.tunnel_mode # "v6udpv4" /\ ~c.connect.keepalive
    /\ c.connect.keepalive => c.connect.keepalive_interval # 0
    /\ \A i \in Needed(c.tunnel.tunnel_mode) : c.tunnel[i] # ""
    /\ c.account.host_type = "router" => c.account.if_prefix # ""
    /\ c.connect.retry_delay <= c.connect.retry_delay_max

UsedConfigConsistent ==
    (conf.read /\ cast.platform = "unix" /\ DOMAIN cast.argv = {}) => Consistent(conf.c)

=============================================================================

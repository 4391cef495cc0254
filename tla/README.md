# A TLA+ verification of gogoc for Android

gogoc is the client of the Tunnel Setup Protocol (TSP): it asks a broker for an IPv6 tunnel over
IPv4 (or the reverse), sets the tunnel up, keeps it alive and reconnects when it breaks. This
repository packages it as an Android application: a C client (`native/gogoc-1_2-RELEASE`), a
JNI bridge, a service that runs the client in a thread, and an activity.

This directory models the client as a whole, Android's build first: the connection loop, the session
with a broker, the reliable-UDP transport, the redirection to other brokers and the threads that
measure them, the tunnel loop with its keepalive thread, and the Java and native threads of the
Android client; then what the same sources hold for other builds: the set-up of a tunnel by a
template script, the configuration files, and the messages exchanged with a user interface. The
models are translated from the sources; paths below are relative to `src/`, with `G/` for
`native/gogoc-1_2-RELEASE/`.

Contents: 1 inventory, 2 modules, 3 runs, 4 fairness, 5 proofs, 6 what the models found,
7 what is not modelled, 8 plan, 9 how to run.

## 1. Inventory

How the parts call each other:

    GogocActivity <--intents--> GogocService --JNI, one thread--> gogoc-jni.c
                                     |                                 |
                              TunStop() (main thread)          main() -> tspMain()
                                     |                                 |
                                     v                                 v
                               tsp_tun.c  <--- tspStartLocal() --- tspSetupTunnel() --- nt->netsendrecv()
                               (g_pipefd)                              |                     |
                                                     tspPerformTunnelLoop()            net_rudp.c, TCP
                                                             |
                                                  KA_* thread -> IEE_process()

    beside it:  tspInitialize() <- gogoc-config library <- files -> editor, device map
                tspHandleRedirect() -> one thread for each broker of a list
                tspStartLocal() of other platforms -> template script in a child process
                gogoc-messaging: manager, sender, receiver threads <--pipe--> user interface

| component | state it keeps | operations | what is hard | what makes it correct |
|---|---|---|---|---|
| Connection loop (`G/gogoc-tsp/src/tsp/tsp_client.c`, `tspMain`) | server, broker list and cursor, two "trying" flags, transport cycle, version index, delays, status, two files | one session after another; fall back to another transport, version, broker; wait; stop | 20 session endings × flags that live in two nested loops; a cursor into a list another function frees; `uint8_t`/`uint16_t` counters | the cursor is valid; the flags tell the truth; delays bounded; the oldest version over TCP only; the configured server is retried; a stop ends it |
| Broker redirection (`tsp_redirect.c`) | the list, the broker-list file | parse, sort by distance, format, read and write the file | partial failure of allocations, threads and files; address types the file loses | what is returned has every broker once, the reachable ones first; what goes in the file comes out usable |
| TSP session (`tsp_client.c`, `tsp_cap.c`, `tsp_auth*.c`) | socket, capabilities, progress of the authentication, offered tunnel, `conf->client_v4`, key file, last-server file | connect, capabilities, authenticate, negotiate, set up, tear down | an error at each step; a closed connection that looks like an answer; a file whose writes nobody checks; the socket closed on several paths; redirect at three places; configuration overwritten | a tunnel only if the server accepted the client and offered one; each status tells how far the session came; the socket is released; keys stay pinned |
| Reliable UDP (`G/gogoc-tsp/src/net/net_rudp.c`) | one global engine: cached address, sequence, retries, rto, back-off; the socket | connect, exchange, close | loss, delay, duplicates, reordering; errors at every call; global state shared by exchanges | an exchange returns its own answer or fails, in bounded time |
| Other transports (`net_tcp*.c`, `net_udp.c`, `net_rudp6.c`, `tsp_net.c`) | a socket | connect, send, receive, framing by Content-length | short reads | the caller gets whole answers |
| Tunnel loop and lease (`tsp_tun_mgt.c`, `tsp_lease.c`) | status, stop flag, lease expiry | start keepalive, poll, stop | ends for four reasons, some at once | ends for each of them, after the thread |
| Keepalive and echo engine (`net_ka.c`, `icmp_echo_engine.c`) | `ka_status`, `eng_ongoing`, a sorted list of echo events, counts | send an echo each interval, match replies, time out | a second thread without a lock; late replies; signals; a list that breaks when out of order | a dead tunnel is found in time, and only a dead one |
| Echo-request distances (`net_echo_request.c`) | one thread for each broker; arguments and list on the heap | create, measure, join | a thread that cannot be created or joined, while others run; silent brokers | nobody uses freed memory; every thread ends |
| Android tunnel loop (`G/gogoc-tsp/platform/android/tsp_tun.c`) | `g_pipefd`, the pipe | forward packets; `TunStop()` from another thread | the descriptor is tested, written and closed by two threads without a lock | a stop always wakes the loop |
| Android platform layer (`tsp_local.c`) | `indSigHUP` | wait or stop, start the tunnel | the flag is polled | see above |
| JNI bridge (`jni/gogoc-jni.c`) | `g_env`, `g_builder`, the service's method ids | startup, main, shutdown, ask | globals shared by successive clients | one client at a time |
| Service (`src/org/nklog/gogoc/GogocService.java`) | thread, answer, condition, status | start, quit, status, answer | the thread is forgotten before it ended; a condition signalled before it is waited on | a quit ends the client |
| Activity (`GogocActivity.java`) | dialogs | start, stop, answer | — | the answer is the button |
| Configuration (`config.c`, `cli.c`) | `tConf` | read, convert, override by the command line | a C++ object that outlives the calls that failed; conversions to narrower types | what is used is what the file says, and makes sense as a whole |
| Configuration library (`gogoc-config`) | names and values, the lines of the file, the set of errors, `valid` | initialise, load, save, cancel, set and get, validate; the same for a device map | files half written, malformed or changed meanwhile; defaults that stand for missing values; rules over several variables | what is saved is read back; errors are not forgotten |
| GUI messaging (`gogoc-messaging`) | on each side: manager, sender and receiver thread, queue, semaphore, mutex, one end of a pipe | connect, post, cut into packets, write, read, put together, translate, answer; reconnect | two processes with a blocking pipe each way; threads that are terminated with a lock held; a queue without a lock | messages arrive whole, in order, once; no deadlock; queues empty |
| Tunnel set-up (`tsp_setup.c`, `platform/*/tsp_local.c`) | environment, script path, tunnel device, child process, interfaces and prefixes of the system | set up and tear down by a script, loop, hang up | each platform orders its stages and error paths in its own way; children, scripts and daemons that outlive the client; deletions that fail unseen | the teardown is about all the set-up did; the device goes with the client; a hangup ends it |
| Logging, buffers, deque, base64, MD5, XML, DNS, platform abstraction | own data | pure, or I/O | — | the deque and the growing buffer keep what was put in |

`PROJECT.json` lists each of these with its files and its state of coverage, and every hazard of the
code at its line with the properties that would catch it.

## 2. Modules

| module | models | source it stands for |
|---|---|---|
| `TspMain` | the connection loop, with the redirection list it walks | `tspMain()`, `FormatBrokerListAddr()`, the broker-list file of `tsp_redirect.c`, `parse_addr_port()`, `tspCheckForStopOrWait()` |
| `GogocStatus` | the statuses a session returns, in classes | `gogoc_status.h`, the switch of `tspMain()` |
| `Session` | what the connection loop relies on in `tspSetupTunnel()` (abstract) | `tspMain()`, `tspSetupTunnel()` |
| `TspSession` | a session, from `tspConnect()` to the closed socket | `tspSetupTunnel()`, `tspTunnelNegotiation()`, `tspUpdateSourceAddr()`, `tsp_cap.c`, `tsp_auth.c`, `tsp_auth_passdss.c`, parts of `tsp_net.c`, `net_tcp.c`, `tsp_redirect.c`, Android's `tspStartLocal()` |
| `RequestReply` | what a session relies on in `nt->netsendrecv()` (abstract) | `tsp_net.h`, `tsp_net.c` |
| `Rudp` | the reliable-UDP engine, the network and the server | `net_rudp.c`, `net_rudp.h` |
| `Redirection` | a redirection message, its list, and the threads that measure the brokers | `tsp_redirect.c`, `net_echo_request.c` |
| `KeepAlive` | tunnel loop (main thread) and echo engine (keepalive thread) | `tsp_tun_mgt.c`, `tsp_lease.c`, `net_ka.c`, `icmp_echo_engine.c` |
| `AndroidClient` | service, activity, JNI bridge, native threads, Android tunnel loop | `GogocService.java`, `GogocActivity.java`, `gogoc-jni.c`, `tsp_local.c`, `tsp_tun.c` |
| `LocalSetup` | between a negotiated tunnel and its end, on seven other platforms | `tsp_setup.c`, `platform/*/tsp_local.c`, `tsp_tun.c` of these, `unix-main.c`, `haccess-platform.c` |
| `NameValueFile` | the parser and its file, the base class of a configuration | `namevalueparser.cc`, `namevalueconfig.cc` |
| `ConfigData` | the variables: validation, defaults, rules, conversion to C | `gogocvalidation.cc`, `gogocconfig.cc`, `gogoc_c_wrapper.cc` |
| `GogocConfig` | the programs that use these files | `config.c` (with Android's own parser), `cli.c`, `gogocconfig.cc`, `haccessdevicemappingconfig.cc` |
| `MessageFormat` | the layout of the messages in a buffer | the message senders and translators of `gogoc-messaging` |
| `Channel` | what the messaging library promises (abstract) | — |
| `Messaging` | the two processes, their threads, the pipe between them | `communicationsmgr.cc`, `servent.cc`, `messagesender.cc`, `windows/`, `gogocmessaging.cc` |
| `MC*` | instances for TLC | — |
| `*Proofs` | inductive invariants and theorems; `UserInterfaceProofs` those of `AndroidClient` and of `Messaging`, gogoc and the programs its user sees; `GogocConfigProofs` those of the configuration modules | — |

How they fit together: `TspMain` takes a session as one step; `TspSession` implements `Session`,
which says what such a step may return, over `RequestReply`, which `Rudp` implements. The list
`TspMain` gets from a redirection comes from `Redirection`. What `TspSession` and `TspMain` read in
`conf` is what `GogocConfig` makes of the files. `TspSession` ends in the tunnel loop: `AndroidClient`
on Android, `LocalSetup` and `KeepAlive` elsewhere. `Messaging` carries the status `TspMain`
publishes.

### TspMain

`pc` is where `tspMain()` is: `start` (before the outer loop), `top` (the test of the inner loop),
`setup` (inside `tspSetupTunnel()`), `wait` (the block after the switch), `sleep` and `outersleep`
(the two waits), `end` (the label `endtspc`), `done`. The other variables keep the names of the C
variables. Each `case` of the switch on the session's status is an action, and so is each branch of
the long `FAIL_SOCKET_CONNECT` case: `ConnectFailedBoot`, `ConnectFailedQuick`, `ConnectFailedLast`,
`OriginalFailedNoList`, `OriginalFailedReadList`, `ListEnd`, `ListNext` and `NeitherFlag`. Actions
follow the code's order: what the case does to the list, the status and the flags is one step, the
wait that may follow another.

- The C list is a sequence; `current_broker_in_list` is an index in it, `Null`, or `Dangling` once
  the list it points into was freed. The order after `tspSortBrokerList()` depends on measured
  distances: any permutation, which is what `Redirection` says of the list (`ReachableFirst`: every
  broker of the message, once) when the distances are not known.
- A server text is an address with or without brackets: this is what tells an IPv6 literal that
  `parse_addr_port()` reads correctly from one that it cuts.
- Files and allocations may fail (`WrittenFiles`, `MallocMayFail`).
- A session (`SessionReturns`) is one step that returns any status; a server that does not parse
  returns only the statuses of a server that was not reached. Once a tunnel is negotiated the
  last-server file may have been written. `Restart` runs the program again with its files.
- `broker_list` is not reset by `OuterLoop`, `trying_original_server` neither; the locals of the
  do-while body (`trying_broker_list`, `current`, `cycle`, ...) are. The code is like that, and it
  matters (finding 1).

`TspMain` has the modes of a build with `V4V6_SUPPORT` (FreeBSD's); the Android build is the part
without V4V6.

### TspSession and Session

`pc` is where `tspSetupTunnel()` is. Each call of the transport is two steps, the call and what comes
back, so that everything that can come back is a different action: the answer that was asked for,
another answer (`...Refused`, `AuthRejected`, `AuthUnreadable`), an error (`...Fail`, `...Fails`) and,
over TCP, the closed connection (`...Closed`, `AnswerCut`). The transport is an instance of
`RequestReply` over the variables `phase`, `call`, `result`.

- *A closed connection is not an error to the code.* `recv()` returns 0, which only `tspSendRecv()`
  tests for. `tspGetCapabilities()` finds no known status; ANONYMOUS and PLAIN read a status from a
  buffer they never initialised (any verdict, success included); DIGEST and PASSDSS look for
  fields that are not there and the process dies. An answer that ends before `Content-length` bytes
  returns `PROTOCOL_ERROR`, which is 1 and passes for a success (`AnswerCut`).
- *`netsend`.* Over RUDP it is an exchange whose answer is thrown away; over TCP it only writes. This
  is why `AuthSend` and `Acknowledge` look at the transport.
- *Tunnel.* `Negotiated` takes the type of the tunnel from the answer, any of `Types`, as the code does: it
  is never compared with the mode that was asked for or with the capability. `StartLocal` dispatches on
  it: V4V6 fails, a type it does not know starts nothing and is a success.
- *Keys.* `is_dsakey_in_keyfile()` lets the last line of a host decide. `AddedKey` is the set of
  outcomes of `add_dsakey_to_keyfile()`; the key is added before the signature is verified, and
  neither `fprintf()` nor `fclose()` is looked at: `Appended` has the outcomes of a full disk, where nothing or
  part of the line is in the file and the key is accepted all the same. `torn` is what stands after the
  file's last newline, which `freadline()` does not see and the next line is joined to (`WithLine`); a
  cut key on a line of its own ends the process that looks for it (`KeyUnreadable`). `spoiled` says that this
  session's own line was cut or joined.
- *Address.* `clientAddr` is `conf->client_v4`, which `tspUpdateSourceAddr()` overwrites, and
  which only a new process reads again.
- *Sockets.* `closes` counts calls of `nt->netclose()` in a session: after a V6UDPV4 tunnel there are
  two.
- `srv` is what the server did, for the properties; no guard of the client reads it.

`Session` has a stage (`idle`, `unreached`, `reached`, `negotiated`), the server, the status returned
and the last-server file. It says which statuses each stage may end with, in the classes `TspMain`
uses: `TspSession` implements it with `stage` computed from `srv` and `pc` (`ImplementsSession`). This is
what justifies `SessionReturns` of `TspMain`: a session returns one of `AllStatuses`, a status of
`UnreachedStatuses` only when no listener answered, and the last-server file changes only after a
tunnel was negotiated.

### Rudp and RequestReply

`pc` says where the one thread that uses the engine is. `engine` is the global `rttengine_stats`; it
survives exchanges, failures of `connect()`, and is reset by `rttengine_init()` only when
`initiated` is false. `net` is the set of datagrams under way, which are delivered in any order,
lost, or kept after a delivery (a duplicate). A datagram carries its sequence number and, unseen by
the client, the number of the call it belongs to: this is what "its own answer" means.

Time: ticks, `HZ` to a second. `select()` on Linux leaves the time that remains in its argument;
the code then subtracts the seconds between two `gettimeofday()`, which depend on the sub-second
part `beg` of the first: `RemainingTime`. The estimator (`srtt`, `rttvar`) is abstracted to the
range `internal_get_adjusted_rto()` gives its result.

`RequestReply` has a phase, the number of the last call and the number of the call whose answer was
returned last. `Rudp` implements it under
`phase <- (pc with the two steps of an exchange mapped to "waiting")`, `call <- call`,
`result <- result`. `TspSession` uses `RequestReply`, not `Rudp`.

### KeepAlive

`mpc` is where `tspPerformTunnelLoop()` is (its calls of `KA_init()`, `KA_start()`, `KA_stop()`,
`KA_qry_status()`, `KA_destroy()` opened up), `tpc` where `IEE_process()` is in its two nested
loops. The threads share `ka_status`, `eng_ongoing` and the socket without a lock: each access to
one of them is a step of its own. `event_list` is the code's linked list, and
`_insert_echo_event()` is modelled with what it really does before an element due later (it links
the two to each other). A reply may come at any age up to `EchoLife`.

Time passes while the keepalive thread waits (`Tick`); what the thread does between two waits takes
no tick. An event of the list carries the ticks left to it (`left`); requests are numbered modulo
`SeqRange`, the code's 2^16. `MarkOngoing`, two instructions after the creation of a thread that first sleeps a whole
interval, comes before the first tick. Without these two assumptions no bound on time, and not even
`OutcomeKept`, would hold of any program.

### Redirection

`pc` is where `tspHandleRedirect()` is, in the main thread (`Main`: extract and build the list,
allocate, create the threads, join them, sort, write the file, or an error at each of them);
`tpc[i]` where the thread for broker `i` is in `net_echo_request_thread` (resolve, connect, send,
select, store). `memory` says which of the two heap blocks the threads use is allocated: the
arguments, which the main thread frees after the join, and the list, which its caller frees after an
error. `Needs(i)` is what thread `i` reads or writes next; `Crash(i)` is an access to what is no
longer there. When a thread cannot be created or joined the code frees the arguments and leaves the
threads running: so does the model.

A distance is in ticks and measured from the last transmission, whichever one the answer is to;
a time-out, an error and a wrong address family add their adjustments. `tspSortBrokerList()` is the
code's insertion, a fold. The limit on
attempts is a test for equality, as in the code.

### AndroidClient

The service's main thread (`main`: idle, or inside `stopProcess()` and `TunStop()`), the native
threads (`pc[t]`), the pipe of each tunnel loop (`tunPipe[t]`) and the global `g_pipefd`. `TunStop()` is three steps
(set the flag, test the descriptor, write), the end of the tunnel loop three (close the write end,
forget it, close the read end). The question path follows `tspAskV()` to `Service.ask()`, the
activity's dialog, the answer intent and the condition variable. An answer may be one to an earlier
question, as in the code; no property speaks of what was answered. The connection loop is reduced to
what the other threads see: it looks at the stop flag between sessions.

### LocalSetup

Seven platforms have a `tspStartLocal()` of their own, written after one pattern. What tells them
apart is which stages there are, in which order, and where a failure of each goes: this is a table for
each platform (`Linux`, `NetBSD`, `GogoCPE`, ...), and `pc` is the stage. The stages are actions,
whose outcome moves along the table. So a wrong jump in one platform's function is a wrong entry of
its table.

- *Processes.* gogoc, the child it forks to run the template script (`jobs["child"]`), the script
  gogocpe runs in its own process (`jobs["client"]`), and one a killed process has left behind
  (`jobs["orphan"]`). Each has an environment and the static buffer of `get_template_script()`;
  gogoc's own survive from tunnel to tunnel, the child's are copies.
- *System.* `net` is what scripts have configured: an address for a type of tunnel and, on a router, the
  address of a prefix on the home interface and the daemons that advertise it;
  the interface of a `v6udpv4` tunnel goes when the last process closes the device (`holds`, `tunfd`, `held`).
- *Scripts.* `Configures` is what a platform's script configures for an environment, in order, one step each;
  `Configured` adds what each step may do besides: remove old addresses that begin like the client's (`Alike`),
  or start no daemon and not notice. `Removes` is what a teardown tries to remove; any part of it is
  removed, since the scripts look at few of their deletions and end early at those. `gogocpe.sh` sets up
  `$TSP_PREFIX::1` and takes down an address that begins like `$TSP_CLIENT_ADDRESS_IPV6`: `Overlooked` is where
  these are not the same.
- *Daemons.* On gogocpe the script runs in gogoc's own process and `/dev/net/tun` is not closed on exec:
  `held` says that radvd or dibbler-server has it, until they are stopped.
- *Faults.* Every stage may fail, a script may fail after any of its steps, gogoc or its child may be
  killed at any time, SIGHUP comes at any time.
- *gogocpe.* `haccess` is the hiding of devices, with its condition variable, the wait with a
  time-out and the DDNS thread.

### NameValueFile, ConfigData and GogocConfig

A file is a sequence of lines, a line a record of its form, the spaces before it, and the two texts around its
first `=`. What a line is, a name with its value, a comment or nothing, is decided when it is read, by its
first character after the spaces (`HasName`, `Entry`): a name such as a tab and `# x`, which loses the tab when it
is stored, is written as `# x=` and is a comment to the next reader.
A text is opaque; what the code can tell of it (length, character classes, its first character, the number
`strtol()` reads, whether it is a directory or an address, the text without blanks) is in the constant `Facts`. A
text has no newline in it, though a directory's name and the rest of a log level, which nothing looks at, might.
`NameValueFile` is the parser, which keeps all lines and a map from names to values, and writes
them back. Its pointer into the line buffer is moved over the spaces of each line and never moved back: `Overruns` says
when a later line is read past the buffer's end, which `Readings` has end the process or do no harm. `ConfigData` has the accessors: validation of each variable, the default that stands for
a missing value, the rules over several variables in the order of `ValidateConfigData()`, and the
conversions of the C wrapper (numbers narrowed to `short`, so that a prefix length of 65600 is a 64).

`GogocConfig` puts the programs around them: gogoc, which reads at each start (`tspInitialize`) through
the C wrapper's global object; an editor that uses the C++ class; the device map, another class over
the same base; and people who edit or remove the files. Reading is one step, writing two (the
truncation by the open, then the rest), so that others find half a file; the disk may be full, which
the writer does not notice, and a process may be killed. `cast` says which of these take part and
how often each acts: this bounds the runs.

### MessageFormat, Messaging and Channel

A buffer is a sequence of cells, one for each character, integer or terminator: what matters is where
one field ends. `MessageFormat` has the senders that lay out a message and the translators that take
it apart, `BuildBrokerList()` with its wrong offset included.

`Messaging` (`MessagingInit`, `MessagingNext`, `MessagingSpec`) runs both processes. For each: `mpc`, the manager thread, which connects, starts the
other two, finds out that one has ended and reconnects; `spc`, the sender, which waits on the
semaphore, takes a message, waits until nothing is coming in, locks, writes a packet; `rpc`, the receiver,
which polls, locks, reads, puts the message together, calls the translator, and, in gogoc, posts the
answer; and `post`, the posting threads, whose push on the queue and release of the semaphore are two
steps. Nothing guards the queue: of two pushes at once one may be lost, of a push and the sender's `pop()` either
the push is lost or the queue counts a message too many, whose place holds freed memory (`SenderPopsMidPush`).
`raced` remembers that this has happened, or that a post met the `Reset()` of a reconnection. `pipe` holds the packets one side has written and the other not yet read; a write to a full one
blocks. Faults: a lost connection, a manager that terminates a thread which does not stop in time (the
mutex may then be lost), a thread that is not created, which nobody asks after, a wait that runs into its 15 seconds, a killed user interface. The
blocks in which a `std::queue` grows are abstracted: what a race may do to them is the message lost or left over. Only
`windows/` has a pipe; the files under `linux/` are an `#error` or stubs, so this is the one program
that can be built.

`Channel` is what the two programs are promised: in each direction, what is delivered is a prefix of
what was accepted, and a reconnection starts both anew. `Messaging` implements it with
`accepted <- AllLegible(sent)`, `delivered <- AllLegible(got)`, where `AllLegible` leaves out the one
field the format loses.

## 3. Runs

| run | instance | shows |
|---|---|---|
| `main` | `MCTspMain`: four configurations that between them have every tunnel mode, booting, no auto-retry, the last server, delays 0 to the cap; brokers of both address families; lists of 1 to 3 with `MaxList` 2; `UINT8` 4; failing allocations; one fatal status of each kind and all the others | `TypeOK`, `ListCursorValid`, `OriginalFlagTruthful`, `OldestVersionOverTcp`: 2.6 million states |
| `main_live` | four configurations (one transport; booting with two; the last server without auto-retry; two transports, no list file); one status of each way the loop goes on after a session, fatal ones, a refused version and a lost keepalive among them; failing allocations; `UINT8` 2 | `StopEnds`, `OriginalRetried`: 285,590 states |
| `session` | `MCTspSession`: two good servers and one that does not parse, two addresses of the host, two keys, key files empty or with one key and part of another line; four configurations with every mode and method; capabilities with everything, PLAIN only, and no tunnel; two sessions | `TypeOK`, `TunnelAgreed`, `SocketReleased`, `KeyPinned` and the refinement `ImplementsSession`: 3.9 million states |
| `rudp` | two hosts, two calls, two duplicates, TMIN 1 s, TMAX 2 s, `HZ` 2, MAXRTT 3, MAXRT 8 | `TypeOK`, `RetriesCountThisRequest`, `WaitNeverExtended`, `CacheDiesWithEngine`, the refinement `ImplementsRequestReply`, and `ExchangeEnds` |
| `redirect` | `MCRedirection`: messages of no broker, one, two, three of mixed types, and four with `MaxList` 3; a mode of either address family; 2 attempts, time-out 1 tick | `ThreadsKeepMemory`, `ReachableFirst`, `RedirectionEnds`: 138,092 states |
| `keepalive` | (interval, time-out, threshold) = (3,2,2), (2,3,3) with a lease, (2,5,2); sequence numbers modulo 4, replies up to 4 ticks after their request (late for the first two), one signal | `TypeOK`, `EngineOutlivesThread`, `OutcomeKept`, `EventListSound`, `TimeoutEarned`, `DeadTunnelFound`, `LoopEnds` |
| `android` | two native threads one after the other, two questions | `TypeOK`, `PipeOfClient`, `StopEndsClient` |
| `setup` | `MCLocalSetup`: all seven platforms; router and host, no root, no template script, both kinds of HACCESS; tunnels of every type, with and without prefix, one of them alike, DNS server, valid parameters, keepalive; two tunnels and two starts | `DeviceFollowsClient`, `TeardownUndoesSetup`, `HangupEndsClient`: 583,777 states |
| `config` | `MCGogocConfig`: 19 configuration files, some valid, each other with one thing or two wrong; three default files, two device maps; six casts (gogoc alone, with two command lines, beside an editor, the device map, Android's parser) | `UsedConfigConsistent`, `SavedIsReadBack`, `NoStaleSuccess`: 102,049 states |
| `messaging` | `MCMessaging`: packets of 4 cells, a pipe of 12, a queue of 1, sequence numbers modulo 2; gogoc posts one status, the interface two messages, a request that is answered by a list of two brokers (two packets) among them; two connections; posts and faults together three, one of them a fault at most | `NoMutualBlock`, `AssertionHolds`, the refinement `ImplementsChannel`, `QueueServed`: 233,421 states |
| `main_stuck`, `android_one` | the models of `main` and `android` | each refutes one statement of a comment: section 6 |

Why the bounds are enough:

- *Lists.* The code treats the first element (redirection), a middle one (next) and the last (end of
  list) differently; lists of two reach all three, and messages of three exceed `MaxList`
  (`MAX_REDIRECT_BROKERS_IN_LIST`), the error path. The proofs hold for any.
- *`UINT8`.* `consec_retry` is compared with 0 and taken modulo 3; the range 4 makes it wrap in a few
  rounds, at a multiple of the doubling or off it, as 256 does. The proofs hold for any range from 2.
- *TspSession.* Sessions share only the files, `clientAddr` and a connection that a session leaves
  closed: two sessions are enough for each to find what another left (a key, an address, a last
  server), and `Restart` may come between. Two keys and servers are a match, a mismatch and an
  unknown host. The proofs hold for any.
- *Rudp.* Two calls are needed for a late answer to an earlier request, and two duplicates for two of
  them; two hosts for the wrong address in the cache; `HZ` 2 for an `rto` with a fraction; MAXRT 8
  against MAXRTT 3 keeps the code's 3 and lets the back-off reach TMAX. `MaxCalls` also bounds the
  sequence number, which the code never lets wrap within a connection.
- *Redirection.* Three threads are one that ends before, one during and one after another's creation
  or join; the insertion puts the third at the front, in the middle or at the end. With one tick, a
  measured distance is below the adjustments of an error (2) and of a family (3), as 10 s against 20 s and
  30 s. Two attempts are a first and a last one. The safety properties are proved for any.
- *KeepAlive.* The default parameters (30 s, 5 s) have a time-out shorter than the interval, where at
  most one event is in the list; (2,5,2) has three, and (2,3,3) two. Sequence numbers modulo 4 are
  more than the events a list can hold (`NumbersAssumption`), as in the code (65536). The two time bounds are tight: one
  tick less and TLC finds a state beyond them. All but liveness is proved for any.
- *AndroidClient.* Two threads are a start, a stop and a second start; the second question exists so
  that an answer can come late to the first. The proofs hold for any number of threads.
- *main_live.* `LoopStatuses` has one status for each way the loop goes on after a session, so that the version
  fallback, the outer loop's sleep and the flags it forgets are all reached; what tells other statuses apart is only the log.
- *LocalSetup.* Two tunnels in one process are what a stale prefix, environment or path buffer takes;
  two starts what a script left behind takes. A third adds nothing: what survives a tunnel is one
  environment, one buffer and `net`, which the second already finds in every state the first can
  leave. There is room for one orphan: a process is not killed a second time while its first orphan
  runs. Of the two prefixes one begins like the client's address, which is all `gogocpe.sh` can tell.
- *GogocConfig.* The rules relate two variables at most, so files with one or two lines beside the
  valid ones reach every combination a rule tells apart. The device map shares no file with the
  others, and Android's build has only gogoc: separate casts lose no interleaving. Four editor
  calls are open, set, save and a second save, or a load between them. One value is too long for a line, one name begins
  with a tab and a `#`, one line with a `=`, one with as many spaces as the buffer is long.
- *Messaging.* A list takes two packets and fits into the pipe once (`PipeAssumption`, which the
  comment on `PIPE_BUFSIZ` claims for every message), not twice; so do two messages of the
  interface: this is what can block both senders, which takes the request, its answer and two other messages: all
  three posts. A fault leaves two posts, of either side. A queue of one is full with one post waiting; two threads can
  still push at once, or one while the sender pops, since the size is read before the push. Two connections are what a stale packet, buffer
  or sequence number takes.
- `CHECK_DEADLOCK FALSE` in all runs but `main`, `main_live`, `main_stuck` and `rudp`: a handled
  redirection, a returned tunnel loop, an application whose threads are used up, or a program that has
  had its sessions, starts or calls, stops.

Each property has a mutant in `PROJECT.json`: a changed definition (beside the original, marked
"Mutant") under which TLC finds that property violated.

## 4. Fairness

- `TspMain`: `WF(LoopStep)`, since `tspMain()` never blocks between two sessions, and
  `WF(SessionStep)`, every session ends. The second is an assumption on the environment in one place: the exchanges of RUDP
  have time limits (`ExchangeEnds`), a tunnel loop ends on a stop (`LoopEnds`, `StopEndsClient`), but
  `recv()` on TCP has no time-out, so there the server must answer or close. No fairness is put on
  any particular status: `OriginalRetried` assumes instead, in its left side, that from some time on
  nothing can be connected to. Its right side leaves out `always_use_same_server`, which asks for the last server, and
  `Stranded`, the client a fatal status has left at a broker of a list: there the loop does stay at that broker, which is
  finding 1, refuted by `main_stuck`.
- `Rudp`: the client's own steps (`WF(Send \/ GiveUp)`), time (`WF(Tick)`), and the wake-up of
  `select()` when its time-out is over or negative. Nothing is assumed of the network or the server.
- `Redirection`: `WF(Main)` and `WF` of each thread, in one formula for all its steps: every socket call
  of a thread has a time-out, so `select` ends by an answer or by its time; which of them is not
  assumed. The main thread waits only in the join.
- `KeepAlive`: both threads are scheduled and time passes. Nothing is assumed of the network, of the
  user or of the lease.
- `AndroidClient`: the main thread finishes a `TunStop()` it began and every native thread runs.
  Nobody has to press a button, no packet and no answer has to come.
- `LocalSetup`: `WF` for each process, gogoc with the script it runs itself, the child or the one left behind with
  theirs: each goes on, and a script ends, one way or the other. Nothing is assumed of the
  DDNS thread, which a hangup may end: the wait for it has a time-out. A tunnel loop sees a hangup
  at the next packet or keepalive; without keepalive the `select()` of Linux is a week long, which the
  fairness takes for a wait that ends, unless the signal interrupts it as it mostly does.
- `Messaging`: every thread runs on; a wait for a mutex runs into its time-out for certain only if the
  mutex is lost, since the library's semaphores are not fair but their holders go on.
- `GogocConfig`: no liveness is stated, and no fairness.

## 5. Proofs

| theorem (module) | states | rests on |
|---|---|---|
| `TypeCorrect`, `CursorAlwaysValid`, `OriginalFlagAlwaysTruthful`, `DelayAlwaysBounded`, `OldestVersionAlwaysOverTcp` (`TspMainProofs`) | the properties of `main` and the bound of the delays, for every configuration the validation accepts, any addresses, lists, files, and any range of `consec_retry` | `ConfsAssumption`, `AddrsAssumption`, `ListsAssumption` |
| `TypeCorrect`, `TunnelIsAgreed`, `SocketIsReleased`, `KeyIsPinned`, `Implements` (`TspSessionProofs`) | the four invariants of `session` and the refinement of `Session`, for any configurations, servers, capabilities, tunnel types offered, keys, key files without a duplicate host and cut anywhere, and any number of sessions | `SessionAssumption` |
| `TypeCorrect`, `RetriesAlwaysCount`, `SendsAlwaysBounded`, `WaitNeverIsExtended`, `CacheAlwaysDies`, `Implements` (`RudpProofs`) | the safety properties of `rudp`, the bound on transmissions and the refinement of `RequestReply`, for any hosts, any limits with MAXRTT < MAXRT, any clock resolution, any number of calls and duplicates | `RudpAssumption` |
| `TypeCorrect`, `ThreadsAlwaysKeepMemory`, `ReachableAlwaysFirst` (`RedirectionProofs`) | that no thread uses freed memory, unless creating or joining a thread failed, and that the list handed over is the message's, sorted, for any messages, lists, attempts and time-out | `RedirectionAssumption` |
| `TypeCorrect`, `PipeIsOfClient`, `StopIsNeverSleptThrough` (`UserInterfaceProofs`) | the safety properties of `android`, for any set of native threads, as long as no two clients overlap (`~mixed`) | `ThreadsAssumption` |
| `EngineAlwaysOutlivesThread`, `OutcomeAlwaysKept` (`KeepAliveProofs`) | two properties of `keepalive`, for any interval, time-out, threshold and number of signals | `KeepAliveAssumption` |
| `TypeCorrect`, `EventListAlwaysSound`, `TimeoutAlwaysEarned`, `DeadTunnelAlwaysFound` (`KeepAliveProofs`) | the other four, with both time bounds, for any interval, time-out, threshold, range of sequence numbers and age of replies | `KeepAliveAssumption`, `NumbersAssumption` |
| `DeviceAlwaysFollowsClient`, `TeardownAlwaysUndoesSetup` (`LocalSetupProofs`) | the safety properties of `setup`, for any tunnels, prefixes and configurations, the platforms' own scripts with any step failing, any number of tunnels and starts | `PlatformsAssumption` |
| `ConfigAlwaysConsistent`, `SuccessIsNeverStale` (`GogocConfigProofs`) | two properties of `config`, for any files, default files, edits, command lines and interleaving of gogoc with the editor and the device map | `DefaultDelays` |
| `SavedIsAlwaysReadBack` (`GogocConfigProofs`) | the third, for any files and default files, cut off anywhere, any values and mappings, where no line is too long; names that begin with a `#` excepted | `TextsAssumption`, `NamesAssumption`, `TrimIdempotent` |
| `AssertionAlwaysHolds`, `NeverMutuallyBlocked` (`UserInterfaceProofs`) | two properties of `messaging`, for any messages and answers, any sizes of packets, pipe and queue, any number of posts, connections and faults | `SizesAssumption`, `MessagesAssumption`, `PipeAssumption` |
| `ChannelImplemented` (`UserInterfaceProofs`) | the refinement of `Channel` by `Messaging`, for the same instances: what a handler is given is what the other side sent, in order and once, as the format keeps it | `SizesAssumption`, `MessagesAssumption`, `Distinct`, `AnswersAssumption`, `SentAssumption` |

The assumptions say what the code fixes: the limits and time constants are positive and in the
order the headers give them (`RudpAssumption`, `KeepAliveAssumption`, `RedirectionAssumption`,
`SizesAssumption`), `Platforms` names platforms of which `Stages` has the table, `Facts` has
of the texts of the two default delays what `strtol()` makes of them (`DefaultDelays`: 30 and 300,
`gogocconfig.cc`), a file is a finite sequence of lines (`TextsAssumption`), the editor sets variables, whose
names have no blanks around them and begin no comment, and a device's valid name is made of letters, digits
and `-` (`NamesAssumption`, `CHRS_DEVICENAME`), a message is a finite sequence that begins with its header
(`MessagesAssumption`), a message is laid out by the function that sends its kind, from information of the types
of `gogocmsgdata.h` (`SentAssumption`), gogoc answers requests only (`AnswersAssumption`), and any message fits into an empty pipe (`PipeAssumption`). The last is not
proved of the code: it is what the comment on `PIPE_BUFSIZ` claims, and `NoMutualBlock` fails without it,
since a message larger than the pipe is written only as it is read.

Three theorems state what no run asks: `DelayAlwaysBounded`, `SendsAlwaysBounded` and
`StopIsNeverSleptThrough`.

The inductive invariants, each called `IInv` (`TInv` for the times of `KeepAlive`, `ConfigIInv` for
`GogocConfig`):

- *TspMain.* The properties alone are not inductive. `OldestVersionOverTcp` speaks of the moment a
  session starts, but what makes it true happened a session earlier: a refused 2.0.0 sets `cycle` to
  1 while `tsp_version_fallback` waits to be read. `FallbackMovesCycle` says where the flag may be
  set and that the cycle has moved then. `OriginalFlagTruthful` needs `StartsFromConfig`, since
  `Start` sets the flag without looking at the server.
- *TspSession.* `TypeOK /\ Discipline`, whose parts say what holds at each point of
  `tspSetupTunnel()`: `Socket` (the connection is open exactly between `Connect` and the closes, and how many
  closes there were), `Progress` (how far the server has gone along, and which statuses may be returned), `Method` (the method is
  one of the common ones, its step within its messages), `Granted` (what has been granted at the
  points after the authentication: this is where the closed connection of ANONYMOUS and PLAIN has to
  be followed to the point where it must fail), `Pinned` (the key file has one line for each host, the one torn at its end
  included, and the key of a session that passed `CheckKey` is the one in it, unless its own line was cut or joined), `OldestOverTcp` (so that no
  acknowledgement is skipped over RUDP). The refinement
  follows from `Progress` and `Granted`, one lemma for each group of actions.
- *Rudp.* `SendsBounded` needs to know that the test for equality with MAXRTT and MAXRT cannot be
  jumped over: `RetriesRoom` says that the counter is below its limit whenever a transmission is
  pending, and 0 in an engine that was kept after a failed `connect()`. The refinement needs
  `NetBehind`: no datagram is ahead of the last request, and those with its sequence number belong
  to it; when the engine is re-initiated and numbers start again, the network of the old port is
  empty.
- *Redirection.* `Progress` says which threads exist and which have ended at each point of the main
  thread: those from `next` on are not created yet while it creates, those before `next` have ended
  while it joins, and all have where the memory is freed, unless a thread call failed. `ListKept`
  keeps the list the message's own while threads index it, `MemoryKept` says what is allocated where.
  `ReachableFirst` needs more of the threads (each writes only its own broker's status and distance, and
  the adjustments of an error and of a family are larger than any measured distance), and of
  `tspSortBrokerList()` that its insertion keeps the brokers and their order, for a list of any length.
  The library's induction theorem takes an operator, which the provers cannot instantiate; `Induction`
  states it for a set of numbers instead, and is proved from the well-foundedness of `<`. The induction
  hypothesis is then membership of a set defined for the purpose.
- *AndroidClient.* `Shapes` types the functions and sets; `OneAlive` says that unless `mixed`, at
  most one native thread is alive. `StopIsNeverSleptThrough` rests on `PipeOfClient` and on
  the order of the accesses: flag before descriptor on one side, pipe before flag on the other.
- *KeepAlive, threads.* `Stages` says which positions of the two threads go together,
  `SleepsUntilMarked` that the thread has not left its first sleep while `KA_start()` is between the creation and the
  store, `JoinedBeforeDestroy` that the loop is left only after a join or the end of a lease.
- *KeepAlive, time.* `EventListSound` says that the events of the list have different numbers and
  are in the order of their time-outs; what makes it true is when they were sent. `Queue` says
  so: the ticks left to an event are the time-out less one interval for each request sent since its
  own, and the events are at least an interval apart. Different numbers follow from this and
  `NumbersAssumption`: two events with one number would be 2^16 intervals apart, and a time-out is shorter.
  `TimeoutEarned` and `DeadTunnelFound` bound the silence at the moment the engine gives up from
  below and from above; `NotTooShort` and `NotTooLong` extend the bounds to every moment, as a
  sum of the late echoes counted so far, the events in the list and the wait that remains: an event that
  times out moves from the list to the count, a request adds an event after one interval, a reply on time
  sets the count and the silence back together. `Apart` says the same of the moment an
  event is due. Products of an interval and a number (`Span`) are kept folded, with their few facts as lemmas.

- *LocalSetup.* `DeviceHolders` says which of gogoc, its child and the scripts has a copy of the open
  device at which stage, `JobStages` who runs a script when. That the stages that may have it open lead
  only to one another, or to the one that closes it, is a property of the tables (`Sound`), one lemma for each
  platform. `DaemonHolds` adds that daemons have it only on gogocpe,
  and only while they run. `Environments` is what `TeardownUndoesSetup` takes: the environment survives a tunnel, so the items the
  setup script configured have to be tied to the environment it ran in, and that to the one the
  teardown script gets; the variables a stale environment could change are those both set. `ItemsRemoved` then compares what a script
  configures with what its teardown tries to remove.
- *GogocConfig.* The object the C wrapper keeps of a failed read is what a later call could take for a good
  one. `KeptIsUseless` says that it has no server, so that `tspInitialize()` fails before it uses it. The
  rest is the validation: that a verdict of "valid" makes the C structure consistent, the defaults of
  empty variables and the options of the command line included (`ValidIsConsistent`, `ConsistentConf`).
  `SavedIsReadBack` has an invariant of its own, `WriteIInv`: the parser and the setters keep a line for every
  variable that has a value (`SoundData`, `Writable`), but for the device map's, where `SetVariableValue()` may take a
  comment for the variable's line (`Entered`): it is the validation before the writing that removes such names.
  `ReadBack` is then about the text alone: what `Written` makes of such data, `Readings` takes
  apart to the same names and values, the names that begin with a `#` left out; written lines begin with no
  space, so that the reader's pointer stays where it is and no line runs over. `Only`, the lines that are kept, is a recursive function; `OnlyFacts` says
  what it returns, again by `Induction`. The proof is where the hypothesis on the length of lines comes from: without
  it `ReadBack` does not hold, nor the property.
- *Messaging.* `Counted` says, of each side, that the semaphore's count, the posts that have their message in the queue and
  not yet in the semaphore, and the message the sender holds are together no more than the queue's
  messages, unless a post has met another, the sender's `pop()` or a `Reset()` (`raced`). `NoMutualBlock` is about the pipe between the test and the write: a sender passes `CanRead()`
  with the mutex not held, and the other side may write in between. `OneFits` says that of two
  senders that have passed it, one has room for the whole rest of its message: the second to pass found
  the first's pipe empty, and what a sender has written and what it has left are together its message.
  `CellsOf`, how full a pipe is, is a recursive function; its two facts (a packet is appended, the first
  is taken) are again proved by `Induction`.
- *Messaging, refinement.* `ChannelIInv` adds to `IInv` the two ends of a stream. `Histories` types the
  histories, `Belongs` says that whatever waits on one side is a message of that side, `Listening` that
  gogoc has no threads left when it offers its pipe again. `Flow` is the argument: there is a sequence of messages, those the sender
  has begun to write, of which `sent` is what they are about (`Begun`); the packets in the pipe are consecutive
  pieces of that sequence (`Leads`); the receiver stands at the first of them, with the pieces of its message
  before that in its buffer (`ReaderAt`), and the writer behind the last (`WriterAt`). A packet has the number of
  its message only modulo `SeqNums`, so the receiver's check of the numbers would not do by itself; `Leads` holds
  because each connection starts with empty pipes, one thread writes and one reads.
  That a message put together is the message sent is then a matter of the layouts (`Understood`): for every kind, the
  translator takes apart what the sender laid out, one lemma for each kind and each recursive reading of a
  list, by `Induction` on its entries. Of a list of brokers the addresses come out right and the first
  distance; the wrong offset of `BuildBrokerList()` spoils only the other distances, which
  `Channel` does not see through `AllLegible`.

Only model-checked: all liveness (`StopEnds`, `OriginalRetried`, `ExchangeEnds`, `RedirectionEnds`, `LoopEnds`,
`StopEndsClient`, `HangupEndsClient`, `QueueServed`), which is beyond the prover, as is whatever needs
`ENABLED`. Every other property of a passing run has a theorem.

## 6. What the models found

Two places where the code does not do what a comment of it says. Each has a run that refutes the
statement; `PROJECT.json` quotes the lines.

1. `main_stuck`: after a broker of a list answered with a fatal status, the outer loop has forgotten
   that a list is being gone through. If that broker then cannot be connected to, the client tries
   it for ever, and neither the rest of the list nor the configured server.
2. `android_one`: a start soon after a quit runs a second client beside the first and clears the
   stop the first was to see.

Other behaviours are in the models because they are in the code, and no property asks about them, or
one excludes them by name:

- *Connection loop.* The delay that is to be doubled at every third consecutive failure never is: each
  failure to connect sets the counter back to 1. The outer loop retries after
  `DISCONNECTEDNORETRY`. An IPv6 broker read back from the broker-list file is used without brackets
  and does not parse.
- *Session.* 'auto' is replaced in the configuration by the address of the first session's socket; a
  later session on another network announces that address. The tunnel a server offers is set up whatever was
  asked for: its type is never compared with the mode or the capability, and Android's `tspStartLocal()` reports a type it
  does not know as `SUCCESS`, with no tunnel. A key is reported as added without a look at `fprintf()` and
  `fclose()`: on a full disk it is accepted though it is not in the file, or only a part of it is; a line cut short
  swallows the one added next, and once it is a line of its own the client ends by `exit(1)` when it
  meets that host again.
- *RUDP.* After a failed `socket()` or `connect()` the next connection goes to the address cached for
  the failed one, whichever broker was asked for. After a late answer the seconds `select()` has
  already taken off the time-out are subtracted again, and the exchange may fail at once
  (`WaitNeverExtended` holds: the error only ever shortens the wait).
- *Redirection.* When a thread cannot be created or joined, the others go on in freed memory. An
  answer to an earlier transmission is timed from the last one, and an answer that is not a 200 keeps
  its measured distance: such a broker may come before one that answered well.
- *Keepalive.* `KA_destroy()` without `KA_stop()` at the end of a lease (`EngineOutlivesThread`
  excludes it); the status `KEEPALIVE_ERROR`, with a second join of the same thread, for a stop that
  closes the socket just before `sendto()`.
- *Android.* The No button of the question dialog answers yes.
- *Set-up.* `TSP_PREFIX` keeps the prefix of an earlier tunnel, which the setup of a tunnel without one then
  configures, or `::1` if there never was one. The template scripts look at few of their deletions
  (`ExecNoCheck`) and exit 0; Darwin's and gogocpe's may end at one they do look at: what could not be deleted
  stays. `gogocpe.sh` adds `$TSP_PREFIX::1` to the home interface and removes an address that begins like
  `$TSP_CLIENT_ADDRESS_IPV6`, which need not be the same. Its daemons inherit the tunnel device, which is
  not closed on exec: when the script fails after starting them, when gogoc is killed or when stopping them fails, they keep the
  device, and the next `TunInit()` fails. A tunnel without a DNS server ends the
  process where `setenv()` is given NULL. A template path that could not be opened is found the next
  time. On NetBSD and SunOS a failed script is not followed by a teardown.
- *Configuration.* The C wrapper keeps the object of a failed read, and the next `initialize()` returns 0 without
  reading anything (`gogoc_c_wrapper.cc:62`). `NoStaleSuccess` holds all the same: a good object is deleted at the end of
  `tspReadConfigFile()`, and one that a failed call has left is not valid, so that its getters return empty texts and
  `tspReadConfigFile()` fails. Only a program that called `tspInitialize()` again from within itself could meet a good
  object that is stale. A line longer than the buffer makes the parser loop for ever, and
  `Save()` writes one: an interface's name, a directory or a number with leading zeros is valid in any length
  (`Validate_IfPrefix()` and others), so an editor can save a file on which gogoc then hangs; `SavedIsReadBack`
  fails in five steps without its hypothesis about long lines. A comment after a tab is a name when it is
  read, is written as `# x=` and is a comment from then on; a line `=bob` gives the name `bob`. The pointer into the line
  buffer is moved over leading spaces and never reset: after enough of them `getline()` writes past the buffer. With
  `dslite` a debug build fails the assertion at `gogocconfig.cc:571`. A number is narrowed to a `short` before it
  is compared with its bounds.
- *Messaging.* `BuildBrokerList()` reads the distance of each broker but the first at a wrong offset. Two
  posts, a post and the sender's `pop()`, or a post and a reconnection, that meet halfway lose a message, leave one
  too many in the queue, or make the sender's assertion fail.

What some properties do not catch, each at a hazard of `PROJECT.json`:

- `SocketReleased` counts the closes of a session's socket; that between the two of a V6UDPV4 tunnel the
  descriptor may be another thread's, it cannot see.
- `CacheDiesWithEngine` allows the stale address of an engine kept after a failed `connect()`.
- `EngineOutlivesThread` excludes the end of a lease. The loop of `platform/linux/tsp_tun.c` (191-224) has another such end, not in
  `KeepAlive`: on a failed read or write it destroys the engine without `KA_stop()`.
- `ThreadsKeepMemory` excludes a thread that could not be created or joined. `FileBrokers` and `WrittenFiles` have failed writes
  of the broker list, of which `ListCursorValid` only says that the loop survives them.
- `ImplementsChannel` leaves out the distances behind a list's first; `QueueServed` lost mutexes, ended threads and
  posts that met.
- `StopEndsClient` speaks of a quit that finds its client running, one client at a time.

## 7. What is not modelled, and why

- *Data.* Packets, digests and signatures (right or wrong), XML text, addresses' digits, log messages: nothing above depends on them
  but through what the models keep (brackets, sequence numbers, lengths of lists, classes of texts).
- *Estimator.* `srtt` and `rttvar` are floating point; only the range of `rto` matters to the
  properties.
- *Sequence numbers of RUDP* are unbounded; the code uses 28 bits from 240, more than a session's
  exchanges.
- *Memory exhaustion in `internal_send_recv()`*: the messages are cleared before they are tested,
  so the process dies; modelled as a close (`SendRecvNoMemory`).
- *Keepalive*: interval 0 (no thread), the ACD mode (no caller), steps of the
  system clock, a 16-bit identifier above which no reply matches. Windows XP's `net_ka_winxp.c` calls
  an API of which the repository has no part.
- *Android*: configuration screens, log view, the building of the VPN interface. The service's
  status and network-change receiver are in the plan.
- *Other platforms*: address queries; what a template script does besides configuring an address, a prefix
  and daemons (routes, name servers); `cnfchk.c` (`tspFixConfig()` has no caller); Windows' service, which needs its service manager.
- *GUI messaging on Unix*: `linux/pipeserver.cc` is an `#error` and its neighbours are empty; there is no
  behaviour to model.
- *Logging*: a mutex around formatting and output, rotation by size; no other component reads it.
- *Buffers, deque, base64, MD5, strings, platform abstraction*: data structures with one user at a time and wrappers of
  the C library.

## 8. Plan

Done, in this order: `TspMain`, `RequestReply` and `Rudp`, `AndroidClient`, `KeepAlive`, `Session` and
`TspSession` with their proofs; then `Redirection` and its proof, `MessageFormat`, `Channel` and
`Messaging`, `NameValueFile`, `ConfigData` and `GogocConfig`, `LocalSetup`, the proofs of the rest of
`KeepAlive`'s and `AndroidClient`'s invariants; then those of `GogocConfig`, `LocalSetup`, `Messaging`,
the order of `Redirection`'s list and the refinement of `Channel`. Next:

1. `TspMain` over `Session`: make the argument for `SessionReturns` formal, by giving `TspMain` a
   refinement mapping to `Session` of its own, so that both sides of the interface are proved against
   the same module.
2. `ServiceStatus`: `mStatus` and the intents of `GogocService`, with the thread that ends by itself.
3. `TspData`: the deque and the growing buffer (`deque.c`, `buffer.c`) as state machines that
   implement a sequence; `IsAddressInPrefix()` against its definition on bits.

## 9. How to run

    tlasany TspMain.tla
    tlc -workers 2 -config TspMain.cfg MCTspMain
    tlapm TspMainProofs.tla

`PROJECT.json` pairs each configuration with its module under `runs`.

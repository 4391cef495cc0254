---------------------------- MODULE Redirection ----------------------------
(***************************************************************************)
(* tspHandleRedirect(): the list of brokers a redirection message carries, *)
(* the threads that measure how far each broker is, the sorted list and    *)
(* the file it is written to (tsp_redirect.c, net_echo_request.c).         *)
(*                                                                         *)
(* One thread runs for each broker.  It reads its argument and its element *)
(* of the list, asks the broker for an echo and stores the distance in the *)
(* element; tspGetBrokerDistances() joins the threads in their order.  The *)
(* array of arguments and the list are heap memory that the main thread    *)
(* frees: memory is what is allocated of the two.                          *)
(*                                                                         *)
(* Distances are in ticks.  A thread measures from its last transmission,  *)
(* whichever of them the answer is to, so that any time up to the time-out *)
(* may be measured, and the threads need no common clock.  A datagram with *)
(* another sequence number makes select() wait for what is left of the     *)
(* time-out, which Linux keeps in its argument: nothing to model.          *)
(***************************************************************************)
EXTENDS Integers, SequencesExt

CONSTANTS
  Messages,      \* redirection messages: how many brokers of each type
  Modes,         \* the values of conf->tunnel_mode
  MaxList,       \* MAX_REDIRECT_BROKERS_IN_LIST
  Attempts,      \* ECHO_REQUEST_ATTEMPTS
  Timeout        \* ECHO_REQUEST_TIMEOUT

ErrorAdjust == Timeout * 2         \* ECHO_REQUEST_ERROR_ADJUST, ..._TIMEOUT_ADJUST
WrongFamilyAdjust == Timeout * 3   \* ECHO_REQUEST_WRONG_FAMILY_ADJUST

ASSUME RedirectionAssumption ==
  /\ Messages \subseteq [IPV4 : Nat, IPV6 : Nat, FQDN : Nat]
  /\ MaxList \in Nat \ {0} /\ Attempts \in Nat \ {0} /\ Timeout \in Nat \ {0}

VARIABLES
  tunnel_mode, message,
  pc,             \* where tspHandleRedirect() is
  ret,            \* the status it returns, that of the call that failed
  broker_list, broker_file,
  memory,         \* what is allocated: "arguments", "brokers"
  next,           \* the index t of the two loops over the threads
  tpc, retries, distance,      \* of each thread: where it is, and two locals
  socket_address_status,
  status          \* what the thread returns

main == <<pc, ret, memory, next>>
fixed == <<tunnel_mode, message>>
threads == <<tpc, retries, distance, socket_address_status, status>>
vars == <<fixed, main, broker_list, broker_file, threads>>

Slots == 1..MaxList
ThreadErrors == {"CANT_CREATE_THREAD", "CANT_WAIT_FOR_THREAD"}
OtherErrors == {"CANT_EXTRACT_PAYLOAD", "CANT_CREATE_LIST", "EMPTY_BROKER_LIST",
                "CANT_MALLOC", "CANT_ALLOCATE_MEM"}
Statuses == {"unknown", "OK", "ECHO_REQUEST_TIMEOUT", "ECHO_REQUEST_ERROR", "UNEXPECTED_REPLY"}

Count(m) == m.IPV4 + m.IPV6 + m.FQDN

\* tspCreateBrokerList(): the IPv4 brokers first, then IPv6, then the names.
tspCreateBrokerList(m) ==
  [i \in 1..Count(m) |->
     [id |-> i, distance |-> 0,
      address_type |-> IF i <= m.IPV4 THEN "IPV4"
                       ELSE IF i <= m.IPV4 + m.IPV6 THEN "IPV6" ELSE "FQDN"]]

\* tspInsertInBrokerList(): before the first element that is not nearer.
tspInsertInBrokerList(sorted, b) ==
  LET nearer(k) == \A j \in 1..k : sorted[j].distance < b.distance
      at == CHOOSE k \in 0..Len(sorted) :
              nearer(k) /\ (k < Len(sorted) => ~nearer(k + 1))
  IN InsertAt(sorted, at + 1, b)

\* tspSortBrokerList(): the elements are inserted one after the other.
tspSortBrokerList(list) ==
  LET sorted_list[k \in 0..Len(list)] ==
        IF k = 0 THEN <<>> ELSE tspInsertInBrokerList(sorted_list[k - 1], list[k])
  IN sorted_list[Len(list)]

\* getSocketAddress(): a literal has the family of its type, a name may have either.
AddressStatuses(type) ==
  LET wanted == IF tunnel_mode = "V4V6" THEN "IPV6" ELSE "IPV4" IN
  IF type = "FQDN" THEN {"OK", "WRONG_FAMILY"}
  ELSE IF type = wanted THEN {"OK"} ELSE {"WRONG_FAMILY"}

Init ==
  /\ tunnel_mode \in Modes /\ message \in Messages
  /\ pc = "received" /\ ret = "OK" /\ memory = {} /\ next = 1
  /\ broker_list = <<>> /\ broker_file = <<>>
  /\ tpc = [i \in Slots |-> "none"] /\ retries = [i \in Slots |-> 0]
  /\ distance = [i \in Slots |-> 0]
  /\ socket_address_status = [i \in Slots |-> "OK"]
  /\ status = [i \in Slots |-> "unknown"]

----------------------------------------------------------------------------
(* The main thread.  An error leads to "error", where the caller, having   *)
(* been told ERR_BROKER_REDIRECTION, frees the list.                       *)

Return(r) == pc' = "error" /\ ret' = r

\* tspExtractPayload() finds no usable XML in the answer.
ExtractFails ==
  /\ pc = "received" /\ Return("CANT_EXTRACT_PAYLOAD")
  /\ UNCHANGED <<fixed, memory, next, broker_list, broker_file, threads>>

\* Too many brokers, or an element that cannot be allocated: the part already
\* built is freed.
CreateListFails ==
  /\ pc = "received" /\ Count(message) > 0
  /\ Return("CANT_CREATE_LIST")
  /\ UNCHANGED <<fixed, memory, next, broker_list, broker_file, threads>>

EmptyList ==
  /\ pc = "received" /\ Count(message) = 0
  /\ Return("EMPTY_BROKER_LIST")
  /\ UNCHANGED <<fixed, memory, next, broker_list, broker_file, threads>>

\* A list of one is neither sorted nor written.
CreateList ==
  /\ pc = "received" /\ Count(message) \in 1..MaxList
  /\ broker_list' = tspCreateBrokerList(message)
  /\ memory' = {"brokers"}
  /\ pc' = IF Count(message) > 1 THEN "allocate" ELSE "done"
  /\ UNCHANGED <<fixed, ret, next, broker_file, threads>>

\* The arrays of threads and of their arguments.
Allocate ==
  /\ pc = "allocate"
  /\ memory' = memory \cup {"arguments"}
  /\ pc' = "create" /\ next' = 1
  /\ UNCHANGED <<fixed, ret, broker_list, broker_file, threads>>

AllocateFails ==
  /\ pc = "allocate" /\ Return("CANT_MALLOC")
  /\ UNCHANGED <<fixed, memory, next, broker_list, broker_file, threads>>

CreateThread ==
  /\ pc = "create"
  /\ tpc' = [tpc EXCEPT ![next] = "born"]
  /\ IF next < Len(broker_list) THEN next' = next + 1 /\ UNCHANGED pc
     ELSE next' = 1 /\ pc' = "join"
  /\ UNCHANGED <<fixed, ret, memory, broker_list, broker_file, retries, distance,
                 socket_address_status, status>>

\* The arguments are freed and the threads created so far go on.
CreateThreadFails ==
  /\ pc = "create" /\ Return("CANT_CREATE_THREAD")
  /\ memory' = memory \ {"arguments"}
  /\ UNCHANGED <<fixed, next, broker_list, broker_file, threads>>

\* Mutant: the last thread is not joined.
JoinThreadButLast ==
  /\ pc = "join" /\ tpc[next] = "ended"
  /\ IF next < Len(broker_list) - 1 THEN next' = next + 1 /\ UNCHANGED <<pc, memory>>
     ELSE pc' = "sort" /\ memory' = memory \ {"arguments"} /\ UNCHANGED next
  /\ UNCHANGED <<fixed, ret, broker_list, broker_file, threads>>

\* The status of a thread is only logged.
JoinThread ==
  /\ pc = "join" /\ tpc[next] = "ended"
  /\ IF next < Len(broker_list) THEN next' = next + 1 /\ UNCHANGED <<pc, memory>>
     ELSE pc' = "sort" /\ memory' = memory \ {"arguments"} /\ UNCHANGED next
  /\ UNCHANGED <<fixed, ret, broker_list, broker_file, threads>>

JoinFails ==
  /\ pc = "join" /\ Return("CANT_WAIT_FOR_THREAD")
  /\ memory' = memory \ {"arguments"}
  /\ UNCHANGED <<fixed, next, broker_list, broker_file, threads>>

\* The sorted list is a copy, which takes the place of the original.
Sort ==
  /\ pc = "sort"
  /\ broker_list' = tspSortBrokerList(broker_list)
  /\ pc' = "write"
  /\ UNCHANGED <<fixed, ret, memory, next, broker_file, threads>>

\* An element of the copy cannot be allocated: the copy is freed.
SortFails ==
  /\ pc = "sort" /\ Return("CANT_ALLOCATE_MEM")
  /\ UNCHANGED <<fixed, memory, next, broker_list, broker_file, threads>>

\* tspWriteBrokerListToFile(): a failure to open keeps the file, one to write cuts
\* it short; neither is an error to the caller.
Write ==
  /\ pc = "write"
  /\ \/ UNCHANGED broker_file
     \/ \E k \in 0..Len(broker_list) : broker_file' = SubSeq(broker_list, 1, k)
  /\ pc' = "done"
  /\ UNCHANGED <<fixed, ret, memory, next, broker_list, threads>>

\* tspFreeBrokerList() in tspMain().
FreeBrokerList ==
  /\ pc = "error"
  /\ broker_list' = <<>> /\ memory' = memory \ {"brokers"}
  /\ pc' = "done"
  /\ UNCHANGED <<fixed, ret, next, broker_file, threads>>

Main == ExtractFails \/ CreateListFails \/ EmptyList \/ CreateList \/ Allocate \/ AllocateFails
        \/ CreateThread \/ CreateThreadFails \/ JoinThread \/ JoinFails \/ Sort \/ SortFails
        \/ Write \/ FreeBrokerList

----------------------------------------------------------------------------
(* A thread: tspGetBrokerDistance(), tspDoEchoRequest() and                *)
(* timeEchoRequestReply().                                                 *)

ThreadOnly == UNCHANGED <<fixed, main, broker_list, broker_file>>

\* The memory a thread needs at the step it is at.
Needs(i) ==
  CASE tpc[i] = "born" -> {"arguments", "brokers"}
    [] tpc[i] \in {"resolve", "store"} -> {"brokers"}
    [] OTHER -> {}

\* It reads its argument: the element of the list, which it keeps a pointer to.
\* Memory that was freed may still hold what it did; otherwise see Crash.
Begin(i) ==
  /\ tpc[i] = "born"
  /\ tpc' = [tpc EXCEPT ![i] = "resolve"]
  /\ ThreadOnly /\ UNCHANGED <<retries, distance, socket_address_status, status>>

\* getSocketAddress() reads the address and its type from the element.
Resolve(i) ==
  /\ tpc[i] = "resolve"
  /\ \E s \in AddressStatuses(tspCreateBrokerList(message)[i].address_type) :
       /\ socket_address_status' = [socket_address_status EXCEPT ![i] = s]
       /\ distance' = [distance EXCEPT ![i] = IF s = "OK" THEN 0 ELSE WrongFamilyAdjust]
  /\ tpc' = [tpc EXCEPT ![i] = "connect"]
  /\ ThreadOnly /\ UNCHANGED <<retries, status>>

\* The rest of tspDoEchoRequest() is left with an error and a larger distance.
Unreached(i, s) ==
  /\ distance' = [distance EXCEPT ![i] = @ + ErrorAdjust]
  /\ status' = [status EXCEPT ![i] = s]
  /\ tpc' = [tpc EXCEPT ![i] = "store"]
  /\ ThreadOnly /\ UNCHANGED <<retries, socket_address_status>>

\* Mutant: the distance of an address that cannot be resolved stays 0.
ResolveFailsUnadjusted(i) ==
  /\ tpc[i] = "resolve"
  /\ status' = [status EXCEPT ![i] = "ECHO_REQUEST_ERROR"]
  /\ tpc' = [tpc EXCEPT ![i] = "store"]
  /\ ThreadOnly /\ UNCHANGED <<retries, distance, socket_address_status>>

ResolveFails(i) == tpc[i] = "resolve" /\ Unreached(i, "ECHO_REQUEST_ERROR")

\* The socket, connect(), the engine or a message buffer fails.
ConnectFails(i) == tpc[i] = "connect" /\ Unreached(i, "ECHO_REQUEST_ERROR")

Connect(i) ==
  /\ tpc[i] = "connect"
  /\ tpc' = [tpc EXCEPT ![i] = "send"]
  /\ ThreadOnly /\ UNCHANGED <<retries, distance, socket_address_status, status>>

GiveUp(i) ==
  /\ tpc[i] = "send" /\ retries[i] = Attempts
  /\ Unreached(i, "ECHO_REQUEST_TIMEOUT")

Send(i) ==
  /\ tpc[i] = "send" /\ retries[i] # Attempts
  /\ tpc' = [tpc EXCEPT ![i] = "select"]
  /\ ThreadOnly /\ UNCHANGED <<retries, distance, socket_address_status, status>>

\* send(), select() or recv() fails.
ExchangeFails(i) ==
  /\ tpc[i] = "select" \/ (tpc[i] = "send" /\ retries[i] # Attempts)
  /\ Unreached(i, "ECHO_REQUEST_ERROR")

\* Mutant: the attempt is not counted.
SelectTimesOutUncounted(i) ==
  /\ tpc[i] = "select"
  /\ tpc' = [tpc EXCEPT ![i] = "send"]
  /\ ThreadOnly /\ UNCHANGED <<retries, distance, socket_address_status, status>>

SelectTimesOut(i) ==
  /\ tpc[i] = "select"
  /\ retries' = [retries EXCEPT ![i] = @ + 1]
  /\ tpc' = [tpc EXCEPT ![i] = "send"]
  /\ ThreadOnly /\ UNCHANGED <<distance, socket_address_status, status>>

\* An answer with the request's sequence number.  One that does not say 200 is an
\* error, and yet the distance is the time it took, with no adjustment.
Answer(i) ==
  /\ tpc[i] = "select"
  /\ \E d \in 0..Timeout : distance' = [distance EXCEPT ![i] = @ + d]
  /\ \E s \in {"OK", "UNEXPECTED_REPLY"} : status' = [status EXCEPT ![i] = s]
  /\ retries' = [retries EXCEPT ![i] = 0]
  /\ tpc' = [tpc EXCEPT ![i] = "store"]
  /\ ThreadOnly /\ UNCHANGED socket_address_status

\* broker->distance = distance, and the end of the thread.
Store(i) ==
  /\ tpc[i] = "store"
  /\ broker_list' = IF "brokers" \in memory
                    THEN [broker_list EXCEPT ![i].distance = distance[i]]
                    ELSE broker_list
  /\ tpc' = [tpc EXCEPT ![i] = "ended"]
  /\ UNCHANGED <<fixed, main, broker_file, retries, distance, socket_address_status, status>>

\* An access to freed memory may end the process.
Crash(i) ==
  /\ ~(Needs(i) \subseteq memory)
  /\ pc' = "crashed"
  /\ tpc' = [j \in Slots |-> "ended"]
  /\ UNCHANGED <<fixed, ret, memory, next, broker_list, broker_file, retries, distance,
                 socket_address_status, status>>

Thread(i) == Begin(i) \/ Resolve(i) \/ ResolveFails(i) \/ ConnectFails(i) \/ Connect(i) \/ GiveUp(i)
             \/ Send(i) \/ ExchangeFails(i) \/ SelectTimesOut(i) \/ Answer(i) \/ Store(i) \/ Crash(i)

Next == Main \/ \E i \in Slots : Thread(i)

\* Every thread is scheduled, a socket call returns within its time-out and a name
\* is resolved or not; the join waits for nothing else.
Spec == Init /\ [][Next]_vars /\ WF_vars(Main) /\ \A i \in Slots : WF_vars(Thread(i))

----------------------------------------------------------------------------
TypeOK ==
  /\ tunnel_mode \in Modes /\ message \in Messages
  /\ pc \in {"received", "allocate", "create", "join", "sort", "write", "error", "done", "crashed"}
  /\ ret \in {"OK"} \cup ThreadErrors \cup OtherErrors
  /\ memory \subseteq {"arguments", "brokers"}
  /\ next \in Slots
  /\ tpc \in [Slots -> {"none", "born", "resolve", "connect", "send", "select", "store", "ended"}]
  /\ retries \in [Slots -> 0..Attempts]
  /\ distance \in [Slots -> Nat]
  /\ socket_address_status \in [Slots -> {"OK", "WRONG_FAMILY"}]
  /\ status \in [Slots -> Statuses]

\* Unless a thread could not be created or joined, no thread runs beyond the memory
\* it uses: what it reads and writes next is allocated, whatever else of
\* tspHandleRedirect() fails.
ThreadsKeepMemory ==
  ret \notin ThreadErrors => \A i \in Slots : Needs(i) \subseteq memory

Timed(i) == status[i] = "OK" /\ socket_address_status[i] = "OK"
Answered(i) == status[i] \in {"OK", "UNEXPECTED_REPLY"} /\ socket_address_status[i] = "OK"

\* A list that is returned sorted has every broker of the message once, the nearest
\* first, and no broker that was unreachable or of the wrong family comes before one
\* that answered in time, in whatever order the threads ran.
ReachableFirst ==
  pc \in {"write", "done"} /\ ret = "OK" /\ Count(message) > 1 =>
    /\ Len(broker_list) = Count(message)
    /\ {broker_list[k].id : k \in DOMAIN broker_list} = 1..Count(message)
    /\ \A k \in DOMAIN broker_list : \A j \in 1..k :
         /\ broker_list[j].distance <= broker_list[k].distance
         /\ Timed(broker_list[k].id) => Answered(broker_list[j].id)

\* The redirection is handled in the end, and every thread, forgotten ones included,
\* ends: silent brokers are given up.
RedirectionEnds ==
  /\ <>(pc \in {"done", "crashed"})
  /\ \A i \in Slots : tpc[i] = "born" ~> tpc[i] = "ended"
=============================================================================

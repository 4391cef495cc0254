------------------------- MODULE RedirectionProofs -------------------------
(***************************************************************************)
(* For any messages, number of brokers, attempts and time-out: the types,  *)
(* that no thread outlives the memory it uses unless creating or joining   *)
(* one failed, and what the order of the sorted list is.                   *)
(***************************************************************************)
EXTENDS Redirection, TLAPS, SequenceTheorems, WellFoundedInduction

Idle(i) == tpc[i] \in {"none", "ended"}

Broker == [id : Nat, distance : Nat, address_type : {"IPV4", "IPV6", "FQDN"}]

\* While it is being measured the list is the one the message gave.
ListKept ==
  pc \in {"allocate", "create", "join"} =>
    broker_list \in [1..Count(message) -> Broker] /\ Count(message) \in 1..MaxList

\* Which threads there are: those from next on are not created yet, those before it
\* are joined, and the slots beyond the list are never used.
Progress ==
  /\ pc \in {"received", "allocate"} => \A i \in Slots : tpc[i] = "none"
  /\ pc \in {"create", "join"} =>
       /\ next \in 1..Count(message)
       /\ \A i \in Slots : i > Count(message) => tpc[i] = "none"
  /\ pc = "create" => \A i \in Slots : i >= next => tpc[i] = "none"
  /\ pc = "join" => \A i \in Slots : i < next => tpc[i] = "ended"
  /\ pc \notin {"create", "join"} /\ ret \notin ThreadErrors => \A i \in Slots : Idle(i)

MemoryKept ==
  /\ pc = "allocate" => memory = {"brokers"}
  /\ pc \in {"create", "join"} => memory = {"arguments", "brokers"}
  /\ ret \in ThreadErrors => pc \in {"error", "done", "crashed"}

AttemptsLeft == \A i \in Slots : tpc[i] = "select" => retries[i] < Attempts

IInv == TypeOK /\ ListKept /\ Progress /\ MemoryKept /\ AttemptsLeft

----------------------------------------------------------------------------
LEMMA CountType == ASSUME NEW m \in Messages PROVE Count(m) \in Nat
  BY RedirectionAssumption DEF Count

\* The length of the list while it is measured.
LEMMA ListLength ==
  ASSUME ListKept, message \in Messages, pc \in {"create", "join"}
  PROVE  Len(broker_list) = Count(message)
<1>1. Count(message) \in Nat
  BY CountType
<1>2. broker_list \in Seq(Broker) /\ DOMAIN broker_list = 1..Count(message)
  BY <1>1, IsASeq DEF ListKept
<1> QED
  BY <1>1, <1>2, LenProperties

LEMMA Initially == Init => IInv
  BY RedirectionAssumption
  DEF Init, IInv, TypeOK, ListKept, Progress, MemoryKept, AttemptsLeft, Slots, Idle, Statuses,
      ThreadErrors

\* The invariant makes memory outlive the threads.
LEMMA KeepsMemory == IInv => ThreadsKeepMemory
  BY DEF IInv, TypeOK, Progress, MemoryKept, ThreadsKeepMemory, Needs, Idle

----------------------------------------------------------------------------
\* A step of tspHandleRedirect().
LEMMA MainKeeps == ASSUME IInv, Main PROVE IInv'
<1> USE DEF IInv
<1>0. Count(message) \in Nat
  BY CountType DEF TypeOK
<1>1. CASE ExtractFails
  BY <1>1 DEF ExtractFails, Return, fixed, threads, TypeOK, ListKept, Progress, MemoryKept,
     AttemptsLeft, Idle, ThreadErrors, OtherErrors
<1>2. CASE CreateListFails
  BY <1>2 DEF CreateListFails, Return, fixed, threads, TypeOK, ListKept, Progress, MemoryKept,
     AttemptsLeft, Idle, ThreadErrors, OtherErrors
<1>3. CASE EmptyList
  BY <1>3 DEF EmptyList, Return, fixed, threads, TypeOK, ListKept, Progress, MemoryKept,
     AttemptsLeft, Idle, ThreadErrors, OtherErrors
<1>4. CASE CreateList
  <2>1. broker_list' \in [1..Count(message) -> Broker]
    BY <1>4, <1>0 DEF CreateList, tspCreateBrokerList, Broker
  <2> QED
    BY <1>4, <2>1 DEF CreateList, fixed, threads, TypeOK, ListKept, Progress, MemoryKept,
       AttemptsLeft, Idle, ThreadErrors
<1>5. CASE Allocate
  BY <1>5, RedirectionAssumption DEF Allocate, fixed, threads, TypeOK, ListKept, Progress, MemoryKept,
     AttemptsLeft, Idle, ThreadErrors, Slots
<1>6. CASE AllocateFails
  BY <1>6 DEF AllocateFails, Return, fixed, threads, TypeOK, ListKept, Progress, MemoryKept,
     AttemptsLeft, Idle, ThreadErrors, OtherErrors
<1>7. CASE CreateThread
  <2>1. Len(broker_list) = Count(message)
    BY <1>7, ListLength DEF CreateThread, TypeOK
  <2>2. next \in Slots /\ next <= Count(message) /\ Count(message) <= MaxList
    BY <1>7, <1>0 DEF CreateThread, Progress, ListKept, TypeOK, Slots
  <2>3. tpc' = [tpc EXCEPT ![next] = "born"] /\ tpc'[next] = "born"
    BY <1>7, <2>2 DEF CreateThread, TypeOK
  <2>4. TypeOK'
    <3>1. next' \in Slots
      BY <1>7, <1>0, <2>1, <2>2, RedirectionAssumption DEF CreateThread, Slots
    <3>2. tpc' \in [Slots -> {"none", "born", "resolve", "connect", "send", "select", "store", "ended"}]
      BY <2>2, <2>3 DEF TypeOK
    <3>3. pc' \in {"create", "join"}
      BY <1>7 DEF CreateThread
    <3> QED
      BY <1>7, <3>1, <3>2, <3>3 DEF CreateThread, TypeOK, fixed
  <2>5. ListKept' /\ MemoryKept'
    BY <1>7 DEF CreateThread, ListKept, MemoryKept, fixed, ThreadErrors
  <2>6. Progress'
    BY <1>7, <1>0, <2>1, <2>2, <2>3 DEF CreateThread, Progress, TypeOK, fixed, Slots
  <2>7. AttemptsLeft'
    BY <1>7, <2>2, <2>3 DEF CreateThread, AttemptsLeft, TypeOK
  <2> QED
    BY <2>4, <2>5, <2>6, <2>7
<1>8. CASE CreateThreadFails
  BY <1>8 DEF CreateThreadFails, Return, fixed, threads, TypeOK, ListKept, Progress, MemoryKept,
     AttemptsLeft, ThreadErrors
<1>9. CASE JoinThread
  <2>1. Len(broker_list) = Count(message)
    BY <1>9, ListLength DEF JoinThread, TypeOK
  <2>2. next \in Slots /\ next <= Count(message) /\ Count(message) <= MaxList
    BY <1>9, <1>0 DEF JoinThread, Progress, ListKept, TypeOK, Slots
  <2>3. TypeOK' /\ ListKept' /\ MemoryKept' /\ AttemptsLeft'
    <3>1. next' \in Slots
      BY <1>9, <1>0, <2>1, <2>2, RedirectionAssumption DEF JoinThread, Slots
    <3>2. TypeOK'
      BY <1>9, <3>1 DEF JoinThread, TypeOK, fixed, threads
    <3>3. ListKept' /\ AttemptsLeft'
      BY <1>9 DEF JoinThread, ListKept, AttemptsLeft, fixed, threads
    <3>4. MemoryKept'
      BY <1>9 DEF JoinThread, MemoryKept, ThreadErrors
    <3> QED
      BY <3>2, <3>3, <3>4
  <2>4. CASE next < Count(message)
    <3>1. next' = next + 1 /\ pc' = "join" /\ UNCHANGED <<tpc, ret, message>>
      BY <1>9, <2>1, <2>4 DEF JoinThread, fixed, threads
    <3>2. \A i \in Slots : i < next + 1 => tpc[i] = "ended"
      BY <1>9, <2>2 DEF JoinThread, Progress, Slots
    <3>3. next' \in 1..Count(message)
      BY <1>0, <2>2, <2>4, <3>1 DEF Slots
    <3>4. Progress'
      BY <1>9, <3>1, <3>2, <3>3 DEF JoinThread, Progress
    <3> QED
      BY <2>3, <3>4
  <2>5. CASE next = Count(message)
    <3>1. \A i \in Slots : Idle(i)
      BY <1>9, <1>0, <2>2, <2>5 DEF JoinThread, Progress, Slots, Idle
    <3> QED
      BY <1>9, <1>0, <2>1, <2>3, <2>5, <3>1 DEF JoinThread, Progress, Idle, threads
  <2> QED
    BY <1>0, <2>2, <2>3, <2>4, <2>5 DEF Slots
<1>10. CASE JoinFails
  BY <1>10 DEF JoinFails, Return, fixed, threads, TypeOK, ListKept, Progress, MemoryKept,
     AttemptsLeft, ThreadErrors
<1>11. CASE Sort
  BY <1>11 DEF Sort, fixed, threads, TypeOK, ListKept, Progress, MemoryKept, AttemptsLeft, Idle,
     ThreadErrors
<1>12. CASE SortFails
  BY <1>12 DEF SortFails, Return, fixed, threads, TypeOK, ListKept, Progress, MemoryKept,
     AttemptsLeft, Idle, ThreadErrors, OtherErrors
<1>13. CASE Write
  BY <1>13 DEF Write, fixed, threads, TypeOK, ListKept, Progress, MemoryKept, AttemptsLeft, Idle,
     ThreadErrors
<1>14. CASE FreeBrokerList
  BY <1>14 DEF FreeBrokerList, fixed, threads, TypeOK, ListKept, Progress, MemoryKept,
     AttemptsLeft, Idle, ThreadErrors
<1> QED
  BY <1>1, <1>2, <1>3, <1>4, <1>5, <1>6, <1>7, <1>8, <1>9, <1>10, <1>11, <1>12, <1>13, <1>14
  DEF Main

----------------------------------------------------------------------------
\* A thread moves itself on and nothing of the main thread; none comes back to life.
LEMMA ThreadMoves ==
  ASSUME IInv, NEW i \in Slots, Thread(i), ~Crash(i)
  PROVE  /\ UNCHANGED <<fixed, main>>
         /\ ~Idle(i)
         /\ \E at \in {"resolve", "connect", "send", "select", "store", "ended"} :
              tpc' = [tpc EXCEPT ![i] = at]
<1> USE DEF ThreadOnly, Idle, Unreached
<1>1. CASE Begin(i) BY <1>1 DEF Begin
<1>2. CASE Resolve(i) BY <1>2 DEF Resolve
<1>3. CASE ResolveFails(i) BY <1>3 DEF ResolveFails
<1>4. CASE ConnectFails(i) BY <1>4 DEF ConnectFails
<1>5. CASE Connect(i) BY <1>5 DEF Connect
<1>6. CASE GiveUp(i) BY <1>6 DEF GiveUp
<1>7. CASE Send(i) BY <1>7 DEF Send
<1>8. CASE ExchangeFails(i) BY <1>8 DEF ExchangeFails
<1>9. CASE SelectTimesOut(i) BY <1>9 DEF SelectTimesOut
<1>10. CASE Answer(i) BY <1>10 DEF Answer
<1>11. CASE Store(i) BY <1>11 DEF Store
<1> QED
  BY <1>1, <1>2, <1>3, <1>4, <1>5, <1>6, <1>7, <1>8, <1>9, <1>10, <1>11 DEF Thread

\* What a thread does to its locals stays within their types and its attempts.
LEMMA LocalsKept ==
  ASSUME IInv, NEW i \in Slots, Thread(i), ~Crash(i)
  PROVE  /\ retries' \in [Slots -> 0..Attempts] /\ distance' \in [Slots -> Nat]
         /\ socket_address_status' \in [Slots -> {"OK", "WRONG_FAMILY"}]
         /\ status' \in [Slots -> Statuses]
         /\ AttemptsLeft'
<1> USE RedirectionAssumption DEF ThreadOnly, IInv, TypeOK, AttemptsLeft, Statuses
<1>0. ErrorAdjust \in Nat /\ WrongFamilyAdjust \in Nat
  BY DEF ErrorAdjust, WrongFamilyAdjust
<1>1. CASE Begin(i) BY <1>1 DEF Begin
<1>2. CASE Resolve(i)
  BY <1>0, <1>2 DEF Resolve, AddressStatuses
<1>3. ASSUME NEW s \in Statuses, Unreached(i, s)
      PROVE  /\ retries' \in [Slots -> 0..Attempts] /\ distance' \in [Slots -> Nat]
             /\ socket_address_status' \in [Slots -> {"OK", "WRONG_FAMILY"}]
             /\ status' \in [Slots -> Statuses]
             /\ AttemptsLeft'
  BY <1>0, <1>3 DEF Unreached
<1>4. CASE ResolveFails(i) \/ ConnectFails(i) \/ GiveUp(i) \/ ExchangeFails(i)
  BY <1>3, <1>4 DEF ResolveFails, ConnectFails, GiveUp, ExchangeFails
<1>5. CASE Connect(i) BY <1>5 DEF Connect
<1>6. CASE Send(i)
  BY <1>6 DEF Send
<1>7. CASE SelectTimesOut(i)
  BY <1>7 DEF SelectTimesOut
<1>8. CASE Answer(i)
  BY <1>8 DEF Answer
<1>9. CASE Store(i) BY <1>9 DEF Store
<1> QED
  BY <1>1, <1>2, <1>4, <1>5, <1>6, <1>7, <1>8, <1>9 DEF Thread

\* The list keeps its shape when a distance is stored.
LEMMA ListShapeKept ==
  ASSUME IInv, NEW i \in Slots, Thread(i), ~Crash(i)
  PROVE  ListKept'
<1>1. CASE Store(i)
  <2>1. distance[i] \in Nat
    BY DEF IInv, TypeOK
  <2>2. CASE pc \in {"allocate", "create", "join"}
    <3>1. broker_list \in [1..Count(message) -> Broker]
      BY <2>2 DEF IInv, ListKept
    <3>2. broker_list' \in [1..Count(message) -> Broker]
      BY <1>1, <2>1, <3>1 DEF Store, Broker
    <3> QED
      BY <1>1, <2>2, <3>2 DEF Store, IInv, ListKept, fixed, main
  <2> QED
    BY <1>1, <2>2 DEF Store, ListKept, fixed, main
<1>2. CASE ~Store(i)
  <2>1. UNCHANGED <<fixed, main, broker_list>>
    BY <1>2 DEF Thread, ThreadOnly, Begin, Resolve, ResolveFails, ConnectFails, Connect, GiveUp,
       Send, ExchangeFails, SelectTimesOut, Answer, Unreached
  <2> QED
    BY <2>1 DEF IInv, ListKept, fixed, main
<1> QED
  BY <1>1, <1>2

LEMMA ThreadKeeps == ASSUME IInv, NEW i \in Slots, Thread(i) PROVE IInv'
<1>1. CASE Crash(i)
  BY <1>1 DEF Crash, IInv, TypeOK, ListKept, Progress, MemoryKept, AttemptsLeft, Idle, fixed,
     Statuses
<1>2. CASE ~Crash(i)
  <2>1. /\ UNCHANGED <<fixed, main>> /\ ~Idle(i)
        /\ \E at \in {"resolve", "connect", "send", "select", "store", "ended"} :
             tpc' = [tpc EXCEPT ![i] = at]
    BY <1>2, ThreadMoves
  <2>2. TypeOK' /\ AttemptsLeft'
    BY <1>2, <2>1, LocalsKept DEF IInv, TypeOK, fixed, main
  <2>3. MemoryKept'
    BY <2>1 DEF IInv, MemoryKept, main
  <2>4. Progress'
    BY <2>1 DEF IInv, TypeOK, Progress, Idle, fixed, main
  <2>5. ListKept'
    BY <1>2, ListShapeKept
  <2> QED
    BY <2>2, <2>3, <2>4, <2>5 DEF IInv
<1> QED
  BY <1>1, <1>2

LEMMA Stutters == ASSUME IInv, UNCHANGED vars PROVE IInv'
  BY DEF IInv, vars, fixed, main, threads, TypeOK, ListKept, Progress, MemoryKept, AttemptsLeft,
     Idle

LEMMA Inductive == Spec => []IInv
<1>1. IInv /\ [Next]_vars => IInv'
  BY MainKeeps, ThreadKeeps, Stutters DEF Next
<1> QED
  BY Initially, <1>1, PTL DEF Spec

----------------------------------------------------------------------------
(* The sort.  Its loop is a recursion over the list, and what it computes  *)
(* is shown by induction on how far it has come.                           *)

\* The natural numbers have no infinite descent.
LEMMA Induction ==
  ASSUME NEW T, 0 \in T, \A n \in Nat : n \in T => n + 1 \in T
  PROVE  Nat \subseteq T
<1> DEFINE U == {n \in Nat : n \notin T}
<1> SUFFICES ASSUME U # {} PROVE FALSE
  OBVIOUS
<1>1. PICK n \in U : \A m \in U : ~(<<m, n>> \in OpToRel(<, Nat))
  <2>1. U \subseteq Nat
    OBVIOUS
  <2> HIDE DEF U
  <2> QED
    BY <2>1, NatLessThanWellFounded, WFMin, Zenon
<1>2. n # 0 /\ n - 1 \in Nat /\ n - 1 \in U
  OBVIOUS
<1>3. <<n - 1, n>> \in OpToRel(<, Nat)
  BY <1>2 DEF OpToRel
<1> QED
  BY <1>1, <1>2, <1>3

\* The loop of tspSortBrokerList() after k turns: its recursion has a solution.
Turn(list, g, k) == IF k = 0 THEN <<>> ELSE tspInsertInBrokerList(g[k - 1], list[k])

LEMMA Recursion ==
  ASSUME NEW list, Len(list) \in Nat
  PROVE  \E g : /\ g = [k \in 0..Len(list) |-> Turn(list, g, k)]
                /\ tspSortBrokerList(list) = g[Len(list)]
<1> DEFINE Ok(m, g) == g = [k \in 0..m |-> Turn(list, g, k)]
<1>1. \E g : Ok(0, g)
  <2> DEFINE g == [k \in 0..0 |-> <<>>]
  <2>1. Ok(0, g)
    BY DEF Turn
  <2> QED
    BY <2>1
<1>2. ASSUME NEW m \in Nat, NEW g, Ok(m, g) PROVE \E h : Ok(m + 1, h)
  <2> DEFINE h == [k \in 0..(m + 1) |-> Turn(list, g, k)]
  <2>1. \A k \in 0..m : h[k] = g[k]
    BY <1>2
  <2>2. h = [k \in 0..(m + 1) |-> Turn(list, g, k)]
    OBVIOUS
  <2> HIDE DEF h
  <2>3. \A k \in 0..(m + 1) : Turn(list, h, k) = Turn(list, g, k)
    <3>1. \A k \in 0..(m + 1) : k # 0 => h[k - 1] = g[k - 1]
      BY <2>1
    <3> QED
      BY <3>1 DEF Turn
  <2> QED
    BY <2>2, <2>3
<1> DEFINE S == {m \in Nat : \E g : Ok(m, g)}
<1> HIDE DEF Ok
<1>3. 0 \in S /\ \A n \in Nat : n \in S => n + 1 \in S
  BY <1>1, <1>2
<1> HIDE DEF S
<1>4. Len(list) \in S
  BY <1>3, Induction
<1>5. \E g : Ok(Len(list), g)
  BY <1>4 DEF S
<1> QED
  BY <1>5 DEF Ok, Turn, tspSortBrokerList

LEMMA InsertAtFacts ==
  ASSUME NEW S, NEW s \in Seq(S), NEW i \in 1..(Len(s) + 1), NEW e \in S
  PROVE  /\ InsertAt(s, i, e) \in Seq(S)
         /\ Len(InsertAt(s, i, e)) = Len(s) + 1
         /\ \A j \in 1..(Len(s) + 1) :
              InsertAt(s, i, e)[j] = IF j < i THEN s[j] ELSE IF j = i THEN e ELSE s[j - 1]
<1> DEFINE a == SubSeq(s, 1, i - 1)
           b == SubSeq(s, i, Len(s))
<1>0. Len(s) \in Nat /\ i \in Nat
  OBVIOUS
<1>1. /\ a \in Seq(S) /\ Len(a) = i - 1 /\ \A j \in 1..(i - 1) : a[j] = s[j]
      /\ b \in Seq(S) /\ Len(b) = Len(s) + 1 - i /\ \A j \in 1..(Len(s) + 1 - i) : b[j] = s[i + j - 1]
  OBVIOUS
<1>2. InsertAt(s, i, e) = a \o <<e>> \o b
  BY DEF InsertAt
<1> HIDE DEF a, b
<1>3. /\ a \o <<e>> \in Seq(S) /\ Len(a \o <<e>>) = i
      /\ \A j \in 1..i : (a \o <<e>>)[j] = IF j < i THEN s[j] ELSE e
  BY <1>1
<1> DEFINE c == a \o <<e>>
<1> HIDE DEF c
<1>4. /\ c \o b \in Seq(S) /\ Len(c \o b) = Len(s) + 1
      /\ \A j \in 1..(Len(s) + 1) : (c \o b)[j] = IF j <= i THEN c[j] ELSE b[j - i]
  BY <1>1, <1>3 DEF c
<1>5. InsertAt(s, i, e) = c \o b
  BY <1>2 DEF c
<1>6. \A j \in 1..(Len(s) + 1) : j <= i => (c \o b)[j] = IF j < i THEN s[j] ELSE e
  BY <1>3, <1>4 DEF c
<1>7. \A j \in 1..(Len(s) + 1) : j > i => (c \o b)[j] = s[j - 1]
  <2> SUFFICES ASSUME NEW j \in 1..(Len(s) + 1), j > i PROVE (c \o b)[j] = s[j - 1]
    OBVIOUS
  <2>1. (c \o b)[j] = b[j - i] /\ j - i \in 1..(Len(s) + 1 - i)
    BY <1>4
  <2>2. b[j - i] = s[i + (j - i) - 1]
    BY <1>1, <2>1
  <2>3. i + (j - i) - 1 = j - 1
    OBVIOUS
  <2> QED
    BY <2>1, <2>2, <2>3
<1>8. \A j \in 1..(Len(s) + 1) : (c \o b)[j] = IF j < i THEN s[j] ELSE IF j = i THEN e ELSE s[j - 1]
  <2> SUFFICES ASSUME NEW j \in 1..(Len(s) + 1)
               PROVE  (c \o b)[j] = IF j < i THEN s[j] ELSE IF j = i THEN e ELSE s[j - 1]
    OBVIOUS
  <2>0. j \in Nat /\ i \in Nat
    BY <1>0
  <2>1. CASE j <= i
    <3>1. (c \o b)[j] = IF j < i THEN s[j] ELSE e
      BY <1>6, <2>1
    <3> QED
      BY <2>0, <2>1, <3>1
  <2>2. CASE j > i
    <3>1. (c \o b)[j] = s[j - 1]
      BY <1>7, <2>2
    <3> QED
      BY <2>0, <2>2, <3>1
  <2>3. j <= i \/ j > i
    BY <2>0
  <2> QED
    BY <2>1, <2>2, <2>3, Zenon
<1> QED
  BY <1>4, <1>5, <1>8, Zenon

Ordered(s) == \A j, k \in DOMAIN s : j <= k => s[j].distance <= s[k].distance

\* There is a place for every broker: behind those that are nearer.
LEMMA InsertionPlace ==
  ASSUME NEW s \in Seq(Broker), NEW b \in Broker
  PROVE  \E at \in 0..Len(s) :
           /\ tspInsertInBrokerList(s, b) = InsertAt(s, at + 1, b)
           /\ \A j \in 1..at : s[j].distance < b.distance
           /\ at < Len(s) => ~(s[at + 1].distance < b.distance)
<1> DEFINE nearer(k) == \A j \in 1..k : s[j].distance < b.distance
           place(k) == nearer(k) /\ (k < Len(s) => ~nearer(k + 1))
<1>1. \E k \in 0..Len(s) : place(k)
  <2> SUFFICES ASSUME \A k \in 0..Len(s) : ~place(k) PROVE FALSE
    OBVIOUS
  <2> DEFINE T == {k \in Nat : k <= Len(s) => nearer(k)}
  <2>1. 0 \in T
    OBVIOUS
  <2>2. ASSUME NEW n \in Nat, n \in T PROVE n + 1 \in T
    <3> SUFFICES ASSUME n + 1 <= Len(s) PROVE nearer(n + 1)
      OBVIOUS
    <3>1. nearer(n) /\ n < Len(s) /\ n \in 0..Len(s)
      BY <2>2
    <3> QED
      BY <3>1
  <2>3. Len(s) \in Nat
    OBVIOUS
  <2> HIDE DEF T
  <2>4. Len(s) \in T
    BY <2>1, <2>2, <2>3, Induction
  <2> QED
    BY <2>3, <2>4 DEF T
<1> DEFINE at == CHOOSE k \in 0..Len(s) : place(k)
<1>2. at \in 0..Len(s) /\ place(at)
  BY <1>1
<1>3. tspInsertInBrokerList(s, b) = InsertAt(s, at + 1, b)
  BY DEF tspInsertInBrokerList
<1> HIDE DEF at
<1>4. at < Len(s) => ~(s[at + 1].distance < b.distance)
  BY <1>2
<1> QED
  BY <1>2, <1>3, <1>4

\* An insertion keeps the order and the elements.
LEMMA InsertFacts ==
  ASSUME NEW s \in Seq(Broker), NEW b \in Broker, Ordered(s)
  PROVE  LET t == tspInsertInBrokerList(s, b)
         IN /\ t \in Seq(Broker) /\ Len(t) = Len(s) + 1 /\ Ordered(t)
            /\ \A j \in DOMAIN t : t[j] = b \/ \E i \in DOMAIN s : t[j] = s[i]
            /\ \E j \in DOMAIN t : t[j] = b
            /\ \A i \in DOMAIN s : \E j \in DOMAIN t : t[j] = s[i]
<1>1. PICK at \in 0..Len(s) :
           /\ tspInsertInBrokerList(s, b) = InsertAt(s, at + 1, b)
           /\ \A j \in 1..at : s[j].distance < b.distance
           /\ at < Len(s) => ~(s[at + 1].distance < b.distance)
  BY InsertionPlace
<1> DEFINE t == tspInsertInBrokerList(s, b)
<1>2. /\ t \in Seq(Broker) /\ Len(t) = Len(s) + 1 /\ DOMAIN t = 1..(Len(s) + 1) /\ DOMAIN s = 1..Len(s)
      /\ \A j \in 1..(Len(s) + 1) : t[j] = IF j < at + 1 THEN s[j] ELSE IF j = at + 1 THEN b ELSE s[j - 1]
  <2>1. at + 1 \in 1..(Len(s) + 1) /\ Len(s) \in Nat
    OBVIOUS
  <2>2. ASSUME NEW i \in 1..(Len(s) + 1)
        PROVE  /\ InsertAt(s, i, b) \in Seq(Broker) /\ Len(InsertAt(s, i, b)) = Len(s) + 1
               /\ \A j \in 1..(Len(s) + 1) :
                    InsertAt(s, i, b)[j] = IF j < i THEN s[j] ELSE IF j = i THEN b ELSE s[j - 1]
    <3> HIDE DEF t
    <3> QED
      BY InsertAtFacts
  <2>3. /\ t \in Seq(Broker) /\ Len(t) = Len(s) + 1
        /\ \A j \in 1..(Len(s) + 1) : t[j] = IF j < at + 1 THEN s[j] ELSE IF j = at + 1 THEN b ELSE s[j - 1]
    BY <1>1, <2>1, <2>2
  <2> HIDE DEF t
  <2> QED
    BY <2>3, LenProperties
<1> HIDE DEF t
<1>3. \A j \in 1..Len(s) : s[j].distance \in Nat
  <2>1. \A j \in 1..Len(s) : s[j] \in Broker
    OBVIOUS
  <2> QED
    BY <2>1 DEF Broker
<1>4. b.distance \in Nat
  BY DEF Broker
<1>5. ASSUME NEW j \in 1..Len(s), j > at PROVE b.distance <= s[j].distance
  <2>1. at + 1 \in 1..Len(s) /\ at + 1 <= j /\ at < Len(s)
    BY <1>5
  <2>2. s[at + 1].distance <= s[j].distance
    BY <1>2, <2>1 DEF Ordered
  <2>3. ~(s[at + 1].distance < b.distance)
    BY <1>1, <2>1
  <2> QED
    BY <1>3, <1>4, <2>1, <2>2, <2>3
<1>6. Ordered(t)
  <2> SUFFICES ASSUME NEW j \in 1..(Len(s) + 1), NEW k \in 1..(Len(s) + 1), j <= k
               PROVE  t[j].distance <= t[k].distance
    BY <1>2 DEF Ordered
  <2>1. CASE j = at + 1 /\ k = at + 1
    BY <1>2, <1>4, <2>1
  <2>2. CASE j < at + 1 /\ k = at + 1
    <3>1. j \in 1..at /\ j \in 1..Len(s) /\ t[j] = s[j] /\ t[k] = b
      BY <1>2, <2>2
    <3> QED
      BY <1>1, <1>3, <1>4, <3>1
  <2>3. CASE j = at + 1 /\ k > at + 1
    BY <1>2, <1>5, <2>3
  <2>4. CASE j < at + 1 /\ k < at + 1
    BY <1>2, <2>4 DEF Ordered
  <2>5. CASE j < at + 1 /\ k > at + 1
    <3>1. j \in 1..Len(s) /\ k - 1 \in 1..Len(s) /\ j <= k - 1 /\ t[j] = s[j] /\ t[k] = s[k - 1]
      BY <1>2, <2>5
    <3> QED
      BY <1>2, <3>1 DEF Ordered
  <2>6. CASE j > at + 1
    <3>1. j - 1 \in 1..Len(s) /\ k - 1 \in 1..Len(s) /\ j - 1 <= k - 1 /\ t[j] = s[j - 1] /\ t[k] = s[k - 1]
      BY <1>2, <2>6
    <3> QED
      BY <1>2, <3>1 DEF Ordered
  <2> QED
    BY <2>1, <2>2, <2>3, <2>4, <2>5, <2>6
<1>7. \A j \in 1..(Len(s) + 1) : t[j] = b \/ \E i \in 1..Len(s) : t[j] = s[i]
  BY <1>2
<1>8. t[at + 1] = b
  BY <1>2
<1>9. ASSUME NEW i \in 1..Len(s) PROVE \E j \in 1..(Len(s) + 1) : t[j] = s[i]
  <2>1. CASE i <= at
    BY <1>2, <2>1
  <2>2. CASE i > at
    <3>1. t[i + 1] = s[i]
      BY <1>2, <2>2
    <3> QED
      BY <3>1
  <2> QED
    BY <2>1, <2>2
<1>10. at + 1 \in DOMAIN t
  BY <1>2
<1> QED
  BY <1>2, <1>6, <1>7, <1>8, <1>9, <1>10, Zenon DEF t

\* The sorted list after k turns has the first k brokers, the nearest first.
SortedPart(s, list, k) ==
  /\ s \in Seq(Broker) /\ Len(s) = k /\ Ordered(s)
  /\ \A j \in 1..k : \E i \in 1..k : s[j] = list[i]
  /\ \A i \in 1..k : \E j \in 1..k : s[j] = list[i]

LEMMA SortFacts ==
  ASSUME NEW list \in Seq(Broker)
  PROVE  SortedPart(tspSortBrokerList(list), list, Len(list))
<1> DEFINE n == Len(list)
<1>1. PICK g : g = [k \in 0..n |-> Turn(list, g, k)] /\ tspSortBrokerList(list) = g[n]
  BY Recursion
<1> DEFINE T == {k \in Nat : k <= n => SortedPart(g[k], list, k)}
<1>2. 0 \in T
  <2>1. g[0] = <<>>
    BY <1>1 DEF Turn
  <2>2. <<>> \in Seq(Broker) /\ Len(<<>>) = 0 /\ DOMAIN <<>> = {}
    OBVIOUS
  <2>3. SortedPart(<<>>, list, 0)
    BY <2>2 DEF SortedPart, Ordered
  <2> QED
    BY <2>1, <2>3
<1>3. ASSUME NEW k \in Nat, k \in T PROVE k + 1 \in T
  <2> SUFFICES ASSUME k + 1 <= n PROVE SortedPart(g[k + 1], list, k + 1)
    OBVIOUS
  <2>1. SortedPart(g[k], list, k)
    BY <1>3
  <2>2. g[k + 1] = tspInsertInBrokerList(g[k], list[k + 1])
    BY <1>1 DEF Turn
  <2>3. list[k + 1] \in Broker
    OBVIOUS
  <2> DEFINE s == g[k]
             t == g[k + 1]
             b == list[k + 1]
  <2>4. DOMAIN s = 1..k
    BY <2>1 DEF SortedPart
  <2>5. /\ t \in Seq(Broker) /\ Len(t) = k + 1 /\ Ordered(t) /\ DOMAIN t = 1..(k + 1)
        /\ \A j \in DOMAIN t : t[j] = b \/ \E i \in DOMAIN s : t[j] = s[i]
        /\ \E j \in DOMAIN t : t[j] = b
        /\ \A i \in DOMAIN s : \E j \in DOMAIN t : t[j] = s[i]
    <3>1. s \in Seq(Broker) /\ Ordered(s) /\ t = tspInsertInBrokerList(s, b) /\ Len(s) = k /\ b \in Broker
      BY <2>1, <2>2, <2>3 DEF SortedPart
    <3> HIDE DEF s, t, b
    <3>2. /\ t \in Seq(Broker) /\ Len(t) = k + 1 /\ Ordered(t)
          /\ \A j \in DOMAIN t : t[j] = b \/ \E i \in DOMAIN s : t[j] = s[i]
          /\ \E j \in DOMAIN t : t[j] = b
          /\ \A i \in DOMAIN s : \E j \in DOMAIN t : t[j] = s[i]
      BY <3>1, InsertFacts
    <3> QED
      BY <3>2, LenProperties
  <2> HIDE DEF s, t
  <2>6. \A j \in 1..(k + 1) : \E i \in 1..(k + 1) : t[j] = list[i]
    <3> SUFFICES ASSUME NEW j \in 1..(k + 1) PROVE \E i \in 1..(k + 1) : t[j] = list[i]
      OBVIOUS
    <3>1. CASE t[j] = b
      BY <3>1
    <3>2. CASE \E i \in DOMAIN s : t[j] = s[i]
      <4>1. PICK i \in 1..k : t[j] = s[i]
        BY <2>4, <3>2
      <4>2. PICK m \in 1..k : s[i] = list[m]
        BY <2>1, <4>1 DEF SortedPart, s
      <4> QED
        BY <4>1, <4>2
    <3> QED
      BY <2>5, <3>1, <3>2
  <2>7. \A i \in 1..(k + 1) : \E j \in 1..(k + 1) : t[j] = list[i]
    <3> SUFFICES ASSUME NEW i \in 1..(k + 1) PROVE \E j \in 1..(k + 1) : t[j] = list[i]
      OBVIOUS
    <3>1. CASE i = k + 1
      BY <2>5, <3>1
    <3>2. CASE i \in 1..k
      <4>1. PICK m \in 1..k : s[m] = list[i]
        BY <2>1, <3>2 DEF SortedPart, s
      <4> QED
        BY <2>4, <2>5, <4>1
    <3> QED
      BY <3>1, <3>2
  <2> QED
    BY <2>5, <2>6, <2>7 DEF SortedPart, t
<1> HIDE DEF T
<1>4. n \in T
  BY <1>2, <1>3, Induction
<1> QED
  BY <1>1, <1>4 DEF T

----------------------------------------------------------------------------
(* The distances, and the list that is sorted by them.                     *)

\* The list is the message's, each broker at its place, with the distance of its thread once that
\* has ended; it is sorted when all have.
Identified ==
  /\ pc \in {"allocate", "create", "join", "sort"} =>
       /\ broker_list \in [1..Count(message) -> Broker] /\ Count(message) \in 1..MaxList
       /\ \A i \in 1..Count(message) :
            /\ broker_list[i].id = i
            /\ tpc[i] = "ended" => broker_list[i].distance = distance[i]
  /\ pc = "sort" => \A i \in 1..Count(message) : tpc[i] = "ended"
  /\ pc = "error" => ret # "OK"
  /\ pc = "crashed" => \A i \in Slots : tpc[i] = "ended"

\* A broker that answered in time is nearer than one that was not reached.
Measured(i) ==
  /\ tpc[i] \in {"none", "born", "resolve"} =>
       distance[i] = 0 /\ status[i] = "unknown" /\ socket_address_status[i] = "OK"
  /\ tpc[i] \in {"connect", "send", "select"} =>
       distance[i] = IF socket_address_status[i] = "OK" THEN 0 ELSE WrongFamilyAdjust
  /\ tpc[i] \in {"store", "ended"} =>
       /\ Timed(i) => distance[i] <= Timeout
       /\ ~Answered(i) => distance[i] >= ErrorAdjust

Measures == pc # "crashed" => \A i \in Slots : Measured(i)

SInv == Identified /\ Measures /\ ReachableFirst

LEMMA InitiallySorted == Init => SInv
  BY DEF Init, SInv, Identified, Measures, Measured, ReachableFirst, Slots

\* The sort puts what was measured in order.
LEMMA SortKeeps == ASSUME IInv, SInv, Sort PROVE SInv'
<1> DEFINE n == Count(message)
           s == broker_list'
<1>1. /\ pc = "sort" /\ pc' = "write" /\ s = tspSortBrokerList(broker_list)
      /\ UNCHANGED <<message, ret, tpc, distance, socket_address_status, status>>
  BY DEF Sort, fixed, threads
<1>2. /\ n \in 1..MaxList /\ n \in Nat /\ MaxList \in Nat /\ broker_list \in [1..n -> Broker]
      /\ \A i \in 1..n : /\ broker_list[i].id = i /\ broker_list[i].distance = distance[i]
                         /\ tpc[i] = "ended" /\ i \in Slots
  BY <1>1, CountType, RedirectionAssumption DEF SInv, Identified, Slots
<1>3. broker_list \in Seq(Broker) /\ Len(broker_list) = n
  <2> HIDE DEF n
  <2>1. broker_list \in Seq(Broker) /\ DOMAIN broker_list = 1..n
    BY <1>2, IsASeq
  <2> QED
    BY <1>2, <2>1, LenProperties
<1>4. SortedPart(s, broker_list, n)
  BY <1>1, <1>3, SortFacts
<1> HIDE DEF n, s
<1>5. /\ s \in Seq(Broker) /\ Len(s) = n /\ DOMAIN s = 1..n
      /\ \A j, k \in 1..n : j <= k => s[j].distance <= s[k].distance
      /\ \A j \in 1..n : \E i \in 1..n : s[j] = broker_list[i]
      /\ \A i \in 1..n : \E j \in 1..n : s[j] = broker_list[i]
  <2>1. s \in Seq(Broker) /\ Len(s) = n /\ DOMAIN s = 1..n
    BY <1>4, LenProperties DEF SortedPart
  <2> QED
    BY <1>4, <2>1 DEF SortedPart, Ordered
<1>6. {s[k].id : k \in 1..n} = 1..n
  <2>1. ASSUME NEW k \in 1..n PROVE s[k].id \in 1..n
    <3>1. PICK i \in 1..n : s[k] = broker_list[i]
      BY <1>5
    <3> QED
      BY <1>2, <3>1
  <2>2. ASSUME NEW i \in 1..n PROVE \E k \in 1..n : s[k].id = i
    <3>1. PICK k \in 1..n : s[k] = broker_list[i]
      BY <1>5
    <3> QED
      BY <1>2, <3>1
  <2> QED
    BY <2>1, <2>2
<1>7. ASSUME NEW k \in 1..n, NEW j \in 1..k, Timed(s[k].id) PROVE Answered(s[j].id)
  <2>1. PICK i \in 1..n : s[k] = broker_list[i]
    BY <1>5
  <2>2. j \in 1..n /\ j <= k
    BY <1>2
  <2>3. PICK m \in 1..n : s[j] = broker_list[m]
    BY <1>5, <2>2
  <2>4. s[k].id = i /\ s[j].id = m /\ distance[m] <= distance[i]
    <3>1. s[j].distance <= s[k].distance
      BY <1>5, <2>2
    <3> QED
      BY <1>2, <2>1, <2>3, <3>1
  <2>5. Measured(i) /\ Measured(m)
    BY <1>1, <1>2 DEF SInv, Measures
  <2>6. distance[i] \in Nat /\ distance[m] \in Nat
    BY <1>2 DEF IInv, TypeOK
  <2>7. Timeout < ErrorAdjust /\ Timeout \in Nat /\ ErrorAdjust \in Nat
    BY RedirectionAssumption DEF ErrorAdjust
  <2> QED
    BY <1>2, <1>7, <2>4, <2>5, <2>6, <2>7 DEF Measured
<1>8. ReachableFirst'
  <2>1. /\ n' = n /\ \A k \in 1..n : \A j \in 1..k : j \in 1..n /\ j <= k
    BY <1>1, <1>2 DEF n
  <2>2. /\ Len(s) = n /\ {s[k].id : k \in DOMAIN s} = 1..n
        /\ \A k \in DOMAIN s : \A j \in 1..k :
             /\ s[j].distance <= s[k].distance
             /\ Timed(s[k].id) => Answered(s[j].id)
    BY <1>5, <1>6, <1>7, <2>1
  <2>3. \A i : (Timed(i)' <=> Timed(i)) /\ (Answered(i)' <=> Answered(i))
    BY <1>1 DEF Timed, Answered
  <2> QED
    BY <2>1, <2>2, <2>3 DEF ReachableFirst, n, s
<1>9. Identified' /\ Measures'
  BY <1>1 DEF SInv, Identified, Measures, Measured, Timed, Answered
<1> QED
  BY <1>8, <1>9 DEF SInv

\* The other steps of tspHandleRedirect().
LEMMA MainKeepsSorted == ASSUME IInv, SInv, Main PROVE SInv'
<1> USE DEF SInv
<1>0. Count(message) \in Nat /\ Count(message)' = Count(message) /\ UNCHANGED message
  BY CountType DEF IInv, TypeOK, Main, ExtractFails, CreateListFails, EmptyList, CreateList, Allocate, AllocateFails,
     CreateThread, CreateThreadFails, JoinThread, JoinFails, Sort, SortFails, Write, FreeBrokerList, fixed, Count
<1>1. ASSUME UNCHANGED threads, NEW r \in ThreadErrors \cup OtherErrors, Return(r), pc # "crashed" PROVE SInv'
  BY <1>1 DEF Return, threads, Identified, Measures, Measured, ReachableFirst, Timed, Answered, ThreadErrors,
     OtherErrors, Progress, IInv
<1>2. CASE \/ ExtractFails \/ CreateListFails \/ EmptyList \/ AllocateFails \/ CreateThreadFails \/ JoinFails
           \/ SortFails
  <2>1. UNCHANGED threads /\ pc # "crashed" /\ \E r \in ThreadErrors \cup OtherErrors : Return(r)
    BY <1>2 DEF ExtractFails, CreateListFails, EmptyList, AllocateFails, CreateThreadFails, JoinFails, SortFails,
       ThreadErrors, OtherErrors
  <2> QED
    BY <1>1, <2>1
<1>3. CASE CreateList
  <2>1. /\ pc = "received" /\ pc' = IF Count(message) > 1 THEN "allocate" ELSE "done"
        /\ broker_list' = tspCreateBrokerList(message) /\ Count(message) \in 1..MaxList
        /\ UNCHANGED <<tpc, distance, status, socket_address_status, ret>>
    BY <1>3 DEF CreateList, threads
  <2>2. \A i \in 1..Count(message) : tpc[i] = "none"
    BY <1>0, <2>1, RedirectionAssumption DEF IInv, Progress, Slots
  <2>3. broker_list' \in [1..Count(message) -> Broker] /\ \A i \in 1..Count(message) : broker_list'[i].id = i
    BY <1>0, <2>1 DEF tspCreateBrokerList, Broker
  <2>4. Identified'
    BY <1>0, <2>1, <2>2, <2>3 DEF Identified
  <2>5. Measures'
    BY <2>1 DEF Measures, Measured, Timed, Answered
  <2>6. ReachableFirst'
    BY <1>0, <2>1 DEF ReachableFirst
  <2> QED
    BY <2>4, <2>5, <2>6
<1>4. CASE Allocate
  BY <1>0, <1>4 DEF Allocate, threads, Identified, Measures, Measured, ReachableFirst, Timed, Answered
<1>5. CASE CreateThread
  <2>1. /\ pc = "create" /\ pc' \in {"create", "join"} /\ tpc' = [tpc EXCEPT ![next] = "born"]
        /\ UNCHANGED <<broker_list, distance, status, socket_address_status, ret>>
    BY <1>5 DEF CreateThread
  <2>2. next \in Slots /\ tpc[next] = "none" /\ tpc'[next] = "born"
        /\ \A i \in Slots \ {next} : tpc'[i] = tpc[i]
    <3>1. next \in Slots /\ tpc[next] = "none"
      BY <2>1 DEF IInv, TypeOK, Progress
    <3> QED
      BY <2>1, <3>1 DEF IInv, TypeOK
  <2>3. \A i \in 1..Count(message) : i \in Slots
    BY <1>0, <2>1, RedirectionAssumption DEF Identified, Slots
  <2>4. Identified'
    BY <1>0, <2>1, <2>2, <2>3 DEF Identified
  <2>5. Measures'
    <3> SUFFICES ASSUME NEW i \in Slots PROVE Measured(i)'
      BY DEF Measures
    <3>1. CASE i = next
      BY <2>1, <2>2, <3>1 DEF Measures, Measured
    <3>2. CASE i # next
      BY <2>1, <2>2, <3>2 DEF Measures, Measured, Timed, Answered
    <3> QED
      BY <3>1, <3>2
  <2>6. ReachableFirst'
    BY <2>1 DEF ReachableFirst
  <2> QED
    BY <2>4, <2>5, <2>6
<1>6. CASE JoinThread
  <2>1. /\ pc = "join" /\ pc' \in {"join", "sort"} /\ tpc[next] = "ended"
        /\ next >= Len(broker_list) \/ pc' = "join"
        /\ UNCHANGED <<broker_list, tpc, distance, status, socket_address_status, ret>>
    BY <1>0, <1>6, ListLength DEF JoinThread, threads, IInv, TypeOK, Slots
  <2>2. Len(broker_list) = Count(message)
    BY <2>1, ListLength DEF IInv, TypeOK
  <2>3. pc' = "sort" => \A i \in 1..Count(message) : tpc[i] = "ended"
    <3>1. next \in 1..Count(message) /\ \A i \in Slots : i < next => tpc[i] = "ended"
      BY <2>1 DEF IInv, Progress
    <3>2. \A i \in 1..Count(message) : i \in Slots
      BY <1>0, <2>1, RedirectionAssumption DEF Identified, Slots
    <3> QED
      BY <1>0, <2>1, <2>2, <3>1, <3>2
  <2>4. Identified'
    BY <1>0, <2>1, <2>3 DEF Identified
  <2>5. Measures' /\ ReachableFirst'
    BY <2>1 DEF Measures, Measured, Timed, Answered, ReachableFirst
  <2> QED
    BY <2>4, <2>5
<1>7. CASE Sort
  BY <1>7, SortKeeps
<1>8. CASE Write
  <2>1. pc = "write" /\ pc' = "done" /\ UNCHANGED <<ret, broker_list, tpc, distance, status, socket_address_status>>
    BY <1>8 DEF Write, threads
  <2>2. ReachableFirst'
    BY <1>0, <2>1 DEF ReachableFirst, Timed, Answered
  <2> QED
    BY <2>1, <2>2 DEF Identified, Measures, Measured, Timed, Answered
<1>9. CASE FreeBrokerList
  BY <1>9 DEF FreeBrokerList, threads, Identified, Measures, Measured, ReachableFirst, Timed, Answered
<1> QED
  BY <1>2, <1>3, <1>4, <1>5, <1>6, <1>7, <1>8, <1>9 DEF Main

\* A thread's distance fits what it found, step by step.
LEMMA ThreadMeasures ==
  ASSUME IInv, SInv, NEW i \in Slots, Thread(i), ~Crash(i)
  PROVE  /\ Measured(i)'
         /\ \A j \in Slots \ {i} : /\ distance'[j] = distance[j] /\ status'[j] = status[j]
                                  /\ socket_address_status'[j] = socket_address_status[j]
<1>1. Measured(i) /\ pc # "crashed"
  <2>1. pc # "crashed"
    BY ThreadMoves DEF SInv, Identified, Idle
  <2> QED
    BY <2>1 DEF SInv, Measures
<1>2. Timeout \in Nat /\ ErrorAdjust = Timeout * 2 /\ WrongFamilyAdjust = Timeout * 3
      /\ ErrorAdjust \in Nat /\ WrongFamilyAdjust \in Nat /\ ErrorAdjust <= WrongFamilyAdjust
  BY RedirectionAssumption DEF ErrorAdjust, WrongFamilyAdjust
<1> USE <1>1, <1>2 DEF IInv, TypeOK, Measured, Timed, Answered, ThreadOnly
<1>3. CASE Begin(i) BY <1>3 DEF Begin
<1>4. CASE Resolve(i) BY <1>4 DEF Resolve, AddressStatuses
<1>5. ASSUME NEW s \in {"ECHO_REQUEST_ERROR", "ECHO_REQUEST_TIMEOUT"}, Unreached(i, s)
      PROVE  /\ Measured(i)'
             /\ \A j \in Slots \ {i} : /\ distance'[j] = distance[j] /\ status'[j] = status[j]
                                      /\ socket_address_status'[j] = socket_address_status[j]
  <2>1. tpc'[i] = "store" /\ status'[i] = s /\ distance'[i] = distance[i] + ErrorAdjust
    BY <1>5 DEF Unreached
  <2> QED
    BY <1>5, <2>1 DEF Unreached
<1>6. CASE ResolveFails(i) \/ ConnectFails(i) \/ GiveUp(i) \/ ExchangeFails(i)
  BY <1>5, <1>6 DEF ResolveFails, ConnectFails, GiveUp, ExchangeFails
<1>7. CASE Connect(i) BY <1>7 DEF Connect
<1>8. CASE Send(i) BY <1>8 DEF Send
<1>9. CASE SelectTimesOut(i) BY <1>9 DEF SelectTimesOut
<1>10. CASE Answer(i)
  <2>1. PICK d \in 0..Timeout : distance' = [distance EXCEPT ![i] = @ + d]
    BY <1>10 DEF Answer
  <2>2. /\ tpc[i] = "select" /\ tpc'[i] = "store" /\ status'[i] \in {"OK", "UNEXPECTED_REPLY"}
        /\ socket_address_status' = socket_address_status /\ distance'[i] = distance[i] + d
        /\ \A j \in Slots \ {i} : status'[j] = status[j]
    BY <1>10, <2>1 DEF Answer
  <2> QED
    BY <2>1, <2>2
<1>11. CASE Store(i) BY <1>11 DEF Store
<1> QED
  BY <1>3, <1>4, <1>6, <1>7, <1>8, <1>9, <1>10, <1>11 DEF Thread

LEMMA ThreadKeepsSorted == ASSUME IInv, SInv, NEW i \in Slots, Thread(i) PROVE SInv'
<1>1. CASE Crash(i)
  BY <1>1 DEF Crash, SInv, Identified, Measures, ReachableFirst
<1>2. CASE ~Crash(i)
  <2>1. UNCHANGED <<fixed, main>> /\ ~Idle(i)
        /\ \E at \in {"resolve", "connect", "send", "select", "store", "ended"} : tpc' = [tpc EXCEPT ![i] = at]
    BY <1>2, ThreadMoves
  <2>2. \A j \in Slots \ {i} : tpc'[j] = tpc[j]
    BY <2>1 DEF IInv, TypeOK
  <2>3. Measures'
    <3> SUFFICES ASSUME NEW j \in Slots PROVE pc' # "crashed" => Measured(j)'
      BY DEF Measures
    <3>1. CASE j = i
      BY <1>2, <3>1, ThreadMeasures
    <3>2. CASE j # i
      BY <1>2, <2>1, <2>2, <3>2, ThreadMeasures DEF SInv, Measures, Measured, Timed, Answered, main
    <3> QED
      BY <3>1, <3>2
  <2>4. ret \in ThreadErrors \/ pc \in {"create", "join"}
    BY <2>1 DEF IInv, Progress
  <2>5. ReachableFirst'
    BY <2>1, <2>4 DEF ReachableFirst, main, ThreadErrors
  <2>6. Identified'
    <3>1. CASE pc \in {"create", "join"}
      <4>1. i \in 1..Count(message) /\ Count(message) \in Nat /\ "brokers" \in memory
        BY <2>1, <3>1, CountType DEF IInv, TypeOK, Progress, MemoryKept, Idle, Slots
      <4>2. /\ \A j \in 1..Count(message) : j \in Slots
            /\ broker_list \in [1..Count(message) -> Broker] /\ Count(message) \in 1..MaxList
            /\ \A j \in 1..Count(message) : broker_list[j].id = j
                                            /\ (tpc[j] = "ended" => broker_list[j].distance = distance[j])
        BY <3>1, <4>1, RedirectionAssumption DEF SInv, Identified, Slots
      <4>3. broker_list' = broker_list \/ broker_list' = [broker_list EXCEPT ![i].distance = distance[i]]
        BY <1>2 DEF Thread, ThreadOnly, Begin, Resolve, ResolveFails, ConnectFails, Connect, GiveUp, Send, ExchangeFails,
           SelectTimesOut, Answer, Store, Unreached
      <4>4. broker_list' \in [1..Count(message) -> Broker] /\ \A j \in 1..Count(message) : broker_list'[j].id = j
        <5>1. distance[i] \in Nat
          BY DEF IInv, TypeOK
        <5>2. CASE broker_list' = [broker_list EXCEPT ![i].distance = distance[i]]
          <6>1. [broker_list[i] EXCEPT !.distance = distance[i]] \in Broker
                /\ [broker_list[i] EXCEPT !.distance = distance[i]].id = broker_list[i].id
            BY <4>1, <4>2, <5>1 DEF Broker
          <6>2. broker_list' = [broker_list EXCEPT ![i] = [broker_list[i] EXCEPT !.distance = distance[i]]]
            BY <5>2
          <6> QED
            BY <4>1, <4>2, <6>1, <6>2
        <5> QED
          BY <4>2, <4>3, <5>2
      <4>5. ASSUME NEW j \in 1..Count(message), tpc'[j] = "ended" PROVE broker_list'[j].distance = distance'[j]
        <5>1. CASE j = i
          <6>1. Store(i)
            BY <1>2, <2>1, <4>2, <4>5, <5>1 DEF Thread, ThreadOnly, Begin, Resolve, ResolveFails, ConnectFails, Connect,
               GiveUp, Send, ExchangeFails, SelectTimesOut, Answer, Unreached, IInv, TypeOK
          <6>2. broker_list' = [broker_list EXCEPT ![i].distance = distance[i]] /\ distance' = distance
            BY <4>1, <6>1 DEF Store
          <6> QED
            BY <4>2, <5>1, <6>2 DEF Broker
        <5>2. CASE j # i
          <6>1. broker_list'[j] = broker_list[j]
            BY <4>2, <4>3, <5>2
          <6>2. distance'[j] = distance[j] /\ tpc[j] = "ended"
            BY <1>2, <2>2, <4>2, <4>5, <5>2, ThreadMeasures
          <6> QED
            BY <4>2, <6>1, <6>2
        <5> QED
          BY <5>1, <5>2
      <4> QED
        BY <2>1, <3>1, <4>2, <4>4, <4>5 DEF Identified, fixed, main, Count
    <3>2. CASE ret \in ThreadErrors
      BY <2>1, <3>2 DEF IInv, MemoryKept, Identified, SInv, main, ThreadErrors, Idle
    <3> QED
      BY <2>4, <3>1, <3>2
  <2> QED
    BY <2>3, <2>5, <2>6 DEF SInv
<1> QED
  BY <1>1, <1>2

LEMMA StuttersSorted == ASSUME SInv, UNCHANGED vars PROVE SInv'
  BY DEF SInv, vars, fixed, main, threads, Identified, Measures, Measured, ReachableFirst, Timed, Answered, Count

LEMMA InductiveSorted == Spec => [](IInv /\ SInv)
<1>1. IInv /\ SInv /\ [Next]_vars => (IInv /\ SInv)'
  BY MainKeeps, ThreadKeeps, Stutters, MainKeepsSorted, ThreadKeepsSorted, StuttersSorted DEF Next
<1> QED
  BY Initially, InitiallySorted, <1>1, PTL DEF Spec

----------------------------------------------------------------------------
\* The variables of tspHandleRedirect() and of its threads keep their types; no thread
\* makes more than ECHO_REQUEST_ATTEMPTS attempts.
THEOREM TypeCorrect == Spec => []TypeOK
  BY Inductive, PTL DEF IInv

\* Whatever fails but the creation or the join of a thread (net_echo_request.c:180 and
\* 204), the arguments and the list are allocated for as long as a thread uses them.
THEOREM ThreadsAlwaysKeepMemory == Spec => []ThreadsKeepMemory
  BY Inductive, KeepsMemory, PTL

\* A list that tspHandleRedirect() returns sorted has every broker of the message once, the nearest
\* first, and none that was unreachable or of the wrong family before one that answered in time
\* (tspSortBrokerList(), tspDoEchoRequest()), for any number of brokers and threads in any order.
THEOREM ReachableAlwaysFirst == Spec => []ReachableFirst
  BY InductiveSorted, PTL DEF SInv
=============================================================================

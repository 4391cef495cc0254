--------------------------- MODULE TspMainProofs ---------------------------
(***************************************************************************)
(* Proofs about the connection loop: for every configuration, every set of *)
(* brokers and every redirection message, and for every value the sessions *)
(* return, the safety properties TspMain.cfg checks hold.                  *)
(***************************************************************************)
EXTENDS TspMain, SequenceTheorems, TLAPS

\* tsp_version_fallback only reaches the top of the loop (or leaves it), and when
\* the version to leave is 2.0.0 the transport cycle has been moved to 1.
FallbackMovesCycle ==
  /\ tsp_version_fallback => pc \in {"top", "outersleep", "end", "done"}
  /\ pc = "top" /\ tsp_version_fallback /\ version_index = V2_0_0 => cycle = 1

\* A new run starts from the configured server.
StartsFromConfig == pc = "start" => server = OriginalText

IInv ==
  /\ TypeOK
  /\ ListCursorValid
  /\ OriginalFlagTruthful
  /\ DelayBounded
  /\ OldestVersionOverTcp
  /\ FallbackMovesCycle
  /\ StartsFromConfig

----------------------------------------------------------------------------
\* FormatBrokerListAddr() always leaves a server text.
LEMMA FormatType ==
  ASSUME NEW b \in Broker, NEW f \in FormatBrokerListAddr(b)
  PROVE  f.addr \in Texts /\ f.ret \in {0, 1}
<1>1. b.address \in Addrs
  BY DEF Broker
<1>2. Text(b.address, b.address_type = "IPV6") \in Texts
  BY <1>1 DEF Texts, Text
<1>3. NullText \in Texts
  BY DEF NullText, Texts, Text
<1>4. \/ f = [ret |-> 0, addr |-> Text(b.address, b.address_type = "IPV6")]
      \/ f = [ret |-> IF b.address_type = "IPV6" THEN 1 ELSE 0, addr |-> NullText]
  BY DEF FormatBrokerListAddr
<1> QED
  BY <1>2, <1>3, <1>4

\* The lines of the file make a broker list of the same length.
LEMMA FileBrokersType ==
  ASSUME NEW lines \in Seq(Addrs)
  PROVE  FileBrokers(lines) \in Seq(Broker) /\ Len(FileBrokers(lines)) = Len(lines)
<1>1. \A i \in 1..Len(lines) : FileBrokers(lines)[i] \in Broker
  BY SMT DEF FileBrokers, Broker, BrokerType
<1> QED
  BY <1>1, SMT DEF FileBrokers

\* Whatever order the distances give, the sorted list is a list of brokers.
LEMMA OrderType ==
  ASSUME NEW m \in Seq(Broker), NEW p \in Orders(Len(m))
  PROVE  /\ [i \in 1..Len(m) |-> m[p[i]]] \in Seq(Broker)
         /\ Len([i \in 1..Len(m) |-> m[p[i]]]) = Len(m)
BY SMT DEF Orders

\* What is written to the broker-list file can be read back as lines.
LEMMA WrittenType ==
  ASSUME NEW list \in Seq(Broker), brokerFile \in Seq(Addrs) \cup {NoFile},
         NEW w \in WrittenFiles(list)
  PROVE  w \in Seq(Addrs) \cup {NoFile}
<1>1. CASE w = brokerFile
  BY <1>1
<1>2. ASSUME NEW k \in 0..Len(list), w = [i \in 1..k |-> list[i].address]
      PROVE  w \in Seq(Addrs)
  <2>1. ASSUME NEW i \in 1..k PROVE list[i].address \in Addrs
    <3>1. i \in 1..Len(list)
      BY <1>2
    <3>2. list[i] \in Broker
      BY <3>1
    <3> QED
      BY <3>2, Zenon DEF Broker
  <2>2. k \in Nat
    BY SMT
  <2>3. w \in [1..k -> Addrs]
    BY <1>2, <2>1
  <2>4. w \in UNION {[1..n -> Addrs] : n \in Nat}
    BY <2>2, <2>3, Zenon
  <2> QED
    BY <2>4, SeqDef, Zenon
<1> QED
  BY <1>1, <1>2 DEF WrittenFiles

\* What a configuration may hold.
LEMMA ConfFacts ==
  ASSUME conf \in Confs
  PROVE  /\ conf.retry_delay \in Nat /\ conf.retry_delay_max \in Nat
         /\ conf.retry_delay <= conf.retry_delay_max
         /\ conf.retry_delay_max <= 3600
         /\ conf.tunnel_mode \in TunnelModes
<1>1. conf \in ConfType
  BY ConfsAssumption
<1>2. conf.retry_delay \in Nat /\ conf.retry_delay_max \in Nat
  BY <1>1 DEF ConfType
<1>3. conf.tunnel_mode \in TunnelModes
  BY <1>1, Zenon DEF ConfType
<1>4. conf.retry_delay <= conf.retry_delay_max /\ conf.retry_delay_max <= 3600
  BY ConfsAssumption
<1> QED
  BY <1>2, <1>3, <1>4

\* A delay capped at retry_delay_max.
LEMMA CappedBound ==
  ASSUME conf \in Confs, NEW d \in Nat
  PROVE  Capped(d) \in Nat /\ Capped(d) <= conf.retry_delay_max
<1>1. CASE d > conf.retry_delay_max
  BY <1>1, ConfFacts DEF Capped
<1>2. CASE ~(d > conf.retry_delay_max)
  BY <1>2, ConfFacts DEF Capped
<1> QED
  BY <1>1, <1>2

\* The configured server and NULL are server texts.
LEMMA OriginalTextType == OriginalText \in Texts /\ NullText \in Texts
BY AddrsAssumption, SMT DEF OriginalText, NullText, Text, Texts

----------------------------------------------------------------------------
\* The transport and cycle an attempt starts with.
LEMMA TransportType ==
  /\ Cycle \in Nat
  /\ TransportOf(Cycle) \in {"RUDP", "TCP", "RUDP6", "TCP6"}
BY DEF Cycle, TransportOf

\* After a session the last-server file holds a server text.
LEMMA SessionType ==
  ASSUME TypeOK, NEW st, SessionReturns(st)
  PROVE  pc = "setup" /\ lastServer' \in Texts
BY OriginalTextType DEF TypeOK, SessionReturns

\* The widths of the C types.
LEMMA Widths == UINT8 \in Nat /\ UINT8 > 1 /\ UINT16 = 65536
BY ListsAssumption DEF UINT16

\* The delay after a failure to connect.
LEMMA ForceWaitType ==
  ASSUME TypeOK, ForceWait
  PROVE  /\ effective_retry_delay' = conf.retry_delay
         /\ effective_retry_delay' \in Nat /\ effective_retry_delay' < UINT16
         /\ consec_retry' \in Nat /\ consec_retry' < UINT8
<1>1. conf.retry_delay \in Nat /\ conf.retry_delay <= 3600
  BY ConfFacts DEF TypeOK
<1>2. effective_retry_delay' = conf.retry_delay % UINT16 /\ consec_retry' = 1
  BY DEF ForceWait
<1>3. conf.retry_delay % UINT16 = conf.retry_delay
  BY <1>1, Widths
<1> QED
  BY <1>1, <1>2, <1>3, Widths

LEMMA InitType == Init => TypeOK
<1> SUFFICES ASSUME Init PROVE TypeOK
  OBVIOUS
<1>1. server \in Texts /\ lastServer \in Texts
  BY OriginalTextType, ListsAssumption DEF Init, Texts
<1>2. brokerFile \in Seq(Addrs) \cup {NoFile}
  BY ListsAssumption, Zenon DEF Init
<1>3. broker_list \in Seq(Broker)
  BY DEF Init
<1>4. pc \in PCs /\ transport \in {"RUDP", "TCP", "RUDP6", "TCP6"}
  BY DEF Init, PCs
<1>5. /\ trying_broker_list \in BOOLEAN /\ trying_original_server \in BOOLEAN
      /\ read_last_server \in BOOLEAN /\ tsp_version_fallback \in BOOLEAN
      /\ stop \in BOOLEAN
  BY Zenon DEF Init
<1>6. /\ current \in Int /\ cycle \in Nat /\ version_index \in CURRENT..OLDEST
      /\ loop_delay \in Nat /\ sleepTime \in Nat
  BY DEF Init, Null, CURRENT, OLDEST
<1>7. /\ effective_retry_delay \in Nat /\ effective_retry_delay < UINT16
      /\ consec_retry \in Nat /\ consec_retry < UINT8
  BY Widths DEF Init
<1>8. conf \in Confs
  BY DEF Init
<1> QED
  BY <1>1, <1>2, <1>3, <1>4, <1>5, <1>6, <1>7, <1>8, Zenon DEF TypeOK

\* The locals of the do-while body start within their types.
LEMMA InnerLoopInitType ==
  ASSUME InnerLoopInit
  PROVE  /\ version_index' \in CURRENT..OLDEST /\ cycle' \in Nat
         /\ tsp_version_fallback' \in BOOLEAN /\ trying_broker_list' \in BOOLEAN
         /\ current' \in Int
         /\ effective_retry_delay' \in Nat /\ effective_retry_delay' < UINT16
         /\ consec_retry' \in Nat /\ consec_retry' < UINT8
<1>1. tsp_version_fallback' \in BOOLEAN /\ trying_broker_list' \in BOOLEAN
  BY Zenon DEF InnerLoopInit
<1>2. version_index' \in CURRENT..OLDEST /\ cycle' \in Nat /\ current' \in Int
  BY DEF InnerLoopInit, CURRENT, OLDEST, Null
<1>3. /\ effective_retry_delay' \in Nat /\ effective_retry_delay' < UINT16
      /\ consec_retry' \in Nat /\ consec_retry' < UINT8
  BY Widths DEF InnerLoopInit
<1> QED
  BY <1>1, <1>2, <1>3

\* Every step keeps the types.
LEMMA TypeStep == TypeOK /\ [Next]_vars => TypeOK'
<1> SUFFICES ASSUME TypeOK, [Next]_vars PROVE TypeOK'
  OBVIOUS
<1> USE DEF TypeOK, PCs, CURRENT, OLDEST, Null, Dangling, listVars, xportVars,
            retryVars, fileVars, fixedVars
<1>1. CASE StartFails
  BY <1>1 DEF StartFails
<1>2. CASE Start
  <2>1. server' \in Texts /\ brokerFile' \in Seq(Addrs) \cup {NoFile} /\ lastServer' \in Texts
    BY <1>2 DEF Start
  <2>2. trying_original_server' \in BOOLEAN /\ read_last_server' \in BOOLEAN
    BY <1>2, Zenon DEF Start
  <2>3. pc' \in PCs /\ loop_delay' \in Nat /\ sleepTime' \in Nat
    BY <1>2, ConfFacts DEF Start
  <2>4. UNCHANGED <<conf, broker_list, transport, stop>>
    BY <1>2 DEF Start
  <2>5. InnerLoopInit
    BY <1>2 DEF Start
  <2> QED
    BY <2>1, <2>2, <2>3, <2>4, <2>5, InnerLoopInitType
<1>3. CASE TopStop
  BY <1>3 DEF TopStop
<1>4. CASE VersionsExhausted
  BY <1>4, TransportType DEF VersionsExhausted, Disconnect
<1>5. CASE Attempt
  <2>1. tsp_version_fallback => version_index < OLDEST
    BY <1>5 DEF Attempt, OldestVersion, V2_0_0
  <2>2. version_index' \in CURRENT..OLDEST
    BY <1>5, <2>1 DEF Attempt
  <2>3. pc' \in PCs /\ tsp_version_fallback' \in BOOLEAN
    BY <1>5, Zenon DEF Attempt
  <2>4. cycle' \in Nat /\ transport' \in {"RUDP", "TCP", "RUDP6", "TCP6"}
    BY <1>5, TransportType DEF Attempt
  <2>5. UNCHANGED <<conf, listVars, read_last_server, retryVars, fileVars, loop_delay,
                    sleepTime, stop>>
    BY <1>5 DEF Attempt
  <2> QED
    BY <2>2, <2>3, <2>4, <2>5
<1>6. CASE SessionEnds
  BY <1>6, SessionType, ListsAssumption DEF SessionEnds, Disconnect
<1>7. CASE LeaseExpired
  BY <1>7, SessionType DEF LeaseExpired
<1>8. CASE InvalidVersion
  BY <1>8, SessionType DEF InvalidVersion
<1>9. CASE ConnectionLost
  BY <1>9, SessionType, ListsAssumption DEF ConnectionLost
<1>10. CASE ServerTooBusy
  BY <1>10, SessionType, ForceWaitType DEF ServerTooBusy
<1>11. CASE ConnectFailedBoot
  BY <1>11, SessionType DEF ConnectFailedBoot, Disconnect
<1>12. CASE ConnectFailedQuick
  BY <1>12, SessionType DEF ConnectFailedQuick
<1>13. CASE ConnectFailedLast
  BY <1>13, SessionType DEF ConnectFailedLast
<1>14. CASE OriginalFailedNoList
  BY <1>14, SessionType, ForceWaitType DEF OriginalFailedNoList, AllTransportsFailed, Freed
<1>15. CASE OriginalFailedReadList
  <2>1. brokerFile \in Seq(Addrs) /\ Len(brokerFile) >= 1
    BY <1>15 DEF OriginalFailedReadList
  <2>2. broker_list' = FileBrokers(brokerFile)
    BY <1>15 DEF OriginalFailedReadList
  <2>3. broker_list' \in Seq(Broker) /\ broker_list'[1] \in Broker
    BY <2>1, <2>2, FileBrokersType
  <2>4. server' \in Texts
    BY <1>15, <2>3, FormatType, Zenon DEF OriginalFailedReadList
  <2>5. ForceWait /\ lastServer' \in Texts
    BY <1>15, SessionType DEF OriginalFailedReadList, AllTransportsFailed
  <2>6. trying_broker_list' \in BOOLEAN /\ trying_original_server' \in BOOLEAN
    BY <1>15, Zenon DEF OriginalFailedReadList
  <2>7. current' \in Int /\ cycle' \in Nat /\ pc' \in PCs
    BY <1>15 DEF OriginalFailedReadList
  <2>8. UNCHANGED <<version_index, tsp_version_fallback, transport, brokerFile,
                    fixedVars, loop_delay, sleepTime, stop>>
    BY <1>15 DEF OriginalFailedReadList, AllTransportsFailed
  <2> QED
    BY <2>3, <2>4, <2>5, <2>6, <2>7, <2>8, ForceWaitType
<1>16. CASE ListEnd
  BY <1>16, SessionType, ForceWaitType, OriginalTextType DEF ListEnd, AllTransportsFailed
<1>17. CASE ListNext
  <2>1. broker_list[current + 1] \in Broker
    BY <1>17 DEF ListNext
  <2>2. PICK f \in FormatBrokerListAddr(broker_list[current + 1]) : ListNext!4!(f)
    BY <1>17 DEF ListNext
  <2>3. server' \in Texts
    BY <2>1, <2>2, FormatType
  <2>4. CASE f.ret = 0
    BY <1>17, <2>2, <2>3, <2>4, SessionType, ForceWaitType
       DEF ListNext, AllTransportsFailed
  <2>5. CASE f.ret # 0
    BY <1>17, <2>2, <2>3, <2>5, SessionType, ForceWaitType
       DEF ListNext, AllTransportsFailed
  <2> QED
    BY <2>4, <2>5
<1>18. CASE NeitherFlag
  BY <1>18, SessionType, ForceWaitType DEF NeitherFlag, AllTransportsFailed
<1>19. CASE Redirected
  <2>1. PICK m \in RedirectMsgs : \E p \in Orders(Len(m)) : Redirected!2!(m)!(p)
    BY <1>19, Zenon DEF Redirected
  <2>2. PICK p \in Orders(Len(m)) : Redirected!2!(m)!(p)
    BY <2>1, Zenon
  <2>3. m \in Seq(Broker)
    BY ListsAssumption
  <2>4. broker_list' \in Seq(Broker) /\ broker_list'[1] \in Broker
    BY <2>2, <2>3, OrderType
  <2>5. brokerFile' \in Seq(Addrs) \cup {NoFile}
    <3>1. CASE brokerFile' \in WrittenFiles(broker_list')
      BY <2>4, <3>1, WrittenType
    <3>2. CASE brokerFile' = brokerFile
      BY <3>2
    <3> QED
      BY <2>2, <3>1, <3>2, Zenon
  <2>6. PICK f \in FormatBrokerListAddr(broker_list'[1]) : Redirected!7!(f)
    BY <1>19, Zenon DEF Redirected
  <2>7. server' \in Texts
    BY <2>4, <2>6, FormatType
  <2>8. pc' \in PCs /\ sleepTime' \in Nat
    BY <2>6, Zenon DEF Disconnect
  <2>9. lastServer' \in Texts
    BY <1>19, SessionType DEF Redirected
  <2>10. trying_broker_list' \in BOOLEAN /\ trying_original_server' \in BOOLEAN
    BY <1>19, Zenon DEF Redirected
  <2>11. current' \in Int /\ cycle' \in Nat
    BY <1>19 DEF Redirected
  <2>12. UNCHANGED <<version_index, tsp_version_fallback, transport, retryVars,
                     fixedVars, loop_delay, stop>>
    BY <1>19 DEF Redirected
  <2> QED
    BY <2>4, <2>5, <2>7, <2>8, <2>9, <2>10, <2>11, <2>12
<1>20. CASE RedirectFailed
  BY <1>20, SessionType DEF RedirectFailed, Disconnect, Freed
<1>21. CASE WaitFirst
  BY <1>21, ForceWaitType DEF WaitFirst, ForceWait
<1>22. CASE WaitAgain
  <2>1. effective_retry_delay' \in Nat /\ effective_retry_delay' < UINT16
    <3>1. (2 * effective_retry_delay) % UINT16 \in Nat
      BY Widths
    <3>2. /\ Capped((2 * effective_retry_delay) % UINT16) \in Nat
          /\ Capped((2 * effective_retry_delay) % UINT16) < UINT16
      <4>1. conf.retry_delay_max \in Nat /\ conf.retry_delay_max <= 3600
        BY ConfFacts
      <4>2. /\ Capped((2 * effective_retry_delay) % UINT16) \in Nat
            /\ Capped((2 * effective_retry_delay) % UINT16) <= conf.retry_delay_max
        BY <3>1, CappedBound
      <4> QED
        BY <4>1, <4>2, Widths
    <3> QED
      BY <1>22, <3>2 DEF WaitAgain
  <2>2. consec_retry' \in Nat /\ consec_retry' < UINT8
    BY <1>22, Widths DEF WaitAgain
  <2> QED
    BY <1>22, <2>1, <2>2 DEF WaitAgain
<1>23. CASE Tick
  BY <1>23 DEF Tick
<1>24. CASE SleepDone
  BY <1>24 DEF SleepDone
<1>25. CASE OuterLoop
  <2>1. loop_delay' \in Nat
    BY <1>25, CappedBound DEF OuterLoop
  <2>2. CASE conf.boot_mode
    BY <1>25, <2>1, <2>2 DEF OuterLoop
  <2>3. CASE ~conf.boot_mode
    BY <1>25, <2>1, <2>3, InnerLoopInitType DEF OuterLoop
  <2> QED
    BY <2>2, <2>3
<1>26. CASE End
  BY <1>26 DEF End, Freed
<1>27. CASE RequestStop
  BY <1>27 DEF RequestStop
<1>28. CASE Restart
  <2>1. InnerLoopInit /\ server' \in Texts /\ broker_list' \in Seq(Broker)
    BY <1>28, OriginalTextType DEF Restart
  <2>2. /\ trying_original_server' \in BOOLEAN /\ read_last_server' \in BOOLEAN
        /\ stop' \in BOOLEAN
    BY <1>28, Zenon DEF Restart
  <2>3. pc' \in PCs /\ transport' \in {"RUDP", "TCP", "RUDP6", "TCP6"}
    BY <1>28, Zenon DEF Restart
  <2>4. loop_delay' \in Nat /\ sleepTime' \in Nat
    BY <1>28 DEF Restart
  <2>5. UNCHANGED <<conf, fileVars>>
    BY <1>28 DEF Restart
  <2> QED
    BY <2>1, <2>2, <2>3, <2>4, <2>5, InnerLoopInitType
<1>29. CASE UNCHANGED vars
  BY <1>29 DEF vars
<1> HIDE DEF TypeOK
<1> QED
  BY <1>1, <1>2, <1>3, <1>4, <1>5, <1>6, <1>7, <1>8, <1>9, <1>10, <1>11, <1>12,
     <1>13, <1>14, <1>15, <1>16, <1>17, <1>18, <1>19, <1>20, <1>21, <1>22, <1>23,
     <1>24, <1>25, <1>26, <1>27, <1>28, <1>29 DEF Next, LoopStep, SessionStep

----------------------------------------------------------------------------
\* Steps that leave the list, its cursor and the server alone, and that do not
\* enter the loop, keep ListCursorValid.
LEMMA KeepsCursor ==
  ASSUME ListCursorValid, UNCHANGED listVars, InLoop' => InLoop
  PROVE  ListCursorValid'
BY DEF ListCursorValid, listVars, FormatBrokerListAddr

\* Only Start and OuterLoop enter the loop, and they forget the broker list.
LEMMA CursorStep == TypeOK /\ ListCursorValid /\ [Next]_vars => ListCursorValid'
<1> SUFFICES ASSUME TypeOK, ListCursorValid, [Next]_vars PROVE ListCursorValid'
  OBVIOUS
<1>1. CASE StartFails
  BY <1>1 DEF StartFails, InLoop, ListCursorValid, Disconnect
<1>2. CASE Start
  BY <1>2 DEF Start, InnerLoopInit, ListCursorValid
<1>3. CASE TopStop
  BY <1>3 DEF TopStop, InLoop, ListCursorValid, Disconnect
<1>4. CASE VersionsExhausted
  BY <1>4 DEF VersionsExhausted, InLoop, ListCursorValid, Disconnect
<1>5. CASE Attempt
  BY <1>5, KeepsCursor DEF Attempt, InLoop
<1>6. CASE SessionEnds
  BY <1>6 DEF SessionEnds, InLoop, ListCursorValid, Disconnect
<1>7. CASE LeaseExpired
  BY <1>7, KeepsCursor, SessionType DEF LeaseExpired, AllTransportsFailed, InLoop
<1>8. CASE InvalidVersion
  BY <1>8, KeepsCursor, SessionType DEF InvalidVersion, AllTransportsFailed, InLoop
<1>9. CASE ConnectionLost
  BY <1>9, KeepsCursor, SessionType DEF ConnectionLost, AllTransportsFailed, InLoop
<1>10. CASE ServerTooBusy
  BY <1>10, KeepsCursor, SessionType DEF ServerTooBusy, AllTransportsFailed, InLoop
<1>11. CASE ConnectFailedBoot
  BY <1>11 DEF ConnectFailedBoot, InLoop, ListCursorValid, Disconnect
<1>12. CASE ConnectFailedQuick
  BY <1>12, KeepsCursor, SessionType DEF ConnectFailedQuick, AllTransportsFailed, InLoop
<1>13. CASE ConnectFailedLast
  BY <1>13, KeepsCursor, SessionType DEF ConnectFailedLast, AllTransportsFailed, InLoop
<1>14. CASE OriginalFailedNoList
  BY <1>14 DEF OriginalFailedNoList, ListCursorValid
<1>15. CASE OriginalFailedReadList
  <2>1. brokerFile \in Seq(Addrs) /\ Len(brokerFile) >= 1
    BY <1>15 DEF OriginalFailedReadList, TypeOK
  <2>2. current' = 1 /\ broker_list' = FileBrokers(brokerFile)
    BY <1>15 DEF OriginalFailedReadList
  <2>3. current' \in 1..Len(broker_list')
    BY <2>1, <2>2, FileBrokersType
  <2>4. \E f \in FormatBrokerListAddr(broker_list'[1]) : server' = f.addr
    BY <1>15 DEF OriginalFailedReadList
  <2> QED
    BY <2>2, <2>3, <2>4 DEF ListCursorValid, FormatBrokerListAddr
<1>16. CASE ListEnd
  BY <1>16 DEF ListEnd, ListCursorValid
<1>17. CASE ListNext
  <2>1. PICK f \in FormatBrokerListAddr(broker_list[current + 1]) : ListNext!4!(f)
    BY <1>17, Zenon DEF ListNext
  <2>2. CASE f.ret = 0
    <3>1. current' = current + 1 /\ broker_list' = broker_list /\ server' = f.addr
      BY <2>1, <2>2
    <3>2. current' \in 1..Len(broker_list')
      BY <1>17, <3>1 DEF ListNext, TypeOK
    <3> QED
      BY <2>1, <3>1, <3>2 DEF ListCursorValid, FormatBrokerListAddr
  <2>3. CASE f.ret # 0
    BY <2>1, <2>3 DEF ListCursorValid, InLoop
  <2> QED
    BY <2>2, <2>3
<1>18. CASE NeitherFlag
  BY <1>18, KeepsCursor, SessionType DEF NeitherFlag, AllTransportsFailed, InLoop
<1>19. CASE Redirected
  <2>1. PICK m \in RedirectMsgs : \E p \in Orders(Len(m)) : Redirected!2!(m)!(p)
    BY <1>19, Zenon DEF Redirected
  <2>2. PICK p \in Orders(Len(m)) : Redirected!2!(m)!(p)
    BY <2>1, Zenon
  <2>3. m \in Seq(Broker) /\ Len(m) \in 1..MaxList
    BY <2>2, ListsAssumption
  <2>4. broker_list' = [i \in 1..Len(m) |-> m[p[i]]]
    BY <2>2
  <2>5. 1 \in 1..Len(broker_list')
    BY <2>3, <2>4, OrderType
  <2>6. current' = 1 /\ \E f \in FormatBrokerListAddr(broker_list'[1]) : server' = f.addr
    BY <1>19 DEF Redirected
  <2> QED
    BY <2>5, <2>6 DEF ListCursorValid, FormatBrokerListAddr
<1>20. CASE RedirectFailed
  BY <1>20 DEF RedirectFailed, InLoop, ListCursorValid, Disconnect
<1>21. CASE WaitFirst
  BY <1>21, KeepsCursor DEF WaitFirst, InLoop
<1>22. CASE WaitAgain
  BY <1>22, KeepsCursor DEF WaitAgain, InLoop
<1>23. CASE Tick
  BY <1>23, KeepsCursor DEF Tick, InLoop
<1>24. CASE SleepDone
  BY <1>24, KeepsCursor DEF SleepDone, InLoop
<1>25. CASE OuterLoop
  BY <1>25 DEF OuterLoop, InnerLoopInit, ListCursorValid, InLoop
<1>26. CASE End
  BY <1>26 DEF End, InLoop, ListCursorValid, Disconnect
<1>27. CASE RequestStop
  BY <1>27, KeepsCursor DEF RequestStop, InLoop
<1>28. CASE Restart
  BY <1>28 DEF Restart, InLoop, ListCursorValid, Disconnect
<1>29. CASE UNCHANGED vars
  BY <1>29, KeepsCursor DEF vars, listVars, InLoop
<1> QED
  BY <1>1, <1>2, <1>3, <1>4, <1>5, <1>6, <1>7, <1>8, <1>9, <1>10, <1>11, <1>12, <1>13,
     <1>14, <1>15, <1>16, <1>17, <1>18, <1>19, <1>20, <1>21, <1>22, <1>23, <1>24,
     <1>25, <1>26, <1>27, <1>28, <1>29
     DEF Next, LoopStep, SessionStep

----------------------------------------------------------------------------
\* Only Start sets trying_original_server away from a list, and only when it keeps
\* the configured server a run starts with.
LEMMA FlagStep ==
  OriginalFlagTruthful /\ StartsFromConfig /\ [Next]_vars =>
    OriginalFlagTruthful' /\ StartsFromConfig'
<1> SUFFICES ASSUME OriginalFlagTruthful, StartsFromConfig, [Next]_vars
             PROVE  OriginalFlagTruthful' /\ StartsFromConfig'
  OBVIOUS
<1> USE DEF OriginalFlagTruthful, StartsFromConfig, OriginalText, Text
<1>1. CASE StartFails
  BY <1>1 DEF StartFails, listVars
<1>2. CASE Start
  BY <1>2 DEF Start, listVars
<1>3. CASE TopStop
  BY <1>3 DEF TopStop, listVars
<1>4. CASE VersionsExhausted
  BY <1>4 DEF VersionsExhausted, Disconnect, listVars
<1>5. CASE Attempt
  BY <1>5 DEF Attempt, listVars
<1>6. CASE SessionEnds
  BY <1>6 DEF SessionEnds, SessionReturns, Disconnect, listVars
<1>7. CASE LeaseExpired
  BY <1>7 DEF LeaseExpired, SessionReturns, Disconnect, listVars
<1>8. CASE InvalidVersion
  BY <1>8 DEF InvalidVersion, SessionReturns, Disconnect, listVars
<1>9. CASE ConnectionLost
  BY <1>9 DEF ConnectionLost, SessionReturns, Disconnect, listVars
<1>10. CASE ServerTooBusy
  BY <1>10 DEF ServerTooBusy, AllTransportsFailed, SessionReturns, listVars
<1>11. CASE ConnectFailedBoot
  BY <1>11 DEF ConnectFailedBoot, SessionReturns, Disconnect, listVars
<1>12. CASE ConnectFailedQuick
  BY <1>12 DEF ConnectFailedQuick, SessionReturns, Disconnect, listVars
<1>13. CASE ConnectFailedLast
  BY <1>13 DEF ConnectFailedLast, SessionReturns, Disconnect, listVars
<1>14. CASE OriginalFailedNoList
  BY <1>14 DEF OriginalFailedNoList, AllTransportsFailed, SessionReturns, listVars
<1>15. CASE OriginalFailedReadList
  BY <1>15 DEF OriginalFailedReadList, AllTransportsFailed, SessionReturns
<1>16. CASE ListEnd
  BY <1>16 DEF ListEnd, AllTransportsFailed, SessionReturns
<1>17. CASE ListNext
  BY <1>17 DEF ListNext, AllTransportsFailed, SessionReturns
<1>18. CASE NeitherFlag
  BY <1>18 DEF NeitherFlag, AllTransportsFailed, SessionReturns, listVars
<1>19. CASE Redirected
  <2>1. trying_original_server' = FALSE /\ pc' # "start"
    BY <1>19, Zenon DEF Redirected, Disconnect
  <2> QED
    BY <2>1, Zenon DEF OriginalFlagTruthful, StartsFromConfig
<1>20. CASE RedirectFailed
  BY <1>20 DEF RedirectFailed, SessionReturns, Disconnect, listVars
<1>21. CASE WaitFirst
  BY <1>21 DEF WaitFirst, listVars
<1>22. CASE WaitAgain
  BY <1>22 DEF WaitAgain, listVars
<1>23. CASE Tick
  BY <1>23 DEF Tick, listVars
<1>24. CASE SleepDone
  BY <1>24 DEF SleepDone, listVars
<1>25. CASE OuterLoop
  BY <1>25 DEF OuterLoop, listVars
<1>26. CASE End
  BY <1>26 DEF End, listVars
<1>27. CASE RequestStop
  BY <1>27 DEF RequestStop, listVars
<1>28. CASE Restart
  BY <1>28 DEF Restart, listVars
<1>29. CASE UNCHANGED vars
  BY <1>29 DEF vars
<1> QED
  BY <1>1, <1>2, <1>3, <1>4, <1>5, <1>6, <1>7, <1>8, <1>9, <1>10, <1>11, <1>12, <1>13,
     <1>14, <1>15, <1>16, <1>17, <1>18, <1>19, <1>20, <1>21, <1>22, <1>23, <1>24,
     <1>25, <1>26, <1>27, <1>28, <1>29
     DEF Next, LoopStep, SessionStep

----------------------------------------------------------------------------
\* Each delay is set to retry_delay or capped at retry_delay_max, and neither can
\* make a uint16_t wrap, since the configuration bounds both by an hour.
LEMMA DelayStep == TypeOK /\ DelayBounded /\ [Next]_vars => DelayBounded'
<1> SUFFICES ASSUME TypeOK, DelayBounded, [Next]_vars PROVE DelayBounded'
  OBVIOUS
<1>0. conf \in Confs /\ conf.retry_delay_max \in Nat /\ conf.retry_delay \in Nat
      /\ conf.retry_delay <= conf.retry_delay_max
  BY ConfFacts DEF TypeOK
<1> USE <1>0 DEF DelayBounded, listVars, xportVars, retryVars, fileVars, fixedVars
<1>1. CASE StartFails
  BY <1>1 DEF StartFails
<1>2. CASE Start
  BY <1>2, ConfFacts DEF Start, InnerLoopInit
<1>3. CASE TopStop
  BY <1>3 DEF TopStop
<1>4. CASE VersionsExhausted
  BY <1>4 DEF VersionsExhausted, Disconnect
<1>5. CASE Attempt
  BY <1>5 DEF Attempt
<1>6. CASE SessionEnds
  BY <1>6 DEF SessionEnds, Disconnect, SessionReturns
<1>7. CASE LeaseExpired
  BY <1>7 DEF LeaseExpired, SessionReturns
<1>8. CASE InvalidVersion
  BY <1>8 DEF InvalidVersion, SessionReturns
<1>9. CASE ConnectionLost
  BY <1>9 DEF ConnectionLost, SessionReturns
<1>10. CASE ServerTooBusy
  BY <1>10, ForceWaitType DEF ServerTooBusy, AllTransportsFailed, SessionReturns
<1>11. CASE ConnectFailedBoot
  BY <1>11 DEF ConnectFailedBoot, Disconnect, SessionReturns
<1>12. CASE ConnectFailedQuick
  BY <1>12 DEF ConnectFailedQuick, SessionReturns
<1>13. CASE ConnectFailedLast
  BY <1>13 DEF ConnectFailedLast, SessionReturns
<1>14. CASE OriginalFailedNoList
  BY <1>14, ForceWaitType DEF OriginalFailedNoList, AllTransportsFailed, SessionReturns
<1>15. CASE OriginalFailedReadList
  BY <1>15, ForceWaitType DEF OriginalFailedReadList, AllTransportsFailed, SessionReturns
<1>16. CASE ListEnd
  BY <1>16, ForceWaitType DEF ListEnd, AllTransportsFailed, SessionReturns
<1>17. CASE ListNext
  <2>1. ForceWait /\ UNCHANGED <<conf, loop_delay, sleepTime>>
    BY <1>17 DEF ListNext, AllTransportsFailed, fixedVars
  <2> QED
    BY <2>1, ForceWaitType
<1>18. CASE NeitherFlag
  BY <1>18, ForceWaitType DEF NeitherFlag, AllTransportsFailed, SessionReturns
<1>19. CASE Redirected
  <2>1. UNCHANGED <<conf, effective_retry_delay, loop_delay>>
    BY <1>19 DEF Redirected
  <2>2. sleepTime' \in {sleepTime, loop_delay}
    BY <1>19, Zenon DEF Redirected, Disconnect
  <2> QED
    BY <2>1, <2>2
<1>20. CASE RedirectFailed
  BY <1>20 DEF RedirectFailed, Disconnect, SessionReturns
<1>21. CASE WaitFirst
  <2>1. ForceWait
    BY <1>21 DEF WaitFirst, ForceWait
  <2> QED
    BY <1>21, <2>1, ForceWaitType DEF WaitFirst
<1>22. CASE WaitAgain
  <2>1. (2 * effective_retry_delay) % UINT16 \in Nat
    BY Widths DEF TypeOK
  <2>2. Capped((2 * effective_retry_delay) % UINT16) <= conf.retry_delay_max
    BY <2>1, CappedBound
  <2>3. effective_retry_delay' <= conf.retry_delay_max
    BY <1>22, <2>2 DEF WaitAgain
  <2> QED
    BY <1>22, <2>3 DEF WaitAgain
<1>23. CASE Tick
  <2>1. sleepTime' = sleepTime - 1 /\ sleepTime \in Nat
    BY <1>23 DEF Tick, TypeOK
  <2>2. UNCHANGED <<conf, effective_retry_delay, loop_delay>>
    BY <1>23 DEF Tick
  <2> QED
    BY <2>1, <2>2
<1>24. CASE SleepDone
  BY <1>24 DEF SleepDone
<1>25. CASE OuterLoop
  <2>1. 2 * loop_delay \in Nat
    BY DEF TypeOK
  <2>2. loop_delay' <= conf.retry_delay_max
    BY <1>25, <2>1, CappedBound DEF OuterLoop
  <2>3. effective_retry_delay' \in {effective_retry_delay, 0}
    BY <1>25 DEF OuterLoop, InnerLoopInit
  <2> QED
    BY <1>25, <2>2, <2>3 DEF OuterLoop
<1>26. CASE End
  BY <1>26 DEF End
<1>27. CASE RequestStop
  BY <1>27 DEF RequestStop
<1>28. CASE Restart
  BY <1>28 DEF Restart, InnerLoopInit
<1>29. CASE UNCHANGED vars
  BY <1>29 DEF vars
<1> QED
  BY <1>1, <1>2, <1>3, <1>4, <1>5, <1>6, <1>7, <1>8, <1>9, <1>10, <1>11, <1>12, <1>13,
     <1>14, <1>15, <1>16, <1>17, <1>18, <1>19, <1>20, <1>21, <1>22, <1>23, <1>24,
     <1>25, <1>26, <1>27, <1>28, <1>29
     DEF Next, LoopStep, SessionStep

----------------------------------------------------------------------------
\* Version 1.0.1 is reached from 2.0.0 only, and that step back moves the cycle to
\* the second transport before the next attempt is made.
LEMMA VersionStep ==
  TypeOK /\ OldestVersionOverTcp /\ FallbackMovesCycle /\ [Next]_vars =>
    OldestVersionOverTcp' /\ FallbackMovesCycle'
<1> SUFFICES ASSUME TypeOK, OldestVersionOverTcp, FallbackMovesCycle, [Next]_vars
             PROVE  OldestVersionOverTcp' /\ FallbackMovesCycle'
  OBVIOUS
<1> tsp_version_fallback \in BOOLEAN /\ version_index \in CURRENT..OLDEST
  BY DEF TypeOK
<1> USE DEF OldestVersionOverTcp, FallbackMovesCycle, xportVars, fixedVars, CURRENT,
            OLDEST, V2_0_0
<1>1. CASE StartFails
  BY <1>1 DEF StartFails
<1>2. CASE Start
  BY <1>2 DEF Start, InnerLoopInit
<1>3. CASE TopStop
  BY <1>3 DEF TopStop
<1>4. CASE VersionsExhausted
  BY <1>4 DEF VersionsExhausted, Disconnect, SessionReturns
<1>5. CASE Attempt
  <2>1. tsp_version_fallback' = FALSE /\ pc = "top" /\ pc' = "setup"
    BY <1>5, Zenon DEF Attempt
  <2>2. ASSUME version_index' = OLDEST
        PROVE  transport' = "TCP" /\ conf.tunnel_mode \in {"V6ANYV4", "V6V4"}
    <3>1. tsp_version_fallback /\ version_index = V2_0_0
      BY <1>5, <2>2 DEF Attempt
    <3>2. cycle = 1
      BY <2>1, <3>1
    <3>3. OldestVersion # V2_0_0
      BY <1>5, <3>1 DEF Attempt
    <3>4. conf.tunnel_mode \in {"V6ANYV4", "V6V4"}
      BY <3>3, ConfFacts DEF OldestVersion, TunnelModes, TypeOK
    <3>5. TransportOf(Cycle) = "TCP"
      <4>1. conf.tunnel_mode # "V4V6" /\ conf.tunnel_mode # "V6UDPV4"
        BY <3>4
      <4>2. Cycle = 1
        BY <3>2, <4>1 DEF Cycle
      <4> QED
        BY <4>1, <4>2 DEF TransportOf
    <3> QED
      BY <1>5, <3>4, <3>5 DEF Attempt
  <2>3. UNCHANGED conf
    BY <1>5 DEF Attempt
  <2> QED
    BY <2>1, <2>2, <2>3, Zenon
<1>6. CASE SessionEnds
  BY <1>6 DEF SessionEnds, Disconnect, SessionReturns
<1>7. CASE LeaseExpired
  BY <1>7 DEF LeaseExpired, SessionReturns
<1>8. CASE InvalidVersion
  BY <1>8 DEF InvalidVersion, SessionReturns
<1>9. CASE ConnectionLost
  BY <1>9 DEF ConnectionLost, SessionReturns
<1>10. CASE ServerTooBusy
  BY <1>10 DEF ServerTooBusy, AllTransportsFailed, SessionReturns
<1>11. CASE ConnectFailedBoot
  BY <1>11 DEF ConnectFailedBoot, Disconnect, SessionReturns
<1>12. CASE ConnectFailedQuick
  BY <1>12 DEF ConnectFailedQuick, SessionReturns
<1>13. CASE ConnectFailedLast
  BY <1>13 DEF ConnectFailedLast, SessionReturns
<1>14. CASE OriginalFailedNoList
  BY <1>14 DEF OriginalFailedNoList, AllTransportsFailed, SessionReturns
<1>15. CASE OriginalFailedReadList
  BY <1>15 DEF OriginalFailedReadList, AllTransportsFailed, SessionReturns
<1>16. CASE ListEnd
  BY <1>16 DEF ListEnd, AllTransportsFailed, SessionReturns
<1>17. CASE ListNext
  <2>1. /\ tsp_version_fallback = FALSE /\ tsp_version_fallback' = FALSE
        /\ pc' \in {"top", "end"}
    BY <1>17, Zenon DEF ListNext, AllTransportsFailed, SessionReturns
  <2> QED
    BY <2>1
<1>18. CASE NeitherFlag
  BY <1>18 DEF NeitherFlag, AllTransportsFailed, SessionReturns
<1>19. CASE Redirected
  <2>1. /\ tsp_version_fallback = FALSE /\ tsp_version_fallback' = FALSE
        /\ pc' \in {"top", "outersleep"}
    BY <1>19, Zenon DEF Redirected, SessionReturns, Disconnect
  <2> QED
    BY <2>1
<1>20. CASE RedirectFailed
  BY <1>20 DEF RedirectFailed, Disconnect, SessionReturns
<1>21. CASE WaitFirst
  BY <1>21 DEF WaitFirst
<1>22. CASE WaitAgain
  BY <1>22 DEF WaitAgain
<1>23. CASE Tick
  BY <1>23 DEF Tick
<1>24. CASE SleepDone
  BY <1>24 DEF SleepDone
<1>25. CASE OuterLoop
  BY <1>25 DEF OuterLoop, InnerLoopInit
<1>26. CASE End
  BY <1>26 DEF End
<1>27. CASE RequestStop
  BY <1>27 DEF RequestStop
<1>28. CASE Restart
  BY <1>28 DEF Restart, InnerLoopInit
<1>29. CASE UNCHANGED vars
  BY <1>29 DEF vars
<1> QED
  BY <1>1, <1>2, <1>3, <1>4, <1>5, <1>6, <1>7, <1>8, <1>9, <1>10, <1>11, <1>12, <1>13,
     <1>14, <1>15, <1>16, <1>17, <1>18, <1>19, <1>20, <1>21, <1>22, <1>23, <1>24,
     <1>25, <1>26, <1>27, <1>28, <1>29
     DEF Next, LoopStep, SessionStep

----------------------------------------------------------------------------
\* The inductive invariant holds at start and every step keeps it.
LEMMA InvInit == Init => IInv
<1> SUFFICES ASSUME Init PROVE IInv
  OBVIOUS
<1>1. TypeOK
  BY InitType
<1>2. ListCursorValid /\ OriginalFlagTruthful /\ StartsFromConfig
  BY DEF Init, ListCursorValid, InLoop, OriginalFlagTruthful, StartsFromConfig
<1>3. OldestVersionOverTcp /\ FallbackMovesCycle
  BY DEF Init, OldestVersionOverTcp, FallbackMovesCycle
<1>4. DelayBounded
  <2>1. conf.retry_delay_max \in Nat
    BY <1>1, ConfFacts DEF TypeOK
  <2> QED
    BY <2>1 DEF Init, DelayBounded
<1> QED
  BY <1>1, <1>2, <1>3, <1>4 DEF IInv

LEMMA InvStep == IInv /\ [Next]_vars => IInv'
BY TypeStep, CursorStep, FlagStep, DelayStep, VersionStep DEF IInv

LEMMA InvAlways == Spec => []IInv
<1>1. Init => IInv
  BY InvInit
<1>2. IInv /\ [Next]_vars => IInv'
  BY InvStep
<1> QED
  BY <1>1, <1>2, PTL DEF Spec

\* The loop's state keeps its types, the uint8_t and uint16_t widths included.
THEOREM TypeCorrect == Spec => []TypeOK
<1>1. IInv => TypeOK
  BY DEF IInv
<1> QED
  BY <1>1, InvAlways, PTL

\* current_broker_in_list is never read after the list it points into was freed, and
\* it names the broker the client connects to.
THEOREM CursorAlwaysValid == Spec => []ListCursorValid
<1>1. IInv => ListCursorValid
  BY DEF IInv
<1> QED
  BY <1>1, InvAlways, PTL

\* Whatever the sessions return, trying_original_server is set only while c.server is
\* the configured server.
THEOREM OriginalFlagAlwaysTruthful == Spec => []OriginalFlagTruthful
<1>1. IInv => OriginalFlagTruthful
  BY DEF IInv
<1> QED
  BY <1>1, InvAlways, PTL

\* For every validated configuration, no delay ever exceeds retry_delay_max.
THEOREM DelayAlwaysBounded == Spec => []DelayBounded
<1>1. IInv => DelayBounded
  BY DEF IInv
<1> QED
  BY <1>1, InvAlways, PTL

\* Protocol version 1.0.1 is only spoken over TCP, in the modes that offer it.
THEOREM OldestVersionAlwaysOverTcp == Spec => []OldestVersionOverTcp
<1>1. IInv => OldestVersionOverTcp
  BY DEF IInv
<1> QED
  BY <1>1, InvAlways, PTL
=============================================================================

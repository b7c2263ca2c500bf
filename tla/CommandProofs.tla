---------------------------- MODULE CommandProofs ----------------------------
(***************************************************************************)
(* What the commands of a user do: proofs about how Start, Stop and the    *)
(* commands that change a port reach the lcores that send (Transmit), and  *)
(* about how a command is found (CommandTree).                             *)
(*                                                                         *)
(* The transmit engine, for any number of queues, any burst size and any   *)
(* sequence of commands and signals.                                       *)
(*                                                                         *)
(* The tree of commands, for any pool the tables fit in, any tables and    *)
(* any lines: every node is once in the tree or once in the pool, and what *)
(* Tab completes is what is run.  First what the folds come to that search *)
(* a path, list what is below a node and read a table, then what each      *)
(* operation on the tree does to it, then the commands.                    *)
(***************************************************************************)
EXTENDS Transmit, CommandTree, SequenceTheorems, FiniteSetTheorems,
        WellFoundedInduction, TLAPS

(* A burst is never empty, never larger than tx_burst, and never more than *)
(* what it is taken from (pkt_atomic64_tx_count).                          *)
LEMMA BurstBounds ==
  ASSUME NEW k \in Nat, k # 0
  PROVE  Burst(k) \in 1..TxBurst /\ Burst(k) <= k
BY TxAssumption DEF Burst

LEMMA BurstFits == \A k \in Nat : Burst(k) \in Nat /\ Burst(k) <= k
BY TxAssumption DEF Burst

-----------------------------------------------------------------------------
(* A loop index over the queues stays one, up to the last queue.            *)
LEMMA QueueIndex ==
  /\ 0 \in Queues
  /\ NoQ \notin Queues
  /\ \A q \in Queues : q # NQ - 1 => q + 1 \in Queues
BY TxAssumption DEF Queues, NoQ

LEMMA ThreadNames ==
  /\ "cli" \in Threads
  /\ "alrm" \in Handlers => "alrm" \in Threads
BY DEF Threads

LEMMA TypeInit == Init => TypeData
BY TxAssumption DEF Init, TypeData, PortFlags, QFlags, Queues, Pools, LcorePc,
   CmdPc, NoQ

LEMMA TypeCommand == TypeData /\ Command => TypeData'
<1> SUFFICES ASSUME TypeData, Command PROVE TypeData'
  OBVIOUS
<1> USE QueueIndex, ThreadNames DEF TypeData, PortFlags, QFlags, CmdPc, ports,
    counts, timer, pools, lcores, CGoto, Begin, SetQFlag, LoadCount,
    SetSending, Sending
<1>1. ASSUME NEW t \in Threads, Start(t) PROVE TypeData'
  BY <1>1 DEF Start
<1>2. ASSUME NEW t \in Threads, StartClearQ(t) PROVE TypeData'
  BY <1>2 DEF StartClearQ
<1>3. ASSUME NEW t \in Threads, StartCount(t) PROVE TypeData'
  BY <1>3 DEF StartCount
<1>4. ASSUME NEW t \in Threads, StartSend(t) PROVE TypeData'
  BY <1>4 DEF StartSend
<1>5. ASSUME NEW t \in Threads, StartForever(t) PROVE TypeData'
  BY <1>5 DEF StartForever
<1>6. ASSUME NEW t \in Threads, Stop(t) PROVE TypeData'
  BY <1>6 DEF Stop
<1>7. ASSUME NEW t \in Threads, FlushQ(t) PROVE TypeData'
  BY <1>7 DEF FlushQ
<1>8. CASE Prime
  BY <1>8 DEF Prime
<1>9. CASE PrimeClearQ
  BY <1>9 DEF PrimeClearQ
<1>10. CASE PrimeCount
  BY <1>10, TxAssumption DEF PrimeCount
<1>11. CASE PrimeSend
  BY <1>11 DEF PrimeSend
<1>12. CASE Alarm
  BY <1>12 DEF Alarm
<1>13. CASE AlarmFirst
  BY <1>13 DEF AlarmFirst
<1>14. ASSUME NEW k \in Counts, SetCount(k) PROVE TypeData'
  BY <1>14, TxAssumption DEF SetCount
<1>15. CASE SetConfig
  BY <1>15 DEF SetConfig
<1>16. ASSUME NEW m \in Modes, EnableMode(m) PROVE TypeData'
  BY <1>16, TxAssumption DEF EnableMode, ModePc, ModeFlags
<1>17. ASSUME NEW m \in Modes, SetMode(m) PROVE TypeData'
  BY <1>17, TxAssumption DEF SetMode, ModeFlags
<1>18. ASSUME NEW f \in Options, EnableOption(f) PROVE TypeData'
  BY <1>18, TxAssumption DEF EnableOption, OptionFlags
<1>19. ASSUME NEW f \in Modes \cup Options, Disable(f) PROVE TypeData'
  BY <1>19 DEF Disable
<1> QED
  BY <1>1, <1>2, <1>3, <1>4, <1>5, <1>6, <1>7, <1>8, <1>9, <1>10, <1>11,
     <1>12, <1>13, <1>14, <1>15, <1>16, <1>17, <1>18, <1>19 DEF Command

(* The lcore steps with a branch on a flag, variable by variable.      *)
LEMMA TypeSetup ==
  ASSUME TypeData, NEW q \in Queues, SetupPackets(q)
  PROVE  /\ qFlags' \in [Queues -> SUBSET QFlags]
         /\ builtMp' \in [Queues -> Pools]
         /\ lpc' \in [Queues -> LcorePc]
<1> USE DEF TypeData, SetupPackets
<1>1. qFlags' \in [Queues -> SUBSET QFlags]
  <2>1. CASE "CLEAR_FAST_ALLOC_FLAG" \in qFlags[q]
    <3>1. qFlags[q] \ {"CLEAR_FAST_ALLOC_FLAG"} \in SUBSET QFlags
      OBVIOUS
    <3> QED
      BY <2>1, <3>1 DEF Clear
  <2>2. CASE "CLEAR_FAST_ALLOC_FLAG" \notin qFlags[q]
    BY <2>2
  <2> QED
    BY <2>1, <2>2
<1>2. builtMp' \in [Queues -> Pools]
  OBVIOUS
<1>3. lpc' \in [Queues -> LcorePc]
  <2>1. CASE "CLEAR_FAST_ALLOC_FLAG" \in qFlags[q] /\ mp[q] = "pcap_mp"
    BY <2>1 DEF Goto, LcorePc
  <2>2. CASE "CLEAR_FAST_ALLOC_FLAG" \in qFlags[q] /\ mp[q] # "pcap_mp"
    BY <2>2 DEF Goto, LcorePc
  <2>3. CASE "CLEAR_FAST_ALLOC_FLAG" \notin qFlags[q]
    BY <2>3 DEF Goto, LcorePc
  <2> QED
    BY <2>1, <2>2, <2>3
<1> QED
  BY <1>1, <1>2, <1>3

LEMMA TypeSend ==
  ASSUME TypeData, NEW q \in Queues, SendPkts(q)
  PROVE  left' \in [Queues -> Nat] /\ lpc' \in [Queues -> LcorePc]
<1>1. left' \in [Queues -> Nat]
  <2>1. TxBurst \in Nat
    BY TxAssumption
  <2> QED
    BY <2>1 DEF TypeData, SendPkts, Goto
<1>2. lpc' \in [Queues -> LcorePc]
  <2>1. CASE "SEND_FOREVER" \in portFlags
    BY <2>1 DEF TypeData, SendPkts, Goto, LcorePc
  <2>2. CASE "SEND_FOREVER" \notin portFlags
    BY <2>2 DEF TypeData, SendPkts, Goto, LcorePc
  <2> QED
    BY <2>1, <2>2
<1> QED
  BY <1>1, <1>2

LEMMA TypeCas ==
  ASSUME TypeData, NEW q \in Queues, CasTxCount(q)
  PROVE  /\ currentCount' \in Nat /\ granted' \in Nat
         /\ left' \in [Queues -> Nat]
         /\ lpc' \in [Queues -> LcorePc]
<1>1. Burst(left[q]) \in Nat /\ Burst(left[q]) <= left[q]
  BY BurstFits DEF TypeData
<1>2. CASE currentCount = left[q]
  <2>1. currentCount' \in Nat /\ granted' \in Nat
    BY <1>1, <1>2 DEF CasTxCount, TypeData
  <2>2. left' \in [Queues -> Nat] /\ lpc' \in [Queues -> LcorePc]
    BY <1>1, <1>2 DEF CasTxCount, TypeData, Goto, LcorePc
  <2> QED
    BY <2>1, <2>2
<1>3. CASE currentCount # left[q]
  <2>1. UNCHANGED <<currentCount, granted>>
    BY <1>3 DEF CasTxCount
  <2>2. left' = [left EXCEPT ![q] = 0] /\ lpc' = [lpc EXCEPT ![q] = "load"]
    BY <1>3 DEF CasTxCount, Goto
  <2> QED
    BY <2>1, <2>2 DEF TypeData, LcorePc
<1> QED
  BY <1>2, <1>3

LEMMA TypeAlloc ==
  ASSUME TypeData, NEW q \in Queues, AllocOk(q)
  PROVE  lpc' \in [Queues -> LcorePc] /\ late' \in [Queues -> Nat]
<1>1. lpc' \in [Queues -> LcorePc]
  <2>1. PICK l \in {"burst", "tagged"} : lpc' = [lpc EXCEPT ![q] = l]
    BY Zenon DEF AllocOk, Goto
  <2> QED
    BY <2>1 DEF TypeData, LcorePc
<1>2. late' \in [Queues -> Nat]
  BY DEF AllocOk, TypeData
<1> QED
  BY <1>1, <1>2

LEMMA TypeLcore ==
  ASSUME TypeData, NEW q \in Queues, Lcore(q)
  PROVE  TypeData'
<1> USE DEF TypeData, QFlags, LcorePc, ports, counts, timer, pools, lcores,
    cmds, At, Goto, Clear, Sending
<1>1. CASE Poll(q)
  BY <1>1 DEF Poll, ChosenPool, Pools
<1>2. CASE SetupPackets(q)
  BY <1>2, TypeSetup DEF SetupPackets
<1>3. CASE LockPort(q)
  BY <1>3 DEF LockPort
<1>4. CASE BuildPool(q)
  BY <1>4 DEF BuildPool
<1>5. CASE SendPkts(q)
  BY <1>5, TypeSend DEF SendPkts
<1>6. CASE LoadTxCount(q)
  BY <1>6 DEF LoadTxCount
<1>7. CASE CasTxCount(q)
  <2>1. UNCHANGED <<ports, transmitCount, loaded, timer, pools, mp, cmds, late>>
    BY <1>7 DEF CasTxCount
  <2> QED
    BY <1>7, <2>1, TypeCas
<1>8. CASE EndTransmit(q)
  BY <1>8 DEF EndTransmit
<1>9. CASE AllocOk(q)
  <2>1. UNCHANGED <<ports, counts, timer, pools, mp, left, cmds>>
    BY <1>9 DEF AllocOk
  <2> QED
    BY <1>9, <2>1, TypeAlloc
<1>10. CASE AllocFail(q)
  BY <1>10 DEF AllocFail
<1>11. ASSUME NEW k \in 0..TxBurst, TxBurstCall(q, k) PROVE TypeData'
  BY <1>11 DEF TxBurstCall
<1>12. CASE FirstTx(q)
  BY <1>12 DEF FirstTx
<1>13. CASE FirstTxDone(q)
  BY <1>13 DEF FirstTxDone
<1>14. CASE PollQFlags(q)
  BY <1>14 DEF PollQFlags, Pools
<1>15. CASE TxFlush(q)
  BY <1>15 DEF TxFlush
<1>16. ASSUME NEW k \in 0..TxBurst, TxBurstTagged(q, k) PROVE TypeData'
  BY <1>16 DEF TxBurstTagged
<1> QED
  BY <1>1, <1>2, <1>3, <1>4, <1>5, <1>6, <1>7, <1>8, <1>9, <1>10, <1>11,
     <1>12, <1>13, <1>14, <1>15, <1>16 DEF Lcore

(* The test timer's two flags are the only other state.                    *)
LEMMA TypeTimerStep == TypeTimer /\ [Next]_vars => TypeTimer'
<1> SUFFICES ASSUME TypeTimer, [Next]_vars PROVE TypeTimer'
  OBVIOUS
<1>1. CASE UNCHANGED timer
  BY <1>1 DEF timer, TypeTimer
<1>2. CASE Alarm
  BY <1>2 DEF Alarm, TypeTimer
<1>3. CASE AlarmFirst
  BY <1>3 DEF AlarmFirst, TypeTimer
<1>4. ASSUME NEW q \in Queues, FirstTx(q) PROVE TypeTimer'
  BY <1>4, Zenon DEF FirstTx, TypeTimer
<1>5. ASSUME NEW q \in Queues, FirstTxDone(q) PROVE TypeTimer'
  BY <1>5 DEF FirstTxDone, TypeTimer
<1>6. Next => \/ UNCHANGED timer \/ Alarm \/ AlarmFirst
              \/ \E q \in Queues : FirstTx(q) \/ FirstTxDone(q)
  BY Zenon DEF Next, Command, Lcore, Start, StartClearQ, StartCount, StartSend,
     StartForever, Stop, FlushQ, Prime, PrimeClearQ, PrimeCount, PrimeSend,
     SetCount, SetConfig, EnableMode, SetMode, EnableOption, Disable, Poll,
     SetupPackets, LockPort, BuildPool, SendPkts, LoadTxCount, CasTxCount,
     EndTransmit, AllocOk, AllocFail, TxBurstCall, TxBurstTagged,
     PollQFlags, TxFlush
<1>7. UNCHANGED vars => UNCHANGED timer
  BY DEF vars
<1> QED
  BY <1>1, <1>2, <1>3, <1>4, <1>5, <1>6, <1>7

LEMMA TypeDataStep == TypeData /\ [Next]_vars => TypeData'
<1> SUFFICES ASSUME TypeData, [Next]_vars PROVE TypeData'
  OBVIOUS
<1>1. CASE UNCHANGED vars
  BY <1>1 DEF vars, ports, counts, timer, pools, lcores, cmds, TypeData
<1>2. CASE Command
  BY <1>2, TypeCommand
<1>3. ASSUME NEW q \in Queues, Lcore(q) PROVE TypeData'
  BY <1>3, TypeLcore
<1> QED
  BY <1>1, <1>2, <1>3 DEF Next

(* Every variable of the engine keeps its type, for every queue count.     *)
THEOREM TypeCorrect == Spec => []TypeOK
<1>1. Init => TypeOK
  BY TypeInit DEF TypeOK, TypeTimer, Init
<1>2. TypeOK /\ [Next]_vars => TypeOK'
  BY TypeDataStep, TypeTimerStep DEF TypeOK
<1> QED
  BY <1>1, <1>2, PTL DEF Spec

-----------------------------------------------------------------------------
(* The packet count.                                                       *)

(* Which steps touch the count and its history.                            *)
LEMMA CountFrame ==
  [Next]_vars =>
    \/ UNCHANGED <<currentCount, loaded, granted>>
    \/ \E t \in Threads : StartCount(t)
    \/ PrimeCount
    \/ \E q \in Queues : CasTxCount(q)
BY Zenon DEF vars, counts, Next, Command, Lcore, Start, StartClearQ, StartSend,
   StartForever, Stop, FlushQ, Prime, PrimeClearQ, PrimeSend, Alarm,
   AlarmFirst, SetCount, SetConfig, EnableMode, SetMode, EnableOption,
   Disable, Poll,
   SetupPackets, LockPort, BuildPool, SendPkts, LoadTxCount, EndTransmit,
   AllocOk, AllocFail, TxBurstCall, TxBurstTagged, FirstTx, FirstTxDone,
   PollQFlags, TxFlush

(* A compare-and-set that succeeds moves a burst from the count to the     *)
(* lcore, one that fails moves nothing.                                    *)
LEMMA CasMoves ==
  ASSUME TypeData, NEW q \in Queues, CasTxCount(q)
  PROVE  /\ loaded' = loaded
         /\ \/ UNCHANGED <<currentCount, granted>>
            \/ /\ left[q] = currentCount
               /\ currentCount' = currentCount - Burst(currentCount)
               /\ granted' = granted + Burst(currentCount)
BY DEF CasTxCount

(* A packet the port was asked to send is left in the count or granted to  *)
(* an lcore, never both and never neither.                                 *)
THEOREM CountConserved == Spec => []BudgetConserved
<1>1. Init => BudgetConserved
  BY DEF Init, BudgetConserved
<1>2. TypeData /\ BudgetConserved /\ [Next]_vars => BudgetConserved'
  <2> SUFFICES ASSUME TypeData, BudgetConserved, [Next]_vars
               PROVE  BudgetConserved'
    OBVIOUS
  <2>1. CASE UNCHANGED <<currentCount, loaded, granted>>
    BY <2>1 DEF BudgetConserved
  <2>2. ASSUME NEW t \in Threads, StartCount(t) PROVE BudgetConserved'
    BY <2>2 DEF StartCount, LoadCount, BudgetConserved, TypeData
  <2>3. CASE PrimeCount
    BY <2>3, TxAssumption DEF PrimeCount, LoadCount, BudgetConserved
  <2>4. ASSUME NEW q \in Queues, CasTxCount(q) PROVE BudgetConserved'
    <3>1. currentCount \in Nat /\ granted \in Nat
      BY DEF TypeData
    <3> QED
      BY <2>4, <3>1, CasMoves, BurstFits DEF BudgetConserved
  <2> QED
    BY <2>1, <2>2, <2>3, <2>4, CountFrame
<1> QED
  BY <1>1, <1>2, TypeInit, TypeDataStep, PTL DEF Spec

-----------------------------------------------------------------------------
(* The port lock.                                                          *)

(* The lcore that builds holds the lock: what makes exclusion inductive.   *)
LockInv == \A q \in Queues : lpc[q] = "build" => portLock = q

(* Every other step of an lcore leaves the lock and does not begin a build. *)
LEMMA LockFrame ==
  ASSUME NEW q \in Queues, Lcore(q), ~LockPort(q), ~BuildPool(q)
  PROVE  /\ portLock' = portLock
         /\ \E l : l # "build" /\ lpc' = [lpc EXCEPT ![q] = l]
<1> USE DEF Goto, pools
<1>1. CASE Poll(q)
  BY <1>1 DEF Poll
<1>2. CASE SetupPackets(q)
  BY <1>2 DEF SetupPackets
<1>3. CASE SendPkts(q) \/ LoadTxCount(q) \/ CasTxCount(q)
  BY <1>3 DEF SendPkts, LoadTxCount, CasTxCount
<1>4. CASE EndTransmit(q) \/ AllocOk(q) \/ AllocFail(q)
  BY <1>4 DEF EndTransmit, AllocOk, AllocFail
<1>5. CASE \E k \in 0..TxBurst : TxBurstCall(q, k) \/ TxBurstTagged(q, k)
  BY <1>5 DEF TxBurstCall, TxBurstTagged
<1>6. CASE FirstTx(q) \/ FirstTxDone(q)
  BY <1>6 DEF FirstTx, FirstTxDone
<1>7. CASE PollQFlags(q) \/ TxFlush(q)
  BY <1>7 DEF PollQFlags, TxFlush
<1> QED
  BY <1>1, <1>2, <1>3, <1>4, <1>5, <1>6, <1>7 DEF Lcore

(* Commands and signals touch no lcore, and neither the lock, the mempools *)
(* nor what was built.                                                     *)
LEMMA CommandFrame ==
  Command => UNCHANGED <<lcores, portLock, pool, builtMp>>
BY Zenon DEF Command, pools, Start, StartClearQ, StartCount, StartSend,
   StartForever, Stop, FlushQ, Prime, PrimeClearQ, PrimeCount, PrimeSend,
   Alarm, AlarmFirst, SetCount, SetConfig, EnableMode, SetMode, EnableOption,
   Disable

LEMMA LockStep == TypeData /\ LockInv /\ [Next]_vars => LockInv'
<1> SUFFICES ASSUME TypeData, LockInv, [Next]_vars,
                    NEW r \in Queues, lpc'[r] = "build"
             PROVE  portLock' = r
  BY DEF LockInv
<1>0. lpc \in [Queues -> LcorePc]
  BY DEF TypeData
<1>1. CASE UNCHANGED vars
  BY <1>1 DEF vars, lcores, pools, LockInv
<1>2. CASE Command
  BY <1>2, CommandFrame DEF lcores, LockInv
<1>3. ASSUME NEW q \in Queues, LockPort(q) PROVE portLock' = r
  BY <1>0, <1>3, QueueIndex DEF LockPort, Goto, LockInv
<1>4. ASSUME NEW q \in Queues, BuildPool(q) PROVE portLock' = r
  BY <1>0, <1>4, QueueIndex DEF BuildPool, At, Goto, LockInv
<1>5. ASSUME NEW q \in Queues, Lcore(q), ~LockPort(q), ~BuildPool(q)
      PROVE  portLock' = r
  BY <1>0, <1>5, LockFrame DEF LockInv
<1> QED
  BY <1>1, <1>2, <1>3, <1>4, <1>5 DEF Next

(* Two lcores are never in the port's packet scratch at the same time.     *)
THEOREM BuildsExclude == Spec => []SetupExclusive
<1>1. Init => LockInv
  BY DEF Init, LockInv
<1>2. LockInv => SetupExclusive
  BY DEF LockInv, SetupExclusive
<1> QED
  BY <1>1, <1>2, LockStep, TypeInit, TypeDataStep, PTL DEF Spec

-----------------------------------------------------------------------------
(* Stopping.                                                               *)

(* The places from which a burst is still to begin in this iteration.      *)
Bound == {"setup", "lock", "build", "send", "load", "cas", "alloc"}

(* A late burst is begun by an lcore bound for it when the port stopped,   *)
(* which then passes by the flags again before it can begin another.       *)
StopInv ==
  \A q \in Queues :
    /\ late[q] \in {0, 1}
    /\ "SENDING_PACKETS" \in portFlags => late[q] = 0
    /\ lpc[q] \in Bound => late[q] = 0

(* A command can only set SENDING_PACKETS by forgiving the late bursts.    *)
LEMMA CommandLate ==
  Command => \/ late' = [q \in Queues |-> 0]
             \/ /\ late' = late
                /\ "SENDING_PACKETS" \in portFlags' =>
                      "SENDING_PACKETS" \in portFlags
<1> SUFFICES ASSUME Command, late' # [q \in Queues |-> 0]
             PROVE  /\ late' = late
                    /\ "SENDING_PACKETS" \in portFlags' =>
                          "SENDING_PACKETS" \in portFlags
  OBVIOUS
<1> USE DEF ports
<1>1. ASSUME NEW t \in Threads,
             \/ Start(t) \/ StartClearQ(t) \/ StartCount(t) \/ StartSend(t)
             \/ StartForever(t) \/ Stop(t) \/ FlushQ(t)
      PROVE  /\ late' = late
             /\ "SENDING_PACKETS" \in portFlags' =>
                   "SENDING_PACKETS" \in portFlags
  BY <1>1 DEF Start, StartClearQ, StartCount, StartSend, SetSending,
     StartForever, Stop, FlushQ, SetQFlag
<1>2. CASE Prime \/ PrimeClearQ \/ PrimeCount \/ PrimeSend
  BY <1>2 DEF Prime, PrimeClearQ, PrimeCount, PrimeSend, SetSending, SetQFlag
<1>3. CASE Alarm \/ AlarmFirst
  BY <1>3 DEF Alarm, AlarmFirst
<1>4. CASE SetConfig \/ \E k \in Counts : SetCount(k)
  BY <1>4 DEF SetConfig, SetCount
<1>5. ASSUME NEW m \in Modes \cup Options,
             \/ m \in Modes /\ (EnableMode(m) \/ SetMode(m))
             \/ m \in Options /\ EnableOption(m)
             \/ Disable(m)
      PROVE  /\ late' = late
             /\ "SENDING_PACKETS" \in portFlags' =>
                   "SENDING_PACKETS" \in portFlags
  BY <1>5, TxAssumption DEF EnableMode, SetMode, EnableOption, Disable
<1> QED
  BY <1>1, <1>2, <1>3, <1>4, <1>5 DEF Command

(* An lcore becomes bound for a burst only on a port it saw sending.       *)
LEMMA LcoreLate ==
  ASSUME NEW q \in Queues, Lcore(q), ~AllocOk(q)
  PROVE  /\ late' = late
         /\ "SENDING_PACKETS" \in portFlags' =>
               "SENDING_PACKETS" \in portFlags
         /\ \E l : /\ lpc' = [lpc EXCEPT ![q] = l]
                   /\ l \in Bound => \/ lpc[q] \in Bound
                                     \/ "SENDING_PACKETS" \in portFlags
<1> USE DEF At, Goto, Bound, ports
<1>1. CASE Poll(q)
  BY <1>1 DEF Poll
<1>2. CASE SetupPackets(q)
  BY <1>2 DEF SetupPackets
<1>3. CASE LockPort(q) \/ BuildPool(q)
  BY <1>3 DEF LockPort, BuildPool
<1>4. CASE SendPkts(q)
  BY <1>4 DEF SendPkts
<1>5. CASE LoadTxCount(q) \/ CasTxCount(q)
  BY <1>5 DEF LoadTxCount, CasTxCount
<1>6. CASE EndTransmit(q) \/ AllocFail(q)
  BY <1>6 DEF EndTransmit, AllocFail
<1>7. CASE \E k \in 0..TxBurst : TxBurstCall(q, k) \/ TxBurstTagged(q, k)
  BY <1>7 DEF TxBurstCall, TxBurstTagged
<1>8. CASE FirstTx(q) \/ FirstTxDone(q)
  BY <1>8 DEF FirstTx, FirstTxDone
<1>9. CASE PollQFlags(q) \/ TxFlush(q)
  BY <1>9 DEF PollQFlags, TxFlush
<1> QED
  BY <1>1, <1>2, <1>3, <1>4, <1>5, <1>6, <1>7, <1>8, <1>9 DEF Lcore

LEMMA StopStep == TypeData /\ StopInv /\ [Next]_vars => StopInv'
<1> SUFFICES ASSUME TypeData, StopInv, [Next]_vars, NEW r \in Queues
             PROVE  /\ late'[r] \in {0, 1}
                    /\ "SENDING_PACKETS" \in portFlags' => late'[r] = 0
                    /\ lpc'[r] \in Bound => late'[r] = 0
  BY DEF StopInv
<1>0. lpc \in [Queues -> LcorePc] /\ late \in [Queues -> Nat]
  BY DEF TypeData
<1>1. CASE UNCHANGED vars
  BY <1>1 DEF vars, ports, lcores, StopInv
<1>2. CASE Command
  <2>1. lpc' = lpc
    BY <1>2, CommandFrame DEF lcores
  <2> QED
    BY <1>2, <2>1, CommandLate DEF StopInv
<1>3. ASSUME NEW q \in Queues, Lcore(q), ~AllocOk(q)
      PROVE  /\ late'[r] \in {0, 1}
             /\ "SENDING_PACKETS" \in portFlags' => late'[r] = 0
             /\ lpc'[r] \in Bound => late'[r] = 0
  BY <1>0, <1>3, LcoreLate DEF StopInv
<1>4. ASSUME NEW q \in Queues, AllocOk(q)
      PROVE  /\ late'[r] \in {0, 1}
             /\ "SENDING_PACKETS" \in portFlags' => late'[r] = 0
             /\ lpc'[r] \in Bound => late'[r] = 0
  BY <1>0, <1>4 DEF AllocOk, At, Goto, Bound, ports, StopInv
<1> QED
  BY <1>1, <1>2, <1>3, <1>4 DEF Next

(* A stopped port's queue begins one more burst at the most.               *)
THEOREM StopsWithinOneBurst == Spec => []StopBound
<1>1. Init => StopInv
  BY DEF Init, StopInv, Bound
<1>2. StopInv => StopBound
  BY DEF StopInv, StopBound
<1> QED
  BY <1>1, <1>2, StopStep, TypeInit, TypeDataStep, PTL DEF Spec

-----------------------------------------------------------------------------
(* Rebuilding.                                                             *)

(* A lcore that took the request carries it out on the pool it noted, and  *)
(* unless it has been asked again it builds from settings as new as the    *)
(* start's.                                                                *)
BuildInv(q) ==
  /\ startCfg[q] <= cfg
  /\ lpc[q] \in {"lock", "build"} => builtMp[q] = mp[q] /\ mp[q] # "pcap_mp"
  /\ lpc[q] = "build" /\ "CLEAR_FAST_ALLOC_FLAG" \notin qFlags[q]
     => left[q] >= startCfg[q]
  /\ /\ "CLEAR_FAST_ALLOC_FLAG" \notin qFlags[q]
     /\ lpc[q] \notin {"lock", "build"}
     /\ builtMp[q] # "pcap_mp"
     => pool[q][builtMp[q]] >= startCfg[q]

RebuildInv == \A q \in Queues : BuildInv(q)

(* Commands move the settings forward, and ask for a rebuild when they     *)
(* note a start's settings.                                                *)
LEMMA CommandRebuild ==
  ASSUME TypeData, Command, NEW q \in Queues
  PROVE  /\ cfg' \in Nat /\ cfg' >= cfg
         /\ \/ startCfg'[q] = startCfg[q]
            \/ /\ startCfg'[q] = cfg
               /\ cfg' = cfg
               /\ "CLEAR_FAST_ALLOC_FLAG" \in qFlags'[q]
         /\ "CLEAR_FAST_ALLOC_FLAG" \in qFlags[q] =>
               "CLEAR_FAST_ALLOC_FLAG" \in qFlags'[q]
<1> DEFINE Goal ==
         /\ cfg' \in Nat /\ cfg' >= cfg
         /\ \/ startCfg'[q] = startCfg[q]
            \/ /\ startCfg'[q] = cfg
               /\ cfg' = cfg
               /\ "CLEAR_FAST_ALLOC_FLAG" \in qFlags'[q]
         /\ "CLEAR_FAST_ALLOC_FLAG" \in qFlags[q] =>
               "CLEAR_FAST_ALLOC_FLAG" \in qFlags'[q]
<1>0. /\ cfg \in Nat
      /\ qFlags \in [Queues -> SUBSET QFlags]
      /\ startCfg \in [Queues -> Nat]
      /\ cq \in [Threads -> Queues]
  BY DEF TypeData
<1>1. ASSUME UNCHANGED <<qFlags, cfg, startCfg>> PROVE Goal
  BY <1>0, <1>1
<1>2. ASSUME NEW t \in Threads, StartClearQ(t) PROVE Goal
  BY <1>0, <1>2 DEF StartClearQ, SetQFlag
<1>3. CASE PrimeClearQ
  BY <1>0, <1>3, ThreadNames DEF PrimeClearQ, SetQFlag
<1>4. ASSUME NEW t \in Threads, FlushQ(t) PROVE Goal
  BY <1>0, <1>4 DEF FlushQ, SetQFlag, pools
<1>5. CASE SetConfig
  BY <1>0, <1>5 DEF SetConfig, ports
<1>6. Command => \/ UNCHANGED <<qFlags, cfg, startCfg>> \/ PrimeClearQ
                 \/ SetConfig
                 \/ \E t \in Threads : StartClearQ(t) \/ FlushQ(t)
  BY Zenon DEF Command, ports, pools, Start, StartCount, StartSend,
     StartForever, Stop, Prime, PrimeCount, PrimeSend, Alarm, AlarmFirst,
     SetCount, EnableMode, SetMode, EnableOption, Disable
<1> QED
  BY <1>1, <1>2, <1>3, <1>4, <1>5, <1>6

(* Steps of an lcore that neither take, begin nor end a rebuild.           *)
LEMMA LcoreRebuild ==
  ASSUME TypeData, NEW q \in Queues, Lcore(q),
         ~SetupPackets(q), ~LockPort(q), ~BuildPool(q)
  PROVE  /\ UNCHANGED pools
         /\ \/ qFlags' = qFlags
            \/ qFlags' = [qFlags EXCEPT ![q] = @ \ {"DO_TX_FLUSH"}]
         /\ {lpc[q], lpc'[q]} \cap {"lock", "build"} = {}
         /\ \A r \in Queues \ {q} :
              lpc'[r] = lpc[r] /\ mp'[r] = mp[r] /\ left'[r] = left[r]
<1>0. /\ lpc \in [Queues -> LcorePc]
      /\ left \in [Queues -> Nat]
      /\ mp \in [Queues -> Pools]
  BY DEF TypeData
<1> USE <1>0 DEF At, Goto, ports, pools
<1>1. CASE Poll(q)
  BY <1>1 DEF Poll
<1>2. CASE SendPkts(q)
  BY <1>2 DEF SendPkts
<1>3. CASE LoadTxCount(q)
  BY <1>3 DEF LoadTxCount
<1>4. CASE CasTxCount(q)
  BY <1>4 DEF CasTxCount
<1>5. CASE EndTransmit(q) \/ AllocOk(q) \/ AllocFail(q)
  BY <1>5 DEF EndTransmit, AllocOk, AllocFail
<1>6. CASE \E k \in 0..TxBurst : TxBurstCall(q, k) \/ TxBurstTagged(q, k)
  BY <1>6 DEF TxBurstCall, TxBurstTagged
<1>7. CASE FirstTx(q)
  BY <1>7 DEF FirstTx
<1>8. CASE FirstTxDone(q)
  BY <1>8 DEF FirstTxDone
<1>9. CASE PollQFlags(q)
  BY <1>9 DEF PollQFlags
<1>10. CASE TxFlush(q)
  BY <1>10 DEF TxFlush, Clear
<1> QED
  BY <1>1, <1>2, <1>3, <1>4, <1>5, <1>6, <1>7, <1>8, <1>9, <1>10 DEF Lcore

LEMMA RebuildStep == TypeData /\ RebuildInv /\ [Next]_vars => RebuildInv'
<1> SUFFICES ASSUME TypeData, RebuildInv, [Next]_vars, NEW r \in Queues
             PROVE  BuildInv(r)'
  BY DEF RebuildInv
<1>0. BuildInv(r)
  BY DEF RebuildInv
<1>t. /\ cfg \in Nat
      /\ pool \in [Queues -> [Pools -> Nat]]
      /\ qFlags \in [Queues -> SUBSET QFlags]
      /\ lpc \in [Queues -> LcorePc]
      /\ mp \in [Queues -> Pools]
      /\ left \in [Queues -> Nat]
      /\ startCfg \in [Queues -> Nat]
      /\ builtMp \in [Queues -> Pools]
  BY DEF TypeData
<1>1. CASE UNCHANGED vars
  BY <1>0, <1>1 DEF vars, ports, pools, lcores, BuildInv
<1>2. CASE Command
  BY <1>0, <1>t, <1>2, CommandFrame, CommandRebuild DEF lcores, BuildInv
<1>3. ASSUME NEW q \in Queues, SetupPackets(q) PROVE BuildInv(r)'
  <2>1. CASE r # q
    BY <1>0, <1>t, <1>3, <2>1 DEF SetupPackets, Goto, Clear, BuildInv
  <2>2. CASE r = q /\ "CLEAR_FAST_ALLOC_FLAG" \notin qFlags[q]
    BY <1>0, <1>t, <1>3, <2>2 DEF SetupPackets, At, Goto, BuildInv
  <2>3. CASE r = q /\ "CLEAR_FAST_ALLOC_FLAG" \in qFlags[q]
    BY <1>0, <1>t, <1>3, <2>3 DEF SetupPackets, Goto, BuildInv
  <2> QED
    BY <2>1, <2>2, <2>3
<1>4. ASSUME NEW q \in Queues, LockPort(q) PROVE BuildInv(r)'
  BY <1>0, <1>t, <1>4 DEF LockPort, At, Goto, ports, BuildInv
<1>5. ASSUME NEW q \in Queues, BuildPool(q) PROVE BuildInv(r)'
  <2>1. CASE r # q
    BY <1>0, <1>t, <1>5, <2>1 DEF BuildPool, Goto, ports, BuildInv
  <2>2. CASE r = q
    <3>1. pool'[q][mp[q]] = left[q]
      BY <1>t, <1>5 DEF BuildPool
    <3> QED
      BY <1>0, <1>t, <1>5, <2>2, <3>1 DEF BuildPool, At, Goto, ports, BuildInv
  <2> QED
    BY <2>1, <2>2
<1>6. ASSUME NEW q \in Queues, Lcore(q),
             ~SetupPackets(q), ~LockPort(q), ~BuildPool(q)
      PROVE  BuildInv(r)'
  <2>1. /\ UNCHANGED <<cfg, pool, startCfg, builtMp>>
        /\ "CLEAR_FAST_ALLOC_FLAG" \in qFlags'[r] <=>
             "CLEAR_FAST_ALLOC_FLAG" \in qFlags[r]
    BY <1>t, <1>6, LcoreRebuild DEF pools
  <2>2. CASE r = q
    <3>1. {lpc[q], lpc'[q]} \cap {"lock", "build"} = {}
      BY <1>6, LcoreRebuild
    <3> QED
      BY <1>0, <2>1, <2>2, <3>1 DEF BuildInv
  <2>3. CASE r # q
    <3>1. lpc'[r] = lpc[r] /\ mp'[r] = mp[r] /\ left'[r] = left[r]
      BY <1>6, <2>3, LcoreRebuild
    <3> QED
      BY <1>0, <2>1, <3>1 DEF BuildInv
  <2> QED
    BY <2>2, <2>3
<1> QED
  BY <1>1, <1>2, <1>3, <1>4, <1>5, <1>6 DEF Next

(* No settings given before a start are lost: the mempool the start had    *)
(* rebuilt is built from them, or from newer ones.                         *)
THEOREM StartsWithItsSettings == Spec => []RebuiltForStart
<1>1. Init => RebuildInv
  BY DEF Init, RebuildInv, BuildInv, Pools
<1>2. RebuildInv => RebuiltForStart
  BY DEF RebuildInv, BuildInv, RebuiltForStart
<1> QED
  BY <1>1, <1>2, RebuildStep, TypeInit, TypeDataStep, PTL DEF Spec

-----------------------------------------------------------------------------
(* The counter implements the abstract budget.                             *)

(* An lcore tries its compare-and-set only on a count that was not zero.   *)
GrantInv == \A q \in Queues : lpc[q] = "cas" => left[q] # 0

LEMMA LcoreGrant ==
  ASSUME TypeData, NEW q \in Queues, Lcore(q), ~LoadTxCount(q)
  PROVE  /\ lpc'[q] # "cas"
         /\ \A r \in Queues \ {q} : lpc'[r] = lpc[r] /\ left'[r] = left[r]
<1>0. lpc \in [Queues -> LcorePc] /\ left \in [Queues -> Nat]
  BY DEF TypeData
<1> USE <1>0 DEF Goto
<1>1. CASE Poll(q)
  BY <1>1 DEF Poll
<1>2. CASE SetupPackets(q)
  BY <1>2 DEF SetupPackets
<1>3. CASE LockPort(q) \/ BuildPool(q)
  BY <1>3 DEF LockPort, BuildPool
<1>4. CASE SendPkts(q)
  BY <1>4 DEF SendPkts
<1>5. CASE CasTxCount(q)
  BY <1>5 DEF CasTxCount
<1>6. CASE EndTransmit(q) \/ AllocOk(q) \/ AllocFail(q)
  BY <1>6 DEF EndTransmit, AllocOk, AllocFail
<1>7. CASE \E k \in 0..TxBurst : TxBurstCall(q, k) \/ TxBurstTagged(q, k)
  BY <1>7 DEF TxBurstCall, TxBurstTagged
<1>8. CASE FirstTx(q)
  BY <1>8 DEF FirstTx
<1>9. CASE FirstTxDone(q)
  BY <1>9 DEF FirstTxDone
<1>10. CASE PollQFlags(q) \/ TxFlush(q)
  BY <1>10 DEF PollQFlags, TxFlush
<1> QED
  BY <1>1, <1>2, <1>3, <1>4, <1>5, <1>6, <1>7, <1>8, <1>9, <1>10 DEF Lcore

LEMMA GrantStep == TypeData /\ GrantInv /\ [Next]_vars => GrantInv'
<1> SUFFICES ASSUME TypeData, GrantInv, [Next]_vars,
                    NEW r \in Queues, lpc'[r] = "cas"
             PROVE  left'[r] # 0
  BY DEF GrantInv
<1>0. lpc \in [Queues -> LcorePc] /\ left \in [Queues -> Nat]
  BY DEF TypeData
<1>1. CASE UNCHANGED vars
  BY <1>1 DEF vars, lcores, GrantInv
<1>2. CASE Command
  BY <1>2, CommandFrame DEF lcores, GrantInv
<1>3. ASSUME NEW q \in Queues, LoadTxCount(q) PROVE left'[r] # 0
  BY <1>0, <1>3 DEF LoadTxCount, Goto, GrantInv
<1>4. ASSUME NEW q \in Queues, Lcore(q), ~LoadTxCount(q) PROVE left'[r] # 0
  BY <1>4, LcoreGrant DEF GrantInv
<1> QED
  BY <1>1, <1>2, <1>3, <1>4 DEF Next

(* Start and prime load the budget, a compare-and-set that succeeds grants *)
(* one burst of it, and nothing else moves it.                             *)
THEOREM CounterRefinesBudget == Spec => ImplementsBudget
<1>1. Init => Budget!Init
  BY DEF Init, Budget!Init
<1>2. TypeData /\ GrantInv /\ [Next]_vars => [Budget!Next]_Budget!vars
  <2> SUFFICES ASSUME TypeData, GrantInv, [Next]_vars
               PROVE  Budget!Next \/ UNCHANGED <<loaded, currentCount, granted>>
    BY DEF Budget!vars
  <2>1. CASE UNCHANGED <<currentCount, loaded, granted>>
    BY <2>1
  <2>2. ASSUME NEW t \in Threads, StartCount(t) PROVE Budget!Next
    BY <2>2 DEF StartCount, LoadCount, Budget!Next, Budget!Load
  <2>3. CASE PrimeCount
    BY <2>3 DEF PrimeCount, LoadCount, Budget!Next, Budget!Load
  <2>4. ASSUME NEW q \in Queues, CasTxCount(q)
        PROVE  Budget!Next \/ UNCHANGED <<loaded, currentCount, granted>>
    <3>1. CASE left[q] = currentCount /\ currentCount' = currentCount - Burst(left[q])
               /\ granted' = granted + Burst(left[q])
      <4>1. left[q] \in Nat /\ left[q] # 0
        BY <2>4 DEF TypeData, GrantInv, CasTxCount, At
      <4>2. Burst(left[q]) \in 1..TxBurst /\ Burst(left[q]) <= currentCount
        BY <3>1, <4>1, BurstBounds
      <4>3. currentCount - currentCount' = Burst(left[q])
        BY <3>1, <4>1, <4>2, TxAssumption
      <4>4. Budget!Grant(currentCount - currentCount')
        BY <2>4, <3>1, <4>2, <4>3, CasMoves DEF Budget!Grant
      <4> QED
        BY <4>4 DEF Budget!Next
    <3> QED
      BY <2>4, <3>1, CasMoves
  <2> QED
    BY <2>1, <2>2, <2>3, <2>4, CountFrame
<1>3. Init => GrantInv
  BY DEF Init, GrantInv
<1> QED
  BY <1>1, <1>2, <1>3, GrantStep, TypeInit, TypeDataStep, PTL
     DEF Spec, ImplementsBudget, Budget!Spec

(***************************************************************************)
(* The tree of commands.  Numbers first.                                   *)
(***************************************************************************)
Less == {ss \in Nat \X Nat : ss[1] < ss[2]}
LEMMA LessFounded == IsWellFoundedOn(Less, Nat)
BY NatLessThanWellFounded DEF OpToRel, Less

(* A set of numbers that is not empty has a least one.                     *)
LEMMA LeastOf ==
  ASSUME NEW T \in SUBSET Nat, T # {}
  PROVE  /\ Min(T) \in T /\ \A y \in T : Min(T) <= y
<1>1. PICK x \in T : \A y \in T : <<y, x>> \notin Less
  BY LessFounded, WFMin
<1>2. ASSUME NEW y \in T PROVE x <= y
  <2>1. x \in Nat /\ y \in Nat
    OBVIOUS
  <2>2. ~(y < x)
    BY <1>1, <2>1 DEF Less
  <2> QED  BY <2>1, <2>2
<1> QED  BY <1>2 DEF Min

(* Induction, as a fact about a set: one that has 0 and with each number   *)
(* the next is all of the naturals.                                        *)
LEMMA NatInd ==
  ASSUME NEW S \in SUBSET Nat, 0 \in S, \A n \in S : n + 1 \in S
  PROVE  S = Nat
<1> DEFINE T == Nat \ S
<1> SUFFICES ASSUME T # {} PROVE FALSE
  OBVIOUS
<1>1. PICK x \in T : \A y \in T : <<y, x>> \notin Less
  <2>1. T \subseteq Nat
    OBVIOUS
  <2> HIDE DEF T
  <2> QED  BY <2>1, LessFounded, WFMin
<1>2. x \in Nat /\ x # 0 /\ x - 1 \in Nat /\ (x - 1) + 1 = x
  OBVIOUS
<1>3. <<x - 1, x>> \in Less
  BY <1>2 DEF Less
<1>4. x - 1 \in S
  BY <1>1, <1>2, <1>3
<1> QED  BY <1>2, <1>4

(* The largest of the numbers up to n, when n is among them.               *)
LEMMA MaxIs ==
  ASSUME NEW n \in Nat, NEW s \in SUBSET (1..n), n \in s
  PROVE  Max(s) = n
<1>1. \A y \in s : y \in Nat /\ n >= y
  OBVIOUS
<1>2. \E x \in s : \A y \in s : x >= y
  BY <1>1
<1> DEFINE m == CHOOSE x \in s : \A y \in s : x >= y
<1>3. m \in s /\ \A y \in s : m >= y
  BY <1>2
<1> HIDE DEF m
<1>4. m \in Nat /\ m >= n /\ n >= m
  BY <1>1, <1>3
<1>5. m = n
  BY <1>4
<1> QED  BY <1>5 DEF Max, m

(***************************************************************************)
(* The folds of the model, one after the other: what each does with the    *)
(* next element e of its sequence.                                         *)
(***************************************************************************)
WalkOn(c, at, name) ==
  LET n == SearchDir(c, at.dir, name, All)
  IN IF at.done THEN at
     ELSE IF IsDir(c, n) THEN [dir |-> n, node |-> n, done |-> FALSE]
     ELSE [at EXCEPT !.node = n, !.done = TRUE]
DirOn(path, s, name) ==
  LET search == s.search \o name
      found == FindNode(s.cli, [path EXCEPT !.names = <<search>>])
      new == AddNode(s.cli, s.dir, Dir(name))
  IN CASE s.stop -> s
       [] ~s.stop /\ found # Null -> [s EXCEPT !.search = search, !.dir = found]
       [] OTHER -> [cli |-> new.cli, search |-> search, dir |-> new.node,
                    node |-> new.node, stop |-> new.node = Null]
TableOn(s, t) ==
  CASE t.type = "dir" ->
         LET made == AddDir(s.cli, t.path, s.parent) IN
         [cli |-> IF t.bin THEN AddBin(made.cli, FindNode(made.cli, t.path)) ELSE made.cli,
          parent |-> made.node]
    [] OTHER -> [s EXCEPT !.cli = AddNode(s.cli, s.parent, t.node).cli]
FoldStep(way, x, a, e) ==
  CASE way = "walk" -> WalkOn(x, a, e)
    [] way = "dir" -> DirOn(x, a, e)
    [] way = "cat" -> a \o x[e]
    [] way = "remove" -> Removed(a, e)
    [] OTHER -> TableOn(a, e)

Folding(it, way, x, base, seq, n) ==
  it = [s \in SUBSET (1..n) |->
          IF s = {} THEN base ELSE FoldStep(way, x, it[s \ {Max(s)}], seq[Max(s)])]

LEMMA FoldExists ==
  ASSUME NEW way, NEW x, NEW base, NEW seq, NEW N \in Nat
  PROVE  \E it : Folding(it, way, x, base, seq, N)
<1> DEFINE K == {k \in Nat : \E it : Folding(it, way, x, base, seq, k)}
<1>1. 0 \in K
  <2> DEFINE f == [s \in SUBSET (1..0) |-> base]
  <2>1. f = [s \in SUBSET (1..0) |->
               IF s = {} THEN base ELSE FoldStep(way, x, f[s \ {Max(s)}], seq[Max(s)])]
    <3>1. \A s \in SUBSET (1..0) : s = {}
      OBVIOUS
    <3> QED  BY <3>1
  <2>2. Folding(f, way, x, base, seq, 0)
    BY <2>1 DEF Folding
  <2> QED  BY <2>2
<1>2. ASSUME NEW k \in K PROVE k + 1 \in K
  <2>1. k \in Nat
    OBVIOUS
  <2>2. PICK f : Folding(f, way, x, base, seq, k)
    OBVIOUS
  <2> DEFINE step(h, n) == FoldStep(way, x, h, seq[n])
             f2 == [s \in SUBSET (1..(k + 1)) |->
                      IF k + 1 \in s THEN step(f[s \ {k + 1}], k + 1) ELSE f[s]]
             f3 == [s \in SUBSET (1..(k + 1)) |->
                      IF s = {} THEN base ELSE step(f2[s \ {Max(s)}], Max(s))]
  <2>3. \A s \in SUBSET (1..k) : f[s] = IF s = {} THEN base ELSE step(f[s \ {Max(s)}], Max(s))
    BY <2>2 DEF Folding
  <2> HIDE DEF step
  <2>4. ASSUME NEW s \in SUBSET (1..(k + 1)) PROVE f2[s] = f3[s]
    <3>1. CASE k + 1 \in s
      <4>1. Max(s) = k + 1
        BY <2>1, <3>1, MaxIs
      <4>2. s \ {k + 1} \in SUBSET (1..(k + 1)) /\ k + 1 \notin s \ {k + 1}
        OBVIOUS
      <4>3. f2[s \ {k + 1}] = f[s \ {k + 1}]
        BY <4>2
      <4> QED  BY <3>1, <4>1, <4>3
    <3>2. CASE k + 1 \notin s
      <4>1. s \in SUBSET (1..k) /\ s \ {Max(s)} \in SUBSET (1..(k + 1)) /\ k + 1 \notin s \ {Max(s)}
        <5>1. \A y \in 1..(k + 1) : y # k + 1 => y \in 1..k
          BY <2>1
        <5> QED  BY <3>2, <5>1
      <4>2. f2[s] = f[s] /\ f2[s \ {Max(s)}] = f[s \ {Max(s)}]
        BY <3>2, <4>1
      <4> QED  BY <2>3, <4>1, <4>2
    <3> QED  BY <3>1, <3>2
  <2>5. f2 = f3
    <3>1. f2 = [s \in SUBSET (1..(k + 1)) |-> f2[s]] /\ f3 = [s \in SUBSET (1..(k + 1)) |-> f3[s]]
      OBVIOUS
    <3> HIDE DEF f2, f3
    <3> QED  BY <2>4, <3>1
  <2>6. Folding(f2, way, x, base, seq, k + 1)
    <3>1. f3 = [s \in SUBSET (1..(k + 1)) |->
                  IF s = {} THEN base ELSE FoldStep(way, x, f2[s \ {Max(s)}], seq[Max(s)])]
      <4> HIDE DEF f2
      <4> QED  BY DEF step
    <3> HIDE DEF f2, f3
    <3> QED  BY <2>5, <3>1 DEF Folding
  <2>7. k + 1 \in Nat
    BY <2>1
  <2> HIDE DEF f2, f3
  <2> QED  BY <2>6, <2>7
<1>3. K \in SUBSET Nat
  OBVIOUS
<1> HIDE DEF K
<1>4. N \in K
  BY <1>1, <1>2, <1>3, NatInd
<1> QED  BY <1>4 DEF K

(* The values a fold comes to, one after the other.                        *)
Comes(h, way, x, base, seq, n) ==
  /\ h[0] = base
  /\ \A i \in 1..n : h[i] = FoldStep(way, x, h[i - 1], seq[i])

LEMMA FoldComes ==
  ASSUME NEW way, NEW x, NEW base, NEW seq, NEW N \in Nat, NEW it,
         Folding(it, way, x, base, seq, N)
  PROVE  \E h : h = [i \in 0..N |-> it[1..i]] /\ Comes(h, way, x, base, seq, N)
<1> DEFINE h == [i \in 0..N |-> it[1..i]]
<1>1. h[0] = base
  <2>1. 0 \in 0..N /\ 1..0 = {} /\ {} \in SUBSET (1..N)
    OBVIOUS
  <2> QED  BY <2>1 DEF Folding
<1>2. ASSUME NEW i \in 1..N PROVE h[i] = FoldStep(way, x, h[i - 1], seq[i])
  <2>1. i \in 0..N /\ i - 1 \in 0..N /\ 1..i \in SUBSET (1..N) /\ 1..i # {}
        /\ i \in 1..i /\ (1..i) \ {i} = 1..(i - 1) /\ i \in Nat
    OBVIOUS
  <2>2. Max(1..i) = i
    BY <2>1, MaxIs
  <2>3. it[1..i] = FoldStep(way, x, it[(1..i) \ {Max(1..i)}], seq[Max(1..i)])
    BY <2>1 DEF Folding
  <2> QED  BY <2>1, <2>2, <2>3
<1> HIDE DEF h
<1>3. h = [i \in 0..N |-> it[1..i]]
  BY DEF h
<1> QED  BY <1>1, <1>2, <1>3 DEF Comes

(* FoldLeft of the concatenation: what Subtree puts before a directory.    *)
Cat(g, seq) == FoldLeft(LAMBDA before, k : before \o g[k], <<>>, seq)
LEMMA CatComes ==
  ASSUME NEW g, NEW S, NEW seq \in Seq(S)
  PROVE  \E h : /\ Comes(h, "cat", g, <<>>, seq, Len(seq))
                /\ Cat(g, seq) = h[Len(seq)]
<1> DEFINE N == Len(seq)
<1>1. N \in Nat /\ DOMAIN seq = 1..N /\ N \in 0..N
  BY LenProperties
<1> HIDE DEF N
<1>2. PICK f : Folding(f, "cat", g, <<>>, seq, N)
  BY <1>1, FoldExists
<1> DEFINE it == CHOOSE it : it = [s \in SUBSET (1..N) |->
                    IF s = {} THEN <<>> ELSE it[s \ {Max(s)}] \o g[seq[Max(s)]]]
<1>3. Cat(g, seq) = it[1..N]
  BY <1>1 DEF Cat, FoldLeft, MapThenFoldSet
<1>4. f = [s \in SUBSET (1..N) |->
                    IF s = {} THEN <<>> ELSE f[s \ {Max(s)}] \o g[seq[Max(s)]]]
  BY <1>2 DEF Folding, FoldStep
<1>5. it = [s \in SUBSET (1..N) |->
                    IF s = {} THEN <<>> ELSE it[s \ {Max(s)}] \o g[seq[Max(s)]]]
  BY <1>4
<1> HIDE DEF it
<1>6. Folding(it, "cat", g, <<>>, seq, N)
  BY <1>5 DEF Folding, FoldStep
<1>7. PICK h : h = [i \in 0..N |-> it[1..i]] /\ Comes(h, "cat", g, <<>>, seq, N)
  BY <1>1, <1>6, FoldComes
<1> QED  BY <1>1, <1>3, <1>7 DEF N

(***************************************************************************)
(* Sequences.                                                              *)
(***************************************************************************)
LEMMA SetOf ==
  ASSUME NEW S, NEW s \in Seq(S)
  PROVE  /\ ToSet(s) = {s[i] : i \in 1..Len(s)} /\ ToSet(s) \subseteq S
         /\ Len(s) \in Nat /\ DOMAIN s = 1..Len(s)
<1>1. Len(s) \in Nat /\ DOMAIN s = 1..Len(s) /\ s \in [1..Len(s) -> S]
  BY LenProperties
<1> QED  BY <1>1 DEF ToSet

(* Every node comes behind its entries, as items has them.                 *)
Behind(items, s) ==
  \A i \in 1..Len(s) : \A n \in ToSet(items[s[i]]) : \E j \in 1..(i - 1) : s[j] = n

LEMMA ConcatFacts ==
  ASSUME NEW S, NEW s \in Seq(S), NEW t \in Seq(S)
  PROVE  /\ s \o t \in Seq(S) /\ ToSet(s \o t) = ToSet(s) \cup ToSet(t)
         /\ IsInjective(s) /\ IsInjective(t) /\ ToSet(s) \cap ToSet(t) = {}
            => IsInjective(s \o t)
         /\ IsInjective(s \o t)
            => IsInjective(s) /\ IsInjective(t) /\ ToSet(s) \cap ToSet(t) = {}
         /\ \A items : Behind(items, s) /\ Behind(items, t) => Behind(items, s \o t)
<1> DEFINE u == s \o t
           A == Len(s)
           B == Len(t)
<1>1. u \in Seq(S) /\ Len(u) = A + B /\ A \in Nat /\ B \in Nat
      /\ DOMAIN s = 1..A /\ DOMAIN t = 1..B /\ DOMAIN u = 1..(A + B)
  BY ConcatProperties, LenProperties
<1>2. \A i \in 1..(A + B) : u[i] = IF i <= A THEN s[i] ELSE t[i - A]
  BY ConcatProperties
<1> HIDE DEF u, A, B
<1>3. /\ \A i \in 1..A : i \in 1..(A + B) /\ u[i] = s[i]
      /\ \A i \in 1..B : i + A \in 1..(A + B) /\ u[i + A] = t[i]
      /\ \A i \in 1..(A + B) : i \in 1..A \/ (i - A \in 1..B /\ u[i] = t[i - A] /\ (i - A) + A = i)
  <2>1. ASSUME NEW i \in 1..A PROVE i \in 1..(A + B) /\ u[i] = s[i]
    BY <1>1, <1>2
  <2>2. ASSUME NEW i \in 1..B PROVE i + A \in 1..(A + B) /\ u[i + A] = t[i]
    <3>1. i + A \in 1..(A + B) /\ ~(i + A <= A) /\ (i + A) - A = i
      BY <1>1
    <3> QED  BY <1>2, <3>1
  <2>3. ASSUME NEW i \in 1..(A + B), i \notin 1..A
        PROVE  i - A \in 1..B /\ u[i] = t[i - A] /\ (i - A) + A = i
    <3>1. ~(i <= A) /\ i - A \in 1..B /\ (i - A) + A = i
      BY <1>1, <2>3
    <3> QED  BY <1>2, <3>1
  <2> QED  BY <2>1, <2>2, <2>3
<1>4. ToSet(u) = ToSet(s) \cup ToSet(t)
  <2>1. ToSet(s) \subseteq ToSet(u) /\ ToSet(t) \subseteq ToSet(u)
    <3>1. ASSUME NEW i \in 1..A PROVE s[i] \in ToSet(u)
      BY <1>1, <1>3 DEF ToSet
    <3>2. ASSUME NEW i \in 1..B PROVE t[i] \in ToSet(u)
      BY <1>1, <1>3 DEF ToSet
    <3>3. ToSet(s) = {s[i] : i \in 1..A} /\ ToSet(t) = {t[i] : i \in 1..B}
      BY <1>1 DEF ToSet
    <3> QED  BY <3>1, <3>2, <3>3
  <2>2. ASSUME NEW i \in 1..(A + B) PROVE u[i] \in ToSet(s) \cup ToSet(t)
    BY <1>1, <1>3 DEF ToSet
  <2> QED  BY <1>1, <2>1, <2>2 DEF ToSet
<1>5. ASSUME IsInjective(s), IsInjective(t), ToSet(s) \cap ToSet(t) = {}
      PROVE  IsInjective(u)
  <2> SUFFICES ASSUME NEW a \in 1..(A + B), NEW b \in 1..(A + B), u[a] = u[b] PROVE a = b
    BY <1>1 DEF IsInjective
  <2>1. CASE a \in 1..A /\ b \in 1..A
    BY <1>1, <1>3, <1>5, <2>1 DEF IsInjective
  <2>2. CASE a \in 1..A /\ b \notin 1..A
    <3>1. u[a] \in ToSet(s) /\ u[b] \in ToSet(t)
      BY <1>1, <1>3, <2>2 DEF ToSet
    <3> QED  BY <1>5, <3>1
  <2>3. CASE a \notin 1..A /\ b \in 1..A
    <3>1. u[b] \in ToSet(s) /\ u[a] \in ToSet(t)
      BY <1>1, <1>3, <2>3 DEF ToSet
    <3> QED  BY <1>5, <3>1
  <2>4. CASE a \notin 1..A /\ b \notin 1..A
    <3>1. a - A \in 1..B /\ b - A \in 1..B /\ t[a - A] = t[b - A]
          /\ (a - A) + A = a /\ (b - A) + A = b
      BY <1>3, <2>4
    <3>2. a - A = b - A
      BY <1>1, <1>5, <3>1 DEF IsInjective
    <3> QED  BY <3>1, <3>2
  <2> QED  BY <2>1, <2>2, <2>3, <2>4
<1>6. ASSUME IsInjective(u)
      PROVE  IsInjective(s) /\ IsInjective(t) /\ ToSet(s) \cap ToSet(t) = {}
  <2>1. IsInjective(s)
    BY <1>1, <1>3, <1>6 DEF IsInjective
  <2>2. ASSUME NEW a \in 1..B, NEW b \in 1..B, t[a] = t[b] PROVE a = b
    <3>1. a + A = b + A
      BY <1>1, <1>3, <1>6, <2>2 DEF IsInjective
    <3> QED  BY <1>1, <3>1
  <2>3. ASSUME NEW a \in 1..A, NEW b \in 1..B, s[a] = t[b] PROVE FALSE
    <3>1. a = b + A
      BY <1>1, <1>3, <1>6, <2>3 DEF IsInjective
    <3> QED  BY <1>1, <3>1
  <2>4. ToSet(s) \cap ToSet(t) = {}
    BY <1>1, <2>3 DEF ToSet
  <2> QED  BY <1>1, <2>1, <2>2, <2>4 DEF IsInjective
<1>7. ASSUME NEW items, Behind(items, s), Behind(items, t) PROVE Behind(items, u)
  <2> SUFFICES ASSUME NEW i \in 1..(A + B), NEW n \in ToSet(items[u[i]])
               PROVE  \E j \in 1..(i - 1) : u[j] = n
    BY <1>1 DEF Behind
  <2>1. CASE i \in 1..A
    <3>1. PICK j \in 1..(i - 1) : s[j] = n
      BY <1>3, <1>7, <2>1 DEF Behind, A
    <3>2. j \in 1..A
      BY <1>1, <2>1, <3>1
    <3> QED  BY <1>3, <3>1, <3>2
  <2>2. CASE i \notin 1..A
    <3>1. i - A \in 1..B /\ u[i] = t[i - A]
      BY <1>3, <2>2
    <3>2. PICK j \in 1..((i - A) - 1) : t[j] = n
      BY <1>7, <3>1 DEF Behind, B
    <3>3. j \in 1..B /\ j + A \in 1..(i - 1)
      BY <1>1, <3>1, <3>2
    <3> QED  BY <1>3, <3>2, <3>3
  <2> QED  BY <2>1, <2>2
<1> QED  BY <1>1, <1>4, <1>5, <1>6, <1>7 DEF u

(* A sequence with one more element.                                       *)
LEMMA OneMore ==
  ASSUME NEW S, NEW s \in Seq(S), NEW e \in S
  PROVE  /\ Append(s, e) = s \o <<e>> /\ Append(s, e) \in Seq(S)
         /\ Len(Append(s, e)) = Len(s) + 1
         /\ ToSet(Append(s, e)) = ToSet(s) \cup {e}
         /\ IsInjective(s) /\ e \notin ToSet(s) => IsInjective(Append(s, e))
         /\ \A items : Behind(items, s) /\ ToSet(items[e]) \subseteq ToSet(s)
                       => Behind(items, Append(s, e))
<1>1. <<e>> \in Seq(S) /\ ToSet(<<e>>) = {e} /\ IsInjective(<<e>>)
  BY DEF ToSet, IsInjective
<1>2. Append(s, e) = s \o <<e>>
  BY AppendIsConcat
<1>3. /\ Append(s, e) \in Seq(S) /\ Len(Append(s, e)) = Len(s) + 1
      /\ \A i \in 1..Len(s) : Append(s, e)[i] = s[i]
      /\ Append(s, e)[Len(s) + 1] = e
  BY AppendProperties
<1>4. ASSUME NEW items, Behind(items, s), ToSet(items[e]) \subseteq ToSet(s)
      PROVE  Behind(items, Append(s, e))
  <2> DEFINE u == Append(s, e)
  <2>1. Len(s) \in Nat
    BY LenProperties
  <2> SUFFICES ASSUME NEW i \in 1..(Len(s) + 1), NEW n \in ToSet(items[u[i]])
               PROVE  \E j \in 1..(i - 1) : u[j] = n
    BY <1>3 DEF Behind
  <2>2. CASE i \in 1..Len(s)
    <3>1. PICK j \in 1..(i - 1) : s[j] = n
      BY <1>3, <1>4, <2>2 DEF Behind
    <3>2. j \in 1..Len(s)
      BY <2>1, <2>2, <3>1
    <3> QED  BY <1>3, <3>1, <3>2
  <2>3. CASE i \notin 1..Len(s)
    <3>1. i = Len(s) + 1 /\ i - 1 = Len(s)
      BY <2>1, <2>3
    <3>2. n \in ToSet(s)
      BY <1>3, <1>4, <3>1
    <3>3. PICK j \in 1..Len(s) : s[j] = n
      BY <3>2, SetOf
    <3> QED  BY <1>3, <3>1, <3>3
  <2> QED  BY <2>2, <2>3
<1>5. /\ ToSet(s \o <<e>>) = ToSet(s) \cup {e}
      /\ IsInjective(s) /\ e \notin ToSet(s) => IsInjective(s \o <<e>>)
  <2>1. ToSet(s) \cap {e} = {} <=> e \notin ToSet(s)
    OBVIOUS
  <2> QED  BY <1>1, <2>1, ConcatFacts
<1> QED  BY <1>2, <1>3, <1>4, <1>5

LEMMA OneMoreSet ==
  ASSUME NEW S, NEW s \in Seq(S), NEW e \in S
  PROVE  ToSet(Append(s, e)) = ToSet(s) \cup {e}
<1>1. <<e>> \in Seq(S) /\ ToSet(<<e>>) = {e}
  BY DEF ToSet
<1>2. Append(s, e) = s \o <<e>>
  BY AppendIsConcat
<1>3. ToSet(s \o <<e>>) = ToSet(s) \cup ToSet(<<e>>)
  BY <1>1, ConcatFacts
<1> QED  BY <1>1, <1>2, <1>3

(***************************************************************************)
(* The concatenation of what g has for the elements of a sequence.         *)
(***************************************************************************)
LEMMA CatFacts ==
  ASSUME NEW S, NEW seq \in Seq(S), NEW T, NEW g,
         \A i \in 1..Len(seq) : g[seq[i]] \in Seq(T)
  PROVE  /\ Cat(g, seq) \in Seq(T)
         /\ ToSet(Cat(g, seq)) = UNION {ToSet(g[k]) : k \in ToSet(seq)}
         /\ IsInjective(seq) /\ (\A k \in ToSet(seq) : IsInjective(g[k]))
            /\ (\A k, m \in ToSet(seq) : k # m => ToSet(g[k]) \cap ToSet(g[m]) = {})
            => IsInjective(Cat(g, seq))
         /\ \A items : (\A k \in ToSet(seq) : Behind(items, g[k]))
                       => Behind(items, Cat(g, seq))
<1> DEFINE N == Len(seq)
           G(k) == UNION {ToSet(g[seq[i]]) : i \in 1..k}
<1>0. N \in Nat /\ DOMAIN seq = 1..N /\ ToSet(seq) = {seq[i] : i \in 1..N}
  BY SetOf
<1>1. PICK h : Comes(h, "cat", g, <<>>, seq, N) /\ Cat(g, seq) = h[N]
  BY CatComes
<1> HIDE DEF N
<1>2. h[0] = <<>> /\ \A i \in 1..N : h[i] = h[i - 1] \o g[seq[i]]
  BY <1>1 DEF Comes, FoldStep
<1>3. \A i \in 1..N : g[seq[i]] \in Seq(T)
  BY DEF N
<1> DEFINE Apart == IsInjective(seq) /\ (\A k \in ToSet(seq) : IsInjective(g[k]))
                    /\ (\A k, m \in ToSet(seq) : k # m => ToSet(g[k]) \cap ToSet(g[m]) = {})
           After(items) == \A k \in ToSet(seq) : Behind(items, g[k])
           Is(k) == /\ h[k] \in Seq(T) /\ ToSet(h[k]) = G(k)
                    /\ Apart => IsInjective(h[k])
                    /\ \A items : After(items) => Behind(items, h[k])
           K == {k \in Nat : k <= N => Is(k)}
<1>4. 0 \in K
  <2>1. 1..0 = {} /\ G(0) = {}
    OBVIOUS
  <2>2. <<>> \in Seq(T) /\ ToSet(<<>>) = {} /\ IsInjective(<<>>) /\ Len(<<>>) = 0
    BY DEF ToSet, IsInjective
  <2>3. \A items : Behind(items, <<>>)
    BY <2>1, <2>2 DEF Behind
  <2>4. Is(0)
    BY <1>2, <2>1, <2>2, <2>3
  <2> QED  BY <2>4
<1>5. ASSUME NEW k \in K PROVE k + 1 \in K
  <2>1. k \in Nat /\ k + 1 \in Nat /\ (k + 1) - 1 = k
    OBVIOUS
  <2>2. k + 1 <= N => Is(k)
    <3> HIDE DEF Is
    <3>1. k <= N => Is(k)
      OBVIOUS
    <3> QED  BY <1>0, <2>1, <3>1
  <2> SUFFICES ASSUME k + 1 <= N PROVE Is(k + 1)
    BY <2>1
  <2>3. Is(k) /\ k + 1 \in 1..N
    <3> HIDE DEF Is
    <3> QED  BY <1>0, <2>1, <2>2
  <2> DEFINE a == h[k]
             b == g[seq[k + 1]]
  <2>4. h[k + 1] = a \o b /\ a \in Seq(T) /\ b \in Seq(T)
    BY <1>2, <1>3, <2>1, <2>3
  <2>5. G(k + 1) = G(k) \cup ToSet(b)
    <3>1. 1..(k + 1) = (1..k) \cup {k + 1}
      BY <2>1
    <3> QED  BY <3>1
  <2>6. seq[k + 1] \in ToSet(seq)
    BY <1>0, <2>3
  <2>7. ASSUME Apart PROVE IsInjective(b) /\ ToSet(a) \cap ToSet(b) = {}
    <3>1. ASSUME NEW i \in 1..k PROVE ToSet(g[seq[i]]) \cap ToSet(b) = {}
      <4>1. i \in 1..N /\ i # k + 1
        BY <1>0, <2>1, <2>3
      <4>2. seq[i] # seq[k + 1] /\ seq[i] \in ToSet(seq)
        BY <1>0, <2>3, <2>7, <4>1 DEF IsInjective
      <4> QED  BY <2>6, <2>7, <4>2
    <3>2. G(k) \cap ToSet(b) = {}
      BY <3>1
    <3> QED  BY <2>3, <2>6, <2>7, <3>2
  <2>8. ASSUME NEW items, After(items) PROVE Behind(items, a) /\ Behind(items, b)
    BY <2>3, <2>6, <2>8
  <2>9. Is(k) /\ ToSet(a) = G(k)
    BY <2>3
  <2> HIDE DEF a, b, G, Apart, After
  <2>10. a \o b \in Seq(T) /\ ToSet(a \o b) = G(k + 1)
    BY <2>4, <2>5, <2>9, ConcatFacts
  <2>11. Apart => IsInjective(a \o b)
    BY <2>4, <2>7, <2>9, ConcatFacts DEF a
  <2>12. \A items : After(items) => Behind(items, a \o b)
    BY <2>4, <2>8, ConcatFacts
  <2> QED  BY <2>4, <2>10, <2>11, <2>12
<1>6. N \in K
  <2>1. K \in SUBSET Nat
    OBVIOUS
  <2> HIDE DEF K
  <2> QED  BY <1>0, <1>4, <1>5, <2>1, NatInd
<1>7. Is(N)
  <2> HIDE DEF Is
  <2>1. N \in Nat /\ (N <= N => Is(N))
    BY <1>0, <1>6
  <2> QED  BY <2>1
<1>8. G(N) = UNION {ToSet(g[k]) : k \in ToSet(seq)}
  BY <1>0
<1> QED  BY <1>1, <1>7, <1>8

(* It looks at no more of g.                                               *)
LEMMA CatSame ==
  ASSUME NEW S, NEW seq \in Seq(S), NEW f, NEW g, \A k \in ToSet(seq) : f[k] = g[k]
  PROVE  Cat(f, seq) = Cat(g, seq)
<1> DEFINE N == Len(seq)
<1>0. N \in Nat /\ ToSet(seq) = {seq[i] : i \in 1..N}
  BY SetOf
<1>1. PICK h : Comes(h, "cat", g, <<>>, seq, N) /\ Cat(g, seq) = h[N]
  BY CatComes
<1>2. PICK e : Comes(e, "cat", f, <<>>, seq, N) /\ Cat(f, seq) = e[N]
  BY CatComes
<1> HIDE DEF N
<1> DEFINE K == {k \in Nat : k <= N => h[k] = e[k]}
<1>3. h[0] = <<>> /\ \A i \in 1..N : h[i] = h[i - 1] \o g[seq[i]]
  BY <1>1 DEF Comes, FoldStep
<1>4. e[0] = <<>> /\ \A i \in 1..N : e[i] = e[i - 1] \o f[seq[i]]
  BY <1>2 DEF Comes, FoldStep
<1>5. 0 \in K
  BY <1>3, <1>4
<1>6. ASSUME NEW k \in K PROVE k + 1 \in K
  <2>1. k \in Nat /\ k + 1 \in Nat /\ (k + 1) - 1 = k
    OBVIOUS
  <2> SUFFICES ASSUME k + 1 <= N PROVE h[k + 1] = e[k + 1]
    BY <2>1
  <2>2. h[k] = e[k] /\ k + 1 \in 1..N
    BY <1>0, <2>1
  <2>3. f[seq[k + 1]] = g[seq[k + 1]]
    BY <1>0, <2>2
  <2> QED  BY <1>3, <1>4, <2>1, <2>2, <2>3
<1>7. N \in K
  <2>1. K \in SUBSET Nat
    OBVIOUS
  <2> HIDE DEF K
  <2> QED  BY <1>0, <1>5, <1>6, <2>1, NatInd
<1> QED  BY <1>0, <1>1, <1>2, <1>7

(***************************************************************************)
(* A directory and all below it.  The entries of a directory name it as    *)
(* their parent and are one deeper: that is what makes it a tree.          *)
(***************************************************************************)
Orderly(items, par, d) ==
  /\ items \in [Nodes -> Seq(Nodes)] /\ d \in [Nodes -> Nat]
  /\ \A p \in Nodes : IsInjective(items[p])
  /\ \A p \in Nodes : \A n \in ToSet(items[p]) : par[n] = p /\ d[n] = d[p] + 1

LEMMA Bounded ==
  ASSUME NEW d \in [Nodes -> Nat]
  PROVE  \E M \in Nat : \A m \in Nodes : d[m] <= M
<1> DEFINE K == {k \in Nat : k <= NbNodes => \E M \in Nat : \A m \in 1..k : d[m] <= M}
<1>0. NbNodes \in Nat
  BY PoolAssumption
<1>1. 0 \in K
  <2>1. 1..0 = {}
    OBVIOUS
  <2> QED  BY <2>1
<1>2. ASSUME NEW k \in K PROVE k + 1 \in K
  <2>1. k \in Nat
    OBVIOUS
  <2> SUFFICES ASSUME k + 1 <= NbNodes PROVE \E M \in Nat : \A m \in 1..(k + 1) : d[m] <= M
    BY <2>1
  <2>2. PICK M \in Nat : \A m \in 1..k : d[m] <= M
    BY <1>0, <2>1
  <2>3. d[k + 1] \in Nat /\ \A m \in 1..(k + 1) : m \in 1..k \/ m = k + 1
    BY <1>0, <2>1 DEF Nodes
  <2>4. \A m \in 1..k : d[m] \in Nat
    BY <1>0, <2>1 DEF Nodes
  <2>5. M + d[k + 1] \in Nat /\ \A m \in 1..(k + 1) : d[m] <= M + d[k + 1]
    BY <2>2, <2>3, <2>4
  <2> QED  BY <2>5
<1>3. NbNodes \in K
  <2>1. K \in SUBSET Nat
    OBVIOUS
  <2> HIDE DEF K
  <2> QED  BY <1>0, <1>1, <1>2, <2>1, NatInd
<1> QED  BY <1>0, <1>3 DEF Nodes

(* There is a list of what is below each directory, as cli_remove_node     *)
(* goes about it.                                                          *)
Lists(order, items) == order = [m \in Nodes |-> Append(Cat(order, items[m]), m)]
LEMMA ListsExist ==
  ASSUME NEW items, NEW par, NEW d, Orderly(items, par, d)
  PROVE  \E order : Lists(order, items)
<1>0. PICK M \in Nat : \A m \in Nodes : d[m] <= M
  BY Bounded DEF Orderly
<1>1. \A m \in Nodes : d[m] \in Nat /\ items[m] \in Seq(Nodes) /\ ToSet(items[m]) \subseteq Nodes
  BY SetOf DEF Orderly
<1> DEFINE Upto(f, k) == /\ f = [m \in Nodes |-> f[m]]
                         /\ \A m \in Nodes : M - d[m] < k => f[m] = Append(Cat(f, items[m]), m)
           K == {k \in Nat : \E f : Upto(f, k)}
<1>2. 0 \in K
  <2> DEFINE f == [m \in Nodes |-> m]
  <2>1. \A m \in Nodes : ~(M - d[m] < 0)
    BY <1>0, <1>1
  <2>2. Upto(f, 0)
    BY <2>1
  <2> QED  BY <2>2
<1>3. ASSUME NEW k \in K PROVE k + 1 \in K
  <2>1. k \in Nat
    OBVIOUS
  <2>2. PICK f : Upto(f, k)
    OBVIOUS
  <2> DEFINE f2 == [m \in Nodes |-> Append(Cat(f, items[m]), m)]
  <2>3. ASSUME NEW m \in Nodes, M - d[m] < k + 1
        PROVE  Cat(f2, items[m]) = Cat(f, items[m])
    <3>1. ASSUME NEW n \in ToSet(items[m]) PROVE f2[n] = f[n]
      <4>1. n \in Nodes /\ d[n] = d[m] + 1
        BY <1>1 DEF Orderly
      <4>2. M - d[n] < k
        BY <1>1, <2>1, <2>3, <4>1
      <4> QED  BY <2>2, <4>1, <4>2
    <3> HIDE DEF f2
    <3> QED  BY <1>1, <3>1, CatSame
  <2>4. Upto(f2, k + 1)
    BY <2>3
  <2> HIDE DEF f2, Upto
  <2> QED  BY <2>1, <2>4
<1>4. M + 1 \in K
  <2>1. K \in SUBSET Nat
    OBVIOUS
  <2> HIDE DEF K
  <2> QED  BY <1>0, <1>2, <1>3, <2>1, NatInd
<1>5. PICK f : Upto(f, M + 1)
  BY <1>4
<1>6. \A m \in Nodes : M - d[m] < M + 1
  BY <1>0, <1>1
<1>7. Lists(f, items)
  BY <1>5, <1>6 DEF Lists
<1> QED  BY <1>7

LEMMA SubtreeIs ==
  ASSUME NEW c, NEW par, NEW d, Orderly(c.items, par, d)
  PROVE  \A m \in Nodes : Subtree(c, m) = Append(Cat([k \in Nodes |-> Subtree(c, k)], c.items[m]), m)
<1> DEFINE ord == CHOOSE order : order = [m \in Nodes |->
                    Append(FoldLeft(LAMBDA before, k : before \o order[k], <<>>, c.items[m]), m)]
<1>1. \A m : Subtree(c, m) = ord[m]
  BY DEF Subtree
<1>2. Lists(ord, c.items)
  BY ListsExist DEF Lists, Cat
<1> HIDE DEF ord
<1>3. ord = [m \in Nodes |-> Append(Cat(ord, c.items[m]), m)]
  BY <1>2 DEF Lists
<1>4. [k \in Nodes |-> Subtree(c, k)] = ord
  BY <1>1, <1>3
<1> QED  BY <1>1, <1>3, <1>4

(* Induction from the deepest entries up.                                  *)
LEMMA UpInd ==
  ASSUME NEW items, NEW par, NEW d, Orderly(items, par, d), NEW S \in SUBSET Nodes,
         \A m \in Nodes : ToSet(items[m]) \subseteq S => m \in S
  PROVE  S = Nodes
<1>0. PICK M \in Nat : \A m \in Nodes : d[m] <= M
  BY Bounded DEF Orderly
<1>1. \A m \in Nodes : d[m] \in Nat /\ ToSet(items[m]) \subseteq Nodes
  BY SetOf DEF Orderly
<1> DEFINE K == {k \in Nat : \A m \in Nodes : M - d[m] < k => m \in S}
<1>2. 0 \in K
  BY <1>0, <1>1
<1>3. ASSUME NEW k \in K PROVE k + 1 \in K
  <2>1. k \in Nat
    OBVIOUS
  <2>2. ASSUME NEW m \in Nodes, M - d[m] < k + 1 PROVE m \in S
    <3>1. ASSUME NEW n \in ToSet(items[m]) PROVE n \in S
      <4>1. n \in Nodes /\ d[n] = d[m] + 1
        BY <1>1 DEF Orderly
      <4>2. M - d[n] < k
        BY <1>1, <2>1, <2>2, <4>1
      <4> QED  BY <4>1, <4>2
    <3> QED  BY <3>1
  <2> QED  BY <2>1, <2>2
<1>4. M + 1 \in K
  <2>1. K \in SUBSET Nat
    OBVIOUS
  <2> HIDE DEF K
  <2> QED  BY <1>0, <1>2, <1>3, <2>1, NatInd
<1>5. \A m \in Nodes : M - d[m] < M + 1
  BY <1>0, <1>1
<1> QED  BY <1>4, <1>5

(* Induction from the shallow entries down.                                *)
LEMMA DownInd ==
  ASSUME NEW d \in [Nodes -> Nat], NEW S \in SUBSET Nodes,
         \A m \in Nodes : (\A p \in Nodes : d[p] < d[m] => p \in S) => m \in S
  PROVE  S = Nodes
<1>1. \A m \in Nodes : d[m] \in Nat
  OBVIOUS
<1> DEFINE K == {k \in Nat : \A m \in Nodes : d[m] < k => m \in S}
<1>2. 0 \in K
  BY <1>1
<1>3. ASSUME NEW k \in K PROVE k + 1 \in K
  <2>1. k \in Nat
    OBVIOUS
  <2>2. ASSUME NEW m \in Nodes, d[m] < k + 1 PROVE m \in S
    <3>1. ASSUME NEW p \in Nodes, d[p] < d[m] PROVE p \in S
      <4>1. d[p] < k
        BY <1>1, <2>1, <2>2, <3>1
      <4> QED  BY <4>1
    <3> QED  BY <3>1
  <2> QED  BY <2>1, <2>2
<1>4. K = Nat
  <2>1. K \in SUBSET Nat
    OBVIOUS
  <2> HIDE DEF K
  <2> QED  BY <1>2, <1>3, <2>1, NatInd
<1>5. ASSUME NEW m \in Nodes PROVE m \in S
  <2>1. d[m] + 1 \in K /\ d[m] < d[m] + 1
    BY <1>1, <1>4
  <2> QED  BY <2>1
<1> QED  BY <1>5

Under(c, m) == ToSet(Subtree(c, m))

(* One directory, given what is below its entries.                         *)
LEMMA SubtreeStep ==
  ASSUME NEW c, NEW par, NEW d, Orderly(c.items, par, d), NEW m \in Nodes,
         \A k \in ToSet(c.items[m]) : Subtree(c, k) \in Seq(Nodes)
  PROVE  /\ Subtree(c, m) \in Seq(Nodes)
         /\ Under(c, m) = {m} \cup UNION {Under(c, k) : k \in ToSet(c.items[m])}
         /\ (\A k \in ToSet(c.items[m]) : IsInjective(Subtree(c, k)) /\ m \notin Under(c, k))
            /\ (\A k, n \in ToSet(c.items[m]) : k # n => Under(c, k) \cap Under(c, n) = {})
            => IsInjective(Subtree(c, m))
         /\ (\A k \in ToSet(c.items[m]) : Behind(c.items, Subtree(c, k)) /\ k \in Under(c, k))
            => Behind(c.items, Subtree(c, m))
<1> DEFINE g == [k \in Nodes |-> Subtree(c, k)]
           seq == c.items[m]
           s == Cat(g, seq)
<1>1. seq \in Seq(Nodes) /\ IsInjective(seq)
  BY DEF Orderly
<1>2. ToSet(seq) \subseteq Nodes /\ ToSet(seq) = {seq[i] : i \in 1..Len(seq)}
  BY <1>1, SetOf
<1>3. \A k \in ToSet(seq) : g[k] = Subtree(c, k) /\ ToSet(g[k]) = Under(c, k)
  BY <1>2 DEF Under
<1>4. \A i \in 1..Len(seq) : g[seq[i]] \in Seq(Nodes)
  BY <1>2, <1>3
<1>5. Subtree(c, m) = Append(s, m)
  BY SubtreeIs
<1> HIDE DEF g, seq
<1>6. /\ s \in Seq(Nodes)
      /\ ToSet(s) = UNION {ToSet(g[k]) : k \in ToSet(seq)}
      /\ IsInjective(seq) /\ (\A k \in ToSet(seq) : IsInjective(g[k]))
         /\ (\A k, n \in ToSet(seq) : k # n => ToSet(g[k]) \cap ToSet(g[n]) = {})
         => IsInjective(s)
      /\ (\A k \in ToSet(seq) : Behind(c.items, g[k])) => Behind(c.items, s)
  BY <1>1, <1>4, CatFacts
<1> HIDE DEF s
<1>7. /\ Append(s, m) \in Seq(Nodes)
      /\ ToSet(Append(s, m)) = ToSet(s) \cup {m}
      /\ IsInjective(s) /\ m \notin ToSet(s) => IsInjective(Append(s, m))
      /\ Behind(c.items, s) /\ ToSet(seq) \subseteq ToSet(s) => Behind(c.items, Append(s, m))
  <2>0. s \in Seq(Nodes)
    BY <1>6
  <2>1. /\ Append(s, m) \in Seq(Nodes)
        /\ ToSet(Append(s, m)) = ToSet(s) \cup {m}
        /\ IsInjective(s) /\ m \notin ToSet(s) => IsInjective(Append(s, m))
    <3>1. Append(s, m) \in Seq(Nodes)
      BY <2>0, OneMore
    <3>2. ToSet(Append(s, m)) = ToSet(s) \cup {m}
      BY <2>0, OneMoreSet
    <3>3. IsInjective(s) /\ m \notin ToSet(s) => IsInjective(Append(s, m))
      BY <2>0, OneMore
    <3> QED  BY <3>1, <3>2, <3>3
  <2>2. Behind(c.items, s) /\ ToSet(c.items[m]) \subseteq ToSet(s)
        => Behind(c.items, Append(s, m))
    <3> DEFINE items == c.items
    <3> HIDE DEF items
    <3>1. Behind(items, s) /\ ToSet(items[m]) \subseteq ToSet(s) => Behind(items, Append(s, m))
      BY <2>0, OneMore
    <3> QED  BY <3>1 DEF items
  <2> QED  BY <2>1, <2>2 DEF seq
<1>8. ToSet(s) = UNION {Under(c, k) : k \in ToSet(seq)}
  BY <1>3, <1>6
<1>9. Subtree(c, m) \in Seq(Nodes) /\ Under(c, m) = ToSet(s) \cup {m}
  BY <1>5, <1>7 DEF Under
<1>10. ASSUME \A k \in ToSet(seq) : IsInjective(Subtree(c, k)) /\ m \notin Under(c, k),
              \A k, n \in ToSet(seq) : k # n => Under(c, k) \cap Under(c, n) = {}
       PROVE  IsInjective(Subtree(c, m))
  <2>1. IsInjective(s)
    BY <1>1, <1>3, <1>6, <1>10
  <2>2. m \notin ToSet(s)
    BY <1>8, <1>10
  <2> QED  BY <1>5, <1>7, <2>1, <2>2
<1>11. ASSUME \A k \in ToSet(seq) : Behind(c.items, Subtree(c, k)) /\ k \in Under(c, k)
       PROVE  Behind(c.items, Subtree(c, m))
  <2>1. Behind(c.items, s)
    BY <1>3, <1>6, <1>11
  <2>2. ToSet(seq) \subseteq ToSet(s)
    BY <1>8, <1>11
  <2> QED  BY <1>5, <1>7, <2>1, <2>2
<1> QED  BY <1>8, <1>9, <1>10, <1>11 DEF seq

(* What is below a directory: itself, its entries and what is below them;  *)
(* nothing twice, and each node behind its entries.                        *)
LEMMA SubtreeFacts ==
  ASSUME NEW c, NEW par, NEW d, Orderly(c.items, par, d)
  PROVE  \A m \in Nodes :
           /\ Subtree(c, m) \in Seq(Nodes) /\ IsInjective(Subtree(c, m))
           /\ Behind(c.items, Subtree(c, m))
           /\ m \in Under(c, m) /\ Under(c, m) \subseteq Nodes
           /\ \A n \in Under(c, m) :
                /\ ToSet(c.items[n]) \subseteq Under(c, m)
                /\ d[n] >= d[m] /\ (d[n] = d[m] => n = m)
                /\ n # m => par[n] \in Under(c, m) /\ n \in ToSet(c.items[par[n]])
<1> DEFINE In(p) == ToSet(c.items[p])
           On(m, n) == /\ In(n) \subseteq Under(c, m)
                       /\ d[n] >= d[m] /\ (d[n] = d[m] => n = m)
                       /\ n # m => par[n] \in Under(c, m) /\ n \in ToSet(c.items[par[n]])
           Is(m) == /\ Subtree(c, m) \in Seq(Nodes) /\ Behind(c.items, Subtree(c, m))
                    /\ m \in Under(c, m) /\ Under(c, m) \subseteq Nodes
                    /\ \A n \in Under(c, m) : On(m, n)
           S == {m \in Nodes : Is(m)}
<1>0. \A m \in Nodes : In(m) \subseteq Nodes /\ d[m] \in Nat
  BY SetOf DEF Orderly
<1>1. \A p \in Nodes : \A n \in In(p) : par[n] = p /\ d[n] = d[p] + 1
  BY DEF Orderly
<1> HIDE DEF In
<1>2. ASSUME NEW m \in Nodes, In(m) \subseteq S PROVE m \in S
  <2>1. \A k \in In(m) : Is(k) /\ k \in Nodes
    BY <1>2
  <2>2. /\ Subtree(c, m) \in Seq(Nodes)
        /\ Under(c, m) = {m} \cup UNION {Under(c, k) : k \in In(m)}
        /\ Behind(c.items, Subtree(c, m))
    BY <2>1, SubtreeStep DEF In
  <2>3. ASSUME NEW n \in Under(c, m) PROVE n \in Nodes /\ On(m, n)
    <3>1. CASE n = m
      <4>1. In(m) \subseteq Under(c, m)
        BY <2>1, <2>2
      <4> QED  BY <1>0, <3>1, <4>1
    <3>2. CASE n # m
      <4>1. PICK k \in In(m) : n \in Under(c, k)
        BY <2>2, <3>2
      <4>2. k \in Nodes /\ n \in Nodes /\ On(k, n) /\ Under(c, k) \subseteq Under(c, m)
        BY <2>1, <2>2, <4>1
      <4>3. d[n] >= d[m] + 1 /\ d[n] \in Nat /\ d[m] \in Nat
        BY <1>0, <1>1, <4>1, <4>2
      <4>4. d[n] >= d[m] /\ d[n] # d[m]
        BY <4>3
      <4>5. par[n] \in Under(c, m) /\ n \in ToSet(c.items[par[n]])
        <5>1. CASE n = k
          BY <1>1, <2>2, <4>1, <5>1 DEF In
        <5>2. CASE n # k
          BY <4>2, <5>2
        <5> QED  BY <5>1, <5>2
      <4> QED  BY <4>2, <4>4, <4>5
    <3> QED  BY <3>1, <3>2
  <2>4. m \in Under(c, m) /\ Under(c, m) \subseteq Nodes
    BY <2>2, <2>3
  <2> HIDE DEF On
  <2> QED  BY <2>2, <2>3, <2>4
<1>3. S = Nodes
  <2>1. S \in SUBSET Nodes /\ \A m \in Nodes : ToSet(c.items[m]) \subseteq S => m \in S
    BY <1>2 DEF In
  <2> HIDE DEF S
  <2> QED  BY <2>1, UpInd
<1>4. \A m \in Nodes : Is(m)
  BY <1>3
<1>5. ASSUME NEW k \in Nodes, NEW m \in Nodes, d[k] = d[m], k # m
      PROVE  Under(c, k) \cap Under(c, m) = {}
  <2> DEFINE T == {n \in Nodes : ~(n \in Under(c, k) /\ n \in Under(c, m))}
  <2>1. ASSUME NEW n \in Nodes, \A p \in Nodes : d[p] < d[n] => p \in T PROVE n \in T
    <3> SUFFICES ASSUME n \in Under(c, k), n \in Under(c, m) PROVE FALSE
      OBVIOUS
    <3>1. On(k, n) /\ On(m, n)
      BY <1>4
    <3>2. n # k /\ n # m
      BY <1>5, <3>1
    <3>3. par[n] \in Under(c, k) /\ par[n] \in Under(c, m) /\ n \in ToSet(c.items[par[n]])
      BY <3>1, <3>2
    <3>4. par[n] \in Nodes
      BY <1>4, <3>3
    <3>5. d[par[n]] < d[n]
      <4>1. d[n] = d[par[n]] + 1 /\ d[par[n]] \in Nat
        BY <1>0, <1>1, <3>3, <3>4 DEF In
      <4> QED  BY <4>1
    <3> QED  BY <2>1, <3>3, <3>4, <3>5
  <2>2. T = Nodes
    <3>1. T \in SUBSET Nodes /\ d \in [Nodes -> Nat]
      BY DEF Orderly
    <3> HIDE DEF T
    <3> QED  BY <2>1, <3>1, DownInd
  <2> QED  BY <1>4, <2>2
<1> DEFINE U == {m \in Nodes : IsInjective(Subtree(c, m))}
<1>6. ASSUME NEW m \in Nodes, In(m) \subseteq U PROVE m \in U
  <2>1. ASSUME NEW k \in In(m)
        PROVE  Subtree(c, k) \in Seq(Nodes) /\ IsInjective(Subtree(c, k)) /\ m \notin Under(c, k)
    <3>1. k \in Nodes /\ d[k] = d[m] + 1 /\ d[m] \in Nat
      BY <1>0, <1>1
    <3>2. Is(k)
      BY <1>4, <3>1
    <3>3. m \notin Under(c, k)
      BY <3>1, <3>2
    <3> QED  BY <1>6, <3>2, <3>3
  <2>2. ASSUME NEW k \in In(m), NEW n \in In(m), k # n
        PROVE  Under(c, k) \cap Under(c, n) = {}
    BY <1>0, <1>1, <1>5, <2>2
  <2>3. IsInjective(Subtree(c, m))
    BY <2>1, <2>2, SubtreeStep DEF In
  <2> QED  BY <2>3
<1>7. U = Nodes
  <2>1. U \in SUBSET Nodes /\ \A m \in Nodes : ToSet(c.items[m]) \subseteq U => m \in U
    BY <1>6 DEF In
  <2> HIDE DEF U
  <2> QED  BY <2>1, UpInd
<1> QED  BY <1>4, <1>7 DEF In

(***************************************************************************)
(* What is always so of the tree.                                          *)
(***************************************************************************)
(* The provers do not know of a word of the model that it is in STRING.    *)
Symbols == STRING \cup {".", "/", "copyright", "sbin", "pktgen", "bin", "freed", "oops"}
Funcs == STRING \cup {"none", "file"}
Names == Seq(Symbols)
Paths == [abs : BOOLEAN, names : Seq(Names)]
Records == [type : All, name : Names, parent : 0..NbNodes, func : Funcs,
            alias : Seq([cmd : Paths, args : Seq(Paths)])]
NodeRecs == {r \in Records : /\ r.type \in Exe => r.name \notin {Up, Here}
                             /\ r.type = "alias" => Len(r.alias) = 1}
Trees == [node : [Nodes -> NodeRecs], items : [Nodes -> Seq(Nodes)], free : Seq(Nodes),
          root : {1}, bins : [1..MaxBins -> 0..NbNodes]]

(* The nodes that are not in the pool.                                     *)
Held(c) == Nodes \ ToSet(c.free)
ParentOf(c) == [n \in Nodes |-> c.node[n].parent]

(* An entry is in the directory that is its parent, and one deeper.        *)
Placed(c) ==
  /\ 1 \in Held(c) /\ IsDir(c, 1) /\ c.node[1].parent = Null
  /\ \A p \in Nodes : \A n \in ToSet(c.items[p]) : p \in Held(c) /\ n \in Held(c) /\ IsDir(c, p)
  /\ \A n \in Held(c) \ {1} :
       c.node[n].parent \in Nodes /\ n \in ToSet(c.items[c.node[n].parent])
  /\ \E d : Orderly(c.items, ParentOf(c), d)

(* The pointers to nodes.                                                  *)
Pointing(c) ==
  /\ \A k \in 1..MaxBins : c.bins[k] # Null => c.bins[k] \in Held(c) /\ IsDir(c, c.bins[k])
  /\ c.bins[1] # Null
  /\ \A j, k \in 2..MaxBins : c.bins[j] = c.bins[k] /\ c.bins[j] # Null => j = k

TreeInv(c) == c \in Trees /\ IsInjective(c.free) /\ Placed(c) /\ Pointing(c)

LEMMA Parts ==
  ASSUME NEW c \in Trees
  PROVE  /\ c.node \in [Nodes -> NodeRecs] /\ c.items \in [Nodes -> Seq(Nodes)]
         /\ c.free \in Seq(Nodes) /\ c.root = 1 /\ c.bins \in [1..MaxBins -> 0..NbNodes]
         /\ MaxBins \in Nat /\ NbNodes \in Nat /\ 1 \in 1..MaxBins /\ 1 \in Nodes /\ Null \notin Nodes
         /\ 0..NbNodes = Nodes \cup {Null}
  BY PoolAssumption DEF Trees, Nodes, Null

LEMMA TreeSoundIs == TreeInv(cli) => TreeSound
<1> SUFFICES ASSUME TreeInv(cli) PROVE TreeSound
  OBVIOUS
<1> DEFINE par == ParentOf(cli)
<1>0. cli \in Trees /\ IsInjective(cli.free) /\ Placed(cli) /\ Pointing(cli)
  BY DEF TreeInv
<1>1. PICK d : Orderly(cli.items, par, d)
  BY <1>0 DEF Placed
<1>2. /\ cli.free \in Seq(Nodes) /\ cli.root = 1 /\ 1 \in Nodes /\ Null \notin Nodes
      /\ 1 \in 1..MaxBins
  BY <1>0, Parts
<1>3. \A n \in Nodes : par[n] = cli.node[n].parent
  BY DEF ParentOf
<1> HIDE DEF par
<1>4. /\ Subtree(cli, 1) \in Seq(Nodes) /\ IsInjective(Subtree(cli, 1))
      /\ 1 \in Under(cli, 1) /\ Under(cli, 1) \subseteq Nodes
      /\ \A n \in Under(cli, 1) :
           /\ ToSet(cli.items[n]) \subseteq Under(cli, 1)
           /\ n # 1 => n \in ToSet(cli.items[par[n]]) /\ par[n] \in Under(cli, 1)
  BY <1>1, <1>2, SubtreeFacts
<1>5. Under(cli, 1) \subseteq Held(cli)
  <2> SUFFICES ASSUME NEW n \in Under(cli, 1) PROVE n \in Held(cli)
    OBVIOUS
  <2>1. CASE n = 1
    BY <1>0, <2>1 DEF Placed
  <2>2. CASE n # 1
    BY <1>0, <1>4, <2>2 DEF Placed
  <2> QED  BY <2>1, <2>2
<1>6. Held(cli) \subseteq Under(cli, 1)
  <2> DEFINE T == {n \in Nodes : n \in Held(cli) => n \in Under(cli, 1)}
  <2>1. d \in [Nodes -> Nat] /\ \A p \in Nodes : \A n \in ToSet(cli.items[p]) : d[n] = d[p] + 1
    BY <1>1 DEF Orderly
  <2>2. ASSUME NEW n \in Nodes, \A p \in Nodes : d[p] < d[n] => p \in T PROVE n \in T
    <3> SUFFICES ASSUME n \in Held(cli), n # 1 PROVE n \in Under(cli, 1)
      BY <1>4
    <3> DEFINE p == cli.node[n].parent
    <3>1. p \in Nodes /\ n \in ToSet(cli.items[p])
      BY <1>0 DEF Placed
    <3> HIDE DEF p
    <3>2. d[p] < d[n]
      BY <2>1, <3>1
    <3>3. p \in Held(cli)
      BY <1>0, <3>1 DEF Placed
    <3>4. p \in Under(cli, 1)
      BY <2>2, <3>1, <3>2, <3>3
    <3> QED  BY <1>4, <3>1, <3>4
  <2>3. T = Nodes
    <3>1. T \in SUBSET Nodes /\ d \in [Nodes -> Nat]
      BY <2>1
    <3> HIDE DEF T
    <3> QED  BY <2>2, <3>1, DownInd
  <2> QED  BY <2>3 DEF Held
<1>7. Live = Subtree(cli, 1) /\ ToSet(Live) = Held(cli)
  BY <1>2, <1>5, <1>6 DEF Live, Under
<1> HIDE DEF Live
<1>8. Live \in Seq(Nodes) /\ IsInjective(Live)
  BY <1>4, <1>7
<1>9. ToSet(cli.free) \subseteq Nodes /\ ToSet(Live) \cap ToSet(cli.free) = {}
      /\ ToSet(Live) \cup ToSet(cli.free) = Nodes
  BY <1>2, <1>7, SetOf DEF Held
<1>10. IsInjective(Live \o cli.free) /\ ToSet(Live \o cli.free) = Nodes
  <2>1. ToSet(Live \o cli.free) = ToSet(Live) \cup ToSet(cli.free)
    BY <1>2, <1>8, ConcatFacts
  <2>2. IsInjective(Live \o cli.free)
    BY <1>0, <1>2, <1>8, <1>9, ConcatFacts
  <2> QED  BY <1>9, <2>1, <2>2
<1>11. \A s \in Seq(Nodes) : \A n \in ToSet(s) : Contains(s, n)
  <2> SUFFICES ASSUME NEW s \in Seq(Nodes), NEW n \in ToSet(s) PROVE Contains(s, n)
    OBVIOUS
  <2>1. ToSet(s) = {s[i] : i \in 1..Len(s)}
    BY SetOf
  <2> QED  BY <2>1 DEF Contains
<1>12. ASSUME NEW n \in ToSet(Live) \ {cli.root}
       PROVE  LET p == cli.node[n].parent IN IsDir(cli, p) /\ Contains(cli.items[p], n)
  <2>1. n \in Held(cli) \ {1}
    BY <1>2, <1>7
  <2>2. cli.node[n].parent \in Nodes /\ n \in ToSet(cli.items[cli.node[n].parent])
    BY <1>0, <2>1 DEF Placed
  <2>3. IsDir(cli, cli.node[n].parent)
    BY <1>0, <2>2 DEF Placed
  <2>4. cli.items[cli.node[n].parent] \in Seq(Nodes)
    BY <1>0, <2>2, Parts
  <2> QED  BY <1>11, <2>2, <2>3, <2>4
<1>13. \A k \in 1..MaxBins : cli.bins[k] # Null =>
         IsDir(cli, cli.bins[k]) /\ Contains(Live, cli.bins[k])
  BY <1>0, <1>7, <1>8, <1>11 DEF Pointing
<1>14. Cwd(cli) # Null
  BY <1>0 DEF Pointing, Cwd
<1> QED  BY <1>10, <1>12, <1>13, <1>14 DEF TreeSound

(***************************************************************************)
(* What the functions of cli.c do to a tree.                               *)
(***************************************************************************)
(* The pool, when its first node is taken.                                 *)
LEMMA TailFacts ==
  ASSUME NEW S, NEW s \in Seq(S), s # <<>>, IsInjective(s)
  PROVE  /\ Head(s) \in S /\ Tail(s) \in Seq(S) /\ Len(Tail(s)) = Len(s) - 1
         /\ ToSet(s) = {Head(s)} \cup ToSet(Tail(s)) /\ Head(s) \notin ToSet(Tail(s))
         /\ IsInjective(Tail(s))
<1>1. /\ Head(s) \in S /\ Tail(s) \in Seq(S) /\ Len(Tail(s)) = Len(s) - 1
      /\ \A i \in 1..Len(Tail(s)) : Tail(s)[i] = s[i + 1]
  BY HeadTailProperties
<1>2. Len(s) \in Nat /\ Len(s) # 0 /\ DOMAIN s = 1..Len(s) /\ DOMAIN Tail(s) = 1..(Len(s) - 1)
  BY <1>1, LenProperties, EmptySeq
<1>3. Head(s) = s[1]
  BY <1>2
<1> DEFINE t == Tail(s)
           N == Len(s)
<1>4. \A i \in 1..(N - 1) : t[i] = s[i + 1] /\ i + 1 \in 1..N /\ i + 1 # 1
  BY <1>1, <1>2
<1>5. 1 \in 1..N /\ \A i \in 1..N : i = 1 \/ (i - 1 \in 1..(N - 1) /\ (i - 1) + 1 = i)
  BY <1>2
<1>6. ToSet(t) = {t[i] : i \in 1..(N - 1)} /\ ToSet(s) = {s[i] : i \in 1..N}
  BY <1>2 DEF ToSet
<1> HIDE DEF t, N
<1>7. ToSet(s) = {s[1]} \cup ToSet(t)
  <2>1. ASSUME NEW i \in 1..N PROVE s[i] \in {s[1]} \cup ToSet(t)
    <3>1. CASE i = 1
      BY <3>1
    <3>2. CASE i # 1
      <4>1. i - 1 \in 1..(N - 1) /\ t[i - 1] = s[i]
        BY <1>4, <1>5, <3>2
      <4> QED  BY <1>6, <4>1
    <3> QED  BY <3>1, <3>2
  <2>2. ASSUME NEW i \in 1..(N - 1) PROVE t[i] \in ToSet(s)
    BY <1>4, <1>6
  <2>3. s[1] \in ToSet(s)
    BY <1>5, <1>6
  <2> QED  BY <1>6, <2>1, <2>2, <2>3
<1>8. DOMAIN s = 1..N /\ DOMAIN t = 1..(N - 1)
  BY <1>2 DEF t, N
<1>9. ASSUME NEW i \in 1..(N - 1), t[i] = s[1] PROVE FALSE
  <2>1. s[i + 1] = s[1] /\ i + 1 \in 1..N /\ i + 1 # 1 /\ 1 \in 1..N
    BY <1>4, <1>5, <1>9
  <2> QED  BY <1>8, <2>1 DEF IsInjective
<1>10. ASSUME NEW i \in 1..(N - 1), NEW j \in 1..(N - 1), t[i] = t[j] PROVE i = j
  <2>1. s[i + 1] = s[j + 1] /\ i + 1 \in 1..N /\ j + 1 \in 1..N
    BY <1>4, <1>10
  <2>2. i + 1 = j + 1
    BY <1>8, <2>1 DEF IsInjective
  <2> QED  BY <2>2
<1>11. IsInjective(t)
  BY <1>8, <1>10 DEF IsInjective
<1>12. s[1] \notin ToSet(t)
  BY <1>6, <1>9
<1> QED  BY <1>1, <1>3, <1>7, <1>11, <1>12 DEF t, N

(* A sequence with one more element in front.                              *)
LEMMA OneBefore ==
  ASSUME NEW S, NEW s \in Seq(S), NEW e \in S
  PROVE  /\ <<e>> \o s \in Seq(S) /\ ToSet(<<e>> \o s) = {e} \cup ToSet(s)
         /\ IsInjective(s) /\ e \notin ToSet(s) => IsInjective(<<e>> \o s)
<1>1. <<e>> \in Seq(S) /\ ToSet(<<e>>) = {e} /\ IsInjective(<<e>>)
  BY DEF ToSet, IsInjective
<1>2. <<e>> \o s \in Seq(S) /\ ToSet(<<e>> \o s) = ToSet(<<e>>) \cup ToSet(s)
  BY <1>1, ConcatFacts
<1>3. ASSUME IsInjective(s), e \notin ToSet(s) PROVE IsInjective(<<e>> \o s)
  <2>1. ToSet(<<e>>) \cap ToSet(s) = {}
    BY <1>1, <1>3
  <2> QED  BY <1>1, <1>3, <2>1, ConcatFacts
<1> QED  BY <1>1, <1>2, <1>3

(* What is in no directory.                                                *)
LEMMA FreeIsEmpty ==
  ASSUME NEW c, TreeInv(c), NEW n \in Nodes, n \notin Held(c)
  PROVE  /\ ToSet(c.items[n]) = {} /\ n # 1
         /\ \A p \in Nodes : n \notin ToSet(c.items[p])
  BY DEF TreeInv, Placed

(* __add_node takes a node of the pool.                                    *)
NotAdded(c, new, r) ==
  /\ r = [cli |-> c, node |-> Null]
  /\ c.free = <<>> \/ (new.type = "dir" /\ new.name = RootName)
Added(c, p, new, r) ==
  /\ c.free # <<>> /\ r.node = Head(c.free) /\ r.node \in Nodes /\ r.node \notin Held(c)
  /\ r.cli \in Trees
  /\ Held(r.cli) = Held(c) \cup {r.node} /\ IsInjective(r.cli.free)
  /\ Len(r.cli.free) = Len(c.free) - 1
  /\ r.cli.node = [c.node EXCEPT ![r.node] = [new EXCEPT !.parent = p]]
  /\ r.cli.items = [c.items EXCEPT ![p] = <<r.node>> \o @]
  /\ r.cli.bins = c.bins
LEMMA AddNodeIs ==
  ASSUME NEW c, TreeInv(c), NEW p \in Held(c), IsDir(c, p), NEW new \in NodeRecs,
         NEW r, r = AddNode(c, p, new)
  PROVE  NotAdded(c, new, r) \/ Added(c, p, new, r)
<1>0. c \in Trees /\ IsInjective(c.free)
  BY DEF TreeInv
<1>1. /\ c.node \in [Nodes -> NodeRecs] /\ c.items \in [Nodes -> Seq(Nodes)]
      /\ c.free \in Seq(Nodes) /\ p \in Nodes /\ p \in 0..NbNodes
  BY <1>0, Parts DEF Held
<1>2. CASE c.free = <<>> \/ (new.type = "dir" /\ new.name = RootName)
  BY <1>2 DEF AddNode, NotAdded
<1>3. CASE ~(c.free = <<>> \/ (new.type = "dir" /\ new.name = RootName))
  <2> DEFINE n == Head(c.free)
             nd == [c.node EXCEPT ![n] = [new EXCEPT !.parent = p]]
             its == [c.items EXCEPT ![p] = <<n>> \o @]
             t == [c EXCEPT !.free = Tail(@), !.node[n] = [new EXCEPT !.parent = p],
                            !.items[p] = <<n>> \o @]
  <2>1. r = [cli |-> t, node |-> n]
    BY <1>3 DEF AddNode
  <2>2. /\ n \in Nodes /\ Tail(c.free) \in Seq(Nodes) /\ Len(Tail(c.free)) = Len(c.free) - 1
        /\ ToSet(c.free) = {n} \cup ToSet(Tail(c.free)) /\ n \notin ToSet(Tail(c.free))
        /\ IsInjective(Tail(c.free))
    BY <1>0, <1>1, <1>3, TailFacts
  <2> HIDE DEF n
  <2>3. /\ t.node = nd /\ t.items = its /\ t.free = Tail(c.free) /\ t.bins = c.bins
        /\ nd \in [Nodes -> NodeRecs] /\ its \in [Nodes -> Seq(Nodes)] /\ Tail(c.free) \in Seq(Nodes)
           => t \in Trees
    <3> HIDE DEF nd, its
    <3>1. t = [c EXCEPT !.free = Tail(c.free), !.node = nd, !.items = its]
      <4>1. [c EXCEPT !.free = Tail(@), !.node[n] = [new EXCEPT !.parent = p],
                      !.items[p] = <<n>> \o @]
            = [c EXCEPT !.free = Tail(c.free),
                        !.node = [c.node EXCEPT ![n] = [new EXCEPT !.parent = p]],
                        !.items = [c.items EXCEPT ![p] = <<n>> \o c.items[p]]]
        <5> HIDE DEF t
        <5> QED  BY <1>0 DEF Trees
      <4>2. nd = [c.node EXCEPT ![n] = [new EXCEPT !.parent = p]]
            /\ its = [c.items EXCEPT ![p] = <<n>> \o c.items[p]]
        BY DEF nd, its
      <4>3. t = [c EXCEPT !.free = Tail(@), !.node[n] = [new EXCEPT !.parent = p],
                          !.items[p] = <<n>> \o @]
        OBVIOUS
      <4> HIDE DEF t
      <4> QED  BY <4>1, <4>2, <4>3
    <3> HIDE DEF t
    <3>2. t.node = nd /\ t.items = its /\ t.free = Tail(c.free) /\ t.bins = c.bins
      BY <1>0, <3>1 DEF Trees
    <3>3. nd \in [Nodes -> NodeRecs] /\ its \in [Nodes -> Seq(Nodes)] /\ Tail(c.free) \in Seq(Nodes)
          => t \in Trees
      BY <1>0, <3>1 DEF Trees
    <3> QED  BY <3>2, <3>3
  <2>4. [new EXCEPT !.parent = p] \in NodeRecs
    <3> DEFINE e == [new EXCEPT !.parent = p]
    <3>1. new \in Records
      BY DEF NodeRecs
    <3>2. e \in Records
      BY <1>1, <3>1 DEF Records
    <3>3. e.type = new.type /\ e.name = new.name /\ e.alias = new.alias
      BY <3>1 DEF Records
    <3> HIDE DEF e
    <3>4. e \in NodeRecs
      BY <3>2, <3>3 DEF NodeRecs
    <3> QED  BY <3>4 DEF e
  <2>5. <<n>> \o c.items[p] \in Seq(Nodes)
    BY <1>1, <2>2, OneBefore
  <2>6. nd \in [Nodes -> NodeRecs] /\ its \in [Nodes -> Seq(Nodes)]
    BY <1>1, <2>4, <2>5
  <2> HIDE DEF nd, its
  <2>7. t \in Trees
    BY <2>2, <2>3, <2>6
  <2>8. Held(t) = Held(c) \cup {n} /\ n \notin Held(c)
    BY <2>2, <2>3 DEF Held
  <2>9. t.free = Tail(c.free) /\ t.node = nd /\ t.items = its /\ t.bins = c.bins
    BY <2>3
  <2> HIDE DEF t
  <2>10. /\ r.cli = t /\ r.node = n
         /\ t.node = [c.node EXCEPT ![n] = [new EXCEPT !.parent = p]]
         /\ t.items = [c.items EXCEPT ![p] = <<n>> \o @]
    BY <2>1, <2>9 DEF nd, its
  <2>11. c.free # <<>> /\ Len(t.free) = Len(c.free) - 1 /\ IsInjective(t.free)
    BY <1>3, <2>2, <2>9
  <2>12. r.node = Head(c.free)
    BY <2>10 DEF n
  <2> QED  BY <2>2, <2>7, <2>8, <2>9, <2>10, <2>11, <2>12 DEF Added
<1> QED  BY <1>2, <1>3

AfterAdd(c, p, new, r) ==
  /\ TreeInv(r.cli) /\ Held(c) \subseteq Held(r.cli)
  /\ \A m \in Held(c) : r.cli.node[m] = c.node[m] /\ (m # p => r.cli.items[m] = c.items[m])
  /\ r.cli.bins = c.bins
  /\ r.node = Null => r.cli = c
  /\ r.node # Null =>
       /\ r.node \in Held(r.cli) \ Held(c)
       /\ Held(r.cli) = Held(c) \cup {r.node}
       /\ r.cli.node[r.node] = [new EXCEPT !.parent = p]
       /\ r.cli.items[p] = <<r.node>> \o c.items[p]
       /\ Len(r.cli.free) = Len(c.free) - 1
  /\ Len(c.free) > 0 /\ ~(new.type = "dir" /\ new.name = RootName) => r.node # Null
LEMMA AddNodeInv ==
  ASSUME NEW c, TreeInv(c), NEW p \in Held(c), IsDir(c, p), NEW new \in NodeRecs,
         NEW r, r = AddNode(c, p, new)
  PROVE  AfterAdd(c, p, new, r)
<1>0. c \in Trees /\ IsInjective(c.free) /\ Placed(c) /\ Pointing(c) /\ p \in Nodes
  BY DEF TreeInv, Held
<1>1. CASE NotAdded(c, new, r)
  <2>1. Len(<<>>) = 0
    OBVIOUS
  <2> QED  BY <1>1, <2>1 DEF NotAdded, AfterAdd
<1>2. CASE Added(c, p, new, r)
  <2> DEFINE n == r.node
             t == r.cli
  <2>0. /\ n \in Nodes /\ n \notin Held(c) /\ t \in Trees /\ Held(t) = Held(c) \cup {n}
        /\ IsInjective(t.free) /\ t.bins = c.bins
        /\ t.node = [c.node EXCEPT ![n] = [new EXCEPT !.parent = p]]
        /\ t.items = [c.items EXCEPT ![p] = <<n>> \o @]
    BY <1>2 DEF Added
  <2> HIDE DEF n, t
  <2>1. /\ c.node \in [Nodes -> NodeRecs] /\ c.items \in [Nodes -> Seq(Nodes)]
        /\ t.node \in [Nodes -> NodeRecs] /\ t.items \in [Nodes -> Seq(Nodes)]
        /\ 1 \in Nodes /\ Null \notin Nodes
    BY <1>0, <2>0, Parts
  <2>2. n # p /\ n # 1 /\ ToSet(c.items[n]) = {} /\ \A q \in Nodes : n \notin ToSet(c.items[q])
    BY <2>0, FreeIsEmpty
  <2>3. [new EXCEPT !.parent = p].parent = p
    BY DEF NodeRecs
  <2>4. /\ \A m \in Nodes \ {n} : t.node[m] = c.node[m]
        /\ t.node[n].parent = p
        /\ \A q \in Nodes \ {p} : t.items[q] = c.items[q]
        /\ t.items[p] = <<n>> \o c.items[p]
    BY <1>0, <2>0, <2>1, <2>3
  <2>5. /\ ToSet(t.items[p]) = {n} \cup ToSet(c.items[p])
        /\ IsInjective(c.items[p]) => IsInjective(t.items[p])
    BY <1>0, <2>0, <2>1, <2>2, <2>4, OneBefore
  <2>6. \A q \in Nodes \ {n} : IsDir(c, q) => IsDir(t, q)
    BY <2>4 DEF IsDir
  <2>7. 1 \in Held(t) /\ IsDir(t, 1) /\ t.node[1].parent = Null
    BY <1>0, <2>0, <2>1, <2>2, <2>4, <2>6 DEF Placed
  <2>8. ASSUME NEW q \in Nodes, NEW m \in ToSet(t.items[q])
        PROVE  q \in Held(t) /\ m \in Held(t) /\ IsDir(t, q)
    <3>1. CASE q = p
      <4>1. m = n \/ m \in Held(c)
        BY <1>0, <2>5, <2>8, <3>1 DEF Placed
      <4> QED  BY <2>0, <2>2, <2>6, <3>1, <4>1
    <3>2. CASE q # p
      <4>1. q \in Held(c) /\ m \in Held(c) /\ IsDir(c, q)
        BY <1>0, <2>4, <2>8, <3>2 DEF Placed
      <4> QED  BY <2>0, <2>6, <4>1
    <3> QED  BY <3>1, <3>2
  <2>9. ASSUME NEW m \in Held(t) \ {1}
        PROVE  t.node[m].parent \in Nodes /\ m \in ToSet(t.items[t.node[m].parent])
    <3>1. CASE m = n
      BY <1>0, <2>4, <2>5, <3>1
    <3>2. CASE m # n
      <4>1. m \in Held(c) \ {1} /\ m \in Nodes
        BY <2>0, <3>2 DEF Held
      <4>2. c.node[m].parent \in Nodes /\ m \in ToSet(c.items[c.node[m].parent])
        BY <1>0, <4>1 DEF Placed
      <4>3. t.node[m].parent = c.node[m].parent
        BY <2>4, <3>2, <4>1
      <4> QED  BY <2>4, <2>5, <4>2, <4>3
    <3> QED  BY <3>1, <3>2
  <2>10. \E d : Orderly(t.items, ParentOf(t), d)
    <3>1. PICK d : Orderly(c.items, ParentOf(c), d)
      BY <1>0 DEF Placed
    <3>2. /\ d \in [Nodes -> Nat] /\ \A q \in Nodes : IsInjective(c.items[q])
          /\ \A q \in Nodes : \A m \in ToSet(c.items[q]) : c.node[m].parent = q /\ d[m] = d[q] + 1
               /\ m \in Nodes
      <4>1. \A q \in Nodes : ToSet(c.items[q]) \subseteq Nodes
        BY <2>1, SetOf
      <4> QED  BY <3>1, <4>1 DEF Orderly, ParentOf
    <3> DEFINE e == [d EXCEPT ![n] = d[p] + 1]
    <3>3. /\ e \in [Nodes -> Nat] /\ e[n] = d[p] + 1 /\ \A m \in Nodes \ {n} : e[m] = d[m]
          /\ e[p] = d[p]
      BY <1>0, <2>0, <2>2, <3>2
    <3> HIDE DEF e
    <3>4. ASSUME NEW q \in Nodes, NEW m \in ToSet(t.items[q])
          PROVE  t.node[m].parent = q /\ e[m] = e[q] + 1 /\ m \in Nodes
      <4>1. CASE q = p /\ m = n
        BY <2>0, <2>4, <3>3, <4>1
      <4>2. CASE ~(q = p /\ m = n)
        <5>1. m \in ToSet(c.items[q])
          BY <2>4, <2>5, <3>4, <4>2
        <5>2. m # n /\ q # n
          BY <2>2, <5>1
        <5> QED  BY <2>4, <3>2, <3>3, <5>1, <5>2
      <4> QED  BY <4>1, <4>2
    <3>5. \A q \in Nodes : IsInjective(t.items[q])
      BY <2>4, <2>5, <3>2
    <3>6. Orderly(t.items, ParentOf(t), e)
      BY <2>1, <3>3, <3>4, <3>5 DEF Orderly, ParentOf
    <3> QED  BY <3>6
  <2>11. Placed(t)
    BY <2>7, <2>8, <2>9, <2>10 DEF Placed
  <2>12. Pointing(t)
    <3>1. ASSUME NEW k \in 1..MaxBins, t.bins[k] # Null
          PROVE  t.bins[k] \in Held(t) /\ IsDir(t, t.bins[k])
      <4>1. c.bins[k] \in Held(c) /\ IsDir(c, c.bins[k]) /\ t.bins[k] = c.bins[k]
        BY <1>0, <2>0, <3>1 DEF Pointing
      <4>2. c.bins[k] \in Nodes \ {n}
        BY <2>0, <4>1 DEF Held
      <4> QED  BY <2>0, <2>6, <4>1, <4>2
    <3> QED  BY <1>0, <2>0, <3>1 DEF Pointing
  <2>13. TreeInv(t)
    BY <2>0, <2>11, <2>12 DEF TreeInv
  <2>14. n # Null /\ \A m \in Held(c) : m \in Nodes \ {n}
    BY <2>0, <2>1 DEF Held
  <2>15. /\ n \in Held(t) \ Held(c) /\ t.node[n] = [new EXCEPT !.parent = p]
         /\ Held(c) \subseteq Held(t)
    BY <2>0, <2>1
  <2>16. \A m \in Held(c) : t.node[m] = c.node[m] /\ (m # p => t.items[m] = c.items[m])
    BY <2>4, <2>14
  <2>17. Len(t.free) = Len(c.free) - 1
    BY <1>2 DEF t, Added
  <2> QED  BY <2>0, <2>4, <2>13, <2>14, <2>15, <2>16, <2>17 DEF n, t, AfterAdd
<1>3. NotAdded(c, new, r) \/ Added(c, p, new, r)
  BY AddNodeIs
<1> QED  BY <1>1, <1>2, <1>3

(* A sequence without its element i.                                       *)
LEMMA CutFacts ==
  ASSUME NEW S, NEW s \in Seq(S), NEW i \in 1..Len(s)
  PROVE  /\ RemoveAt(s, i) \in Seq(S) /\ Len(RemoveAt(s, i)) = Len(s) - 1
         /\ \A k \in 1..(Len(s) - 1) : RemoveAt(s, i)[k] = IF k < i THEN s[k] ELSE s[k + 1]
<1> DEFINE N == Len(s)
           a == SubSeq(s, 1, i - 1)
           b == SubSeq(s, i + 1, N)
<1>1. N \in Nat /\ \A k \in 1..N : s[k] \in S
  BY LenProperties, ElementOfSeq
<1>2. i \in Nat /\ i - 1 \in Nat /\ i - 1 <= N /\ i <= N
  BY <1>1
<1>3. /\ a \in Seq(S) /\ Len(a) = i - 1
      /\ \A k \in 1..(i - 1) : a[k] = s[k]
  <2>1. \A k \in 1..(i - 1) : s[k] \in S
    BY <1>1, <1>2
  <2>2. /\ a \in Seq(S) /\ Len(a) = IF 1 <= i - 1 THEN (i - 1) - 1 + 1 ELSE 0
        /\ \A k \in 1..((i - 1) - 1 + 1) : a[k] = s[1 + k - 1]
    BY <1>2, <2>1, SubSeqProperties
  <2>3. \A k \in 1..(i - 1) : k \in 1..((i - 1) - 1 + 1) /\ 1 + k - 1 = k
    BY <1>2
  <2> QED  BY <1>2, <2>2, <2>3
<1>4. /\ b \in Seq(S) /\ Len(b) = N - i
      /\ \A k \in 1..(N - i) : b[k] = s[i + k]
  <2>1. \A k \in (i + 1)..N : s[k] \in S
    BY <1>1, <1>2
  <2>2. /\ b \in Seq(S) /\ Len(b) = IF i + 1 <= N THEN N - (i + 1) + 1 ELSE 0
        /\ \A k \in 1..(N - (i + 1) + 1) : b[k] = s[(i + 1) + k - 1]
    BY <1>1, <1>2, <2>1, SubSeqProperties
  <2>3. \A k \in 1..(N - i) : k \in 1..(N - (i + 1) + 1) /\ (i + 1) + k - 1 = i + k
    BY <1>1, <1>2
  <2> QED  BY <1>1, <1>2, <2>2, <2>3
<1>5. RemoveAt(s, i) = a \o b
  BY DEF RemoveAt
<1> HIDE DEF a, b, N
<1>6. /\ a \o b \in Seq(S) /\ Len(a \o b) = Len(a) + Len(b)
      /\ \A k \in 1..(Len(a) + Len(b)) : (a \o b)[k] = IF k <= Len(a) THEN a[k] ELSE b[k - Len(a)]
  BY <1>3, <1>4, ConcatProperties
<1>7. Len(a) + Len(b) = N - 1
  BY <1>1, <1>2, <1>3, <1>4
<1>8. ASSUME NEW k \in 1..(N - 1) PROVE (a \o b)[k] = IF k < i THEN s[k] ELSE s[k + 1]
  <2>1. (a \o b)[k] = IF k <= i - 1 THEN a[k] ELSE b[k - (i - 1)]
    BY <1>3, <1>6, <1>7
  <2>2. CASE k < i
    <3>1. k <= i - 1 /\ k \in 1..(i - 1)
      BY <1>2, <2>2
    <3> QED  BY <1>3, <2>1, <2>2, <3>1
  <2>3. CASE ~(k < i)
    <3>1. ~(k <= i - 1) /\ k - (i - 1) \in 1..(N - i) /\ i + (k - (i - 1)) = k + 1
      BY <1>1, <1>2, <2>3
    <3> QED  BY <1>4, <2>1, <2>3, <3>1
  <2> QED  BY <2>2, <2>3
<1> QED  BY <1>5, <1>6, <1>7, <1>8 DEF N

LEMMA CutSet ==
  ASSUME NEW S, NEW s \in Seq(S), NEW i \in 1..Len(s), IsInjective(s)
  PROVE  ToSet(RemoveAt(s, i)) = ToSet(s) \ {s[i]} /\ IsInjective(RemoveAt(s, i))
<1> DEFINE N == Len(s)
           t == RemoveAt(s, i)
<1>1. /\ t \in Seq(S) /\ Len(t) = N - 1
      /\ \A k \in 1..(N - 1) : t[k] = IF k < i THEN s[k] ELSE s[k + 1]
  BY CutFacts
<1>2. N \in Nat /\ DOMAIN s = 1..N /\ DOMAIN t = 1..(N - 1) /\ i \in 1..N
  BY <1>1, LenProperties
<1> HIDE DEF t, N
<1>3. /\ \A k \in 1..(N - 1) : /\ k < i => t[k] = s[k] /\ k \in 1..N
                               /\ ~(k < i) => t[k] = s[k + 1] /\ k + 1 \in 1..N
                               /\ k \in Nat
      /\ i \in Nat
  BY <1>1, <1>2
<1>4. \A j, k \in 1..N : s[j] = s[k] => j = k
  BY <1>2 DEF IsInjective
<1>5. ASSUME NEW j \in 1..(N - 1), NEW k \in 1..(N - 1), t[j] = t[k] PROVE j = k
  <2>1. CASE j < i /\ k < i
    BY <1>3, <1>4, <1>5, <2>1
  <2>2. CASE ~(j < i) /\ ~(k < i)
    <3>1. j + 1 = k + 1
      BY <1>3, <1>4, <1>5, <2>2
    <3> QED  BY <1>3, <3>1
  <2>3. CASE j < i /\ ~(k < i)
    <3>1. j = k + 1
      BY <1>3, <1>4, <1>5, <2>3
    <3> QED  BY <1>3, <2>3, <3>1
  <2>4. CASE ~(j < i) /\ k < i
    <3>1. j + 1 = k
      BY <1>3, <1>4, <1>5, <2>4
    <3> QED  BY <1>3, <2>4, <3>1
  <2> QED  BY <2>1, <2>2, <2>3, <2>4
<1>6. ToSet(t) = {t[k] : k \in 1..(N - 1)} /\ ToSet(s) = {s[k] : k \in 1..N}
  BY <1>2 DEF ToSet
<1>7. ASSUME NEW k \in 1..(N - 1) PROVE t[k] \in ToSet(s) \ {s[i]}
  <2>1. CASE k < i
    <3>1. t[k] = s[k] /\ k \in 1..N /\ k # i
      BY <1>3, <2>1
    <3> QED  BY <1>2, <1>4, <1>6, <3>1
  <2>2. CASE ~(k < i)
    <3>1. t[k] = s[k + 1] /\ k + 1 \in 1..N /\ k + 1 # i
      BY <1>3, <2>2
    <3> QED  BY <1>2, <1>4, <1>6, <3>1
  <2> QED  BY <2>1, <2>2
<1>8. ASSUME NEW k \in 1..N, s[k] # s[i] PROVE s[k] \in ToSet(t)
  <2>1. k # i /\ k \in Nat
    BY <1>2, <1>8
  <2>2. CASE k < i
    <3>1. k \in 1..(N - 1)
      BY <1>2, <2>2
    <3> QED  BY <1>3, <1>6, <2>2, <3>1
  <2>3. CASE ~(k < i)
    <3>1. k - 1 \in 1..(N - 1) /\ ~(k - 1 < i) /\ (k - 1) + 1 = k
      BY <1>2, <1>3, <2>1, <2>3
    <3>2. t[k - 1] = s[k]
      BY <1>3, <3>1
    <3> QED  BY <1>6, <3>1, <3>2
  <2> QED  BY <2>2, <2>3
<1>9. ToSet(t) = ToSet(s) \ {s[i]}
  BY <1>6, <1>7, <1>8
<1> QED  BY <1>2, <1>5, <1>9 DEF t, IsInjective

LEMMA RemoveFirstFacts ==
  ASSUME NEW S, NEW s \in Seq(S), NEW e, IsInjective(s)
  PROVE  /\ RemoveFirst(s, e) \in Seq(S) /\ IsInjective(RemoveFirst(s, e))
         /\ ToSet(RemoveFirst(s, e)) = ToSet(s) \ {e}
<1>1. Len(s) \in Nat /\ ToSet(s) = {s[i] : i \in 1..Len(s)}
  BY SetOf
<1>2. CASE e \in ToSet(s)
  <2> DEFINE I == {i \in 1..Len(s) : s[i] = e}
  <2>1. I # {} /\ I \in SUBSET Nat /\ \E i \in 1..Len(s) : s[i] = e
    BY <1>1, <1>2
  <2>2. RemoveFirst(s, e) = RemoveAt(s, Min(I))
    BY <2>1 DEF RemoveFirst, SelectInSeq
  <2>3. Min(I) \in I
    <3> HIDE DEF I
    <3> QED  BY <2>1, LeastOf
  <2>4. Min(I) \in 1..Len(s) /\ s[Min(I)] = e
    BY <2>3
  <2> HIDE DEF I
  <2> QED  BY <2>2, <2>4, CutFacts, CutSet
<1>3. CASE e \notin ToSet(s)
  <2>1. RemoveFirst(s, e) = s
    BY <1>1, <1>3 DEF RemoveFirst
  <2> QED  BY <1>3, <2>1
<1> QED  BY <1>2, <1>3

(* cli_add_bin: a directory of the tree, or none.                          *)
LEMMA AddBinInv ==
  ASSUME NEW c, TreeInv(c), NEW dir \in Held(c) \cup {Null}
  PROVE  /\ TreeInv(AddBin(c, dir))
         /\ AddBin(c, dir).node = c.node /\ AddBin(c, dir).items = c.items
         /\ AddBin(c, dir).free = c.free /\ Held(AddBin(c, dir)) = Held(c)
<1> DEFINE room == {k \in 2..MaxBins : c.bins[k] = Null}
           t == AddBin(c, dir)
<1>0. c \in Trees /\ IsInjective(c.free) /\ Placed(c) /\ Pointing(c)
  BY DEF TreeInv
<1>1. CASE ~IsDir(c, dir) \/ room = {} \/ \E k \in 2..MaxBins : c.bins[k] = dir
  <2>1. t = c
    BY <1>1 DEF AddBin
  <2> QED  BY <2>1
<1>2. CASE ~(~IsDir(c, dir) \/ room = {} \/ \E k \in 2..MaxBins : c.bins[k] = dir)
  <2>1. t = [c EXCEPT !.bins[Min(room)] = dir]
    BY <1>2 DEF AddBin
  <2>2. MaxBins \in Nat /\ c.bins \in [1..MaxBins -> 0..NbNodes] /\ dir \in 0..NbNodes
        /\ dir # Null /\ 1 \in 1..MaxBins
    BY <1>0, <1>2, Parts DEF Held, IsDir
  <2>3. Min(room) \in room
    <3>1. room # {} /\ room \in SUBSET Nat
      BY <1>2, <2>2
    <3> HIDE DEF room
    <3> QED  BY <3>1, LeastOf
  <2> DEFINE k0 == Min(room)
  <2>4. k0 \in 2..MaxBins /\ k0 \in 1..MaxBins /\ k0 # 1 /\ c.bins[k0] = Null
    BY <2>2, <2>3
  <2> HIDE DEF t, room, k0
  <2> DEFINE b == [c.bins EXCEPT ![k0] = dir]
  <2>5. t = [c EXCEPT !.bins = b]
    <3>1. t = [c EXCEPT !.bins[k0] = dir]
      BY <2>1 DEF k0
    <3> QED  BY <1>0, <3>1 DEF Trees
  <2>6. b \in [1..MaxBins -> 0..NbNodes]
    BY <2>2, <2>4
  <2>7. b[k0] = dir /\ \A k \in 1..MaxBins : k # k0 => b[k] = c.bins[k]
    BY <2>2, <2>4
  <2> HIDE DEF b
  <2>8. /\ t \in Trees /\ t.bins = b /\ t.node = c.node /\ t.items = c.items /\ t.free = c.free
        /\ t.root = c.root
    BY <1>0, <2>5, <2>6 DEF Trees
  <2>9. Held(t) = Held(c) /\ Placed(t) /\ \A n : IsDir(t, n) <=> IsDir(c, n)
    BY <1>0, <2>8 DEF Held, Placed, IsDir, ParentOf
  <2>10. Pointing(t)
    <3>1. ASSUME NEW k \in 1..MaxBins, b[k] # Null PROVE b[k] \in Held(c) /\ IsDir(c, b[k])
      BY <1>0, <1>2, <2>2, <2>7, <3>1 DEF Pointing
    <3>2. b[1] # Null
      BY <1>0, <2>2, <2>4, <2>7 DEF Pointing
    <3>3. ASSUME NEW j \in 2..MaxBins, NEW k \in 2..MaxBins, b[j] = b[k], b[j] # Null
          PROVE  j = k
      <4>1. j \in 1..MaxBins /\ k \in 1..MaxBins
        BY <2>2
      <4>2. CASE j = k0 \/ k = k0
        BY <1>2, <2>7, <3>3, <4>1, <4>2
      <4>3. CASE j # k0 /\ k # k0
        BY <1>0, <2>7, <3>3, <4>1, <4>3 DEF Pointing
      <4> QED  BY <4>2, <4>3
    <3> QED  BY <2>8, <2>9, <3>1, <3>2, <3>3 DEF Pointing
  <2>11. TreeInv(t)
    BY <1>0, <2>8, <2>9, <2>10 DEF TreeInv
  <2> QED  BY <2>8, <2>9, <2>11 DEF t
<1> QED  BY <1>1, <1>2

(* cli_del_bin of a directory that is not the working directory.           *)
LEMMA DelBinIs ==
  ASSUME NEW c, TreeInv(c), NEW dir \in Nodes, c.bins[1] # dir
  PROVE  LET t == DelBin(c, dir) IN
         /\ t \in Trees /\ t.node = c.node /\ t.items = c.items /\ t.free = c.free
         /\ t.bins[1] = c.bins[1] /\ Pointing(t)
         /\ \A k \in 1..MaxBins : t.bins[k] # dir
<1> DEFINE t == DelBin(c, dir)
           at == {k \in 1..MaxBins : c.bins[k] = dir}
<1>0. c \in Trees /\ Pointing(c)
  BY DEF TreeInv
<1>1. MaxBins \in Nat /\ c.bins \in [1..MaxBins -> 0..NbNodes] /\ 1 \in 1..MaxBins
      /\ dir \in 0..NbNodes /\ Null \in 0..NbNodes /\ dir # Null
  BY <1>0, Parts
<1>2. CASE at = {}
  <2>1. t = c
    BY <1>2 DEF DelBin
  <2>2. \A k \in 1..MaxBins : c.bins[k] # dir
    BY <1>2
  <2> HIDE DEF t
  <2>3. /\ t \in Trees /\ t.node = c.node /\ t.items = c.items /\ t.free = c.free
        /\ t.bins[1] = c.bins[1] /\ Pointing(t)
        /\ \A k \in 1..MaxBins : t.bins[k] # dir
    BY <1>0, <2>1, <2>2
  <2> QED  BY <2>3 DEF t
<1>3. CASE at # {}
  <2> DEFINE i == Min(at)
             a == RemoveAt(c.bins, i)
             b == Append(a, Null)
  <2>1. t = [c EXCEPT !.bins = b]
    BY <1>3 DEF DelBin
  <2>2. i \in at
    <3>1. at \in SUBSET Nat
      BY <1>1
    <3> HIDE DEF at
    <3> QED  BY <1>3, <3>1, LeastOf
  <2>3. i \in 2..MaxBins /\ i \in 1..MaxBins /\ c.bins[i] = dir
    <3>1. i \in 1..MaxBins /\ c.bins[i] = dir /\ i # 1
      BY <1>1, <2>2
    <3> HIDE DEF i
    <3> QED  BY <1>1, <3>1
  <2> HIDE DEF i, at, t
  <2>4. c.bins \in Seq(0..NbNodes) /\ Len(c.bins) = MaxBins
    <3>1. c.bins \in Seq(0..NbNodes)
      BY <1>1, SeqDef
    <3>2. Len(c.bins) \in Nat /\ DOMAIN c.bins = 1..Len(c.bins) /\ DOMAIN c.bins = 1..MaxBins
      BY <1>1, <3>1, LenProperties
    <3>3. Len(c.bins) = MaxBins
      BY <1>1, <3>2
    <3> QED  BY <3>1, <3>3
  <2>5. /\ a \in Seq(0..NbNodes) /\ Len(a) = MaxBins - 1
        /\ \A k \in 1..(MaxBins - 1) : a[k] = IF k < i THEN c.bins[k] ELSE c.bins[k + 1]
    BY <2>3, <2>4, CutFacts
  <2> HIDE DEF a
  <2>6. /\ b \in Seq(0..NbNodes) /\ Len(b) = MaxBins
        /\ \A k \in 1..(MaxBins - 1) : b[k] = a[k]
        /\ b[MaxBins] = Null
    <3>1. /\ b \in Seq(0..NbNodes) /\ Len(b) = Len(a) + 1
          /\ \A k \in 1..Len(a) : b[k] = a[k]
          /\ b[Len(a) + 1] = Null
      <4> DEFINE S == 0..NbNodes
      <4>1. a \in Seq(S) /\ Null \in S
        BY <1>1, <2>5
      <4> HIDE DEF S
      <4>2. b \in Seq(S) /\ Len(b) = Len(a) + 1
        BY <4>1, AppendProperties
      <4>3. \A k \in 1..Len(a) : b[k] = a[k]
        BY <4>1, AppendProperties
      <4>4. b[Len(a) + 1] = Null
        BY <4>1, AppendProperties
      <4> QED  BY <4>2, <4>3, <4>4 DEF S
    <3>2. Len(a) + 1 = MaxBins
      BY <1>1, <2>5
    <3> QED  BY <2>5, <3>1, <3>2
  <2> HIDE DEF b
  <2>7. b \in [1..MaxBins -> 0..NbNodes]
    BY <2>6, LenProperties
  <2> DEFINE from(k) == IF k < i THEN k ELSE k + 1
  <2>8. ASSUME NEW k \in 1..MaxBins, b[k] # Null
        PROVE  from(k) \in 1..MaxBins /\ from(k) # i /\ b[k] = c.bins[from(k)]
               /\ (k # 1 => from(k) \in 2..MaxBins)
    <3>1. k \in 1..(MaxBins - 1)
      BY <1>1, <2>6, <2>8
    <3>2. b[k] = IF k < i THEN c.bins[k] ELSE c.bins[k + 1]
      BY <2>5, <2>6, <3>1
    <3>3. k \in Nat /\ i \in Nat
      BY <1>1, <2>3
    <3>4. CASE k < i
      BY <1>1, <2>3, <3>1, <3>2, <3>3, <3>4
    <3>5. CASE ~(k < i)
      <4>1. k + 1 \in 2..MaxBins /\ k + 1 # i /\ k + 1 \in 1..MaxBins
        BY <1>1, <2>3, <3>1, <3>3, <3>5
      <4> QED  BY <3>2, <3>5, <4>1
    <3> QED  BY <3>4, <3>5
  <2>9. b[1] = c.bins[1]
    <3>1. 1 \in 1..(MaxBins - 1) /\ 1 < i
      BY <1>1, <2>3
    <3> QED  BY <2>5, <2>6, <3>1
  <2>10. \A k \in 1..MaxBins : b[k] # dir
    <3> SUFFICES ASSUME NEW k \in 1..MaxBins, b[k] = dir PROVE FALSE
      OBVIOUS
    <3>1. from(k) \in 1..MaxBins /\ from(k) # i /\ c.bins[from(k)] = dir
      BY <1>1, <2>8
    <3>2. from(k) # 1
      BY <3>1
    <3>3. from(k) \in 2..MaxBins
      <4> HIDE DEF from
      <4> QED  BY <1>1, <3>1, <3>2
    <3> HIDE DEF from
    <3> QED  BY <1>0, <1>1, <2>3, <3>1, <3>3 DEF Pointing
  <2>11. /\ t \in Trees /\ t.bins = b /\ t.node = c.node /\ t.items = c.items /\ t.free = c.free
    BY <1>0, <2>1, <2>7 DEF Trees
  <2>12. Held(t) = Held(c) /\ \A n : IsDir(t, n) <=> IsDir(c, n)
    BY <2>11 DEF Held, IsDir
  <2>13. Pointing(t)
    <3>1. ASSUME NEW k \in 1..MaxBins, b[k] # Null PROVE b[k] \in Held(c) /\ IsDir(c, b[k])
      <4>1. from(k) \in 1..MaxBins /\ b[k] = c.bins[from(k)]
        BY <2>8, <3>1
      <4> HIDE DEF from
      <4> QED  BY <1>0, <3>1, <4>1 DEF Pointing
    <3>2. b[1] # Null
      BY <1>0, <2>9 DEF Pointing
    <3>3. ASSUME NEW j \in 2..MaxBins, NEW k \in 2..MaxBins, b[j] = b[k], b[j] # Null
          PROVE  j = k
      <4>1. j \in 1..MaxBins /\ k \in 1..MaxBins /\ j # 1 /\ k # 1
        BY <1>1
      <4>2. /\ from(j) \in 2..MaxBins /\ b[j] = c.bins[from(j)] /\ from(j) # i
            /\ from(k) \in 2..MaxBins /\ b[k] = c.bins[from(k)] /\ from(k) # i
        BY <2>8, <3>3, <4>1
      <4>3. from(j) = from(k)
        <5> HIDE DEF from
        <5> QED  BY <1>0, <3>3, <4>2 DEF Pointing
      <4>4. j \in Nat /\ k \in Nat /\ i \in Nat
        BY <1>1, <2>3
      <4> QED  BY <4>3, <4>4
    <3> QED  BY <2>11, <2>12, <3>1, <3>2, <3>3 DEF Pointing
  <2> QED  BY <2>9, <2>10, <2>11, <2>13 DEF t
<1> QED  BY <1>2, <1>3

(* cli_remove_node of a node that has no entries, or none left.            *)
LEMMA RemovedInv ==
  ASSUME NEW c, TreeInv(c), NEW n \in Held(c) \ {1}, ToSet(c.items[n]) = {}, c.bins[1] # n,
         NEW r, r = Removed(c, n)
  PROVE  /\ TreeInv(r) /\ r.node = c.node /\ Held(r) = Held(c) \ {n} /\ r.bins[1] = c.bins[1]
         /\ \A q \in Nodes : ToSet(r.items[q]) = ToSet(c.items[q]) \ {n}
<1> DEFINE p == c.node[n].parent
           g == IF IsDir(c, n) THEN DelBin(c, n) ELSE c
<1>0. c \in Trees /\ IsInjective(c.free) /\ Placed(c) /\ Pointing(c) /\ n \in Nodes /\ n # 1
      /\ n \notin ToSet(c.free)
  BY DEF TreeInv, Held
<1>1. /\ c.node \in [Nodes -> NodeRecs] /\ c.items \in [Nodes -> Seq(Nodes)]
      /\ c.free \in Seq(Nodes) /\ 1 \in Nodes
  BY <1>0, Parts
<1>2. p \in Nodes /\ n \in ToSet(c.items[p])
  BY <1>0 DEF Placed
<1>3. /\ g \in Trees /\ g.node = c.node /\ g.items = c.items /\ g.free = c.free
      /\ g.bins[1] = c.bins[1] /\ Pointing(g)
      /\ \A k \in 1..MaxBins : g.bins[k] # n
  <2>1. CASE IsDir(c, n)
    <3>1. g = DelBin(c, n)
      BY <2>1
    <3> QED  BY <1>0, <3>1, DelBinIs
  <2>2. CASE ~IsDir(c, n)
    <3>1. g = c
      BY <2>2
    <3>2. n # Null
      BY <1>0, Parts
    <3>3. \A k \in 1..MaxBins : c.bins[k] # n
      BY <1>0, <2>2, <3>2 DEF Pointing
    <3> QED  BY <1>0, <3>1, <3>3
  <2> QED  BY <2>1, <2>2
<1>4. r = [g EXCEPT !.items[p] = RemoveFirst(@, n), !.free = Append(@, n)]
  BY DEF Removed
<1> HIDE DEF g, p
<1> DEFINE its == [c.items EXCEPT ![p] = RemoveFirst(c.items[p], n)]
           fr == Append(c.free, n)
<1>5. r = [g EXCEPT !.items = its, !.free = fr]
  <2>1. r = [g EXCEPT !.items = [g.items EXCEPT ![p] = RemoveFirst(g.items[p], n)],
                      !.free = Append(g.free, n)]
    BY <1>3, <1>4 DEF Trees
  <2> QED  BY <1>3, <2>1
<1>6. \A q \in Nodes : IsInjective(c.items[q])
  BY <1>0 DEF Placed, Orderly
<1>7. /\ RemoveFirst(c.items[p], n) \in Seq(Nodes) /\ IsInjective(RemoveFirst(c.items[p], n))
      /\ ToSet(RemoveFirst(c.items[p], n)) = ToSet(c.items[p]) \ {n}
  <2>1. c.items[p] \in Seq(Nodes) /\ IsInjective(c.items[p])
    BY <1>1, <1>2, <1>6
  <2> QED  BY <2>1, RemoveFirstFacts
<1>8. /\ its \in [Nodes -> Seq(Nodes)]
      /\ \A q \in Nodes \ {p} : its[q] = c.items[q]
      /\ its[p] = RemoveFirst(c.items[p], n)
  BY <1>1, <1>2, <1>7
<1>9. fr \in Seq(Nodes) /\ ToSet(fr) = ToSet(c.free) \cup {n} /\ IsInjective(fr)
  <2>1. c.free \in Seq(Nodes) /\ n \in Nodes /\ IsInjective(c.free) /\ n \notin ToSet(c.free)
    BY <1>0, <1>1
  <2> DEFINE old == c.free
  <2> HIDE DEF old
  <2>2. old \in Seq(Nodes) /\ IsInjective(old) /\ n \notin ToSet(old)
    BY <2>1 DEF old
  <2>3. Append(old, n) \in Seq(Nodes)
    BY <2>1, <2>2
  <2>4. ToSet(Append(old, n)) = ToSet(old) \cup {n}
    BY <2>1, <2>2, OneMoreSet
  <2>5. IsInjective(Append(old, n))
    BY <2>1, <2>2, OneMore
  <2> QED  BY <2>3, <2>4, <2>5 DEF old
<1> HIDE DEF its, fr
<1>10. /\ r \in Trees /\ r.node = c.node /\ r.items = its /\ r.free = fr /\ r.bins = g.bins
  <2>1. r.items = its /\ r.free = fr /\ r.bins = g.bins /\ r.node = g.node
    BY <1>3, <1>5 DEF Trees
  <2>2. r \in Trees
    BY <1>3, <1>5, <1>8, <1>9 DEF Trees
  <2> QED  BY <1>3, <2>1, <2>2
<1>11. Held(r) = Held(c) \ {n}
  BY <1>9, <1>10 DEF Held
<1>12. ASSUME NEW q \in Nodes
       PROVE  ToSet(its[q]) = ToSet(c.items[q]) \ {n} /\ IsInjective(its[q])
  <2>1. CASE q = p
    BY <1>7, <1>8, <2>1
  <2>2. CASE q # p
    <3>1. n \notin ToSet(c.items[q])
      <4>1. \A m \in ToSet(c.items[q]) : m \in Nodes /\ c.node[m].parent = q
        <5>1. ToSet(c.items[q]) \subseteq Nodes
          BY <1>1, SetOf
        <5> QED  BY <1>0, <5>1 DEF Placed, Orderly, ParentOf
      <4> QED  BY <2>2, <4>1 DEF p
    <3> QED  BY <1>6, <1>8, <2>2, <3>1
  <2> QED  BY <2>1, <2>2
<1>13. \A m : IsDir(r, m) <=> IsDir(c, m)
  BY <1>10 DEF IsDir
<1>14. Placed(r)
  <2>1. 1 \in Held(r) /\ IsDir(r, 1) /\ r.node[1].parent = Null
    BY <1>0, <1>10, <1>11, <1>13 DEF Placed
  <2>2. ASSUME NEW q \in Nodes, NEW m \in ToSet(r.items[q])
        PROVE  q \in Held(r) /\ m \in Held(r) /\ IsDir(r, q)
    <3>1. m \in ToSet(c.items[q]) /\ m # n
      BY <1>10, <1>12, <2>2
    <3>2. q \in Held(c) /\ m \in Held(c) /\ IsDir(c, q)
      BY <1>0, <3>1 DEF Placed
    <3>3. q # n
      BY <3>1
    <3> QED  BY <1>11, <1>13, <3>1, <3>2, <3>3
  <2>3. ASSUME NEW m \in Held(r) \ {1}
        PROVE  r.node[m].parent \in Nodes /\ m \in ToSet(r.items[r.node[m].parent])
    <3>1. m \in Held(c) \ {1} /\ m # n
      BY <1>11
    <3>2. c.node[m].parent \in Nodes /\ m \in ToSet(c.items[c.node[m].parent])
      BY <1>0, <3>1 DEF Placed
    <3> QED  BY <1>10, <1>12, <3>1, <3>2
  <2>4. \E d : Orderly(r.items, ParentOf(r), d)
    <3>1. PICK d : Orderly(c.items, ParentOf(c), d)
      BY <1>0 DEF Placed
    <3>2. ParentOf(r) = ParentOf(c)
      BY <1>10 DEF ParentOf
    <3>3. Orderly(its, ParentOf(c), d)
      BY <1>8, <1>12, <3>1 DEF Orderly
    <3> QED  BY <1>10, <3>2, <3>3
  <2> QED  BY <2>1, <2>2, <2>3, <2>4 DEF Placed
<1>15. Pointing(r)
  <2>1. ASSUME NEW k \in 1..MaxBins, r.bins[k] # Null
        PROVE  r.bins[k] \in Held(r) /\ IsDir(r, r.bins[k])
    <3>1. g.bins[k] \in Held(g) /\ IsDir(g, g.bins[k]) /\ g.bins[k] # n
      BY <1>3, <1>10, <2>1 DEF Pointing
    <3>2. Held(g) = Held(c) /\ (IsDir(g, g.bins[k]) <=> IsDir(c, g.bins[k]))
      BY <1>3 DEF Held, IsDir
    <3> QED  BY <1>10, <1>11, <1>13, <3>1, <3>2
  <2>2. r.bins[1] # Null /\ \A j, k \in 2..MaxBins : r.bins[j] = r.bins[k] /\ r.bins[j] # Null => j = k
    BY <1>3, <1>10 DEF Pointing
  <2> QED  BY <2>1, <2>2 DEF Pointing
<1>16. TreeInv(r)
  BY <1>9, <1>10, <1>14, <1>15 DEF TreeInv
<1> QED  BY <1>3, <1>10, <1>11, <1>12, <1>16

LEMMA RemoveComes ==
  ASSUME NEW c, NEW S, NEW seq \in Seq(S)
  PROVE  \E h : /\ Comes(h, "remove", 0, c, seq, Len(seq))
                /\ FoldLeft(Removed, c, seq) = h[Len(seq)]
<1> DEFINE N == Len(seq)
<1>1. N \in Nat /\ DOMAIN seq = 1..N /\ N \in 0..N
  BY LenProperties
<1> HIDE DEF N
<1>2. PICK f : Folding(f, "remove", 0, c, seq, N)
  BY <1>1, FoldExists
<1> DEFINE it == CHOOSE it : it = [s \in SUBSET (1..N) |->
                    IF s = {} THEN c ELSE Removed(it[s \ {Max(s)}], seq[Max(s)])]
<1>3. FoldLeft(Removed, c, seq) = it[1..N]
  BY <1>1 DEF FoldLeft, MapThenFoldSet
<1>4. f = [s \in SUBSET (1..N) |->
                    IF s = {} THEN c ELSE Removed(f[s \ {Max(s)}], seq[Max(s)])]
  BY <1>2 DEF Folding, FoldStep
<1>5. it = [s \in SUBSET (1..N) |->
                    IF s = {} THEN c ELSE Removed(it[s \ {Max(s)}], seq[Max(s)])]
  BY <1>4
<1> HIDE DEF it
<1>6. Folding(it, "remove", 0, c, seq, N)
  BY <1>5 DEF Folding, FoldStep
<1>7. PICK h : h = [i \in 0..N |-> it[1..i]] /\ Comes(h, "remove", 0, c, seq, N)
  BY <1>1, <1>6, FoldComes
<1> QED  BY <1>1, <1>3, <1>7 DEF N

(* A node and all below it go, one after the other.                        *)
LEMMA RemoveNodeInv ==
  ASSUME NEW c, TreeInv(c), NEW n \in Held(c) \cup {Null}, n # 1 => c.bins[1] \notin Under(c, n)
  PROVE  /\ TreeInv(RemoveNode(c, n)) /\ RemoveNode(c, n).node = c.node
<1>0. c \in Trees /\ Placed(c) /\ c.root = 1
  BY Parts DEF TreeInv
<1>1. CASE n = Null \/ n = 1
  BY <1>0, <1>1 DEF RemoveNode
<1>2. CASE n # Null /\ n # 1
  <2> DEFINE s == Subtree(c, n)
             N == Len(s)
             par == ParentOf(c)
  <2>0. n \in Held(c) /\ n \in Nodes /\ 1 \in Nodes /\ Null \notin Nodes
    BY <1>0, <1>2, Parts DEF Held
  <2>1. PICK d : Orderly(c.items, par, d)
    BY <1>0 DEF Placed
  <2> HIDE DEF par
  <2>2. /\ s \in Seq(Nodes) /\ IsInjective(s) /\ Behind(c.items, s)
        /\ Under(c, n) \subseteq Nodes
        /\ \A m \in Under(c, n) : m # n => par[m] \in Under(c, n) /\ m \in ToSet(c.items[par[m]])
    BY <2>0, <2>1, SubtreeFacts
  <2>3. Under(c, n) = {s[i] : i \in 1..N} /\ N \in Nat /\ DOMAIN s = 1..N
    BY <2>2, SetOf DEF Under
  <2>4. \A m \in Under(c, n) : m \in Held(c) \ {1}
    <3> SUFFICES ASSUME NEW m \in Under(c, n) PROVE m \in Held(c) \ {1}
      OBVIOUS
    <3>1. CASE m = n
      BY <1>2, <2>0, <3>1
    <3>2. CASE m # n
      <4>1. par[m] \in Nodes /\ m \in ToSet(c.items[par[m]])
        BY <2>2, <3>2
      <4>2. m \in Held(c)
        BY <1>0, <4>1 DEF Placed
      <4>3. m # 1
        <5>1. par[1] = Null
          BY <1>0, <2>0 DEF Placed, par, ParentOf
        <5> QED  BY <2>0, <4>1, <5>1
      <4> QED  BY <4>2, <4>3
    <3> QED  BY <3>1, <3>2
  <2>5. PICK h : Comes(h, "remove", 0, c, s, N) /\ FoldLeft(Removed, c, s) = h[N]
    BY <2>2, RemoveComes
  <2>6. h[0] = c /\ \A i \in 1..N : h[i] = Removed(h[i - 1], s[i])
    BY <2>5 DEF Comes, FoldStep
  <2>7. RemoveNode(c, n) = h[N]
    BY <1>0, <1>2, <2>5 DEF RemoveNode
  <2> HIDE DEF s, N
  <2> DEFINE Gone(k) == {s[i] : i \in 1..k}
             Is(k) == /\ TreeInv(h[k]) /\ h[k].node = c.node /\ h[k].bins[1] = c.bins[1]
                      /\ Held(h[k]) = Held(c) \ Gone(k)
                      /\ \A q \in Nodes : ToSet(h[k].items[q]) = ToSet(c.items[q]) \ Gone(k)
             K == {k \in Nat : k <= N => Is(k)}
  <2>8. 0 \in K
    <3>1. Gone(0) = {}
      OBVIOUS
    <3>2. Is(0)
      BY <2>6, <3>1
    <3> QED  BY <3>2
  <2>9. ASSUME NEW k \in K PROVE k + 1 \in K
    <3>1. k \in Nat /\ k + 1 \in Nat /\ (k + 1) - 1 = k
      OBVIOUS
    <3> SUFFICES ASSUME k + 1 <= N PROVE Is(k + 1)
      BY <3>1
    <3>2. Is(k)
      <4>1. k <= N => Is(k)
        <5> HIDE DEF Is
        <5> QED  OBVIOUS
      <4> HIDE DEF Is
      <4> QED  BY <2>3, <3>1, <4>1
    <3> DEFINE m == s[k + 1]
    <3>3. k + 1 \in 1..N /\ m \in Under(c, n)
      BY <2>3, <3>1
    <3>4. m \notin Gone(k)
      <4> SUFFICES ASSUME NEW i \in 1..k, s[i] = m PROVE FALSE
        OBVIOUS
      <4>1. i \in 1..N /\ i # k + 1
        BY <2>3, <3>1
      <4> QED  BY <2>2, <2>3, <3>3, <4>1 DEF IsInjective
    <3>5. m \in Held(c) \ {1} /\ m \in Nodes
      BY <2>2, <2>4, <3>3
    <3>6. ToSet(c.items[m]) \subseteq Gone(k)
      <4> SUFFICES ASSUME NEW e \in ToSet(c.items[m]) PROVE e \in Gone(k)
        OBVIOUS
      <4>1. PICK j \in 1..((k + 1) - 1) : s[j] = e
        BY <2>2, <3>3 DEF Behind, N
      <4> QED  BY <3>1, <4>1
    <3>7. h[k + 1] = Removed(h[k], m)
      BY <2>6, <3>1, <3>3
    <3>8. Gone(k + 1) = Gone(k) \cup {m}
      <4>1. 1..(k + 1) = (1..k) \cup {k + 1}
        BY <3>1
      <4> QED  BY <4>1
    <3> HIDE DEF m, Gone
    <3>9. m \in Held(h[k]) \ {1} /\ ToSet(h[k].items[m]) = {}
      BY <3>2, <3>4, <3>5, <3>6
    <3>10. h[k].bins[1] # m
      BY <1>2, <3>2, <3>3
    <3>11. /\ TreeInv(h[k + 1]) /\ h[k + 1].node = h[k].node
           /\ Held(h[k + 1]) = Held(h[k]) \ {m} /\ h[k + 1].bins[1] = h[k].bins[1]
           /\ \A q \in Nodes : ToSet(h[k + 1].items[q]) = ToSet(h[k].items[q]) \ {m}
      <4> DEFINE b == h[k]
                 r == h[k + 1]
      <4>1. TreeInv(b)
        BY <3>2
      <4>2. m \in Held(b) \ {1} /\ ToSet(b.items[m]) = {} /\ b.bins[1] # m /\ r = Removed(b, m)
        BY <3>7, <3>9, <3>10
      <4> HIDE DEF b, r
      <4>3. TreeInv(r) /\ r.node = b.node /\ Held(r) = Held(b) \ {m} /\ r.bins[1] = b.bins[1]
        BY <4>1, <4>2, RemovedInv
      <4>4. \A q \in Nodes : ToSet(r.items[q]) = ToSet(b.items[q]) \ {m}
        BY <4>1, <4>2, RemovedInv
      <4> QED  BY <4>3, <4>4 DEF b, r
    <3>12. Held(h[k + 1]) = Held(c) \ Gone(k + 1)
      BY <3>2, <3>8, <3>11
    <3>13. \A q \in Nodes : ToSet(h[k + 1].items[q]) = ToSet(c.items[q]) \ Gone(k + 1)
      BY <3>2, <3>8, <3>11
    <3> QED  BY <3>2, <3>11, <3>12, <3>13
  <2>10. N \in K
    <3>1. K \in SUBSET Nat
      OBVIOUS
    <3> HIDE DEF K
    <3> QED  BY <2>3, <2>8, <2>9, <3>1, NatInd
  <2>11. Is(N)
    <3> HIDE DEF Is
    <3>1. N \in Nat /\ (N <= N => Is(N))
      BY <2>3, <2>10
    <3> QED  BY <3>1
  <2> QED  BY <2>7, <2>11
<1> QED  BY <1>1, <1>2

(***************************************************************************)
(* The searches.                                                           *)
(***************************************************************************)
(* cli_search_dir of a directory: its entry of that name, or a directory.  *)
LEMMA SearchFacts ==
  ASSUME NEW c, TreeInv(c), NEW dir \in Held(c), IsDir(c, dir), NEW name, NEW types,
         NEW n, n = SearchDir(c, dir, name, types)
  PROVE  /\ n \in Held(c) \cup {Null}
         /\ n # Null => name # <<>>
         /\ n # Null /\ name \in {Up, Here} => IsDir(c, n)
         /\ n # Null /\ name \notin {Up, Here} =>
              n \in ToSet(c.items[dir]) /\ c.node[n].name = name /\ c.node[n].type \in types
         /\ name \notin {<<>>, Up, Here} =>
              \A m \in ToSet(c.items[dir]) :
                c.node[m].name = name /\ c.node[m].type \in types => n # Null
<1> DEFINE its == c.items[dir]
           hits == {k \in DOMAIN its : c.node[its[k]].name = name /\ c.node[its[k]].type \in types}
<1>0. c \in Trees /\ Placed(c) /\ dir \in Nodes
  BY DEF TreeInv, Held
<1>1. Null \notin Nodes /\ its \in Seq(Nodes)
  BY <1>0, Parts
<1>2. DOMAIN its = 1..Len(its) /\ Len(its) \in Nat /\ ToSet(its) = {its[k] : k \in 1..Len(its)}
      /\ ToSet(its) \subseteq Nodes
  BY <1>1, SetOf
<1>3. dir # Null
  BY <1>0, <1>1
<1>4. n = IF name = <<>> THEN Null
          ELSE IF name = Up THEN c.node[dir].parent
          ELSE IF name = Here THEN dir
          ELSE IF hits = {} THEN Null ELSE its[Min(hits)]
  BY <1>3 DEF SearchDir
<1> HIDE DEF its
<1>5. \A m \in ToSet(its) : m \in Held(c)
  BY <1>0 DEF Placed, its
<1>6. hits # {} => /\ its[Min(hits)] \in ToSet(its)
                   /\ c.node[its[Min(hits)]].name = name /\ c.node[its[Min(hits)]].type \in types
  <2> SUFFICES ASSUME hits # {} PROVE Min(hits) \in hits
    BY <1>2
  <2>1. hits \in SUBSET Nat
    BY <1>2
  <2> HIDE DEF hits
  <2> QED  BY <2>1, LeastOf
<1>7. c.node[dir].parent = Null \/ (c.node[dir].parent \in Held(c) /\ IsDir(c, c.node[dir].parent))
  BY <1>0 DEF Placed
<1>8. name \notin {<<>>, Up, Here} =>
        \A m \in ToSet(its) : c.node[m].name = name /\ c.node[m].type \in types => n # Null
  <2> SUFFICES ASSUME name \notin {<<>>, Up, Here}, NEW m \in ToSet(its),
                      c.node[m].name = name, c.node[m].type \in types
               PROVE  n # Null
    OBVIOUS
  <2>1. hits # {}
    BY <1>2
  <2> HIDE DEF hits
  <2>2. n = its[Min(hits)]
    BY <1>4, <2>1
  <2>3. its[Min(hits)] # Null
    BY <1>1, <1>2, <1>6, <2>1
  <2> QED  BY <2>2, <2>3
<1> HIDE DEF hits
<1>9. CASE name = <<>>
  BY <1>4, <1>9 DEF Up, Here
<1>10. CASE name # <<>> /\ name = Up
  BY <1>4, <1>7, <1>10
<1>11. CASE name # <<>> /\ name # Up /\ name = Here
  BY <1>4, <1>11
<1>12. CASE name \notin {<<>>, Up, Here}
  BY <1>4, <1>5, <1>6, <1>8, <1>12 DEF its
<1> QED  BY <1>9, <1>10, <1>11, <1>12

(* The fold of cli_find_node.                                              *)
Base(c, path) == IF path.abs THEN c.root ELSE Cwd(c)
WalkStart(c, path) == [dir |-> Base(c, path), node |-> Null, done |-> FALSE]
LEMMA WalkComes ==
  ASSUME NEW c, NEW path \in Paths
  PROVE  \E h : /\ Comes(h, "walk", c, WalkStart(c, path), path.names, Len(path.names))
                /\ Walk(c, path) = h[Len(path.names)]
<1> DEFINE seq == path.names
           N == Len(seq)
           b == WalkStart(c, path)
           on(at, name) == WalkOn(c, at, name)
<1>0. seq \in Seq(Names)
  BY DEF Paths
<1>1. N \in Nat /\ DOMAIN seq = 1..N /\ N \in 0..N
  BY <1>0, LenProperties
<1> DEFINE it == CHOOSE it : it = [s \in SUBSET (1..N) |->
                    IF s = {} THEN b ELSE on(it[s \ {Max(s)}], seq[Max(s)])]
<1>3. Walk(c, path) = it[1..N]
  BY <1>1 DEF Walk, FoldLeft, MapThenFoldSet, WalkStart, Base, WalkOn
<1> HIDE DEF N, seq, b
<1>2. PICK f : Folding(f, "walk", c, b, seq, N)
  BY <1>1, FoldExists
<1>4. f = [s \in SUBSET (1..N) |->
                    IF s = {} THEN b ELSE on(f[s \ {Max(s)}], seq[Max(s)])]
  BY <1>2 DEF Folding, FoldStep
<1>5. it = [s \in SUBSET (1..N) |->
                    IF s = {} THEN b ELSE on(it[s \ {Max(s)}], seq[Max(s)])]
  BY <1>4
<1> HIDE DEF it
<1>6. Folding(it, "walk", c, b, seq, N)
  BY <1>5 DEF Folding, FoldStep
<1>7. PICK h : h = [i \in 0..N |-> it[1..i]] /\ Comes(h, "walk", c, b, seq, N)
  BY <1>1, <1>6, FoldComes
<1> QED  BY <1>1, <1>3, <1>7 DEF N, seq, b

LEMMA BaseIs ==
  ASSUME NEW c, TreeInv(c), NEW path
  PROVE  Base(c, path) \in Held(c) /\ IsDir(c, Base(c, path)) /\ Base(c, path) \in Nodes
<1>0. c \in Trees /\ Placed(c) /\ Pointing(c)
  BY DEF TreeInv
<1>1. 1 \in 1..MaxBins /\ c.root = 1
  BY <1>0, Parts
<1>2. 1 \in Held(c) /\ IsDir(c, 1)
  BY <1>0 DEF Placed
<1>3. Cwd(c) \in Held(c) /\ IsDir(c, Cwd(c))
  BY <1>0, <1>1 DEF Pointing, Cwd
<1> QED  BY <1>1, <1>2, <1>3 DEF Base, Held

(* What cli_find_node comes to, name by name.                              *)
LEMMA FindComes ==
  ASSUME NEW c, NEW path \in Paths
  PROVE  \E h : /\ h[0] = WalkStart(c, path)
                /\ \A i \in 1..Len(path.names) : h[i] = WalkOn(c, h[i - 1], path.names[i])
                /\ path # Abs(<<>>) => FindNode(c, path) = h[Len(path.names)].node
<1>1. PICK h : /\ Comes(h, "walk", c, WalkStart(c, path), path.names, Len(path.names))
               /\ Walk(c, path) = h[Len(path.names)]
  BY WalkComes
<1>2. /\ h[0] = WalkStart(c, path)
      /\ \A i \in 1..Len(path.names) : h[i] = WalkOn(c, h[i - 1], path.names[i])
  BY <1>1 DEF Comes, FoldStep
<1>3. path # Abs(<<>>) => FindNode(c, path) = h[Len(path.names)].node
  BY <1>1 DEF FindNode
<1> QED  BY <1>2, <1>3

(* One name is looked for in the directory the path starts in.             *)
LEMMA FindNamed ==
  ASSUME NEW c, NEW p \in Paths, NEW x \in Names, p.names = <<x>>
  PROVE  FindNode(c, p) = SearchDir(c, Base(c, p), x, All)
<1>1. p # Abs(<<>>)
  <2>1. Abs(<<>>).names = <<>> /\ <<x>> # <<>>
    BY DEF Abs
  <2> QED  BY <2>1
<1>2. Len(p.names) = 1 /\ p.names[1] = x
  OBVIOUS
<1>3. PICK h : /\ h[0] = WalkStart(c, p)
               /\ \A i \in 1..Len(p.names) : h[i] = WalkOn(c, h[i - 1], p.names[i])
               /\ FindNode(c, p) = h[Len(p.names)].node
  BY <1>1, FindComes
<1>4. h[1] = WalkOn(c, h[0], x)
  BY <1>2, <1>3
<1>5. h[0].dir = Base(c, p) /\ h[0].node = Null /\ h[0].done = FALSE
  BY <1>3 DEF WalkStart, Base
<1> DEFINE n == SearchDir(c, Base(c, p), x, All)
<1>6. h[1] = IF IsDir(c, n) THEN [dir |-> n, node |-> n, done |-> FALSE]
             ELSE [h[0] EXCEPT !.node = n, !.done = TRUE]
  BY <1>4, <1>5 DEF WalkOn
<1> HIDE DEF n
<1>7. h[1].node = n
  BY <1>3, <1>6 DEF WalkStart
<1> QED  BY <1>2, <1>3, <1>7 DEF n

LEMMA FindOne ==
  ASSUME NEW c, NEW path \in Paths, NEW x \in Names
  PROVE  FindNode(c, [path EXCEPT !.names = <<x>>]) = SearchDir(c, Base(c, path), x, All)
<1> DEFINE p == [path EXCEPT !.names = <<x>>]
<1>1. <<x>> \in Seq(Names)
  OBVIOUS
<1>2. p \in Paths
  BY <1>1 DEF Paths
<1>3. p.names = <<x>> /\ p.abs = path.abs
  BY DEF Paths
<1> HIDE DEF p
<1>4. Base(c, p) = Base(c, path)
  BY <1>3 DEF Base
<1> QED  BY <1>2, <1>3, <1>4, FindNamed DEF p

(* A path leads to a node of the tree or to none.                          *)
LEMMA FindIs ==
  ASSUME NEW c, TreeInv(c), NEW path \in Paths
  PROVE  /\ FindNode(c, path) \in Held(c) \cup {Null}
         /\ Len(path.names) > 0 /\ SearchDir(c, Base(c, path), path.names[1], All) = Null
            => FindNode(c, path) = Null
<1> DEFINE N == Len(path.names)
<1>0. c \in Trees /\ Placed(c)
  BY DEF TreeInv
<1>1. N \in Nat /\ path.names \in Seq(Names)
  BY DEF Paths
<1>2. c.root = 1 /\ 1 \in Held(c) /\ Base(c, path) \in Held(c) /\ IsDir(c, Base(c, path))
  BY <1>0, Parts, BaseIs DEF Placed
<1>3. PICK h : /\ h[0] = WalkStart(c, path)
               /\ \A i \in 1..N : h[i] = WalkOn(c, h[i - 1], path.names[i])
               /\ path # Abs(<<>>) => FindNode(c, path) = h[N].node
  BY FindComes
<1> HIDE DEF N
<1> DEFINE On == [dir : {m \in Held(c) : IsDir(c, m)}, node : Held(c) \cup {Null}, done : BOOLEAN]
<1>4. ASSUME NEW at \in On, NEW name PROVE WalkOn(c, at, name) \in On
  <2> DEFINE n == SearchDir(c, at.dir, name, All)
  <2>1. at.dir \in Held(c) /\ IsDir(c, at.dir)
    OBVIOUS
  <2>2. n \in Held(c) \cup {Null}
    BY <2>1, SearchFacts
  <2>3. WalkOn(c, at, name) = IF at.done THEN at
            ELSE IF IsDir(c, n) THEN [dir |-> n, node |-> n, done |-> FALSE]
            ELSE [at EXCEPT !.node = n, !.done = TRUE]
    BY DEF WalkOn
  <2> HIDE DEF n
  <2>4. IsDir(c, n) => n \in Held(c)
    BY <2>2 DEF IsDir
  <2>5. CASE at.done
    BY <2>3, <2>5
  <2>6. CASE ~at.done /\ IsDir(c, n)
    <3>1. WalkOn(c, at, name) = [dir |-> n, node |-> n, done |-> FALSE]
      BY <2>3, <2>6
    <3> QED  BY <2>4, <2>6, <3>1
  <2>7. CASE ~at.done /\ ~IsDir(c, n)
    <3>1. WalkOn(c, at, name) = [at EXCEPT !.node = n, !.done = TRUE]
      BY <2>3, <2>7
    <3>2. [at EXCEPT !.node = n] \in On
      BY <2>2
    <3>3. [[at EXCEPT !.node = n] EXCEPT !.done = TRUE] \in On
      BY <3>2
    <3>4. [at EXCEPT !.node = n, !.done = TRUE] = [[at EXCEPT !.node = n] EXCEPT !.done = TRUE]
      OBVIOUS
    <3> QED  BY <3>1, <3>3, <3>4
  <2> QED  BY <2>5, <2>6, <2>7
<1> DEFINE K == {k \in Nat : k <= N => h[k] \in On}
<1>5. 0 \in K
  <2>1. h[0] \in On
    BY <1>2, <1>3 DEF WalkStart
  <2> QED  BY <2>1
<1>6. ASSUME NEW k \in K PROVE k + 1 \in K
  <2>1. k \in Nat /\ k + 1 \in Nat /\ (k + 1) - 1 = k
    OBVIOUS
  <2> SUFFICES ASSUME k + 1 <= N PROVE h[k + 1] \in On
    BY <2>1
  <2>2. h[k] \in On
    BY <1>1, <2>1
  <2>3. k + 1 \in 1..N
    BY <1>1, <2>1
  <2>4. h[k + 1] = WalkOn(c, h[k], path.names[k + 1])
    BY <1>3, <2>1, <2>3
  <2> HIDE DEF On
  <2> QED  BY <1>4, <2>2, <2>4
<1>7. N \in K
  <2>1. K \in SUBSET Nat
    OBVIOUS
  <2> HIDE DEF K
  <2> QED  BY <1>1, <1>5, <1>6, <2>1, NatInd
<1>8. h[N].node \in Held(c) \cup {Null}
  BY <1>1, <1>7
<1>9. FindNode(c, path) \in Held(c) \cup {Null}
  <2>1. CASE path = Abs(<<>>)
    BY <1>2, <2>1 DEF FindNode
  <2>2. CASE path # Abs(<<>>)
    BY <1>3, <1>8, <2>2
  <2> QED  BY <2>1, <2>2
<1>10. ASSUME N > 0, SearchDir(c, Base(c, path), path.names[1], All) = Null
       PROVE  FindNode(c, path) = Null
  <2>1. 1 \in 1..N /\ path # Abs(<<>>)
    BY <1>1, <1>10 DEF Abs, N
  <2>2. h[0].dir = Base(c, path) /\ h[0].node = Null /\ h[0].done = FALSE
    BY <1>3 DEF WalkStart
  <2>3. h[1] = WalkOn(c, h[0], path.names[1])
    BY <1>3, <2>1
  <2>4. h[1] = [h[0] EXCEPT !.node = Null, !.done = TRUE]
    BY <1>10, <2>2, <2>3 DEF WalkOn, IsDir
  <2>5. h[1].done /\ h[1].node = Null
    BY <1>3, <2>4 DEF WalkStart
  <2> DEFINE L == {k \in Nat : k + 1 <= N => h[k + 1].done /\ h[k + 1].node = Null}
  <2>6. 0 \in L
    BY <2>5
  <2>7. ASSUME NEW k \in L PROVE k + 1 \in L
    <3>1. k \in Nat /\ k + 1 \in Nat /\ ((k + 1) + 1) - 1 = k + 1
      OBVIOUS
    <3> SUFFICES ASSUME (k + 1) + 1 <= N PROVE h[(k + 1) + 1].done /\ h[(k + 1) + 1].node = Null
      BY <3>1
    <3>2. h[k + 1].done /\ h[k + 1].node = Null
      BY <1>1, <3>1
    <3>3. (k + 1) + 1 \in 1..N
      BY <1>1, <3>1
    <3>4. h[(k + 1) + 1] = WalkOn(c, h[k + 1], path.names[(k + 1) + 1])
      BY <1>3, <3>1, <3>3
    <3>5. h[(k + 1) + 1] = h[k + 1]
      BY <3>2, <3>4 DEF WalkOn
    <3> QED  BY <3>2, <3>5
  <2>8. N - 1 \in L
    <3>1. L \in SUBSET Nat /\ N - 1 \in Nat
      BY <1>1, <1>10
    <3> HIDE DEF L
    <3> QED  BY <2>6, <2>7, <3>1, NatInd
  <2>9. h[N].node = Null
    BY <1>1, <1>10, <2>8
  <2> QED  BY <1>3, <2>1, <2>9
<1> QED  BY <1>9, <1>10 DEF N

(***************************************************************************)
(* The names cli_add_dir puts together.                                    *)
(***************************************************************************)
Flattening(f, s) == f = [i \in 1..Len(s) |-> IF i = 1 THEN s[i] ELSE f[i - 1] \o s[i]]

LEMMA FlattenExists ==
  ASSUME NEW s, Len(s) \in Nat
  PROVE  \E f : Flattening(f, s)
<1> DEFINE Upto(f, k) == f = [i \in 1..k |-> IF i = 1 THEN s[i] ELSE f[i - 1] \o s[i]]
           K == {k \in Nat : \E f : Upto(f, k)}
<1>1. 0 \in K
  <2> DEFINE f == [i \in 1..0 |-> s[i]]
  <2>1. f = [i \in 1..0 |-> IF i = 1 THEN s[i] ELSE f[i - 1] \o s[i]]
    OBVIOUS
  <2> QED  BY <2>1
<1>2. ASSUME NEW k \in K PROVE k + 1 \in K
  <2>1. PICK f : Upto(f, k)
    OBVIOUS
  <2>2. k \in Nat /\ k + 1 \in Nat /\ \A i \in 1..(k + 1) : i = k + 1 \/ i \in 1..k
    OBVIOUS
  <2> DEFINE g == [i \in 1..(k + 1) |-> IF i \in 1..k THEN f[i]
                                        ELSE IF i = 1 THEN s[i] ELSE f[i - 1] \o s[i]]
  <2>3. ASSUME NEW i \in 1..(k + 1)
        PROVE  g[i] = IF i = 1 THEN s[i] ELSE g[i - 1] \o s[i]
    <3>1. CASE i = 1
      <4>1. i \in 1..k => f[i] = s[i]
        BY <2>1, <3>1
      <4> QED  BY <3>1, <4>1
    <3>2. CASE i # 1
      <4>1. i - 1 \in 1..k /\ i - 1 \in 1..(k + 1)
        BY <2>2, <3>2
      <4>2. g[i - 1] = f[i - 1]
        BY <4>1
      <4>3. i \in 1..k => f[i] = f[i - 1] \o s[i]
        BY <2>1, <3>2
      <4> QED  BY <3>2, <4>2, <4>3
    <3> QED  BY <3>1, <3>2
  <2>4. Upto(g, k + 1)
    <3>1. g = [i \in 1..(k + 1) |-> g[i]]
      OBVIOUS
    <3> HIDE DEF g
    <3> QED  BY <2>3, <3>1
  <2> HIDE DEF Upto
  <2> QED  BY <2>2, <2>4
<1>3. Len(s) \in K
  <2>1. K \in SUBSET Nat
    OBVIOUS
  <2> HIDE DEF K
  <2> QED  BY <1>1, <1>2, <2>1, NatInd
<1> QED  BY <1>3 DEF Flattening

LEMMA FlattenIs ==
  ASSUME NEW s, Len(s) \in Nat, Len(s) > 0
  PROVE  \E f : Flattening(f, s) /\ FlattenSeq(s) = f[Len(s)]
<1> DEFINE f == CHOOSE f : f = [i \in 1..Len(s) |-> IF i = 1 THEN s[i] ELSE f[i - 1] \o s[i]]
<1>1. Flattening(f, s)
  BY FlattenExists DEF Flattening
<1>2. FlattenSeq(s) = f[Len(s)]
  BY DEF FlattenSeq
<1> HIDE DEF f
<1> QED  BY <1>1, <1>2

(* The first k of the names, put together.                                 *)
Joining(names, k) == FlattenSeq(SubSeq(names, 1, k))
LEMMA JoiningFacts ==
  ASSUME NEW S, NEW names \in Seq(Seq(S))
  PROVE  /\ Len(names) > 0 => Joining(names, 1) = names[1]
         /\ \A k \in 1..(Len(names) - 1) : Joining(names, k + 1) = Joining(names, k) \o names[k + 1]
<1> DEFINE N == Len(names)
<1>1. N \in Nat /\ \A k \in 1..N : names[k] \in Seq(S)
  BY LenProperties, ElementOfSeq
<1>2. PICK F : Flattening(F, names)
  BY <1>1, FlattenExists
<1>3. \A i \in 1..N : F[i] = IF i = 1 THEN names[i] ELSE F[i - 1] \o names[i]
  BY <1>2 DEF Flattening
<1>4. ASSUME NEW k \in 1..N PROVE Joining(names, k) = F[k]
  <2> DEFINE s == SubSeq(names, 1, k)
  <2>1. Len(s) = k /\ \A i \in 1..k : s[i] = names[i]
    BY <1>1, SubSeqProperties
  <2> HIDE DEF s
  <2>2. k \in Nat /\ k > 0
    BY <1>1
  <2>3. PICK f : Flattening(f, s) /\ FlattenSeq(s) = f[Len(s)]
    BY <2>1, <2>2, FlattenIs
  <2>4. \A i \in 1..k : f[i] = IF i = 1 THEN names[i] ELSE f[i - 1] \o names[i]
    BY <2>1, <2>3 DEF Flattening
  <2> DEFINE K == {j \in Nat : j + 1 <= k => f[j + 1] = F[j + 1]}
  <2>5. 0 \in K
    BY <1>1, <1>3, <2>2, <2>4
  <2>6. ASSUME NEW j \in K PROVE j + 1 \in K
    <3>1. j \in Nat /\ j + 1 \in Nat /\ ((j + 1) + 1) - 1 = j + 1 /\ (j + 1) + 1 # 1
      OBVIOUS
    <3> SUFFICES ASSUME (j + 1) + 1 <= k PROVE f[(j + 1) + 1] = F[(j + 1) + 1]
      BY <3>1
    <3>2. f[j + 1] = F[j + 1]
      BY <2>2, <3>1
    <3>3. (j + 1) + 1 \in 1..k /\ (j + 1) + 1 \in 1..N
      BY <1>1, <2>2, <3>1
    <3>4. f[(j + 1) + 1] = f[j + 1] \o names[(j + 1) + 1]
      BY <2>4, <3>1, <3>3
    <3>5. F[(j + 1) + 1] = F[j + 1] \o names[(j + 1) + 1]
      BY <1>3, <3>1, <3>3
    <3> QED  BY <3>2, <3>4, <3>5
  <2>7. k - 1 \in K
    <3>1. K \in SUBSET Nat /\ k - 1 \in Nat
      BY <2>2
    <3> HIDE DEF K
    <3> QED  BY <2>5, <2>6, <3>1, NatInd
  <2>8. f[k] = F[k]
    BY <2>2, <2>7
  <2> QED  BY <2>1, <2>3, <2>8 DEF Joining, s
<1> HIDE DEF N
<1>5. N > 0 => Joining(names, 1) = names[1]
  BY <1>1, <1>3, <1>4
<1>6. ASSUME NEW k \in 1..(N - 1) PROVE Joining(names, k + 1) = Joining(names, k) \o names[k + 1]
  <2>1. k \in 1..N /\ k + 1 \in 1..N /\ (k + 1) - 1 = k /\ k + 1 # 1
    BY <1>1
  <2> QED  BY <1>3, <1>4, <2>1
<1> QED  BY <1>5, <1>6 DEF N

(* The fold of cli_add_dir.                                                *)
First(c, path, start) == IF path.abs \/ start = Null THEN c.root ELSE start
DirStart(c, path, start) ==
  [cli |-> c, search |-> <<>>, dir |-> First(c, path, start), node |-> Null, stop |-> FALSE]
LEMMA DirComes ==
  ASSUME NEW c, NEW path \in Paths, NEW start
  PROVE  \E h : /\ h[0] = DirStart(c, path, start)
                /\ \A i \in 1..Len(path.names) : h[i] = DirOn(path, h[i - 1], path.names[i])
                /\ AddDir(c, path, start) =
                     IF FindNode(c, path) # Null THEN [cli |-> c, node |-> FindNode(c, path)]
                     ELSE [cli |-> h[Len(path.names)].cli, node |-> h[Len(path.names)].node]
<1> DEFINE seq == path.names
           N == Len(seq)
           b == DirStart(c, path, start)
           on(s, name) == DirOn(path, s, name)
<1>0. seq \in Seq(Names)
  BY DEF Paths
<1>1. N \in Nat /\ DOMAIN seq = 1..N /\ N \in 0..N
  BY <1>0, LenProperties
<1> DEFINE it == CHOOSE it : it = [s \in SUBSET (1..N) |->
                    IF s = {} THEN b ELSE on(it[s \ {Max(s)}], seq[Max(s)])]
<1>3. AddDir(c, path, start) =
        IF FindNode(c, path) # Null THEN [cli |-> c, node |-> FindNode(c, path)]
        ELSE [cli |-> it[1..N].cli, node |-> it[1..N].node]
  BY <1>1 DEF AddDir, FoldLeft, MapThenFoldSet, DirStart, First, DirOn
<1> HIDE DEF N, seq, b
<1>2. PICK f : Folding(f, "dir", path, b, seq, N)
  BY <1>1, FoldExists
<1>4. f = [s \in SUBSET (1..N) |->
                    IF s = {} THEN b ELSE on(f[s \ {Max(s)}], seq[Max(s)])]
  BY <1>2 DEF Folding, FoldStep
<1>5. it = [s \in SUBSET (1..N) |->
                    IF s = {} THEN b ELSE on(it[s \ {Max(s)}], seq[Max(s)])]
  BY <1>4
<1> HIDE DEF it
<1>6. Folding(it, "dir", path, b, seq, N)
  BY <1>5 DEF Folding, FoldStep
<1>7. PICK h : h = [i \in 0..N |-> it[1..i]] /\ Comes(h, "dir", path, b, seq, N)
  BY <1>1, <1>6, FoldComes
<1>8. h[0] = b /\ \A i \in 1..N : h[i] = DirOn(path, h[i - 1], seq[i])
  BY <1>7 DEF Comes, FoldStep
<1>9. h[N] = it[1..N]
  BY <1>1, <1>7
<1> QED  BY <1>3, <1>8, <1>9 DEF N, seq, b

(***************************************************************************)
(* cli_add_dir.                                                            *)
(***************************************************************************)
(* A tree with more directories, of these names.                           *)
Grown(c, t, names) ==
  /\ Held(c) \subseteq Held(t) /\ t.bins = c.bins
  /\ \A m \in Held(c) : t.node[m] = c.node[m]
  /\ \A m \in Held(t) \ Held(c) : t.node[m].type = "dir" /\ t.node[m].name \in ToSet(names)

(* What is found there was found before, or it is one of the directories.  *)
LEMMA FoundIs ==
  ASSUME NEW c, TreeInv(c), NEW t, TreeInv(t), NEW names, Grown(c, t, names),
         NEW b \in Held(c), IsDir(c, b), NEW x, NEW n, n = SearchDir(t, b, x, All),
         n # Null, ~IsDir(t, n)
  PROVE  SearchDir(c, b, x, All) # Null
<1>0. /\ c \in Trees /\ Placed(c) /\ t \in Trees /\ Placed(t) /\ b \in Nodes /\ b # Null /\ Null \notin Nodes
  BY Parts DEF TreeInv, Held
<1>1. b \in Held(t) /\ IsDir(t, b)
  BY DEF Grown, IsDir
<1>2. /\ n \in Held(t) \cup {Null} /\ (n # Null => x # <<>>)
      /\ n # Null /\ x \in {Up, Here} => IsDir(t, n)
      /\ n # Null /\ x \notin {Up, Here} =>
           n \in ToSet(t.items[b]) /\ t.node[n].name = x /\ t.node[n].type \in All
  BY <1>1, SearchFacts
<1>3. n \in Held(t) /\ x \notin {<<>>, Up, Here} /\ n \in ToSet(t.items[b])
      /\ t.node[n].name = x /\ t.node[n].type \in All
  BY <1>2
<1>4. n \in Held(c) /\ t.node[n] = c.node[n]
  <2>1. t.node[n].type # "dir"
    BY DEF IsDir
  <2> QED  BY <1>3, <2>1 DEF Grown
<1>5. t.node[n].parent = b
  <2>1. PICK d : Orderly(t.items, ParentOf(t), d)
    BY <1>0 DEF Placed
  <2>2. ParentOf(t)[n] = b
    BY <1>0, <1>3, <2>1 DEF Orderly
  <2> QED  BY <1>4, <2>2 DEF ParentOf, Held
<1>6. n # 1 /\ n \in ToSet(c.items[b])
  <2>1. n # 1
    BY <1>0, <1>4, <1>5 DEF Placed
  <2> QED  BY <1>0, <1>4, <1>5, <2>1 DEF Placed
<1>7. c.node[n].name = x /\ c.node[n].type \in All
  BY <1>3, <1>4
<1> DEFINE o == SearchDir(c, b, x, All)
<1>8. x \notin {<<>>, Up, Here} =>
        \A m \in ToSet(c.items[b]) : c.node[m].name = x /\ c.node[m].type \in All => o # Null
  BY SearchFacts
<1> QED  BY <1>3, <1>6, <1>7, <1>8

(* The names put together are not there, but the first may be a directory. *)
Unmade(c, path) ==
  \A k \in 1..Len(path.names) :
    LET n == SearchDir(c, Base(c, path), Joining(path.names, k), All)
    IN n = Null \/ (k = 1 /\ Len(path.names) > 1 /\ IsDir(c, n))

(* What cli_add_dir has done after k names.                                *)
States == [cli : Trees, search : Names, dir : 0..NbNodes, node : 0..NbNodes, stop : BOOLEAN]
Full(c, names) == Len(c.free) < Len(names) \/ RootName \in ToSet(names)
DirIs(c, names, k, s) ==
  /\ s \in States /\ TreeInv(s.cli) /\ Grown(c, s.cli, names)
  /\ Len(s.cli.free) + k >= Len(c.free)
  /\ s.node # Null => s.node \in Held(s.cli) \ Held(c) /\ IsDir(s.cli, s.node)
  /\ s.stop => Full(c, names)
  /\ ~s.stop =>
       /\ s.dir \in Held(s.cli) /\ IsDir(s.cli, s.dir)
       /\ s.search = IF k = 0 THEN <<>> ELSE Joining(names, k)
       /\ s.node = Null => s.cli = c /\ (k = 0 \/ (k = 1 /\ Len(names) > 1))
       /\ k = 0 => s.node = Null

LEMMA OneMoreYet ==
  \A a, b, k \in Nat : a + k >= b => a + (k + 1) >= b /\ (a - 1) + (k + 1) >= b
OBVIOUS

LEMMA DirGoesOn ==
  ASSUME NEW c, TreeInv(c), NEW path \in Paths, Unmade(c, path),
         NEW k \in Nat, k < Len(path.names), NEW s, DirIs(c, path.names, k, s),
         NEW r, r = DirOn(path, s, path.names[k + 1])
  PROVE  DirIs(c, path.names, k + 1, r)
<1> DEFINE names == path.names
           name == names[k + 1]
           x == s.search \o name
           b == Base(c, path)
           N == Len(names)
<1>0. /\ names \in Seq(Names) /\ N \in Nat /\ k + 1 \in 1..N /\ name \in Names
      /\ name \in ToSet(names) /\ DOMAIN names = 1..N
  <2>1. names \in Seq(Names)
    BY DEF Paths
  <2>2. N \in Nat /\ DOMAIN names = 1..N
    BY <2>1, LenProperties
  <2>3. k + 1 \in 1..N
    BY <2>2
  <2>4. name \in Names
    BY <2>1, <2>3, ElementOfSeq
  <2>5. name \in ToSet(names)
    BY <2>2, <2>3 DEF ToSet
  <2> QED  BY <2>1, <2>2, <2>3, <2>4, <2>5
<1>1. /\ s \in States /\ TreeInv(s.cli) /\ Grown(c, s.cli, names) /\ Len(s.cli.free) + k >= Len(c.free)
      /\ s.cli \in Trees /\ c \in Trees
  BY DEF DirIs, TreeInv
<1>2. CASE s.stop
  <2>1. r = s
    BY <1>2 DEF DirOn
  <2>2. Len(s.cli.free) \in Nat /\ Len(c.free) \in Nat
    <3>1. s.cli.free \in Seq(Nodes) /\ c.free \in Seq(Nodes)
      BY <1>1, Parts
    <3> QED  BY <3>1, LenProperties
  <2>3. Len(s.cli.free) + (k + 1) >= Len(c.free)
    BY <1>1, <2>2, OneMoreYet
  <2> QED  BY <1>2, <2>1, <2>3 DEF DirIs
<1>3. CASE ~s.stop
  <2>0. /\ s.dir \in Held(s.cli) /\ IsDir(s.cli, s.dir)
        /\ s.search = (IF k = 0 THEN <<>> ELSE Joining(names, k))
        /\ s.node = Null => s.cli = c /\ (k = 0 \/ (k = 1 /\ N > 1))
        /\ k = 0 => s.node = Null
        /\ s.node # Null => s.node \in Held(s.cli) \ Held(c) /\ IsDir(s.cli, s.node)
    BY <1>3 DEF DirIs
  <2>1. x = Joining(names, k + 1) /\ x \in Names
    <3>1. s.search \in Names
      BY <1>1 DEF States
    <3>2. x \in Names
      BY <1>0, <3>1 DEF Names
    <3>3. CASE k = 0
      <4>1. N > 0 => Joining(names, 1) = names[1]
        BY <1>0, JoiningFacts DEF Names
      <4>2. x = name
        BY <1>0, <2>0, <3>3 DEF Names
      <4> QED  BY <1>0, <3>2, <3>3, <4>1, <4>2
    <3>4. CASE k # 0
      <4>1. k \in 1..(N - 1)
        BY <1>0, <3>4
      <4>2. \A j \in 1..(N - 1) : Joining(names, j + 1) = Joining(names, j) \o names[j + 1]
        BY <1>0, JoiningFacts DEF Names
      <4>3. Joining(names, k + 1) = Joining(names, k) \o names[k + 1]
        BY <4>1, <4>2
      <4> QED  BY <2>0, <3>2, <3>4, <4>3
    <3> QED  BY <3>3, <3>4
  <2> DEFINE found == FindNode(s.cli, [path EXCEPT !.names = <<x>>])
             new == AddNode(s.cli, s.dir, Dir(name))
  <2>2. /\ b \in Held(c) /\ IsDir(c, b) /\ Base(s.cli, path) = b
    <3>1. Base(s.cli, path) = b
      <4>1. s.cli.root = 1 /\ c.root = 1
        BY <1>1, Parts
      <4> QED  BY <1>1, <4>1 DEF Base, Grown, Cwd
    <3> QED  BY <3>1, BaseIs
  <2>3. found = SearchDir(s.cli, b, x, All)
    BY <2>1, <2>2, FindOne
  <2>4. b \in Held(s.cli) /\ IsDir(s.cli, b)
    BY <1>1, <2>2 DEF Grown, IsDir
  <2>5. /\ ~s.stop /\ found # Null => r = [s EXCEPT !.search = x, !.dir = found]
        /\ ~s.stop /\ found = Null => r = [cli |-> new.cli, search |-> x, dir |-> new.node,
                                           node |-> new.node, stop |-> new.node = Null]
    BY DEF DirOn
  <2> DEFINE o == SearchDir(c, b, x, All)
  <2>6. o = Null \/ (k + 1 = 1 /\ N > 1 /\ IsDir(c, o))
    BY <1>0, <2>1 DEF Unmade
  <2> HIDE DEF found, new
  <2>7. CASE found # Null
    <3>1. found \in Held(s.cli) /\ found \in 0..NbNodes
      <4>1. found \in Held(s.cli) \cup {Null}
        BY <1>1, <2>3, <2>4, SearchFacts
      <4> QED  BY <1>1, <2>7, <4>1, Parts DEF Held
    <3>2. IsDir(s.cli, found)
      <4> SUFFICES ASSUME ~IsDir(s.cli, found) PROVE FALSE
        OBVIOUS
      <4>1. o # Null
        BY <1>1, <2>2, <2>3, <2>7, FoundIs
      <4>2. k = 0 /\ IsDir(c, o)
        BY <2>6, <4>1
      <4>3. found = o /\ s.cli = c
        BY <2>0, <2>3, <4>2
      <4> QED  BY <4>2, <4>3
    <3>3. s.node = Null => k + 1 = 1 /\ N > 1 /\ s.cli = c
      <4> SUFFICES ASSUME s.node = Null PROVE k + 1 = 1 /\ N > 1 /\ s.cli = c
        OBVIOUS
      <4>1. s.cli = c /\ found = o
        BY <2>0, <2>3
      <4> QED  BY <2>6, <2>7, <4>1
    <3>4. r = [s EXCEPT !.search = x, !.dir = found]
      BY <1>3, <2>5, <2>7
    <3>5. /\ r \in States /\ r.cli = s.cli /\ r.search = x /\ r.dir = found /\ r.node = s.node
          /\ r.stop = s.stop
      <4> HIDE DEF x
      <4> QED  BY <1>1, <2>1, <3>1, <3>4 DEF States
    <3>6. Len(s.cli.free) + (k + 1) >= Len(c.free)
      <4>1. s.cli.free \in Seq(Nodes) /\ c.free \in Seq(Nodes)
        BY <1>1, Parts
      <4>2. Len(s.cli.free) \in Nat /\ Len(c.free) \in Nat
        BY <4>1, LenProperties
      <4> QED  BY <1>1, <4>2, OneMoreYet
    <3>7. k + 1 # 0
      OBVIOUS
    <3> HIDE DEF x, o, b
    <3> QED  BY <1>1, <1>3, <2>0, <2>1, <3>1, <3>2, <3>3, <3>5, <3>6, <3>7 DEF DirIs
  <2>8. CASE found = Null
    <3> DEFINE t == new.cli
               n == new.node
    <3>0. Dir(name) \in NodeRecs /\ Dir(name).type = "dir" /\ Dir(name).name = name
      <4>1. Null \in 0..NbNodes /\ <<>> \in Seq([cmd : Paths, args : Seq(Paths)])
        BY <1>1, Parts
      <4> DEFINE e == Dir(name)
      <4>2. e = [type |-> "dir", name |-> name, parent |-> Null, func |-> "none", alias |-> <<>>]
        BY DEF Dir
      <4> HIDE DEF e
      <4>3. e.type = "dir" /\ e.name = name
        BY <4>2
      <4>4. e \in Records
        <5>1. "dir" \in All
          BY DEF All
        <5>2. "none" \in Funcs
          BY DEF Funcs
        <5> QED  BY <1>0, <4>1, <4>2, <5>1, <5>2 DEF Records
      <4>5. e \in NodeRecs
        BY <4>3, <4>4 DEF NodeRecs, Exe
      <4> QED  BY <4>3, <4>5 DEF e
    <3>1. /\ TreeInv(t) /\ t.bins = s.cli.bins
          /\ n # Null => n \in Held(t) \ Held(s.cli)
          /\ n # Null => t.node[n] = [Dir(name) EXCEPT !.parent = s.dir]
          /\ n # Null => Len(t.free) = Len(s.cli.free) - 1
          /\ Len(s.cli.free) > 0 /\ ~(Dir(name).type = "dir" /\ Dir(name).name = RootName) => n # Null
          /\ n = Null => t = s.cli
          /\ Held(s.cli) \subseteq Held(t)
          /\ \A m \in Held(s.cli) : t.node[m] = s.cli.node[m]
      <4> DEFINE u == s.cli
                 p == s.dir
                 e == Dir(name)
      <4>1. TreeInv(u) /\ p \in Held(u) /\ IsDir(u, p) /\ e \in NodeRecs /\ new = AddNode(u, p, e)
        BY <1>1, <2>0, <3>0 DEF new
      <4> HIDE DEF u, p, e
      <4>2. AfterAdd(u, p, e, new)
        BY <4>1, AddNodeInv
      <4> QED  BY <4>2 DEF AfterAdd, u, p, e
    <3>2. Held(s.cli) \subseteq Held(t) /\ \A m \in Held(s.cli) : t.node[m] = s.cli.node[m]
      BY <3>1
    <3>3. Held(t) \subseteq Held(s.cli) \cup {n}
      <4>1. NotAdded(s.cli, Dir(name), new) \/ Added(s.cli, s.dir, Dir(name), new)
        BY <1>1, <2>0, <3>0, AddNodeIs DEF new
      <4> QED  BY <4>1 DEF NotAdded, Added
    <3>4. n # Null => t.node[n].type = "dir" /\ t.node[n].name = name
      <4>1. [Dir(name) EXCEPT !.parent = s.dir].type = "dir" /\ [Dir(name) EXCEPT !.parent = s.dir].name = name
        BY DEF Dir
      <4> QED  BY <3>1, <4>1
    <3>5. Grown(c, t, names)
      <4>1. \A m \in Held(t) \ Held(c) : t.node[m].type = "dir" /\ t.node[m].name \in ToSet(names)
        <5> SUFFICES ASSUME NEW m \in Held(t) \ Held(c)
                     PROVE  t.node[m].type = "dir" /\ t.node[m].name \in ToSet(names)
          OBVIOUS
        <5>1. CASE m \in Held(s.cli)
          BY <1>1, <3>2, <5>1 DEF Grown
        <5>2. CASE m \notin Held(s.cli)
          <6>1. m = n /\ n # Null
            <7>1. m = n
              BY <3>3, <5>2
            <7>2. m \in Nodes
              BY DEF Held
            <7> QED  BY <1>1, <7>1, <7>2, Parts
          <6> QED  BY <1>0, <3>4, <6>1
        <5> QED  BY <5>1, <5>2
      <4> QED  BY <1>1, <3>1, <3>2, <4>1 DEF Grown
    <3>6. n # Null => n \in Held(t) \ Held(c) /\ IsDir(t, n)
      BY <1>1, <3>1, <3>4 DEF Grown, IsDir
    <3>7. /\ Len(s.cli.free) \in Nat /\ Len(c.free) \in Nat
      <4>1. s.cli.free \in Seq(Nodes) /\ c.free \in Seq(Nodes)
        BY <1>1, Parts
      <4> QED  BY <4>1, LenProperties
    <3>8. Len(t.free) + (k + 1) >= Len(c.free)
      <4>1. CASE n = Null
        BY <1>1, <3>1, <3>7, <4>1, OneMoreYet
      <4>2. CASE n # Null
        BY <1>1, <3>1, <3>7, <4>2, OneMoreYet
      <4> QED  BY <4>1, <4>2
    <3>9. n = Null => Full(c, names)
      <4> SUFFICES ASSUME n = Null, RootName \notin ToSet(names) PROVE Len(c.free) < N
        BY DEF Full
      <4>1. name # RootName
        BY <1>0
      <4>2. Len(s.cli.free) = 0
        BY <3>0, <3>1, <3>7, <4>1
      <4> QED  BY <1>0, <1>1, <3>7, <4>2
    <3>10. r = [cli |-> t, search |-> x, dir |-> n, node |-> n, stop |-> n = Null]
      BY <1>3, <2>5, <2>8
    <3>11. n \in 0..NbNodes /\ t \in Trees
      <4>1. t \in Trees
        BY <3>1 DEF TreeInv
      <4>2. n = Null \/ n \in Nodes
        BY <3>1 DEF Held
      <4> QED  BY <4>1, <4>2, Parts
    <3> HIDE DEF t, n, x
    <3>12. /\ r \in States /\ r.cli = t /\ r.search = x /\ r.dir = n /\ r.node = n
           /\ r.stop <=> (n = Null)
      <4>1. r \in States
        BY <2>1, <3>10, <3>11 DEF States
      <4>2. r.cli = t /\ r.search = x /\ r.dir = n /\ r.node = n
        BY <3>10
      <4>3. r.stop = (n = Null)
        BY <3>10
      <4> QED  BY <4>1, <4>2, <4>3
    <3>13. k + 1 # 0
      OBVIOUS
    <3> QED  BY <2>1, <3>1, <3>5, <3>6, <3>8, <3>9, <3>12, <3>13 DEF DirIs
  <2> QED  BY <2>7, <2>8
<1> QED  BY <1>2, <1>3

AfterDir(c, path, r) ==
  /\ TreeInv(r.cli) /\ Grown(c, r.cli, path.names)
  /\ Len(r.cli.free) + Len(path.names) >= Len(c.free)
  /\ r.node # Null => r.node \in Held(r.cli) \ Held(c) /\ IsDir(r.cli, r.node)
  /\ r.node = Null => Len(path.names) = 0 \/ Full(c, path.names)

LEMMA AddDirInv ==
  ASSUME NEW c, TreeInv(c), NEW path \in Paths, Unmade(c, path), NEW start,
         First(c, path, start) = Base(c, path), FindNode(c, path) = Null,
         NEW r, r = AddDir(c, path, start)
  PROVE  AfterDir(c, path, r)
<1> DEFINE names == path.names
           N == Len(names)
<1>0. c \in Trees /\ N \in Nat
  <2>1. names \in Seq(Names)
    BY DEF Paths
  <2> QED  BY <2>1, LenProperties DEF TreeInv
<1>1. PICK h : /\ h[0] = DirStart(c, path, start)
               /\ \A i \in 1..N : h[i] = DirOn(path, h[i - 1], names[i])
               /\ AddDir(c, path, start) =
                     IF FindNode(c, path) # Null THEN [cli |-> c, node |-> FindNode(c, path)]
                     ELSE [cli |-> h[N].cli, node |-> h[N].node]
  BY DirComes
<1>2. r = [cli |-> h[N].cli, node |-> h[N].node]
  BY <1>1
<1> DEFINE Is(k) == DirIs(c, names, k, h[k])
           K == {k \in Nat : k <= N => Is(k)}
<1>3. 0 \in K
  <2> DEFINE s == h[0]
  <2>1. /\ s = [cli |-> c, search |-> <<>>, dir |-> Base(c, path), node |-> Null, stop |-> FALSE]
    BY <1>1 DEF DirStart
  <2>2. Base(c, path) \in Held(c) /\ IsDir(c, Base(c, path)) /\ Base(c, path) \in Nodes
    BY BaseIs
  <2>3. <<>> \in Names /\ Null \in 0..NbNodes /\ Base(c, path) \in 0..NbNodes
    BY <1>0, <2>2, Parts DEF Names
  <2>4. Grown(c, c, names)
    BY DEF Grown
  <2>5. Len(c.free) \in Nat
    <3>1. c.free \in Seq(Nodes)
      BY <1>0, Parts
    <3> QED  BY <3>1, LenProperties
  <2> HIDE DEF s
  <2>6. /\ s \in States /\ s.cli = c /\ s.search = <<>> /\ s.dir = Base(c, path) /\ s.node = Null
        /\ ~s.stop
    BY <1>0, <2>1, <2>3 DEF States
  <2>7. DirIs(c, names, 0, s)
    BY <2>2, <2>4, <2>5, <2>6 DEF DirIs
  <2> QED  BY <2>7 DEF s
<1>4. ASSUME NEW k \in K PROVE k + 1 \in K
  <2>1. k \in Nat /\ k + 1 \in Nat /\ (k + 1) - 1 = k
    OBVIOUS
  <2> SUFFICES ASSUME k + 1 <= N PROVE Is(k + 1)
    BY <2>1
  <2>2. k < N /\ k <= N /\ k + 1 \in 1..N
    BY <1>0, <2>1
  <2>3. Is(k)
    <3>1. k <= N => Is(k)
      <4> HIDE DEF Is
      <4> QED  OBVIOUS
    <3> HIDE DEF Is
    <3> QED  BY <2>2, <3>1
  <2>4. h[k + 1] = DirOn(path, h[k], names[k + 1])
    BY <1>1, <2>1, <2>2
  <2> QED  BY <2>1, <2>2, <2>3, <2>4, DirGoesOn
<1>5. Is(N)
  <2>1. K \in SUBSET Nat
    OBVIOUS
  <2>2. N \in K
    <3> HIDE DEF K
    <3> QED  BY <1>0, <1>3, <1>4, <2>1, NatInd
  <2>3. N <= N => Is(N)
    <3> HIDE DEF Is, N
    <3> QED  BY <2>2
  <2> HIDE DEF Is
  <2> QED  BY <1>0, <2>3
<1> DEFINE s == h[N]
<1>6. r.cli = s.cli /\ r.node = s.node
  BY <1>2
<1>7. DirIs(c, names, N, s)
  BY <1>5
<1> HIDE DEF s, K, Is
<1>8. ASSUME s.node = Null, N # 0 PROVE Full(c, names)
  <2>1. CASE s.stop
    BY <1>7, <2>1 DEF DirIs
  <2>2. CASE ~s.stop
    <3>1. s.node = Null => s.cli = c /\ (N = 0 \/ (N = 1 /\ N > 1))
      BY <1>7, <2>2 DEF DirIs
    <3> HIDE DEF N
    <3> QED  BY <1>8, <3>1
  <2> QED  BY <2>1, <2>2
<1> HIDE DEF N
<1>9. /\ TreeInv(s.cli) /\ Grown(c, s.cli, names) /\ Len(s.cli.free) + N >= Len(c.free)
      /\ s.node # Null => s.node \in Held(s.cli) \ Held(c) /\ IsDir(s.cli, s.node)
  BY <1>7 DEF DirIs
<1> QED  BY <1>6, <1>8, <1>9 DEF AfterDir, N

LEMMA JoiningType ==
  ASSUME NEW S, NEW names \in Seq(Seq(S)), NEW k \in 1..Len(names)
  PROVE  Joining(names, k) \in Seq(S)
<1> DEFINE N == Len(names)
<1>0. N \in Nat /\ \A j \in 1..N : names[j] \in Seq(S)
  BY LenProperties, ElementOfSeq
<1>1. N > 0 => Joining(names, 1) = names[1]
  BY JoiningFacts
<1>2. \A j \in 1..(N - 1) : Joining(names, j + 1) = Joining(names, j) \o names[j + 1]
  BY JoiningFacts
<1> DEFINE K == {j \in Nat : j + 1 <= N => Joining(names, j + 1) \in Seq(S)}
<1>3. 0 \in K
  BY <1>0, <1>1
<1> HIDE DEF N
<1>4. ASSUME NEW j \in K PROVE j + 1 \in K
  <2>1. j \in Nat /\ j + 1 \in Nat
    OBVIOUS
  <2> SUFFICES ASSUME (j + 1) + 1 <= N PROVE Joining(names, (j + 1) + 1) \in Seq(S)
    BY <2>1
  <2>2. Joining(names, j + 1) \in Seq(S)
    BY <1>0, <2>1
  <2>3. j + 1 \in 1..(N - 1) /\ (j + 1) + 1 \in 1..N
    BY <1>0, <2>1
  <2>4. names[(j + 1) + 1] \in Seq(S)
    BY <1>0, <2>3
  <2>5. Joining(names, (j + 1) + 1) = Joining(names, j + 1) \o names[(j + 1) + 1]
    BY <1>2, <2>3
  <2> DEFINE a == Joining(names, j + 1)
             b == names[(j + 1) + 1]
  <2>6. a \in Seq(S) /\ b \in Seq(S) /\ Joining(names, (j + 1) + 1) = a \o b
    BY <2>2, <2>4, <2>5
  <2> HIDE DEF a, b
  <2>7. a \o b \in Seq(S)
    BY <2>6
  <2> QED  BY <2>6, <2>7
<1>5. k - 1 \in K
  <2>1. K \in SUBSET Nat /\ k - 1 \in Nat
    BY <1>0
  <2> HIDE DEF K
  <2> QED  BY <1>3, <1>4, <2>1, NatInd
<1> QED  BY <1>0, <1>5 DEF N

(* What a careful user makes.                                              *)
LEMMA MkdirInv ==
  ASSUME TreeInv(cli), NEW path \in Paths, ~Through(path), Joined(path)
  PROVE  TreeInv(AddDir(cli, path, Cwd(cli)).cli)
<1> DEFINE names == path.names
           N == Len(names)
           to(seq) == FindNode(cli, [path EXCEPT !.names = seq])
           o(k) == SearchDir(cli, Base(cli, path), Joining(names, k), All)
<1>0. names \in Seq(Names) /\ N \in Nat
  <2>1. names \in Seq(Names)
    BY DEF Paths
  <2> QED  BY <2>1, LenProperties
<1>1. CASE FindNode(cli, path) # Null
  <2>1. AddDir(cli, path, Cwd(cli)) = [cli |-> cli, node |-> FindNode(cli, path)]
    BY <1>1, DirComes
  <2> QED  BY <2>1
<1>2. CASE FindNode(cli, path) = Null
  <2>1. ASSUME NEW k \in 1..N PROVE Joining(names, k) \in Names /\ to(<<Joining(names, k)>>) = o(k)
    <3>1. Joining(names, k) \in Names
      BY <1>0, JoiningType DEF Names
    <3> QED  BY <3>1, FindOne
  <2>2. to(names) = Null
    <3>1. [path EXCEPT !.names = names] = path
      BY DEF Paths
    <3> QED  BY <1>2, <3>1
  <2>3. ASSUME NEW k \in 1..N
        PROVE  o(k) = Null \/ (k = 1 /\ N > 1 /\ IsDir(cli, o(k)))
    <3>1. SubSeq(names, 1, N) = names
      <4>1. SubSeq(names, 1, N) \in Seq(Names) /\ Len(SubSeq(names, 1, N)) = N
            /\ \A i \in 1..N : SubSeq(names, 1, N)[i] = names[i]
        BY <1>0, SubSeqProperties
      <4> QED  BY <1>0, <4>1, SeqEqual
    <3>2. N \in 1..N /\ Missing(path) # {}
      <4>1. N \in 1..N
        BY <1>0
      <4>2. N \in Missing(path)
        BY <2>2, <3>1, <4>1 DEF Missing
      <4> QED  BY <4>1, <4>2
    <3>3. CASE k # 1
      <4>1. k \in 2..N
        BY <1>0, <3>3
      <4>2. FindNode(cli, [path EXCEPT !.names = <<FlattenSeq(SubSeq(path.names, 1, k))>>]) = Null
        BY <3>2, <4>1 DEF Joined
      <4> QED  BY <2>1, <4>2 DEF Joining
    <3>4. CASE k = 1
      <4>1. Joining(names, 1) = names[1]
        BY <1>0, <3>4, JoiningFacts DEF Names
      <4>2. SubSeq(names, 1, 1) = <<names[1]>>
        <5>1. SubSeq(names, 1, 1) \in Seq(Names) /\ Len(SubSeq(names, 1, 1)) = 1
              /\ \A i \in 1..1 : SubSeq(names, 1, 1)[i] = names[i]
          BY <1>0, <3>4, SubSeqProperties
        <5>0. names[1] \in Names
          BY <1>0, <3>4, ElementOfSeq
        <5>2. <<names[1]>> \in Seq(Names) /\ Len(<<names[1]>>) = 1 /\ <<names[1]>>[1] = names[1]
          BY <5>0
        <5> DEFINE a == SubSeq(names, 1, 1)
                   b == <<names[1]>>
        <5>3. a \in Seq(Names) /\ b \in Seq(Names) /\ Len(a) = 1 /\ Len(b) = 1 /\ a[1] = b[1]
          BY <5>1, <5>2
        <5> HIDE DEF a, b
        <5>4. Len(a) = Len(b) /\ \A i \in 1..Len(a) : a[i] = b[i]
          BY <5>3
        <5>5. a = b
          BY <5>3, <5>4, SeqEqual
        <5> QED  BY <5>5 DEF a, b
      <4>3. o(1) = to(SubSeq(names, 1, 1))
        BY <2>1, <3>4, <4>1, <4>2
      <4>4. CASE N = 1
        BY <2>2, <3>1, <3>4, <4>3, <4>4
      <4>5. CASE N # 1
        <5>1. 1 < N /\ 1 \in 1..N
          <6> HIDE DEF N
          <6> QED  BY <1>0, <3>4, <4>5
        <5>2. ~(to(SubSeq(names, 1, 1)) # Null /\ ~IsDir(cli, to(SubSeq(names, 1, 1))) /\ 1 < N)
          BY <5>1 DEF Through
        <5> QED  BY <3>4, <4>3, <5>1, <5>2
      <4> QED  BY <4>4, <4>5
    <3> QED  BY <3>3, <3>4
  <2>4. Unmade(cli, path)
    BY <2>3 DEF Unmade
  <2>5. First(cli, path, Cwd(cli)) = Base(cli, path)
    BY DEF First, Base, TreeInv, Pointing, Cwd
  <2>6. AfterDir(cli, path, AddDir(cli, path, Cwd(cli)))
    BY <1>2, <2>4, <2>5, AddDirInv
  <2> QED  BY <2>6 DEF AfterDir
<1> QED  BY <1>1, <1>2

(***************************************************************************)
(* The tables, entry by entry.                                             *)
(***************************************************************************)
LEMMA TableComes ==
  ASSUME NEW c, NEW S, NEW seq \in Seq(S)
  PROVE  \E h : /\ h[0] = [cli |-> c, parent |-> c.root]
                /\ \A i \in 1..Len(seq) : h[i] = TableOn(h[i - 1], seq[i])
                /\ AddTree(c, seq) = h[Len(seq)].cli
<1> DEFINE N == Len(seq)
           b == [cli |-> c, parent |-> c.root]
           on(s, t) == TableOn(s, t)
<1>1. N \in Nat /\ DOMAIN seq = 1..N /\ N \in 0..N
  BY LenProperties
<1> DEFINE it == CHOOSE it : it = [s \in SUBSET (1..N) |->
                    IF s = {} THEN b ELSE on(it[s \ {Max(s)}], seq[Max(s)])]
<1>3. AddTree(c, seq) = it[1..N].cli
  BY <1>1 DEF AddTree, FoldLeft, MapThenFoldSet, TableOn
<1> HIDE DEF N, b
<1>2. PICK f : Folding(f, "table", 0, b, seq, N)
  BY <1>1, FoldExists
<1>4. f = [s \in SUBSET (1..N) |->
                    IF s = {} THEN b ELSE on(f[s \ {Max(s)}], seq[Max(s)])]
  BY <1>2 DEF Folding, FoldStep
<1>5. it = [s \in SUBSET (1..N) |->
                    IF s = {} THEN b ELSE on(it[s \ {Max(s)}], seq[Max(s)])]
  BY <1>4
<1> HIDE DEF it
<1>6. Folding(it, "table", 0, b, seq, N)
  BY <1>5 DEF Folding, FoldStep
<1>7. PICK h : h = [i \in 0..N |-> it[1..i]] /\ Comes(h, "table", 0, b, seq, N)
  BY <1>1, <1>6, FoldComes
<1>8. h[0] = b /\ \A i \in 1..N : h[i] = TableOn(h[i - 1], seq[i])
  BY <1>7 DEF Comes, FoldStep
<1>9. h[N] = it[1..N]
  BY <1>1, <1>7
<1> QED  BY <1>3, <1>8, <1>9 DEF N, b

(* What is in the root, and how many nodes are left in the pool.           *)
Rooted(c, names) == \A m \in ToSet(c.items[1]) : c.node[m].name \in names
TableIs(s, p, names, room) ==
  /\ s \in [cli : Trees, parent : 0..NbNodes] /\ TreeInv(s.cli) /\ s.parent = p
  /\ p \in Held(s.cli) /\ IsDir(s.cli, p) /\ Rooted(s.cli, names) /\ Len(s.cli.free) >= room

LEMMA NodeOn ==
  ASSUME NEW s, NEW p, NEW names, NEW room \in Nat, TableIs(s, p, names, room + 1),
         NEW new \in NodeRecs, new.type # "dir", p # 1 \/ new.name \in names,
         NEW r, r = TableOn(s, [type |-> "node", node |-> new])
  PROVE  TableIs(r, p, names, room)
<1> DEFINE c == s.cli
           a == AddNode(c, p, new)
           t == a.cli
<1>1. /\ s \in [cli : Trees, parent : 0..NbNodes] /\ TreeInv(c) /\ s.parent = p /\ p \in Held(c)
      /\ IsDir(c, p) /\ Rooted(c, names) /\ Len(c.free) >= room + 1
  BY DEF TableIs
<1>2. r = [s EXCEPT !.cli = t]
  BY <1>1 DEF TableOn
<1>3. AfterAdd(c, p, new, a)
  BY <1>1, AddNodeInv
<1> HIDE DEF c, a
<1>4. Len(c.free) \in Nat /\ Placed(c) /\ c \in Trees /\ 1 \in Nodes
  <2>1. c \in Trees /\ Placed(c)
    BY <1>1 DEF TreeInv
  <2>2. c.free \in Seq(Nodes) /\ 1 \in Nodes
    BY <2>1, Parts
  <2> QED  BY <2>1, <2>2, LenProperties
<1>5. a.node # Null
  <2>1. Len(c.free) > 0
    BY <1>1, <1>4
  <2> QED  BY <1>3, <2>1 DEF AfterAdd
<1>6. /\ TreeInv(t) /\ Held(c) \subseteq Held(t) /\ \A m \in Held(c) : t.node[m] = c.node[m]
      /\ \A m \in Held(c) : m # p => t.items[m] = c.items[m]
      /\ t.node[a.node] = [new EXCEPT !.parent = p] /\ t.items[p] = <<a.node>> \o c.items[p]
      /\ Len(t.free) = Len(c.free) - 1 /\ a.node \in Held(t)
  BY <1>3, <1>5 DEF AfterAdd
<1>7. t.node[a.node].name = new.name
  BY <1>6 DEF NodeRecs, Records
<1>8. Rooted(t, names)
  <2> SUFFICES ASSUME NEW m \in ToSet(t.items[1]) PROVE t.node[m].name \in names
    BY DEF Rooted
  <2>1. 1 \in Held(c) /\ \A n \in ToSet(c.items[1]) : n \in Held(c)
    BY <1>4 DEF Placed
  <2>2. CASE m \in ToSet(c.items[1])
    BY <1>1, <1>6, <2>1, <2>2 DEF Rooted
  <2>3. CASE m \notin ToSet(c.items[1])
    <3>1. p = 1
      BY <1>6, <2>1, <2>3
    <3>2. c.items[1] \in Seq(Nodes) /\ a.node \in Nodes
      <4>1. c.items[1] \in Seq(Nodes)
        BY <1>4, Parts
      <4> QED  BY <1>6, <4>1 DEF Held
    <3>3. ToSet(<<a.node>> \o c.items[1]) = {a.node} \cup ToSet(c.items[1])
      BY <3>2, OneBefore
    <3>4. m = a.node
      BY <1>6, <2>3, <3>1, <3>3
    <3> QED  BY <1>7, <3>1, <3>4
  <2> QED  BY <2>2, <2>3
<1>9. Len(t.free) >= room
  BY <1>1, <1>4, <1>6
<1>10. IsDir(t, p) /\ p \in Held(t) /\ t \in Trees
  BY <1>1, <1>6 DEF IsDir, TreeInv
<1> HIDE DEF t
<1>11. r \in [cli : Trees, parent : 0..NbNodes] /\ r.cli = t /\ r.parent = p
  BY <1>1, <1>2, <1>10
<1> QED  BY <1>6, <1>8, <1>9, <1>10, <1>11 DEF TableIs

(* The entries of a table but its directories.                             *)
LEMMA NodesOn ==
  ASSUME NEW p, p # 1, NEW names, NEW h, NEW i \in Nat, NEW n \in Nat, NEW room \in Nat, NEW recs,
         TableIs(h[i], p, names, room + n),
         \A k \in 1..n : /\ h[i + k] = TableOn(h[i + (k - 1)], [type |-> "node", node |-> recs[k]])
                         /\ recs[k] \in NodeRecs /\ recs[k].type # "dir"
  PROVE  TableIs(h[i + n], p, names, room)
<1> DEFINE Is(k) == TableIs(h[i + k], p, names, room + (n - k))
           K == {k \in Nat : k <= n => Is(k)}
<1>1. 0 \in K
  <2>1. i + 0 = i /\ room + (n - 0) = room + n
    OBVIOUS
  <2> QED  BY <2>1
<1>2. ASSUME NEW k \in K PROVE k + 1 \in K
  <2>1. k \in Nat /\ k + 1 \in Nat /\ (k + 1) - 1 = k
    OBVIOUS
  <2> SUFFICES ASSUME k + 1 <= n PROVE Is(k + 1)
    BY <2>1
  <2>2. k <= n /\ k + 1 \in 1..n /\ room + (n - (k + 1)) \in Nat
        /\ (room + (n - (k + 1))) + 1 = room + (n - k)
    BY <2>1
  <2>3. Is(k)
    <3>1. k <= n => Is(k)
      <4> HIDE DEF Is
      <4> QED  OBVIOUS
    <3> HIDE DEF Is
    <3> QED  BY <2>2, <3>1
  <2>4. /\ h[i + (k + 1)] = TableOn(h[i + k], [type |-> "node", node |-> recs[k + 1]])
        /\ recs[k + 1] \in NodeRecs /\ recs[k + 1].type # "dir"
    BY <2>1, <2>2
  <2> DEFINE s == h[i + k]
             r == h[i + (k + 1)]
             new == recs[k + 1]
             q == room + (n - (k + 1))
  <2>5. /\ q \in Nat /\ TableIs(s, p, names, q + 1) /\ new \in NodeRecs /\ new.type # "dir"
        /\ r = TableOn(s, [type |-> "node", node |-> new])
    BY <2>2, <2>3, <2>4
  <2> HIDE DEF s, r, new, q
  <2>6. TableIs(r, p, names, q)
    BY <2>5, NodeOn
  <2> QED  BY <2>6 DEF r, q
<1>3. n \in K
  <2>1. K \in SUBSET Nat
    OBVIOUS
  <2> HIDE DEF K
  <2> QED  BY <1>1, <1>2, <2>1, NatInd
<1>4. Is(n)
  <2>1. n <= n => Is(n)
    <3> HIDE DEF Is
    <3> QED  BY <1>3
  <2> HIDE DEF Is
  <2> QED  BY <2>1
<1>5. room + (n - n) = room
  OBVIOUS
<1> QED  BY <1>4, <1>5

LEMMA RootMiss ==
  ASSUME NEW c, TreeInv(c), NEW names, Rooted(c, names), NEW x, x \notin names, x \notin {Up, Here}
  PROVE  SearchDir(c, 1, x, All) = Null
<1> DEFINE n == SearchDir(c, 1, x, All)
<1>1. 1 \in Held(c) /\ IsDir(c, 1)
  BY DEF TreeInv, Placed
<1>2. n # Null /\ x \notin {Up, Here} => n \in ToSet(c.items[1]) /\ c.node[n].name = x
  BY <1>1, SearchFacts
<1> QED  BY <1>2 DEF Rooted

(* A directory of a table: none of its names is there.                     *)
LEMMA DirEntry ==
  ASSUME NEW s, NEW old, NEW room \in Nat, NEW seq \in Seq(Names), Len(seq) > 0,
         TableIs(s, 1, old, room + Len(seq)), RootName \notin ToSet(seq),
         \A k \in 1..Len(seq) : Joining(seq, k) \notin old \cup {Up, Here},
         NEW bin \in BOOLEAN,
         NEW r, r = TableOn(s, [type |-> "dir", path |-> Abs(seq), bin |-> bin])
  PROVE  TableIs(r, r.parent, old \cup ToSet(seq), room) /\ r.parent # 1
<1> DEFINE c == s.cli
           path == Abs(seq)
           N == Len(seq)
           made == AddDir(c, path, 1)
           u == made.cli
           v == IF bin THEN AddBin(u, FindNode(u, path)) ELSE u
<1>0. N \in Nat /\ N > 0 /\ N \in 1..N /\ 1 \in 1..N
  <2>1. N \in Nat
    BY LenProperties
  <2> HIDE DEF N
  <2>2. N > 0
    BY DEF N
  <2> QED  BY <2>1, <2>2
<1>1. /\ TreeInv(c) /\ c \in Trees /\ s.parent = 1 /\ Rooted(c, old) /\ Len(c.free) >= room + N
      /\ c.root = 1 /\ 1 \in Nodes
  <2>1. TreeInv(c) /\ c \in Trees /\ s.parent = 1 /\ Rooted(c, old) /\ Len(c.free) >= room + N
    BY DEF TableIs, TreeInv
  <2> QED  BY <2>1, Parts
<1>2. path \in Paths /\ path.names = seq /\ path.abs = TRUE /\ Base(c, path) = 1
      /\ First(c, path, 1) = 1
  <2>1. path \in Paths /\ path.names = seq /\ path.abs = TRUE
    BY DEF Abs, Paths
  <2> QED  BY <1>1, <2>1 DEF Base, First
<1>3. r = [cli |-> v, parent |-> made.node]
  BY <1>1 DEF TableOn
<1> HIDE DEF path, made, c
<1>4. \A k \in 1..N : SearchDir(c, 1, Joining(seq, k), All) = Null
  BY <1>1, RootMiss
<1>5. FindNode(c, path) = Null
  <2>1. Joining(seq, 1) = seq[1]
    BY <1>0, JoiningFacts DEF Names
  <2>2. SearchDir(c, Base(c, path), path.names[1], All) = Null
    BY <1>0, <1>2, <1>4, <2>1
  <2> QED  BY <1>0, <1>1, <1>2, <2>2, FindIs
<1>6. Unmade(c, path)
  BY <1>2, <1>4 DEF Unmade
<1>7. AfterDir(c, path, made)
  BY <1>1, <1>2, <1>5, <1>6, AddDirInv DEF made
<1>8. /\ TreeInv(u) /\ Grown(c, u, seq) /\ Len(u.free) + N >= Len(c.free)
      /\ made.node # Null => made.node \in Held(u) \ Held(c) /\ IsDir(u, made.node)
      /\ made.node = Null => N = 0 \/ Full(c, seq)
  BY <1>2, <1>7 DEF AfterDir
<1>9. Len(c.free) \in Nat /\ Len(u.free) \in Nat /\ u \in Trees
  <2>1. c \in Trees /\ u \in Trees
    BY <1>1, <1>8 DEF TreeInv
  <2>2. c.free \in Seq(Nodes) /\ u.free \in Seq(Nodes)
    BY <2>1, Parts
  <2> QED  BY <2>1, <2>2, LenProperties
<1>10. made.node \in Held(u) \ Held(c) /\ IsDir(u, made.node)
  <2> SUFFICES ASSUME Full(c, seq) PROVE FALSE
    BY <1>0, <1>8
  <2>1. Len(c.free) < N
    BY DEF Full
  <2> HIDE DEF N
  <2> QED  BY <1>0, <1>1, <1>9, <2>1
<1>11. Len(u.free) >= room
  <2> HIDE DEF N
  <2> QED  BY <1>0, <1>1, <1>8, <1>9
<1>12. Rooted(u, old \cup ToSet(seq))
  <2> SUFFICES ASSUME NEW m \in ToSet(u.items[1]) PROVE u.node[m].name \in old \cup ToSet(seq)
    BY DEF Rooted
  <2>1. Placed(c) /\ Placed(u)
    BY <1>1, <1>8 DEF TreeInv
  <2>2. m \in Held(u)
    BY <1>1, <2>1 DEF Placed
  <2>3. CASE m \notin Held(c)
    BY <1>8, <2>2, <2>3 DEF Grown
  <2>4. CASE m \in Held(c)
    <3>1. u.node[m] = c.node[m]
      BY <1>8, <2>4 DEF Grown
    <3>2. u.node[m].parent = 1
      <4>1. PICK d : Orderly(u.items, ParentOf(u), d)
        BY <2>1 DEF Placed
      <4>2. ParentOf(u)[m] = 1
        BY <1>1, <4>1 DEF Orderly
      <4> QED  BY <2>4, <4>2 DEF ParentOf, Held
    <3>3. m # 1
      BY <1>1, <2>1, <3>2, Parts DEF Placed
    <3>4. m \in ToSet(c.items[1])
      BY <2>1, <2>4, <3>1, <3>2, <3>3 DEF Placed
    <3> QED  BY <1>1, <3>1, <3>4 DEF Rooted
  <2> QED  BY <2>3, <2>4
<1> HIDE DEF u
<1>13. TreeInv(v) /\ v.node = u.node /\ v.items = u.items /\ v.free = u.free /\ Held(v) = Held(u)
  <2>1. CASE bin
    <3>1. FindNode(u, path) \in Held(u) \cup {Null}
      BY <1>2, <1>8, FindIs
    <3> QED  BY <1>8, <2>1, <3>1, AddBinInv
  <2>2. CASE ~bin
    BY <1>8, <2>2
  <2> QED  BY <2>1, <2>2
<1> HIDE DEF v
<1>14. r.cli = v /\ r.parent = made.node
  BY <1>3
<1>15. v \in Trees /\ IsDir(v, made.node) /\ Rooted(v, old \cup ToSet(seq)) /\ Len(v.free) >= room
  BY <1>10, <1>11, <1>12, <1>13 DEF TreeInv, IsDir, Rooted
<1>16. made.node \in 0..NbNodes /\ made.node # 1
  <2>1. made.node \in Nodes
    BY <1>10 DEF Held
  <2>2. 1 \in Held(c)
    BY <1>1 DEF TreeInv, Placed
  <2> QED  BY <1>1, <1>10, <2>1, <2>2, Parts
<1> DEFINE n == made.node
<1> HIDE DEF n
<1>17. n \in Held(v) /\ IsDir(v, n) /\ n \in 0..NbNodes /\ n # 1 /\ r = [cli |-> v, parent |-> n]
  BY <1>3, <1>10, <1>13, <1>15, <1>16 DEF n
<1>18. r \in [cli : Trees, parent : 0..NbNodes] /\ r.parent = n /\ r.cli = v
  BY <1>15, <1>17
<1> QED  BY <1>13, <1>15, <1>17, <1>18 DEF TableIs

(* The tree cli_create_root leaves: a root and nothing in it.              *)
LEMMA CreatedIs ==
  TableIs([cli |-> Created, parent |-> Created.root], 1, {}, NbNodes - 1)
<1> DEFINE c == Created
           fr == [n \in 1..(NbNodes - 1) |-> n + 1]
<1>0. NbNodes \in Nat /\ NbNodes >= 1 /\ MaxBins \in Nat /\ MaxBins >= 1
  BY PoolAssumption
<1>1. /\ c.node = [n \in Nodes |-> Dir(IF n = 1 THEN RootName ELSE <<>>)]
      /\ c.items = [n \in Nodes |-> <<>>] /\ c.free = fr /\ c.root = 1
      /\ c.bins = [k \in 1..MaxBins |-> IF k = 1 THEN 1 ELSE Null]
      /\ c = [node |-> c.node, items |-> c.items, free |-> c.free, root |-> c.root, bins |-> c.bins]
  BY DEF Created
<1> HIDE DEF c
<1>2. 1 \in Nodes /\ 1 \in 1..MaxBins /\ Null = 0 /\ Null \notin Nodes /\ Null \in 0..NbNodes
      /\ 1 \in 0..NbNodes
  BY <1>0 DEF Nodes, Null
<1>3. /\ fr \in Seq(Nodes) /\ Len(fr) = NbNodes - 1 /\ ToSet(fr) = 2..NbNodes /\ IsInjective(fr)
  <2>1. NbNodes - 1 \in Nat /\ \A n \in 1..(NbNodes - 1) : n + 1 \in Nodes
    BY <1>0 DEF Nodes
  <2>2. fr \in Seq(Nodes)
    BY <2>1
  <2>3. Len(fr) = NbNodes - 1 /\ DOMAIN fr = 1..(NbNodes - 1)
    BY <2>1
  <2>4. ToSet(fr) = 2..NbNodes
    <3>1. ToSet(fr) = {fr[n] : n \in 1..(NbNodes - 1)}
      BY <2>3 DEF ToSet
    <3>2. ASSUME NEW m \in 2..NbNodes PROVE m \in {fr[n] : n \in 1..(NbNodes - 1)}
      <4>1. m - 1 \in 1..(NbNodes - 1) /\ fr[m - 1] = m
        BY <1>0
      <4> QED  BY <4>1
    <3>3. ASSUME NEW n \in 1..(NbNodes - 1) PROVE fr[n] \in 2..NbNodes
      BY <1>0
    <3> QED  BY <3>1, <3>2, <3>3
  <2>5. IsInjective(fr)
    BY <2>3 DEF IsInjective
  <2> QED  BY <2>2, <2>3, <2>4, <2>5
<1>4. \A name \in Names : Dir(name) \in NodeRecs /\ Dir(name).type = "dir" /\ Dir(name).parent = Null
  <2> SUFFICES ASSUME NEW name \in Names
               PROVE  Dir(name) \in NodeRecs /\ Dir(name).type = "dir" /\ Dir(name).parent = Null
    OBVIOUS
  <2> DEFINE e == Dir(name)
  <2>1. e = [type |-> "dir", name |-> name, parent |-> Null, func |-> "none", alias |-> <<>>]
    BY DEF Dir
  <2> HIDE DEF e
  <2>2. e.type = "dir" /\ e.parent = Null
    BY <2>1
  <2>3. <<>> \in Seq([cmd : Paths, args : Seq(Paths)])
    OBVIOUS
  <2>4. "dir" \in All /\ "none" \in Funcs
    BY DEF All, Funcs
  <2>5. e \in Records
    BY <1>2, <2>1, <2>3, <2>4 DEF Records
  <2>6. e \in NodeRecs
    BY <2>2, <2>5 DEF NodeRecs, Exe
  <2> QED  BY <2>2, <2>6 DEF e
<1>5. RootName \in Names /\ <<>> \in Names
  <2>1. "/" \in Symbols
    BY DEF Symbols
  <2> QED  BY <2>1 DEF Names, RootName
<1>6. c.node \in [Nodes -> NodeRecs] /\ \A n \in Nodes : c.node[n].type = "dir" /\ c.node[n].parent = Null
  BY <1>1, <1>4, <1>5
<1>7. c.items \in [Nodes -> Seq(Nodes)] /\ \A n \in Nodes : c.items[n] = <<>> /\ ToSet(c.items[n]) = {}
  BY <1>1 DEF ToSet
<1>8. c.bins \in [1..MaxBins -> 0..NbNodes]
  BY <1>1, <1>2
<1> HIDE DEF fr
<1>9. c \in Trees
  BY <1>1, <1>3, <1>6, <1>7, <1>8 DEF Trees
<1>10. Held(c) = {1}
  BY <1>0, <1>1, <1>3 DEF Held, Nodes
<1>11. Placed(c)
  <2> DEFINE d == [n \in Nodes |-> 0]
  <2>1. d \in [Nodes -> Nat]
    OBVIOUS
  <2>2. \A n \in Nodes : IsInjective(c.items[n])
    BY <1>7 DEF IsInjective
  <2> HIDE DEF d
  <2>3. Orderly(c.items, ParentOf(c), d)
    BY <1>7, <2>1, <2>2 DEF Orderly
  <2>4. IsDir(c, 1)
    BY <1>2, <1>6 DEF IsDir
  <2> QED  BY <1>2, <1>6, <1>7, <1>10, <2>3, <2>4 DEF Placed
<1>12. Pointing(c)
  <2>1. IsDir(c, 1)
    BY <1>2, <1>6 DEF IsDir
  <2>2. \A k \in 1..MaxBins : c.bins[k] = IF k = 1 THEN 1 ELSE Null
    BY <1>1
  <2>3. \A k \in 2..MaxBins : c.bins[k] = Null
    BY <1>0, <2>2
  <2> QED  BY <1>2, <1>10, <2>1, <2>2, <2>3 DEF Pointing
<1>13. TreeInv(c)
  BY <1>1, <1>3, <1>9, <1>11, <1>12 DEF TreeInv
<1>14. Rooted(c, {})
  BY <1>2, <1>7 DEF Rooted
<1>15. IsDir(c, 1) /\ Len(c.free) >= NbNodes - 1
  BY <1>0, <1>1, <1>2, <1>3, <1>6 DEF IsDir
<1> DEFINE s == [cli |-> c, parent |-> c.root]
<1>16. s \in [cli : Trees, parent : 0..NbNodes] /\ s.cli = c /\ s.parent = 1
  BY <1>1, <1>2, <1>9
<1>17. TableIs(s, 1, {}, NbNodes - 1)
  BY <1>10, <1>13, <1>14, <1>15, <1>16 DEF TableIs
<1> QED  BY <1>17 DEF c

(***************************************************************************)
(* What is typed and what the tables name, with the words of the model.    *)
(***************************************************************************)
LEMMA SeqMore ==
  ASSUME NEW S, NEW T, S \subseteq T
  PROVE  Seq(S) \subseteq Seq(T)
<1> SUFFICES ASSUME NEW s \in Seq(S) PROVE s \in Seq(T)
  OBVIOUS
<1>1. /\ Len(s) \in Nat /\ s = [i \in 1..Len(s) |-> s[i]] /\ \A i \in 1..Len(s) : s[i] \in S
  BY LenProperties, ElementOfSeq
<1>2. \A i \in 1..Len(s) : s[i] \in T
  BY <1>1
<1> DEFINE n == Len(s)
<1> HIDE DEF n
<1>3. n \in Nat /\ s \in [1..n -> T]
  BY <1>1, <1>2 DEF n
<1> QED  BY <1>3

LEMMA WordsAre ==
  /\ Seq(STRING) \subseteq Names /\ Path \subseteq Paths
  /\ Seq(Words) \subseteq Seq(Paths \cup [var : Paths]) /\ Words \subseteq Paths \cup [var : Paths]
  /\ [cmd : Path, args : Seq(Path)] \subseteq [cmd : Paths, args : Seq(Paths)]
<1>1. Seq(STRING) \subseteq Names
  BY SeqMore DEF Names, Symbols
<1>2. Seq(Seq(STRING)) \subseteq Seq(Names)
  BY <1>1, SeqMore
<1>3. Path \subseteq Paths
  BY <1>2 DEF Path, Paths
<1>4. Words \subseteq Paths \cup [var : Paths]
  BY <1>3 DEF Words
<1>5. Seq(Words) \subseteq Seq(Paths \cup [var : Paths])
  BY <1>4, SeqMore
<1>6. Seq(Path) \subseteq Seq(Paths)
  BY <1>3, SeqMore
<1>7. [cmd : Path, args : Seq(Path)] \subseteq [cmd : Paths, args : Seq(Paths)]
  BY <1>3, <1>6
<1> QED  BY <1>1, <1>3, <1>4, <1>5, <1>7

LEMMA CommandIs ==
  ASSUME NEW name \in Names, name \notin {Up, Here}, NEW does \in STRING,
         name \in DOMAIN Aliases => Aliases[name] \in [cmd : Paths, args : Seq(Paths)]
  PROVE  CmdNode(name, does) \in NodeRecs /\ CmdNode(name, does).type # "dir"
<1> DEFINE e == CmdNode(name, does)
<1>0. Null \in 0..NbNodes
  BY PoolAssumption DEF Null
<1>1. CASE name \in DOMAIN Aliases
  <2>1. e = [type |-> "alias", name |-> name, parent |-> Null, func |-> does,
             alias |-> <<Aliases[name]>>]
    BY <1>1 DEF CmdNode
  <2> HIDE DEF e
  <2>2. <<Aliases[name]>> \in Seq([cmd : Paths, args : Seq(Paths)]) /\ Len(<<Aliases[name]>>) = 1
    BY <1>1
  <2> DEFINE al == <<Aliases[name]>>
  <2> HIDE DEF al
  <2>3. e = [type |-> "alias", name |-> name, parent |-> Null, func |-> does, alias |-> al]
        /\ al \in Seq([cmd : Paths, args : Seq(Paths)]) /\ Len(al) = 1
    BY <2>1, <2>2 DEF al
  <2>4. "alias" \in All /\ does \in Funcs
    BY DEF All, Exe, Funcs
  <2>5. e \in Records /\ e.name = name /\ e.alias = al /\ e.type = "alias"
    BY <1>0, <2>3, <2>4 DEF Records
  <2>6. e \in NodeRecs /\ e.type # "dir"
    BY <2>3, <2>5 DEF NodeRecs
  <2> QED  BY <2>6 DEF e
<1>2. CASE name \notin DOMAIN Aliases
  <2>1. e = [type |-> "cmd", name |-> name, parent |-> Null, func |-> does, alias |-> <<>>]
    BY <1>2 DEF CmdNode
  <2> HIDE DEF e
  <2>2. <<>> \in Seq([cmd : Paths, args : Seq(Paths)])
    OBVIOUS
  <2>4. "cmd" \in All /\ does \in Funcs
    BY DEF All, Exe, Funcs
  <2>5. e \in Records /\ e.name = name /\ e.type = "cmd"
    BY <1>0, <2>1, <2>2, <2>4 DEF Records
  <2>6. e \in NodeRecs /\ e.type # "dir"
    BY <2>5 DEF NodeRecs
  <2> QED  BY <2>6 DEF e
<1> QED  BY <1>1, <1>2

LEMMA FileIs ==
  LET e == File(<<"copyright">>)
  IN e \in NodeRecs /\ e.type # "dir" /\ e.name = <<"copyright">>
<1> DEFINE e == File(<<"copyright">>)
           nm == <<"copyright">>
<1>1. e = [type |-> "file", name |-> nm, parent |-> Null, func |-> "file", alias |-> <<>>]
  BY DEF File
<1>2. nm \in Names
  <2>1. "copyright" \in Symbols
    BY DEF Symbols
  <2> QED  BY <2>1 DEF Names
<1> HIDE DEF e, nm
<1>3. Null \in 0..NbNodes
  BY PoolAssumption DEF Null
<1>4. <<>> \in Seq([cmd : Paths, args : Seq(Paths)])
  OBVIOUS
<1>5. "file" \in All /\ "file" \in Funcs
  BY DEF All, Funcs
<1>6. e \in Records /\ e.name = nm /\ e.type = "file"
  BY <1>1, <1>2, <1>3, <1>4, <1>5 DEF Records
<1>7. e \in NodeRecs /\ e.type # "dir"
  BY <1>6 DEF NodeRecs, Exe
<1> QED  BY <1>6, <1>7 DEF e, nm

LEMMA EntriesAre ==
  ASSUME NEW list \in {SbinCmds, BinCmds}
  PROVE  LET n == Cardinality(DOMAIN list) IN
         /\ n \in Nat /\ Len(Entries(list)) = n
         /\ \E S : Entries(list) \in Seq(S)
         /\ \E recs : \A k \in 1..n : /\ Entries(list)[k] = [type |-> "node", node |-> recs[k]]
                                      /\ recs[k] \in NodeRecs /\ recs[k].type # "dir"
<1> DEFINE D == DOMAIN list
           n == Cardinality(D)
           names == SetToSeq(D)
           recs == [k \in 1..n |-> CmdNode(names[k], list[names[k]])]
           ent == [k \in 1..n |-> [type |-> "node", node |-> recs[k]]]
<1>1. IsFiniteSet(D) /\ D \subseteq Seq(STRING) \ {Up, Here} /\ \A name \in D : list[name] \in STRING
  BY TablesAssumption
<1>2. n \in Nat /\ ExistsBijection(1..n, D)
  BY <1>1, FS_CardinalityType
<1> HIDE DEF n
<1>3. \E f \in [1..n -> D] : IsInjective(f)
  BY <1>2 DEF ExistsBijection, Bijection, Injection, IsInjective
<1>4. names \in [1..n -> D]
  BY <1>3 DEF SetToSeq, n
<1> HIDE DEF names, D
<1>5. Entries(list) = ent
  <2>1. DOMAIN names = 1..n
    BY <1>4
  <2>2. Entries(list) = [k \in DOMAIN names |->
                           [type |-> "node", node |-> CmdNode(names[k], list[names[k]])]]
    BY DEF Entries, names, D
  <2> QED  BY <2>1, <2>2
<1>6. ASSUME NEW k \in 1..n PROVE recs[k] \in NodeRecs /\ recs[k].type # "dir"
  <2> DEFINE name == names[k]
             does == list[names[k]]
  <2>1. name \in D
    BY <1>4
  <2>2. name \in Names /\ name \notin {Up, Here} /\ does \in STRING
    BY <1>1, <2>1, WordsAre
  <2>3. name \in DOMAIN Aliases => Aliases[name] \in [cmd : Paths, args : Seq(Paths)]
    BY TablesAssumption, WordsAre
  <2>4. recs[k] = CmdNode(name, does)
    OBVIOUS
  <2> HIDE DEF name, does, recs
  <2> QED  BY <2>2, <2>3, <2>4, CommandIs
<1> HIDE DEF recs
<1>7. \A k \in 1..n : ent[k] = [type |-> "node", node |-> recs[k]]
  OBVIOUS
<1>8. ent \in Seq({ent[k] : k \in 1..n}) /\ Len(ent) = n
  <2> HIDE DEF ent
  <2>1. DOMAIN ent = 1..n /\ ent = [k \in 1..n |-> ent[k]]
    BY DEF ent
  <2>2. ent \in [1..n -> {ent[k] : k \in 1..n}]
    BY <2>1
  <2> QED  BY <1>2, <2>1, <2>2
<1> QED  BY <1>2, <1>5, <1>6, <1>7, <1>8 DEF n, D

(* A table of some entries and the commands behind them.                   *)
LEMMA TableOf ==
  ASSUME NEW S, NEW s \in Seq(S), NEW T, NEW t \in Seq(T)
  PROVE  /\ s \o t \in Seq(S \cup T) /\ Len(s \o t) = Len(s) + Len(t)
         /\ \A k \in 1..Len(s) : (s \o t)[k] = s[k]
         /\ \A k \in 1..Len(t) : (s \o t)[Len(s) + k] = t[k]
<1> DEFINE U == S \cup T
<1>1. s \in Seq(U) /\ t \in Seq(U)
  BY SeqMore
<1> HIDE DEF U
<1>2. Len(s) \in Nat /\ Len(t) \in Nat
  BY LenProperties
<1>3. /\ s \o t \in Seq(U) /\ Len(s \o t) = Len(s) + Len(t)
      /\ \A i \in 1..(Len(s) + Len(t)) : (s \o t)[i] = IF i <= Len(s) THEN s[i] ELSE t[i - Len(s)]
  BY <1>1, ConcatProperties
<1>4. ASSUME NEW k \in 1..Len(t) PROVE (s \o t)[Len(s) + k] = t[k]
  <2>1. Len(s) + k \in 1..(Len(s) + Len(t)) /\ ~(Len(s) + k <= Len(s)) /\ (Len(s) + k) - Len(s) = k
    BY <1>2
  <2> QED  BY <1>3, <2>1
<1>5. ASSUME NEW k \in 1..Len(s) PROVE (s \o t)[k] = s[k]
  BY <1>2, <1>3
<1> QED  BY <1>3, <1>4, <1>5 DEF U

(***************************************************************************)
(* The tree init_tree builds.                                              *)
(***************************************************************************)
nCopyright == <<"copyright">>
nSbin == <<<<"sbin">>>>
nBin == <<<<"pktgen">>, <<"bin">>>>

LEMMA NamesApart ==
  /\ nCopyright \in Names /\ nSbin \in Seq(Names) /\ nBin \in Seq(Names)
  /\ Len(nSbin) = 1 /\ Len(nBin) = 2
  /\ ToSet(nSbin) = {<<"sbin">>} /\ ToSet(nBin) = {<<"pktgen">>, <<"bin">>}
  /\ RootName \notin ToSet(nSbin) /\ RootName \notin ToSet(nBin)
  /\ \A k \in 1..1 : Joining(nSbin, k) \notin {nCopyright} \cup {Up, Here}
  /\ \A k \in 1..2 : Joining(nBin, k) \notin ({nCopyright} \cup ToSet(nSbin)) \cup {Up, Here}
<1> DEFINE sbin == <<"sbin">>
           pktgen == <<"pktgen">>
           bin == <<"bin">>
<1>1. nCopyright \in Names /\ sbin \in Names /\ pktgen \in Names /\ bin \in Names
  <2>1. "copyright" \in Symbols /\ "sbin" \in Symbols /\ "pktgen" \in Symbols /\ "bin" \in Symbols
    BY DEF Symbols
  <2> QED  BY <2>1 DEF Names, nCopyright
<1>2. nSbin \in Seq(Names) /\ nBin \in Seq(Names)
  BY <1>1 DEF nSbin, nBin
<1>3. Len(nSbin) = 1 /\ Len(nBin) = 2 /\ nSbin[1] = sbin /\ nBin[1] = pktgen /\ nBin[2] = bin
  BY DEF nSbin, nBin
<1>4. ToSet(nSbin) = {sbin} /\ ToSet(nBin) = {pktgen, bin}
  <2>1. DOMAIN nSbin = 1..1 /\ DOMAIN nBin = 1..2
    BY <1>2, <1>3, LenProperties
  <2>2. 1..1 = {1} /\ 1..2 = {1, 2}
    OBVIOUS
  <2> QED  BY <1>3, <2>1, <2>2 DEF ToSet
<1>5. Joining(nSbin, 1) = sbin /\ Joining(nBin, 1) = pktgen
  BY <1>2, <1>3, JoiningFacts DEF Names
<1>6. Joining(nBin, 2) = pktgen \o bin
  <2>1. 1 \in 1..(Len(nBin) - 1)
    BY <1>3
  <2>2. \A k \in 1..(Len(nBin) - 1) : Joining(nBin, k + 1) = Joining(nBin, k) \o nBin[k + 1]
    BY <1>2, JoiningFacts DEF Names
  <2>3. Joining(nBin, 1 + 1) = Joining(nBin, 1) \o nBin[1 + 1]
    BY <2>1, <2>2
  <2> HIDE DEF pktgen, bin
  <2>4. 1 + 1 = 2
    OBVIOUS
  <2> QED  BY <1>3, <1>5, <2>3, <2>4
<1>7. (pktgen \o bin)[1] = "pktgen"
  <2>1. pktgen \in Seq(Symbols) /\ bin \in Seq(Symbols) /\ Len(pktgen) = 1 /\ Len(bin) = 1
        /\ pktgen[1] = "pktgen"
    BY <1>1 DEF Names
  <2> HIDE DEF pktgen, bin
  <2>2. \A i \in 1..(Len(pktgen) + Len(bin)) : (pktgen \o bin)[i] =
           IF i <= Len(pktgen) THEN pktgen[i] ELSE bin[i - Len(pktgen)]
    BY <2>1, ConcatProperties
  <2>3. 1 \in 1..(Len(pktgen) + Len(bin)) /\ 1 <= Len(pktgen)
    BY <2>1
  <2>4. (pktgen \o bin)[1] = pktgen[1]
    BY <2>2, <2>3
  <2> QED  BY <2>1, <2>4
<1>8. /\ nCopyright[1] = "copyright" /\ sbin[1] = "sbin" /\ pktgen[1] = "pktgen" /\ bin[1] = "bin"
      /\ Up[1] = "." /\ Here[1] = "." /\ RootName[1] = "/"
  BY DEF nCopyright, Up, Here, RootName
<1> DEFINE joined == pktgen \o bin
<1> HIDE DEF sbin, pktgen, bin, joined
<1>9. RootName \notin ToSet(nSbin) /\ RootName \notin ToSet(nBin)
  BY <1>4, <1>8
<1>10. \A k \in 1..1 : Joining(nSbin, k) \notin {nCopyright} \cup {Up, Here}
  BY <1>5, <1>8
<1>11. pktgen \notin ({nCopyright} \cup ToSet(nSbin)) \cup {Up, Here}
  BY <1>4, <1>8
<1>12. joined \notin ({nCopyright} \cup ToSet(nSbin)) \cup {Up, Here}
  BY <1>4, <1>7, <1>8 DEF joined
<1>13. ASSUME NEW k \in 1..2
       PROVE  Joining(nBin, k) \notin ({nCopyright} \cup ToSet(nSbin)) \cup {Up, Here}
  <2>1. k = 1 \/ k = 2
    OBVIOUS
  <2> QED  BY <1>5, <1>6, <1>11, <1>12, <2>1 DEF joined
<1> QED  BY <1>1, <1>2, <1>3, <1>4, <1>9, <1>10, <1>13 DEF sbin, pktgen, bin

(* cli_default_tree.                                                       *)
LEMMA DefaultTreeInv ==
  ASSUME NEW room \in Nat
  PROVE  LET n == Cardinality(DOMAIN SbinCmds)
             c == AddTree(Created, cli_default_tree)
         IN (room + 3) + n <= NbNodes =>
              TreeInv(c) /\ Rooted(c, {nCopyright} \cup ToSet(nSbin)) /\ Len(c.free) >= room
<1> DEFINE n == Cardinality(DOMAIN SbinCmds)
           ent == Entries(SbinCmds)
           e1 == [type |-> "node", node |-> File(nCopyright)]
           e2 == [type |-> "dir", path |-> Abs(nSbin), bin |-> TRUE]
           pre == <<e1, e2>>
           tab == pre \o ent
           old == {nCopyright}
<1> SUFFICES ASSUME (room + 3) + n <= NbNodes
             PROVE  LET c == AddTree(Created, cli_default_tree) IN
                    TreeInv(c) /\ Rooted(c, old \cup ToSet(nSbin)) /\ Len(c.free) >= room
  OBVIOUS
<1>1. cli_default_tree = tab
  BY DEF cli_default_tree, nCopyright, nSbin
<1>2. n \in Nat /\ Len(ent) = n
  BY EntriesAre
<1>3. PICK T : ent \in Seq(T)
  BY EntriesAre
<1>4. PICK recs : \A k \in 1..n : /\ ent[k] = [type |-> "node", node |-> recs[k]]
                                  /\ recs[k] \in NodeRecs /\ recs[k].type # "dir"
  BY EntriesAre
<1>5. pre \in Seq({e1, e2}) /\ Len(pre) = 2 /\ pre[1] = e1 /\ pre[2] = e2
  <2> HIDE DEF e1, e2
  <2> QED  OBVIOUS
<1> DEFINE S0 == {e1, e2}
<1> HIDE DEF pre, ent, n, e1, e2, S0
<1>16. pre \in Seq(S0)
  BY <1>5 DEF S0
<1>6. /\ tab \in Seq(S0 \cup T) /\ Len(tab) = Len(pre) + Len(ent)
      /\ \A k \in 1..Len(pre) : tab[k] = pre[k]
      /\ \A k \in 1..Len(ent) : tab[Len(pre) + k] = ent[k]
  BY <1>3, <1>16, TableOf
<1> HIDE DEF tab
<1>7. PICK h : /\ h[0] = [cli |-> Created, parent |-> Created.root]
               /\ \A i \in 1..Len(tab) : h[i] = TableOn(h[i - 1], tab[i])
               /\ AddTree(Created, tab) = h[Len(tab)].cli
  BY <1>6, TableComes
<1>8. /\ Len(tab) = 2 + n /\ tab[1] = e1 /\ tab[2] = e2
      /\ \A k \in 1..n : tab[2 + k] = ent[k]
  BY <1>2, <1>5, <1>6
<1>9. TableIs(h[0], 1, old, NbNodes - 1)
  <2>1. TableIs(h[0], 1, {}, NbNodes - 1)
    BY <1>7, CreatedIs
  <2>2. Rooted(h[0].cli, {}) => Rooted(h[0].cli, old)
    BY DEF Rooted
  <2> QED  BY <2>1, <2>2 DEF TableIs
<1>10. /\ NbNodes \in Nat /\ (room + n) + 3 <= NbNodes /\ room + n \in Nat
  BY <1>2, PoolAssumption
<1>11. TableIs(h[0], 1, old, ((room + n) + 1) + 1)
  <2>1. \A a \in Nat : a >= NbNodes - 1 => a >= ((room + n) + 1) + 1
    BY <1>10
  <2>2. Len(h[0].cli.free) \in Nat
    <3>1. h[0].cli.free \in Seq(Nodes)
      BY <1>9, Parts DEF TableIs
    <3> QED  BY <3>1, LenProperties
  <2> QED  BY <1>9, <2>1, <2>2 DEF TableIs
<1>12. TableIs(h[1], 1, old, (room + n) + 1)
  <2>1. h[1] = TableOn(h[0], [type |-> "node", node |-> File(nCopyright)])
    <3>1. 1 \in 1..Len(tab) /\ 1 - 1 = 0
      BY <1>2, <1>8
    <3> QED  BY <1>7, <1>8, <3>1 DEF e1
  <2>2. File(nCopyright) \in NodeRecs /\ File(nCopyright).type # "dir"
        /\ File(nCopyright).name \in old
    BY FileIs DEF nCopyright
  <2>3. (room + n) + 1 \in Nat
    BY <1>10
  <2> DEFINE new == File(nCopyright)
             q == (room + n) + 1
             s == h[0]
             r == h[1]
  <2>4. /\ q \in Nat /\ TableIs(s, 1, old, q + 1) /\ new \in NodeRecs /\ new.type # "dir"
        /\ new.name \in old /\ r = TableOn(s, [type |-> "node", node |-> new])
    BY <1>11, <2>1, <2>2, <2>3
  <2> HIDE DEF new, q, s, r, old
  <2>5. TableIs(r, 1, old, q)
    BY <2>4, NodeOn
  <2> QED  BY <2>5 DEF q, r
<1>13. TableIs(h[2], h[2].parent, old \cup ToSet(nSbin), room + n) /\ h[2].parent # 1
  <2>1. h[2] = TableOn(h[1], [type |-> "dir", path |-> Abs(nSbin), bin |-> TRUE])
    <3>1. 2 \in 1..Len(tab) /\ 2 - 1 = 1
      BY <1>2, <1>8
    <3> QED  BY <1>7, <1>8, <3>1 DEF e2
  <2> DEFINE seq == nSbin
             q == room + n
             s == h[1]
             r == h[2]
  <2>2. /\ q \in Nat /\ seq \in Seq(Names) /\ Len(seq) > 0 /\ TableIs(s, 1, old, q + Len(seq))
        /\ RootName \notin ToSet(seq) /\ \A k \in 1..Len(seq) : Joining(seq, k) \notin old \cup {Up, Here}
        /\ r = TableOn(s, [type |-> "dir", path |-> Abs(seq), bin |-> TRUE])
    BY <1>10, <1>12, <2>1, NamesApart
  <2> HIDE DEF seq, q, s, r, old
  <2>3. TableIs(r, r.parent, old \cup ToSet(seq), q) /\ r.parent # 1
    BY <2>2, DirEntry
  <2> QED  BY <2>3 DEF q, r, seq
<1> DEFINE p == h[2].parent
           all == old \cup ToSet(nSbin)
<1>14. TableIs(h[2 + n], p, all, room)
  <2>1. ASSUME NEW k \in 1..n
        PROVE  /\ h[2 + k] = TableOn(h[2 + (k - 1)], [type |-> "node", node |-> recs[k]])
               /\ recs[k] \in NodeRecs /\ recs[k].type # "dir"
    <3>1. 2 + k \in 1..Len(tab) /\ (2 + k) - 1 = 2 + (k - 1)
      BY <1>2, <1>8
    <3>2. h[2 + k] = TableOn(h[(2 + k) - 1], tab[2 + k])
      BY <1>7, <3>1
    <3> QED  BY <1>4, <1>8, <3>1, <3>2
  <2>2. p # 1 /\ TableIs(h[2], p, all, room + n)
    BY <1>13
  <2> HIDE DEF p, all
  <2> QED  BY <1>2, <2>1, <2>2, NodesOn
<1>15. AddTree(Created, cli_default_tree) = h[2 + n].cli
  BY <1>1, <1>7, <1>8
<1> QED  BY <1>14, <1>15 DEF TableIs

(* default_tree.                                                           *)
LEMMA PktgenTreeInv ==
  ASSUME NEW c, TreeInv(c), Rooted(c, {nCopyright} \cup ToSet(nSbin)),
         Len(c.free) >= Cardinality(DOMAIN BinCmds) + 2
  PROVE  TreeInv(AddTree(c, default_tree))
<1> DEFINE n == Cardinality(DOMAIN BinCmds)
           ent == Entries(BinCmds)
           e1 == [type |-> "dir", path |-> Abs(nBin), bin |-> FALSE]
           pre == <<e1>>
           tab == pre \o ent
           old == {nCopyright} \cup ToSet(nSbin)
<1>1. default_tree = tab
  BY DEF default_tree, nBin
<1>2. n \in Nat /\ Len(ent) = n
  BY EntriesAre
<1>3. PICK T : ent \in Seq(T)
  BY EntriesAre
<1>4. PICK recs : \A k \in 1..n : /\ ent[k] = [type |-> "node", node |-> recs[k]]
                                  /\ recs[k] \in NodeRecs /\ recs[k].type # "dir"
  BY EntriesAre
<1>5. pre \in Seq({e1}) /\ Len(pre) = 1 /\ pre[1] = e1
  <2> HIDE DEF e1
  <2> QED  OBVIOUS
<1>0. Len(c.free) >= n + 2
  OBVIOUS
<1> HIDE DEF pre, ent, n, e1
<1>6. /\ tab \in Seq({e1} \cup T) /\ Len(tab) = Len(pre) + Len(ent)
      /\ \A k \in 1..Len(pre) : tab[k] = pre[k]
      /\ \A k \in 1..Len(ent) : tab[Len(pre) + k] = ent[k]
  <2> DEFINE E == {e1}
  <2>1. pre \in Seq(E) /\ ent \in Seq(T)
    BY <1>3, <1>5
  <2> HIDE DEF E
  <2>2. /\ pre \o ent \in Seq(E \cup T) /\ Len(pre \o ent) = Len(pre) + Len(ent)
        /\ \A k \in 1..Len(pre) : (pre \o ent)[k] = pre[k]
        /\ \A k \in 1..Len(ent) : (pre \o ent)[Len(pre) + k] = ent[k]
    BY <2>1, TableOf
  <2> QED  BY <2>2 DEF E
<1> HIDE DEF tab
<1>7. PICK h : /\ h[0] = [cli |-> c, parent |-> c.root]
               /\ \A i \in 1..Len(tab) : h[i] = TableOn(h[i - 1], tab[i])
               /\ AddTree(c, tab) = h[Len(tab)].cli
  BY <1>6, TableComes
<1>8. /\ Len(tab) = 1 + n /\ tab[1] = e1
      /\ \A k \in 1..n : tab[1 + k] = ent[k]
  BY <1>2, <1>5, <1>6
<1>9. TableIs(h[0], 1, old, n + 2)
  <2>1. c \in Trees /\ Placed(c)
    BY DEF TreeInv
  <2>2. c.root = 1 /\ 1 \in 0..NbNodes
    BY <2>1, Parts
  <2>3. h[0] = [cli |-> c, parent |-> 1]
    BY <1>7, <2>2
  <2>4. h[0] \in [cli : Trees, parent : 0..NbNodes] /\ h[0].cli = c /\ h[0].parent = 1
    BY <2>1, <2>2, <2>3
  <2> QED  BY <1>0, <2>1, <2>4 DEF TableIs, Placed
<1>10. TableIs(h[1], h[1].parent, old \cup ToSet(nBin), n) /\ h[1].parent # 1
  <2>1. h[1] = TableOn(h[0], [type |-> "dir", path |-> Abs(nBin), bin |-> FALSE])
    <3>1. 1 \in 1..Len(tab) /\ 1 - 1 = 0
      BY <1>2, <1>8
    <3> QED  BY <1>7, <1>8, <3>1 DEF e1
  <2> DEFINE seq == nBin
             s == h[0]
             r == h[1]
  <2>2. /\ n \in Nat /\ seq \in Seq(Names) /\ Len(seq) > 0 /\ TableIs(s, 1, old, n + Len(seq))
        /\ RootName \notin ToSet(seq) /\ \A k \in 1..Len(seq) : Joining(seq, k) \notin old \cup {Up, Here}
        /\ r = TableOn(s, [type |-> "dir", path |-> Abs(seq), bin |-> FALSE])
    BY <1>2, <1>9, <2>1, NamesApart
  <2> HIDE DEF seq, s, r, old
  <2>3. TableIs(r, r.parent, old \cup ToSet(seq), n) /\ r.parent # 1
    BY <2>2, DirEntry
  <2> QED  BY <2>3 DEF r, seq
<1> DEFINE p == h[1].parent
           all == old \cup ToSet(nBin)
<1>11. TableIs(h[1 + n], p, all, 0)
  <2>1. ASSUME NEW k \in 1..n
        PROVE  /\ h[1 + k] = TableOn(h[1 + (k - 1)], [type |-> "node", node |-> recs[k]])
               /\ recs[k] \in NodeRecs /\ recs[k].type # "dir"
    <3>1. 1 + k \in 1..Len(tab) /\ (1 + k) - 1 = 1 + (k - 1)
      BY <1>2, <1>8
    <3>2. h[1 + k] = TableOn(h[(1 + k) - 1], tab[1 + k])
      BY <1>7, <3>1
    <3> QED  BY <1>4, <1>8, <3>1, <3>2
  <2>2. p # 1 /\ TableIs(h[1], p, all, 0 + n)
    BY <1>2, <1>10
  <2> HIDE DEF p, all
  <2> QED  BY <1>2, <2>1, <2>2, NodesOn
<1>12. AddTree(c, default_tree) = h[1 + n].cli
  BY <1>1, <1>7, <1>8
<1> QED  BY <1>11, <1>12 DEF TableIs

LEMMA InitTreeInv == TreeInv(InitTree)
<1> DEFINE n == Cardinality(DOMAIN SbinCmds)
           b == Cardinality(DOMAIN BinCmds)
           c1 == AddTree(Created, cli_default_tree)
           c2 == AddTree(c1, default_tree)
           path == Abs(<<<<"pktgen">>, <<"bin">>>>)
<1>1. n \in Nat /\ b \in Nat /\ n + b + 5 <= NbNodes
  BY EntriesAre, RoomAssumption
<1>2. b + 2 \in Nat /\ ((b + 2) + 3) + n <= NbNodes
  <2> HIDE DEF n, b
  <2> QED  BY <1>1, PoolAssumption
<1>3. TreeInv(c1) /\ Rooted(c1, {nCopyright} \cup ToSet(nSbin)) /\ Len(c1.free) >= b + 2
  BY <1>2, DefaultTreeInv
<1> HIDE DEF c1
<1>4. TreeInv(c2)
  BY <1>3, PktgenTreeInv
<1> HIDE DEF c2
<1>5. path \in Paths
  BY NamesApart DEF Abs, Paths, nBin
<1>6. InitTree = AddBin(c2, FindNode(c2, path))
  BY DEF InitTree, c1, c2
<1> HIDE DEF path
<1>7. FindNode(c2, path) \in Held(c2) \cup {Null}
  BY <1>4, <1>5, FindIs
<1> QED  BY <1>4, <1>6, <1>7, AddBinInv

(***************************************************************************)
(* The commands.                                                           *)
(***************************************************************************)
Args == Seq(Paths)
Envs == Seq([var : Paths, val : Paths])

(* cli_find_cmd, which also looks in the directories of the path.          *)
Named(c, path, k) ==
  IF c.bins[k] = Null \/ path.abs \/ Len(path.names) # 1 THEN Null
  ELSE SearchDir(c, c.bins[k], path.names[1], Exe)
LEMMA FindCmdIs ==
  ASSUME NEW c, TreeInv(c), NEW path \in Paths
  PROVE  /\ FindCmd(c, path) \in Held(c) \cup {Null}
         /\ FindNode(c, path) = Null =>
              LET hits == {k \in 1..MaxBins : Named(c, path, k) # Null} IN
              FindCmd(c, path) = IF hits = {} THEN Null ELSE Named(c, path, Min(hits))
         /\ FindNode(c, path) # Null => FindCmd(c, path) = FindNode(c, path)
<1> DEFINE hits == {k \in 1..MaxBins : Named(c, path, k) # Null}
<1>1. FindCmd(c, path) = IF FindNode(c, path) # Null THEN FindNode(c, path)
                         ELSE IF hits = {} THEN Null ELSE Named(c, path, Min(hits))
  BY DEF FindCmd, Named
<1>2. FindNode(c, path) \in Held(c) \cup {Null}
  BY FindIs
<1>3. ASSUME NEW k \in 1..MaxBins PROVE Named(c, path, k) \in Held(c) \cup {Null}
  <2>1. CASE c.bins[k] = Null
    BY <2>1 DEF Named
  <2>2. CASE c.bins[k] # Null
    <3>1. c.bins[k] \in Held(c) /\ IsDir(c, c.bins[k])
      BY <2>2 DEF TreeInv, Pointing
    <3>2. SearchDir(c, c.bins[k], path.names[1], Exe) \in Held(c) \cup {Null}
      BY <3>1, SearchFacts
    <3> QED  BY <3>2 DEF Named
  <2> QED  BY <2>1, <2>2
<1>4. hits # {} => Min(hits) \in 1..MaxBins
  <2>1. hits \in SUBSET Nat /\ hits \subseteq 1..MaxBins
    OBVIOUS
  <2> HIDE DEF hits
  <2> QED  BY <2>1, LeastOf
<1>5. FindCmd(c, path) \in Held(c) \cup {Null}
  <2> HIDE DEF hits
  <2> QED  BY <1>1, <1>2, <1>3, <1>4
<1> QED  BY <1>1, <1>5

LEMMA WordIs ==
  ASSUME NEW s \in {"freed", "oops"}
  PROVE  Word(s) \in Paths
<1>1. s \in Symbols
  BY DEF Symbols
<1>2. <<<<s>>>> \in Seq(Names)
  BY <1>1 DEF Names
<1> QED  BY <1>2 DEF Word, Rel, Paths

LEMMA FoundIn ==
  ASSUME NEW e \in Envs, NEW var, Found(e, var) # {}
  PROVE  /\ Min(Found(e, var)) \in 1..Len(e) /\ e[Min(Found(e, var))].var = var
         /\ e[Min(Found(e, var))] \in [var : Paths, val : Paths]
<1> DEFINE f == Found(e, var)
<1>1. DOMAIN e = 1..Len(e) /\ Len(e) \in Nat
  BY LenProperties DEF Envs
<1>2. f = {k \in 1..Len(e) : e[k].var = var}
  BY <1>1 DEF Found
<1>3. f \in SUBSET Nat
  BY <1>1, <1>2
<1>4. Min(f) \in f
  <2> HIDE DEF f
  <2> QED  BY <1>3, LeastOf DEF f
<1>5. Min(f) \in 1..Len(e) /\ e[Min(f)].var = var
  BY <1>2, <1>4
<1> QED  BY <1>5, ElementOfSeq DEF Envs

LEMMA SubstitutedIs ==
  ASSUME NEW e \in Envs, NEW word \in Paths \cup [var : Paths]
  PROVE  Substituted(e, word) \in Paths
<1>1. CASE word \in Paths
  <2>1. DOMAIN word = {"abs", "names"}
    BY <1>1 DEF Paths
  <2> QED  BY <1>1, <2>1 DEF Substituted
<1>2. CASE word \in [var : Paths]
  <2>1. CASE Found(e, word.var) = {}
    BY <2>1, WordIs, <1>2 DEF Substituted
  <2>2. CASE Found(e, word.var) # {}
    <3>1. e[Min(Found(e, word.var))] \in [var : Paths, val : Paths]
      BY <2>2, FoundIn
    <3>2. Substituted(e, word) = e[Min(Found(e, word.var))].val
      BY <1>2, <2>2 DEF Substituted
    <3> QED  BY <3>1, <3>2
  <2> QED  BY <2>1, <2>2
<1> QED  BY <1>1, <1>2

LEMMA EnvSetIs ==
  ASSUME NEW e \in Envs, NEW var \in Paths, NEW val \in Paths
  PROVE  EnvSet(e, var, val) \in Envs /\ EnvDel(e, var) \in Envs
<1> DEFINE T == [var : Paths, val : Paths]
<1>0. e \in Seq(T) /\ Len(e) \in Nat
  BY LenProperties DEF Envs
<1>1. CASE Found(e, var) = {}
  <2>1. [var |-> var, val |-> val] \in T
    OBVIOUS
  <2>2. Append(e, [var |-> var, val |-> val]) \in Seq(T)
    BY <1>0, <2>1
  <2>3. EnvSet(e, var, val) = Append(e, [var |-> var, val |-> val]) /\ EnvDel(e, var) = e
    BY <1>1 DEF EnvSet, EnvDel
  <2> QED  BY <2>2, <2>3 DEF Envs
<1>2. CASE Found(e, var) # {}
  <2> DEFINE i == Min(Found(e, var))
             x == [var |-> val, val |-> Freed]
  <2>1. i \in 1..Len(e)
    BY <1>2, FoundIn
  <2>2. x \in T
    BY WordIs DEF Freed
  <2>3. EnvSet(e, var, val) = [e EXCEPT ![i] = x] /\ EnvDel(e, var) = RemoveAt(e, i)
    BY <1>2 DEF EnvSet, EnvDel
  <2> HIDE DEF i, x
  <2> HIDE DEF T
  <2>4. [e EXCEPT ![i] = x] \in Seq(T)
    BY <1>0, <2>1, <2>2
  <2>5. RemoveAt(e, i) \in Seq(T)
    BY <1>0, <2>1, CutFacts
  <2> QED  BY <2>3, <2>4, <2>5 DEF Envs, T
<1> QED  BY <1>1, <1>2

(* What cli_execute runs.                                                  *)
LEMMA ResolvedIs ==
  ASSUME env \in Envs, NEW l \in Lines
  PROVE  Resolved(l) \in [cmd : Paths, args : Args]
<1> DEFINE W == Paths \cup [var : Paths]
<1>1. l.cmd \in W /\ l.args \in Seq(W)
  <2>1. l \in [cmd : Words, args : Seq(Words)]
    BY LinesAssumption
  <2> QED  BY <2>1, WordsAre
<1>2. Substituted(env, l.cmd) \in Paths
  BY <1>1, SubstitutedIs
<1> DEFINE n == Len(l.args)
           args == [k \in DOMAIN l.args |-> Substituted(env, l.args[k])]
<1>3. DOMAIN l.args = 1..n /\ n \in Nat /\ \A k \in 1..n : l.args[k] \in W
  BY <1>1, LenProperties, ElementOfSeq
<1>4. \A k \in 1..n : Substituted(env, l.args[k]) \in Paths
  BY <1>3, SubstitutedIs
<1> HIDE DEF n
<1>5. args \in [1..n -> Paths]
  BY <1>3, <1>4
<1>6. args \in Args
  <2> HIDE DEF args
  <2> QED  BY <1>3, <1>5 DEF Args
<1>7. Resolved(l) = [cmd |-> Substituted(env, l.cmd), args |-> args]
  BY DEF Resolved
<1> HIDE DEF args
<1> QED  BY <1>2, <1>6, <1>7

LEMMA ExpandedIs ==
  ASSUME TreeInv(cli), NEW l \in [cmd : Paths, args : Args]
  PROVE  Expanded(l) \in [cmd : Paths, args : Args]
<1> DEFINE n == FindCmd(cli, l.cmd)
<1>1. l.cmd \in Paths /\ l.args \in Args
  OBVIOUS
<1>2. n \in Held(cli) \cup {Null}
  BY <1>1, FindCmdIs
<1>3. CASE n # Null /\ cli.node[n].type = "alias"
  <2> DEFINE r == cli.node[n]
             a == r.alias[1]
  <2>1. cli.node \in [Nodes -> NodeRecs] /\ n \in Nodes
    BY <1>2, <1>3, Parts DEF TreeInv, Held
  <2>2. r \in NodeRecs
    BY <2>1
  <2>3. r.alias \in Seq([cmd : Paths, args : Seq(Paths)]) /\ Len(r.alias) = 1
    BY <1>3, <2>2 DEF NodeRecs, Records
  <2> DEFINE al == r.alias
  <2> HIDE DEF al
  <2>4. al[1] \in [cmd : Paths, args : Seq(Paths)]
    <3>1. al \in Seq([cmd : Paths, args : Seq(Paths)]) /\ 1 \in 1..Len(al)
      BY <2>3 DEF al
    <3> QED  BY <3>1, ElementOfSeq
  <2>5. a \in [cmd : Paths, args : Args]
    BY <2>4 DEF al, Args
  <2>6. Expanded(l) = [cmd |-> a.cmd, args |-> a.args \o l.args]
    BY <1>3 DEF Expanded
  <2> HIDE DEF a
  <2> DEFINE b == a.args
             d == l.args
  <2>7. b \in Args /\ d \in Args
    BY <1>1, <2>5
  <2> HIDE DEF b, d
  <2>8. b \o d \in Args
    BY <2>7 DEF Args
  <2> QED  BY <2>5, <2>6, <2>8 DEF b, d
<1>4. CASE ~(n # Null /\ cli.node[n].type = "alias")
  BY <1>4 DEF Expanded
<1> QED  BY <1>3, <1>4

(* cd: the working directory is a directory of the tree.                   *)
LEMMA CdInv ==
  ASSUME NEW c, TreeInv(c), NEW n \in Held(c), IsDir(c, n), NEW r, r = [c EXCEPT !.bins[1] = n]
  PROVE  TreeInv(r)
<1>0. c \in Trees /\ IsInjective(c.free) /\ Placed(c) /\ Pointing(c) /\ n \in Nodes
  BY DEF TreeInv, Held
<1>1. c.bins \in [1..MaxBins -> 0..NbNodes] /\ 1 \in 1..MaxBins /\ n \in 0..NbNodes /\ MaxBins \in Nat
      /\ Null \notin Nodes
  BY <1>0, Parts
<1> DEFINE b == [c.bins EXCEPT ![1] = n]
<1>2. r = [c EXCEPT !.bins = b]
  BY <1>0 DEF Trees
<1>3. /\ b \in [1..MaxBins -> 0..NbNodes] /\ b[1] = n
      /\ \A k \in 2..MaxBins : b[k] = c.bins[k]
      /\ \A k \in 1..MaxBins : b[k] = n \/ b[k] = c.bins[k]
  BY <1>1
<1> HIDE DEF b
<1>4. r \in Trees /\ r.node = c.node /\ r.items = c.items /\ r.free = c.free /\ r.bins = b
  BY <1>0, <1>2, <1>3 DEF Trees
<1>5. Held(r) = Held(c) /\ ParentOf(r) = ParentOf(c) /\ \A m : IsDir(r, m) <=> IsDir(c, m)
  BY <1>4 DEF Held, ParentOf, IsDir
<1>6. Placed(r)
  BY <1>0, <1>4, <1>5 DEF Placed
<1>7. Pointing(r)
  <2>1. ASSUME NEW k \in 1..MaxBins, b[k] # Null PROVE b[k] \in Held(c) /\ IsDir(c, b[k])
    BY <1>0, <1>3, <2>1 DEF Pointing
  <2>2. b[1] # Null
    BY <1>0, <1>1, <1>3
  <2>3. \A j, k \in 2..MaxBins : b[j] = b[k] /\ b[j] # Null => j = k
    BY <1>0, <1>3 DEF Pointing
  <2> QED  BY <1>4, <1>5, <2>1, <2>2, <2>3 DEF Pointing
<1> QED  BY <1>0, <1>4, <1>6, <1>7 DEF TreeInv

CliInv == TreeInv(cli) /\ env \in Envs

LEMMA DoesInv ==
  ASSUME CliInv, NEW func, NEW args \in Args, Sane(func, args), Does(func, args)
  PROVE  CliInv'
<1>0. TreeInv(cli) /\ env \in Envs /\ cli \in Trees /\ cli.root = 1
  BY Parts DEF CliInv, TreeInv
<1>1. Len(args) \in Nat /\ \A k \in 1..Len(args) : args[k] \in Paths
  BY LenProperties, ElementOfSeq DEF Args
<1> SUFFICES TreeInv(cli') /\ env' \in Envs
  BY DEF CliInv
<1>2. CASE func = "mkdir"
  <2>1. mkdir_cmd(args)
    BY <1>2 DEF Does
  <2>2. CASE Len(args) = 1
    <3>1. args[1] \in Paths
      BY <1>1, <2>2
    <3>2. ~Through(args[1]) /\ Joined(args[1])
      BY <1>2, <2>2 DEF Sane
    <3>3. TreeInv(AddDir(cli, args[1], Cwd(cli)).cli)
      BY <1>0, <3>1, <3>2, MkdirInv
    <3>4. cli' = AddDir(cli, args[1], Cwd(cli)).cli /\ env' = env
      BY <2>1, <2>2 DEF mkdir_cmd
    <3> QED  BY <1>0, <3>3, <3>4
  <2>3. CASE Len(args) # 1
    <3>1. cli' = cli /\ env' = env
      BY <2>1, <2>3 DEF mkdir_cmd
    <3> QED  BY <1>0, <3>1
  <2> QED  BY <2>2, <2>3
<1>3. CASE func = "rm"
  <2>1. rm_cmd(args)
    BY <1>3 DEF Does
  <2>2. CASE Len(args) = 1
    <3> DEFINE n == FindNode(cli, args[1])
    <3>1. n \in Held(cli) \cup {Null}
      BY <1>0, <1>1, <2>2, FindIs
    <3>2. cli' = RemoveNode(cli, n) /\ env' = env
      BY <2>1, <2>2 DEF rm_cmd
    <3>3. CASE n = Null
      <4>1. cli' = cli
        BY <3>2, <3>3 DEF RemoveNode
      <4> QED  BY <1>0, <3>2, <4>1
    <3>4. CASE n # Null
      <4>1. n # 1 => cli.bins[1] \notin Under(cli, n)
        BY <1>0, <1>3, <3>4 DEF Sane, Below, Under, Cwd
      <4> HIDE DEF n
      <4>2. TreeInv(RemoveNode(cli, n))
        BY <1>0, <3>1, <4>1, RemoveNodeInv
      <4> QED  BY <1>0, <3>2, <4>2
    <3> QED  BY <3>3, <3>4
  <2>3. CASE Len(args) # 1
    <3>1. cli' = cli /\ env' = env
      BY <2>1, <2>3 DEF rm_cmd
    <3> QED  BY <1>0, <3>1
  <2> QED  BY <2>2, <2>3
<1>4. CASE func = "cd"
  <2> DEFINE n == FindNode(cli, args[1])
  <2>1. cd_cmd(args)
    BY <1>4 DEF Does
  <2>2. CASE Len(args) > 0 /\ n # Null
    <3>1. args[1] \in Paths
      BY <1>1, <2>2
    <3>2. n \in Held(cli)
      BY <1>0, <2>2, <3>1, FindIs
    <3>3. IsDir(cli, n)
      BY <1>4, <2>2 DEF Sane
    <3>4. cli' = [cli EXCEPT !.bins[1] = n] /\ env' = env
      BY <2>1, <2>2 DEF cd_cmd
    <3> HIDE DEF n
    <3> QED  BY <1>0, <3>2, <3>3, <3>4, CdInv
  <2>3. CASE ~(Len(args) > 0 /\ n # Null)
    <3>1. cli' = cli /\ env' = env
      BY <2>1, <2>3 DEF cd_cmd
    <3> QED  BY <1>0, <3>1
  <2> QED  BY <2>2, <2>3
<1>5. CASE func = "env"
  <2>1. env_cmd(args)
    BY <1>5 DEF Does
  <2>2. cli' = cli
    BY <2>1 DEF env_cmd
  <2>3. env' \in Envs
    <3>1. CASE Len(args) = 3 /\ args[1] = Word("set")
      <4>1. env' = EnvSet(env, args[2], args[3])
        BY <2>1, <3>1 DEF env_cmd
      <4>2. args[2] \in Paths /\ args[3] \in Paths
        BY <1>1, <3>1
      <4> QED  BY <1>0, <4>1, <4>2, EnvSetIs
    <3>2. CASE Len(args) = 2 /\ args[1] = Word("del")
      <4>1. env' = EnvDel(env, args[2])
        BY <2>1, <3>2 DEF env_cmd
      <4>2. args[2] \in Paths
        BY <1>1, <3>2
      <4> QED  BY <1>0, <4>1, <4>2, EnvSetIs
    <3>3. CASE ~(Len(args) = 3 /\ args[1] = Word("set")) /\ ~(Len(args) = 2 /\ args[1] = Word("del"))
      <4>1. env' = env
        BY <2>1, <3>3 DEF env_cmd
      <4> QED  BY <1>0, <4>1
    <3> QED  BY <3>1, <3>2, <3>3
  <2> QED  BY <1>0, <2>2, <2>3
<1>6. CASE func \notin {"mkdir", "rm", "cd", "env"}
  <2>1. cli' = cli /\ env' = env
    BY <1>6 DEF Does
  <2> QED  BY <1>0, <2>1
<1> QED  BY <1>2, <1>3, <1>4, <1>5, <1>6

LEMMA CliStep ==
  ASSUME Careful, CliInv, [TreeNext]_treeVars
  PROVE  CliInv'
<1>0. TreeInv(cli) /\ env \in Envs
  BY DEF CliInv
<1>1. CASE UNCHANGED <<cli, env>>
  <2>1. cli' = cli /\ env' = env
    BY <1>1
  <2> QED  BY <1>0, <2>1 DEF CliInv
<1>2. CASE TreeNext
  <2>1. PICK l \in Lines : Typed(l)
    BY <1>2 DEF TreeNext
  <2> DEFINE ran == Expanded(Resolved(l))
             n == FindCmd(cli, ran.cmd)
  <2>2. ran \in [cmd : Paths, args : Args]
    BY <1>0, ResolvedIs, ExpandedIs
  <2>3. Execute(l) /\ (n # Null => Sane(cli.node[n].func, ran.args))
    BY <2>1 DEF Typed
  <2>4. CASE n # Null /\ cli.node[n].type = "cmd"
    <3>1. Does(cli.node[n].func, ran.args)
      BY <2>3, <2>4 DEF Execute
    <3>2. ran.args \in Args /\ Sane(cli.node[n].func, ran.args)
      BY <2>2, <2>3, <2>4
    <3> HIDE DEF ran, n
    <3> QED  BY <3>1, <3>2, DoesInv
  <2>5. CASE ~(n # Null /\ cli.node[n].type = "cmd")
    <3>1. UNCHANGED <<cli, env>>
      BY <2>3, <2>5 DEF Execute
    <3> QED  BY <1>1, <3>1
  <2> QED  BY <2>4, <2>5
<1>3. CASE UNCHANGED treeVars
  BY <1>1, <1>3 DEF treeVars
<1> QED  BY <1>2, <1>3

LEMMA CliAlways == Careful /\ TreeSpec => []CliInv
<1>1. TreeInit => CliInv
  <2> SUFFICES ASSUME TreeInit PROVE CliInv
    OBVIOUS
  <2>1. cli = InitTree /\ env = <<>>
    BY DEF TreeInit
  <2>2. <<>> \in Envs
    BY DEF Envs
  <2> QED  BY <2>1, <2>2, InitTreeInv DEF CliInv
<1> SUFFICES ASSUME Careful PROVE TreeSpec => []CliInv
  OBVIOUS
<1>2. CliInv /\ [TreeNext]_treeVars => CliInv'
  BY CliStep
<1> QED  BY <1>1, <1>2, PTL DEF TreeSpec

(* Every node is in the tree once or in the pool once, where its parent    *)
(* says, and the working directory and the executable path are in it, for  *)
(* every pool the tables fit in and every set of lines, as long as the     *)
(* user keeps to Sane: AddNode, AddDir, AddBin, DelBin and RemoveNode keep *)
(* the tree of cli.c whole.                                                *)
THEOREM TreeHolds == Careful /\ TreeSpec => []TreeSound
<1>1. CliInv => TreeSound
  BY TreeSoundIs DEF CliInv
<1> QED  BY <1>1, CliAlways, PTL

(* What Tab completes is what cli_find_cmd finds.                          *)
LEMMA CompletedIs ==
  ASSUME NEW c, TreeInv(c), NEW n \in NodeList(c), c.node[n].type \in Exe,
         NEW name, name = c.node[n].name, NEW k \in 1..Len(name),
         Matching(c, SubSeq(name, 1, k)) = {n}
  PROVE  FindCmd(c, Rel(<<name>>)) = n
<1>0. c \in Trees /\ Placed(c) /\ Pointing(c)
  BY DEF TreeInv
<1>1. 1 \in 1..MaxBins /\ MaxBins \in Nat /\ Null \notin Nodes
      /\ c.node \in [Nodes -> NodeRecs] /\ c.items \in [Nodes -> Seq(Nodes)]
  BY <1>0, Parts
<1> DEFINE cwd == c.bins[1]
           dirs == {j \in 1..MaxBins : c.bins[j] # Null /\ (j > 1 => c.bins[j] # cwd)}
           path == Rel(<<name>>)
<1>2. NodeList(c) = UNION {ToSet(c.items[c.bins[j]]) : j \in dirs}
  BY DEF NodeList, Cwd
<1>3. \A j \in 1..MaxBins : c.bins[j] # Null =>
        c.bins[j] \in Held(c) /\ c.bins[j] \in Nodes /\ IsDir(c, c.bins[j])
        /\ ToSet(c.items[c.bins[j]]) \subseteq NodeList(c)
  <2> SUFFICES ASSUME NEW j \in 1..MaxBins, c.bins[j] # Null
               PROVE  c.bins[j] \in Held(c) /\ c.bins[j] \in Nodes /\ IsDir(c, c.bins[j])
                      /\ ToSet(c.items[c.bins[j]]) \subseteq NodeList(c)
    OBVIOUS
  <2>1. c.bins[j] \in Held(c) /\ IsDir(c, c.bins[j]) /\ c.bins[j] \in Nodes
    BY <1>0 DEF Pointing, Held
  <2>2. CASE j \in dirs
    BY <1>2, <2>1, <2>2
  <2>3. CASE j \notin dirs
    <3>1. c.bins[j] = cwd /\ 1 \in dirs
      BY <1>0, <1>1, <2>3 DEF Pointing
    <3> QED  BY <1>2, <2>1, <3>1
  <2> QED  BY <2>2, <2>3
<1>4. PICK b \in dirs : n \in ToSet(c.items[c.bins[b]])
  BY <1>2
<1>5. b \in 1..MaxBins /\ c.bins[b] # Null /\ cwd # Null
  BY <1>0 DEF Pointing
<1>6. n \in Nodes /\ n # Null
  <2>1. ToSet(c.items[c.bins[b]]) \subseteq Nodes
    BY <1>1, <1>3, <1>5, SetOf
  <2> QED  BY <1>1, <1>4, <2>1
<1> HIDE DEF dirs
<1>7. name \in Names /\ name \notin {<<>>, Up, Here}
  <2>1. c.node[n] \in NodeRecs
    BY <1>1, <1>6
  <2>2. name \in Names /\ name \notin {Up, Here}
    BY <2>1 DEF NodeRecs, Records
  <2>3. Len(name) # 0
    OBVIOUS
  <2>4. Len(<<>>) = 0
    OBVIOUS
  <2> QED  BY <2>2, <2>3, <2>4
(* Whatever is called so where commands are looked for is n.               *)
<1>8. ASSUME NEW m \in NodeList(c), c.node[m].name = name PROVE m = n
  <2>1. n \in Matching(c, SubSeq(name, 1, k))
    OBVIOUS
  <2>2. IsPrefix(SubSeq(name, 1, k), name)
    BY <2>1 DEF Matching
  <2>3. m \in Matching(c, SubSeq(name, 1, k))
    BY <1>8, <2>2 DEF Matching
  <2> QED  BY <2>3
<1>9. path \in Paths /\ path.names = <<name>> /\ path.abs = FALSE
  <2>1. <<name>> \in Seq(Names)
    BY <1>7
  <2> QED  BY <2>1 DEF Rel, Paths
<1>10. FindNode(c, path) = SearchDir(c, cwd, name, All)
  <2>1. Base(c, path) = cwd
    BY <1>9 DEF Base, Cwd
  <2> HIDE DEF path
  <2> QED  BY <1>7, <1>9, <2>1, FindNamed
<1> HIDE DEF path
<1>11. ASSUME NEW j \in 1..MaxBins, c.bins[j] # Null, NEW types
       PROVE  SearchDir(c, c.bins[j], name, types) \in {Null, n}
  <2> DEFINE m == SearchDir(c, c.bins[j], name, types)
  <2>1. m # Null /\ name \notin {Up, Here} => m \in ToSet(c.items[c.bins[j]]) /\ c.node[m].name = name
    BY <1>3, <1>11, SearchFacts
  <2>2. m # Null => m \in NodeList(c) /\ c.node[m].name = name
    BY <1>3, <1>7, <1>11, <2>1
  <2> HIDE DEF m
  <2>3. m \in {Null, n}
    BY <1>8, <2>2
  <2> QED  BY <2>3 DEF m
<1>12. FindNode(c, path) \in {Null, n}
  <2>1. 1 \in 1..MaxBins /\ c.bins[1] # Null
    BY <1>1, <1>5
  <2>2. SearchDir(c, c.bins[1], name, All) \in {Null, n}
    BY <2>1, <1>11
  <2> QED  BY <1>10, <2>2
<1>13. CASE FindNode(c, path) # Null
  <2>1. FindCmd(c, path) = n
    BY <1>9, <1>12, <1>13, FindCmdIs
  <2> QED  BY <2>1 DEF path
<1>14. CASE FindNode(c, path) = Null
  <2> DEFINE hits == {j \in 1..MaxBins : Named(c, path, j) # Null}
  <2>1. \A j \in 1..MaxBins : Named(c, path, j) =
          IF c.bins[j] = Null THEN Null ELSE SearchDir(c, c.bins[j], name, Exe)
    <3>1. Len(path.names) = 1 /\ path.names[1] = name /\ ~path.abs
      BY <1>9
    <3> QED  BY <3>1 DEF Named
  <2>2. b \in hits
    <3>1. name \notin {<<>>, Up, Here} => \A m \in ToSet(c.items[c.bins[b]]) :
            c.node[m].name = name /\ c.node[m].type \in Exe => SearchDir(c, c.bins[b], name, Exe) # Null
      BY <1>3, <1>5, SearchFacts
    <3>2. SearchDir(c, c.bins[b], name, Exe) # Null
      BY <1>4, <1>7, <3>1
    <3> QED  BY <1>5, <2>1, <3>2
  <2>3. Min(hits) \in hits
    <3>1. hits \in SUBSET Nat
      OBVIOUS
    <3> HIDE DEF hits
    <3> QED  BY <2>2, <3>1, LeastOf
  <2>4. Named(c, path, Min(hits)) = n
    <3> DEFINE j == Min(hits)
    <3>1. j \in 1..MaxBins /\ Named(c, path, j) # Null
      BY <2>3
    <3> HIDE DEF j
    <3>2. c.bins[j] # Null /\ Named(c, path, j) = SearchDir(c, c.bins[j], name, Exe)
      BY <2>1, <3>1
    <3>3. Named(c, path, j) = n
      BY <1>11, <3>1, <3>2
    <3> QED  BY <3>3 DEF j
  <2>5. FindCmd(c, path) = IF hits = {} THEN Null ELSE Named(c, path, Min(hits))
    BY <1>9, <1>14, FindCmdIs
  <2> HIDE DEF hits
  <2>6. FindCmd(c, path) = n
    <3>1. hits # {}
      BY <2>2
    <3> QED  BY <2>4, <2>5, <3>1
  <2> QED  BY <2>6 DEF path
<1> QED  BY <1>13, <1>14

(* A command that Tab completes is the command that is then run, whatever  *)
(* has been made, removed or entered before: the completion and the search *)
(* look at the same directories, and the working directory comes first.    *)
THEOREM CompletionHolds == Careful /\ TreeSpec => []CompletedRuns
<1>1. CliInv => CompletedRuns
  <2> SUFFICES ASSUME TreeInv(cli), NEW n \in NodeList(cli), cli.node[n].type \in Exe,
                      NEW k \in 1..Len(cli.node[n].name),
                      Matching(cli, SubSeq(cli.node[n].name, 1, k)) = {n}
               PROVE  FindCmd(cli, Rel(<<cli.node[n].name>>)) = n
    BY DEF CliInv, CompletedRuns
  <2> QED  BY CompletedIs
<1> QED  BY <1>1, CliAlways, PTL
=============================================================================

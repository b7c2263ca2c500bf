-------------------------- MODULE LifecycleProofs --------------------------
(***************************************************************************)
(* Proofs about start-up and shutdown, for any lcores, ports and mapping   *)
(* of one to the other, and any number of late lcores and signals; and     *)
(* about what the -m option makes of that mapping, for any numbers of      *)
(* lcores and ports and any entries.                                       *)
(***************************************************************************)
EXTENDS Mapping, FiniteSetTheorems, SequenceTheorems, WellFoundedInduction, TLAPS

LEMMA TypeInit == Init => TypeOK
<1> SUFFICES ASSUME Init PROVE TypeOK
  OBVIOUS
<1> USE DEF Init
<1>1. master \in MasterPc /\ lc \in [Lcores -> LcorePc]
  BY DEF MasterPc, LcorePc
<1>2. todo \subseteq Lcores \cup Ports
  OBVIOUS
<1>3. /\ dev \in [Ports -> {"started", "stopped", "closed"}]
      /\ queued \in [Ports -> Nat] /\ nqueued \in Nat
      /\ stop \in [Lcores -> BOOLEAN]
  OBVIOUS
<1> QED
  BY <1>1, <1>2, <1>3 DEF TypeOK

(* The master's steps, the commands and the signal handler.                *)
LEMMA TypeMaster ==
  TypeOK /\ (MasterStep \/ Command \/ Signal \/ SignalDone) => TypeOK'
<1> SUFFICES ASSUME TypeOK, MasterStep \/ Command \/ Signal \/ SignalDone
             PROVE  TypeOK'
  OBVIOUS
<1> USE DEF TypeOK, MasterPc, LcorePc, mvars, lvars, svars, qvars, Go
<1>1. ASSUME NEW l \in Lcores, LaunchLcore(l) PROVE TypeOK'
  BY <1>1 DEF LaunchLcore
<1>2. ASSUME NEW l \in Lcores, StopLcore(l) PROVE TypeOK'
  BY <1>2 DEF StopLcore
<1>3. CASE StartCli \/ LeaveCli \/ StopDone \/ WaitLcores
  BY <1>3 DEF StartCli, LeaveCli, StopDone, WaitLcores
<1>4. ASSUME NEW p \in Ports, StopDevice(p) PROVE TypeOK'
  BY <1>4 DEF StopDevice
<1>5. ASSUME NEW p \in Ports, CloseDevice(p) PROVE TypeOK'
  BY <1>5 DEF CloseDevice
<1>6. CASE DestroyCli
  BY <1>6 DEF DestroyCli
<1>7. CASE Exit
  BY <1>7 DEF Exit
<1>8. CASE Command
  BY <1>8 DEF Command, AllocCounters, Quit
<1>9. CASE Signal
  BY <1>9 DEF Signal
<1>10. CASE SignalDone
  BY <1>10 DEF SignalDone
<1> QED
  BY <1>1, <1>2, <1>3, <1>4, <1>5, <1>6, <1>7, <1>8, <1>9, <1>10
     DEF MasterStep

LEMMA TypeLcore == ASSUME TypeOK, NEW l \in Lcores, Lcore(l) PROVE TypeOK'
<1> USE DEF TypeOK, LcorePc, mvars, svars, qvars, Goto
<1>1. CASE EnterLoop(l)
  BY <1>1 DEF EnterLoop
<1>2. CASE Iterate(l)
  BY <1>2 DEF Iterate
<1>3. CASE Receive(l)
  BY <1>3, LifecycleAssumption DEF Receive
<1>4. CASE Transmit(l)
  BY <1>4, LifecycleAssumption DEF Transmit
<1>5. CASE LeaveLoop(l)
  BY <1>5 DEF LeaveLoop
<1>6. CASE ExitCleanup(l)
  BY <1>6 DEF ExitCleanup
<1> QED
  BY <1>1, <1>2, <1>3, <1>4, <1>5, <1>6 DEF Lcore

LEMMA TypeStep == TypeOK /\ [Next]_vars => TypeOK'
<1>1. TypeOK /\ UNCHANGED vars => TypeOK'
  BY DEF vars, mvars, lvars, svars, qvars, TypeOK
<1> QED
  BY <1>1, TypeMaster, TypeLcore DEF Next

(* Every variable keeps its type.                                          *)
THEOREM LifecycleTypes == Spec => []TypeOK
BY TypeInit, TypeStep, PTL DEF Spec

-----------------------------------------------------------------------------
(* Shutdown.  What the master does after the wait, it does alone.          *)

After == {"close", "free", "exited"}

AloneInv ==
  /\ master \in After => \A l \in Lcores : lc[l] = "exited"
  /\ \A p \in Ports : dev[p] # "started" => master \in After
  /\ counters = "freed" => master \in After

LEMMA AloneStep == TypeOK /\ AloneInv /\ [Next]_vars => AloneInv'
<1> SUFFICES ASSUME TypeOK, AloneInv, [Next]_vars PROVE AloneInv'
  OBVIOUS
<1> USE DEF AloneInv, After, mvars, lvars, svars, qvars, Go, Master
<1>0. lc \in [Lcores -> LcorePc] /\ dev \in [Ports -> {"started", "stopped", "closed"}]
  BY DEF TypeOK
<1>1. CASE UNCHANGED vars
  BY <1>1 DEF vars
<1>2. ASSUME NEW l \in Lcores, LaunchLcore(l) \/ StopLcore(l) PROVE AloneInv'
  BY <1>0, <1>2 DEF LaunchLcore, StopLcore
<1>3. CASE StartCli \/ LeaveCli \/ StopDone \/ WaitLcores
  BY <1>3 DEF StartCli, LeaveCli, StopDone, WaitLcores
<1>4. ASSUME NEW p \in Ports, StopDevice(p) \/ CloseDevice(p) PROVE AloneInv'
  BY <1>0, <1>4 DEF StopDevice, CloseDevice
<1>5. CASE DestroyCli \/ Exit
  BY <1>5 DEF DestroyCli, Exit
<1>6. CASE Command
  BY <1>6 DEF Command, AllocCounters, Quit
<1>7. CASE Signal \/ SignalDone
  BY <1>7 DEF Signal, SignalDone
<1>8. ASSUME NEW l \in Lcores, Lcore(l) PROVE AloneInv'
  <2>1. lc[l] # "exited"
    BY <1>8 DEF Lcore, EnterLoop, Iterate, Receive, Transmit, LeaveLoop,
       ExitCleanup
  <2>2. UNCHANGED <<master, dev, counters>>
    BY <1>8 DEF Lcore, EnterLoop, Iterate, Receive, Transmit, LeaveLoop,
       ExitCleanup
  <2> QED
    BY <2>1, <2>2
<1> QED
  BY <1>1, <1>2, <1>3, <1>4, <1>5, <1>6, <1>7, <1>8 DEF Next, MasterStep

(* No lcore touches a stopped device or a freed counter.                   *)
THEOREM ShutdownWaits == Spec => []QuiescedBeforeClose
<1>1. Init => AloneInv
  BY DEF Init, AloneInv, After
<1>2. AloneInv => QuiescedBeforeClose
  BY LifecycleAssumption DEF AloneInv, QuiescedBeforeClose
<1> QED
  BY <1>1, <1>2, AloneStep, TypeInit, TypeStep, PTL DEF Spec

-----------------------------------------------------------------------------
(* Flushing.                                                               *)

InLoop == {"poll", "receive", "transmit", "flush"}

Split(p) == \E l \in Lcores : p \in RxPorts[l] /\ p \notin TxPorts[l]

(* What waits in the table of a port that no lcore only receives on, waits *)
(* for an lcore that is still to flush it.                                 *)
FlusherInv ==
  \A p \in Ports :
    queued[p] > 0 /\ ~Split(p) =>
      \E l \in Lcores : p \in TxPorts[l] /\ lc[l] \in InLoop

(* An lcore adds to a table from inside its loop, and leaves it by sending *)
(* its tables.                                                             *)
LEMMA LcoreQueue ==
  ASSUME TypeOK, NEW l \in Lcores, Lcore(l), NEW p \in Ports
  PROVE  /\ \/ queued'[p] <= queued[p]
            \/ p \in RxPorts[l] \cup TxPorts[l] /\ lc'[l] \in InLoop
         /\ \/ lc'[l] \in InLoop
            \/ p \in TxPorts[l] /\ queued'[p] = 0
            \/ p \notin TxPorts[l]
         /\ \A k \in Lcores \ {l} : lc'[k] = lc[k]
<1>0. lc \in [Lcores -> LcorePc] /\ queued \in [Ports -> Nat]
  BY DEF TypeOK
<1> USE <1>0 DEF Goto, InLoop, qvars
<1>1. CASE EnterLoop(l)
  BY <1>1 DEF EnterLoop
<1>2. CASE Iterate(l)
  BY <1>2 DEF Iterate
<1>3. CASE Receive(l)
  BY <1>3 DEF Receive
<1>4. CASE Transmit(l)
  BY <1>4 DEF Transmit
<1>5. CASE LeaveLoop(l)
  BY <1>5 DEF LeaveLoop
<1>6. CASE ExitCleanup(l)
  BY <1>6 DEF ExitCleanup
<1> QED
  BY <1>1, <1>2, <1>3, <1>4, <1>5, <1>6 DEF Lcore

(* An lcore that is still to be launched is not in its loop.               *)
LaunchInv == master = "launch" => \A l \in todo \cap Lcores : lc[l] = "off"

LEMMA LaunchStep == TypeOK /\ LaunchInv /\ [Next]_vars => LaunchInv'
<1> SUFFICES ASSUME TypeOK, LaunchInv, [Next]_vars PROVE LaunchInv'
  OBVIOUS
<1> USE DEF LaunchInv, mvars, lvars, svars, qvars, Go, Master
<1>0. lc \in [Lcores -> LcorePc]
  BY DEF TypeOK
<1>1. CASE UNCHANGED vars
  BY <1>1 DEF vars
<1>2. ASSUME NEW l \in Lcores, LaunchLcore(l) \/ StopLcore(l) PROVE LaunchInv'
  BY <1>0, <1>2 DEF LaunchLcore, StopLcore
<1>3. CASE StartCli \/ LeaveCli \/ StopDone \/ WaitLcores
  BY <1>3 DEF StartCli, LeaveCli, StopDone, WaitLcores
<1>4. ASSUME NEW p \in Ports, StopDevice(p) \/ CloseDevice(p) PROVE LaunchInv'
  BY <1>4 DEF StopDevice, CloseDevice
<1>5. CASE DestroyCli \/ Exit
  BY <1>5 DEF DestroyCli, Exit
<1>6. CASE Command \/ Signal \/ SignalDone
  BY <1>6 DEF Command, AllocCounters, Quit, Signal, SignalDone
<1>7. ASSUME NEW l \in Lcores, Lcore(l) PROVE LaunchInv'
  <2>1. /\ lc[l] # "off" /\ UNCHANGED mvars
        /\ \A k \in Lcores \ {l} : lc'[k] = lc[k]
    BY <1>0, <1>7 DEF Lcore, EnterLoop, Iterate, Receive, Transmit, LeaveLoop,
       ExitCleanup, Goto
  <2> QED
    BY <2>1
<1> QED
  BY <1>1, <1>2, <1>3, <1>4, <1>5, <1>6, <1>7 DEF Next, MasterStep

(* Nobody else adds to a table, or takes an lcore out of its loop.         *)
LEMMA MasterQueue ==
  ASSUME TypeOK, LaunchInv, MasterStep \/ Command \/ Signal \/ SignalDone
  PROVE  /\ queued' = queued
         /\ \A l \in Lcores : lc[l] \in InLoop => lc'[l] = lc[l]
<1> USE DEF mvars, lvars, svars, qvars
<1>0. lc \in [Lcores -> LcorePc]
  BY DEF TypeOK
<1>1. ASSUME NEW l \in Lcores, LaunchLcore(l)
      PROVE  /\ queued' = queued
             /\ \A k \in Lcores : lc[k] \in InLoop => lc'[k] = lc[k]
  <2>1. lc[l] = "off"
    BY <1>1 DEF LaunchLcore, Master, LaunchInv
  <2> QED
    BY <1>0, <1>1, <2>1 DEF LaunchLcore, InLoop
<1>2. ASSUME ~\E l \in Lcores : LaunchLcore(l)
      PROVE  UNCHANGED <<queued, lc>>
  BY <1>2, Zenon DEF MasterStep, Command, Signal, SignalDone, StopLcore,
     StartCli, LeaveCli, StopDone, WaitLcores, StopDevice, CloseDevice,
     DestroyCli, Exit, AllocCounters, Quit
<1> QED
  BY <1>1, <1>2

LEMMA FlusherStep ==
  TypeOK /\ LaunchInv /\ FlusherInv /\ [Next]_vars => FlusherInv'
<1> SUFFICES ASSUME TypeOK, LaunchInv, FlusherInv, [Next]_vars,
                    NEW p \in Ports, queued'[p] > 0, ~Split(p)
             PROVE  \E l \in Lcores : p \in TxPorts[l] /\ lc'[l] \in InLoop
  BY DEF FlusherInv, Split
<1>0. queued[p] \in Nat
  BY DEF TypeOK
<1>1. CASE UNCHANGED vars
  BY <1>1 DEF vars, lvars, qvars, FlusherInv
<1>2. CASE MasterStep \/ Command \/ Signal \/ SignalDone
  BY <1>2, MasterQueue DEF FlusherInv
<1>3. ASSUME NEW l \in Lcores, Lcore(l)
      PROVE  \E k \in Lcores : p \in TxPorts[k] /\ lc'[k] \in InLoop
  <2>1. CASE p \in TxPorts[l] /\ lc'[l] \in InLoop
    BY <2>1
  <2>2. CASE ~(p \in TxPorts[l] /\ lc'[l] \in InLoop)
    <3>1. p \notin TxPorts[l]
      BY <1>3, <2>2, LcoreQueue
    <3>2. p \notin RxPorts[l]
      BY <3>1 DEF Split
    <3>3. queued'[p] <= queued[p]
      BY <1>3, <3>1, <3>2, LcoreQueue
    <3>4. queued'[p] \in Nat
      BY TypeStep DEF TypeOK
    <3>5. PICK k \in Lcores : p \in TxPorts[k] /\ lc[k] \in InLoop
      BY <1>0, <3>3, <3>4 DEF FlusherInv
    <3>6. lc'[k] = lc[k]
      BY <1>3, <3>1, <3>5, LcoreQueue
    <3> QED
      BY <3>5, <3>6
  <2> QED
    BY <2>1, <2>2
<1> QED
  BY <1>1, <1>2, <1>3 DEF Next

(* No device is stopped while a packet waits that its own lcores queued.   *)
THEOREM ShutdownFlushes == Spec => []FlushedBeforeClose
<1>1. Init => AloneInv /\ LaunchInv /\ FlusherInv
  BY DEF Init, AloneInv, After, LaunchInv, FlusherInv
<1>2. AloneInv /\ FlusherInv => FlushedBeforeClose
  BY DEF AloneInv, FlusherInv, InLoop, Split, FlushedBeforeClose
<1> QED
  BY <1>1, <1>2, AloneStep, LaunchStep, FlusherStep, TypeInit, TypeStep, PTL
     DEF Spec
-----------------------------------------------------------------------------
(* The order of the naturals, as a relation.                               *)
Less == {ss \in Nat \X Nat : ss[1] < ss[2]}
(* The order of the naturals is well founded.                              *)
LEMMA LessFounded == IsWellFoundedOn(Less, Nat)
BY NatLessThanWellFounded DEF OpToRel, Less

(* Induction, as a fact about a set: one that has 0 and with each number   *)
(* the next is all of the naturals.                                        *)
LEMMA NatInd ==
  ASSUME NEW S \in SUBSET Nat, 0 \in S, \A n \in S : n + 1 \in S
  PROVE  S = Nat
<1> DEFINE T == Nat \ S
<1> SUFFICES ASSUME T # {} PROVE FALSE
  OBVIOUS
<1>1. PICK x \in T : \A y \in T : <<y, x>> \notin Less
  <2>1. T \subseteq Nat
    OBVIOUS
  <2> HIDE DEF T
  <2> QED  BY <2>1, LessFounded, WFMin
<1>2. x \in Nat /\ x # 0 /\ x - 1 \in Nat /\ (x - 1) + 1 = x
  OBVIOUS
<1>3. <<x - 1, x>> \in Less
  BY <1>2 DEF Less
<1>4. x - 1 \in S
  BY <1>1, <1>2, <1>3
<1> QED  BY <1>1, <1>2, <1>4

(* The values a variable takes in a for loop: s before it, then one after  *)
(* each of its N iterations.                                               *)
Loops(S, s, step, N) ==
  \E f \in [0..N -> S] : f[0] = s /\ \A n \in 1..N : f[n] = step[<<f[n - 1], n>>]

(* A for loop over N iterations has its sequence of values.                *)
LEMMA ForLoop ==
  ASSUME NEW S, NEW s \in S, NEW step \in [S \X Nat -> S], NEW N \in Nat
  PROVE  Loops(S, s, step, N)
<1> DEFINE Runs(f, k) ==
             f[0] = s /\ \A m \in 1..k : f[m] = step[<<f[m - 1], m>>]
           K == {k \in Nat : \E f \in [0..k -> S] : Runs(f, k)}
<1>1. 0 \in K
  <2>1. [m \in 0..0 |-> s] \in [0..0 -> S]
    OBVIOUS
  <2>2. Runs([m \in 0..0 |-> s], 0)
    OBVIOUS
  <2> QED  BY <2>1, <2>2
<1>2. ASSUME NEW k \in K PROVE k + 1 \in K
  <2>1. k \in Nat
    OBVIOUS
  <2>2. PICK f \in [0..k -> S] : Runs(f, k)
    OBVIOUS
  <2> DEFINE x == step[<<f[k], k + 1>>]
             g == [m \in 0..(k + 1) |-> IF m = k + 1 THEN x ELSE f[m]]
  <2>3. x \in S
    BY <2>1
  <2> HIDE DEF x
  <2>4. g \in [0..(k + 1) -> S]
    BY <2>1, <2>3
  <2>5. \A m \in 1..(k + 1) : g[m] = step[<<g[m - 1], m>>]
    <3>1. ASSUME NEW m \in 1..k PROVE g[m] = step[<<g[m - 1], m>>]
      <4>1. m \in 0..k /\ m - 1 \in 0..k /\ m # k + 1 /\ m - 1 # k + 1
        BY <2>1
      <4> QED  BY <2>1, <2>2, <4>1
    <3>2. g[k + 1] = x /\ g[k] = f[k]
      BY <2>1
    <3>3. g[k + 1] = step[<<g[(k + 1) - 1], k + 1>>]
      <4>1. (k + 1) - 1 = k
        BY <2>1
      <4> HIDE DEF g
      <4> QED  BY <3>2, <4>1 DEF x
    <3>4. \A m \in 1..(k + 1) : m \in 1..k \/ m = k + 1
      BY <2>1
    <3> HIDE DEF g
    <3> QED  BY <3>1, <3>3, <3>4
  <2>6. g[0] = s
    BY <2>1, <2>2
  <2> HIDE DEF g
  <2> QED  BY <2>1, <2>4, <2>5, <2>6
<1>3. N \in K
  <2>1. K \subseteq Nat
    OBVIOUS
  <2> HIDE DEF K
  <2> QED  BY <1>1, <1>2, <2>1, NatInd
<1> QED  BY <1>3 DEF Loops
-----------------------------------------------------------------------------
(* The tables l2p_create, l2p_connect and the loops make.                  *)
Table ==
  [type : [Lids -> SUBSET {RX, TX}],
   pids : [{RX, TX} -> [Lids -> Seq(Pids)]],
   qids : [{RX, TX} -> [Lids -> [Pids -> Nat]]],
   next : [{RX, TX} -> [Pids -> Nat]],
   lids : [Pids -> Seq(Lids)],
   map  : [{RX, TX} -> [Pids -> [Lids -> Nat]]]]

(* A port connected to an lcore in some directions.                        *)
Taken(s, t, dirs, pid, lid) ==
  /\ t \in Table
  /\ \A d \in {RX, TX}, l \in Lids :
       t.pids[d][l] = IF d \in dirs /\ l = lid THEN Append(s.pids[d][l], pid)
                      ELSE s.pids[d][l]
  /\ \A d \in {RX, TX}, l \in Lids, p \in Pids :
       /\ t.qids[d][l][p] = IF d \in dirs /\ l = lid /\ p = pid THEN s.next[d][p]
                            ELSE s.qids[d][l][p]
       /\ t.map[d][p][l] = IF d \in dirs /\ l = lid /\ p = pid
                           THEN s.map[d][p][l] + 1 ELSE s.map[d][p][l]
  /\ \A d \in {RX, TX}, p \in Pids :
       t.next[d][p] = IF d \in dirs /\ p = pid THEN s.next[d][p] + 1 ELSE s.next[d][p]

(* One direction of l2p_connect.                                           *)
LEMMA TakeFacts ==
  ASSUME NEW s \in Table, NEW dir \in {RX, TX}, NEW pid \in Pids, NEW lid \in Lids
  PROVE  /\ Taken(s, Take(s, dir, pid, lid), {dir}, pid, lid)
         /\ Take(s, dir, pid, lid).type = s.type
<1> SUFFICES ASSUME NEW t, t = Take(s, dir, pid, lid)
             PROVE  Taken(s, t, {dir}, pid, lid) /\ t.type = s.type
  OBVIOUS
<1> DEFINE pids == [s.pids EXCEPT ![dir][lid] = Append(s.pids[dir][lid], pid)]
           qids == [s.qids EXCEPT ![dir][lid][pid] = s.next[dir][pid]]
           next == [s.next EXCEPT ![dir][pid] = s.next[dir][pid] + 1]
           map  == [s.map EXCEPT ![dir][pid][lid] = s.map[dir][pid][lid] + 1]
<1>1. /\ s.type \in [Lids -> SUBSET {RX, TX}] /\ s.lids \in [Pids -> Seq(Lids)]
      /\ s.pids \in [{RX, TX} -> [Lids -> Seq(Pids)]]
      /\ s.qids \in [{RX, TX} -> [Lids -> [Pids -> Nat]]]
      /\ s.next \in [{RX, TX} -> [Pids -> Nat]]
      /\ s.map \in [{RX, TX} -> [Pids -> [Lids -> Nat]]]
  BY DEF Table
<1>2. t = [type |-> s.type, pids |-> pids, qids |-> qids, next |-> next,
           lids |-> s.lids, map |-> map]
  BY DEF Take
<1>3. /\ pids \in [{RX, TX} -> [Lids -> Seq(Pids)]]
      /\ \A d \in {RX, TX}, l \in Lids :
           pids[d][l] = IF d = dir /\ l = lid THEN Append(s.pids[d][l], pid)
                        ELSE s.pids[d][l]
  <2> DEFINE f == s.pids[dir]
             x == Append(s.pids[dir][lid], pid)
  <2>1. f \in [Lids -> Seq(Pids)] /\ s.pids[dir][lid] \in Seq(Pids)
    BY <1>1
  <2>2. x \in Seq(Pids)
    BY <2>1
  <2>3. pids = [s.pids EXCEPT ![dir] = [f EXCEPT ![lid] = x]]
    OBVIOUS
  <2> HIDE DEF f, x, pids
  <2>4. pids \in [{RX, TX} -> [Lids -> Seq(Pids)]]
    BY <1>1, <2>1, <2>2, <2>3
  <2>5. \A d \in {RX, TX}, l \in Lids :
          pids[d][l] = IF d = dir /\ l = lid THEN x ELSE s.pids[d][l]
    BY <1>1, <2>1, <2>3 DEF f
  <2> QED  BY <2>4, <2>5 DEF x
<1>4. /\ next \in [{RX, TX} -> [Pids -> Nat]]
      /\ \A d \in {RX, TX}, p \in Pids :
           next[d][p] = IF d = dir /\ p = pid THEN s.next[d][p] + 1 ELSE s.next[d][p]
  <2> DEFINE f == s.next[dir]
             x == s.next[dir][pid] + 1
  <2>1. f \in [Pids -> Nat] /\ s.next[dir][pid] \in Nat
    BY <1>1
  <2>2. x \in Nat
    BY <2>1
  <2>3. next = [s.next EXCEPT ![dir] = [f EXCEPT ![pid] = x]]
    OBVIOUS
  <2> HIDE DEF f, x, next
  <2>4. next \in [{RX, TX} -> [Pids -> Nat]]
    BY <1>1, <2>1, <2>2, <2>3
  <2>5. \A d \in {RX, TX}, p \in Pids :
          next[d][p] = IF d = dir /\ p = pid THEN x ELSE s.next[d][p]
    BY <1>1, <2>1, <2>3 DEF f
  <2> QED  BY <2>4, <2>5 DEF x
<1>5. /\ qids \in [{RX, TX} -> [Lids -> [Pids -> Nat]]]
      /\ \A d \in {RX, TX}, l \in Lids, p \in Pids :
           qids[d][l][p] = IF d = dir /\ l = lid /\ p = pid THEN s.next[d][p]
                           ELSE s.qids[d][l][p]
  <2> DEFINE f == s.qids[dir]
             g == s.qids[dir][lid]
             x == s.next[dir][pid]
  <2>1. f \in [Lids -> [Pids -> Nat]] /\ g \in [Pids -> Nat] /\ x \in Nat
    BY <1>1
  <2>2. qids = [s.qids EXCEPT ![dir] = [f EXCEPT ![lid] = [g EXCEPT ![pid] = x]]]
    OBVIOUS
  <2> HIDE DEF f, g, x, qids
  <2>3. [g EXCEPT ![pid] = x] \in [Pids -> Nat]
    BY <2>1
  <2>4. qids \in [{RX, TX} -> [Lids -> [Pids -> Nat]]]
    BY <1>1, <2>1, <2>2, <2>3
  <2>5. \A d \in {RX, TX}, l \in Lids, p \in Pids :
          qids[d][l][p] = IF d = dir /\ l = lid /\ p = pid THEN x ELSE s.qids[d][l][p]
    BY <1>1, <2>1, <2>2 DEF f, g
  <2> QED  BY <2>4, <2>5 DEF x
<1>6. /\ map \in [{RX, TX} -> [Pids -> [Lids -> Nat]]]
      /\ \A d \in {RX, TX}, l \in Lids, p \in Pids :
           map[d][p][l] = IF d = dir /\ l = lid /\ p = pid THEN s.map[d][p][l] + 1
                          ELSE s.map[d][p][l]
  <2> DEFINE f == s.map[dir]
             g == s.map[dir][pid]
             x == s.map[dir][pid][lid] + 1
  <2>0. f \in [Pids -> [Lids -> Nat]]
    BY <1>1
  <2>1. f \in [Pids -> [Lids -> Nat]] /\ g \in [Lids -> Nat]
        /\ s.map[dir][pid][lid] \in Nat
    BY <2>0
  <2>2. x \in Nat
    BY <2>1
  <2>3. map = [s.map EXCEPT ![dir] = [f EXCEPT ![pid] = [g EXCEPT ![lid] = x]]]
    OBVIOUS
  <2> HIDE DEF f, g, x, map
  <2>4. [g EXCEPT ![lid] = x] \in [Lids -> Nat]
    BY <2>1, <2>2
  <2>5. map \in [{RX, TX} -> [Pids -> [Lids -> Nat]]]
    BY <1>1, <2>1, <2>3, <2>4
  <2>6. \A d \in {RX, TX}, l \in Lids, p \in Pids :
          map[d][p][l] = IF d = dir /\ l = lid /\ p = pid THEN x ELSE s.map[d][p][l]
    BY <1>1, <2>1, <2>3 DEF f, g
  <2> QED  BY <2>5, <2>6 DEF x
<1> HIDE DEF pids, qids, next, map
<1>7. t \in Table
  <2> DEFINE type == s.type
             lids == s.lids
  <2>1. type \in [Lids -> SUBSET {RX, TX}] /\ lids \in [Pids -> Seq(Lids)]
    BY <1>1
  <2>2. t = [type |-> type, pids |-> pids, qids |-> qids, next |-> next,
             lids |-> lids, map |-> map]
    BY <1>2
  <2>3. pids \in [{RX, TX} -> [Lids -> Seq(Pids)]]
    BY <1>3
  <2>4. qids \in [{RX, TX} -> [Lids -> [Pids -> Nat]]]
    BY <1>5
  <2>5. next \in [{RX, TX} -> [Pids -> Nat]]
    BY <1>4
  <2>6. map \in [{RX, TX} -> [Pids -> [Lids -> Nat]]]
    BY <1>6
  <2> HIDE DEF type, lids
  <2>7. [type |-> type, pids |-> pids, qids |-> qids, next |-> next,
         lids |-> lids, map |-> map] \in Table
    <3> DEFINE D == {RX, TX}
    <3> HIDE DEF D
    <3>1. /\ pids \in [D -> [Lids -> Seq(Pids)]]
          /\ qids \in [D -> [Lids -> [Pids -> Nat]]]
          /\ next \in [D -> [Pids -> Nat]]
          /\ map \in [D -> [Pids -> [Lids -> Nat]]]
          /\ type \in [Lids -> SUBSET D]
      BY <2>1, <2>3, <2>4, <2>5, <2>6 DEF D
    <3>2. Table = [type : [Lids -> SUBSET D], pids : [D -> [Lids -> Seq(Pids)]],
                   qids : [D -> [Lids -> [Pids -> Nat]]], next : [D -> [Pids -> Nat]],
                   lids : [Pids -> Seq(Lids)], map  : [D -> [Pids -> [Lids -> Nat]]]]
      BY DEF Table, D
    <3> QED  BY <2>1, <3>1, <3>2
  <2> QED  BY <2>2, <2>7
<1>8. /\ t.type = s.type /\ t.lids = s.lids /\ t.pids = pids /\ t.qids = qids
      /\ t.next = next /\ t.map = map
  BY <1>2
<1>9. \A d \in {RX, TX}, l \in Lids :
        t.pids[d][l] = IF d = dir /\ l = lid THEN Append(s.pids[d][l], pid)
                       ELSE s.pids[d][l]
  BY <1>3, <1>8
<1>10. \A d \in {RX, TX}, l \in Lids, p \in Pids :
         /\ t.qids[d][l][p] = IF d = dir /\ l = lid /\ p = pid THEN s.next[d][p]
                              ELSE s.qids[d][l][p]
         /\ t.map[d][p][l] = IF d = dir /\ l = lid /\ p = pid
                             THEN s.map[d][p][l] + 1 ELSE s.map[d][p][l]
  BY <1>5, <1>6, <1>8
<1>11. \A d \in {RX, TX}, p \in Pids :
         t.next[d][p] = IF d = dir /\ p = pid THEN s.next[d][p] + 1 ELSE s.next[d][p]
  BY <1>4, <1>8
<1> QED  BY <1>7, <1>8, <1>9, <1>10, <1>11 DEF Taken

(* l2p_connect as a whole.                                                 *)
LEMMA ConnectFacts ==
  ASSUME NEW s \in Table, NEW pid \in Pids, NEW lid \in Lids,
         NEW types \in SUBSET {RX, TX}, NEW t, t = Connect(s, pid, lid, types)
  PROVE  /\ Taken(s, t, types, pid, lid)
         /\ \A l \in Lids : t.type[l] = IF l = lid THEN types ELSE s.type[l]
<1> DEFINE typed == [s EXCEPT !.type[lid] = types]
           rx == IF RX \in types THEN Take(typed, RX, pid, lid) ELSE typed
           tx == IF TX \in types THEN Take(rx, TX, pid, lid) ELSE rx
<1>1. t = [tx EXCEPT !.lids[pid] = Append(tx.lids[pid], lid)]
  BY DEF Connect
<1>2. /\ typed \in Table
      /\ \A l \in Lids : typed.type[l] = IF l = lid THEN types ELSE s.type[l]
      /\ typed.pids = s.pids /\ typed.qids = s.qids /\ typed.next = s.next
      /\ typed.map = s.map
  BY DEF Table
<1>3. RX \in {RX, TX} /\ TX \in {RX, TX} /\ RX # TX
  BY DEF RX, TX
<1> HIDE DEF typed
<1>4. Taken(typed, rx, types \cap {RX}, pid, lid) /\ rx.type = typed.type
  <2>1. CASE RX \in types
    <3>1. rx = Take(typed, RX, pid, lid) /\ types \cap {RX} = {RX}
      BY <2>1
    <3> HIDE DEF rx
    <3> QED  BY <1>2, <1>3, <3>1, TakeFacts
  <2>2. CASE RX \notin types
    <3>1. rx = typed /\ types \cap {RX} = {}
      BY <2>2
    <3> HIDE DEF rx
    <3> QED  BY <1>2, <3>1 DEF Taken
  <2> QED  BY <2>1, <2>2
<1>5. rx \in Table
  BY <1>4 DEF Taken
<1> HIDE DEF rx
<1>6. Taken(rx, tx, types \cap {TX}, pid, lid) /\ tx.type = rx.type
  <2>1. CASE TX \in types
    <3>1. tx = Take(rx, TX, pid, lid) /\ types \cap {TX} = {TX}
      BY <2>1
    <3> HIDE DEF tx
    <3>2. TX \in {RX, TX}
      OBVIOUS
    <3>3. Taken(rx, tx, {TX}, pid, lid) /\ tx.type = rx.type
      BY <1>5, <3>1, <3>2, TakeFacts
    <3> QED  BY <3>1, <3>3
  <2>2. CASE TX \notin types
    <3>1. tx = rx /\ types \cap {TX} = {}
      BY <2>2
    <3> HIDE DEF tx
    <3> QED  BY <1>5, <3>1 DEF Taken
  <2> QED  BY <2>1, <2>2
<1> HIDE DEF tx
<1>7. /\ t \in Table /\ t.type = tx.type /\ t.pids = tx.pids /\ t.qids = tx.qids
      /\ t.next = tx.next /\ t.map = tx.map
  <2>1. tx \in Table /\ tx.lids \in [Pids -> Seq(Lids)]
    BY <1>6 DEF Taken, Table
  <2> DEFINE x == Append(tx.lids[pid], lid)
             f == [tx.lids EXCEPT ![pid] = x]
  <2>2. x \in Seq(Lids)
    BY <2>1
  <2> HIDE DEF x
  <2>3. f \in [Pids -> Seq(Lids)]
    BY <2>1, <2>2
  <2>4. t = [tx EXCEPT !.lids = f]
    BY <1>1 DEF x
  <2> HIDE DEF f
  <2> QED  BY <2>1, <2>3, <2>4 DEF Table
<1>8. \A l \in Lids : t.type[l] = IF l = lid THEN types ELSE s.type[l]
  BY <1>2, <1>4, <1>6, <1>7
<1>9. \A d \in {RX, TX}, l \in Lids :
        t.pids[d][l] = IF d \in types /\ l = lid THEN Append(s.pids[d][l], pid)
                       ELSE s.pids[d][l]
  BY <1>2, <1>3, <1>4, <1>6, <1>7 DEF Taken
<1>10. \A d \in {RX, TX}, l \in Lids, p \in Pids :
         t.qids[d][l][p] = IF d \in types /\ l = lid /\ p = pid THEN s.next[d][p]
                           ELSE s.qids[d][l][p]
  <2>1. \A d \in {RX, TX}, l \in Lids, p \in Pids :
          rx.qids[d][l][p] = IF d \in types \cap {RX} /\ l = lid /\ p = pid
            THEN typed.next[d][p] ELSE typed.qids[d][l][p]
    BY <1>4 DEF Taken
  <2>2. \A d \in {RX, TX}, l \in Lids, p \in Pids :
          tx.qids[d][l][p] = IF d \in types \cap {TX} /\ l = lid /\ p = pid
            THEN rx.next[d][p] ELSE rx.qids[d][l][p]
    BY <1>6 DEF Taken
  <2>3. \A d \in {RX, TX}, p \in Pids :
          rx.next[d][p] = IF d \in types \cap {RX} /\ p = pid
            THEN typed.next[d][p] + 1 ELSE typed.next[d][p]
    BY <1>4 DEF Taken
  <2> QED  BY <1>2, <1>3, <1>7, <2>1, <2>2, <2>3
<1>11. \A d \in {RX, TX}, l \in Lids, p \in Pids :
         t.map[d][p][l] = IF d \in types /\ l = lid /\ p = pid
                          THEN s.map[d][p][l] + 1 ELSE s.map[d][p][l]
  <2>1. \A d \in {RX, TX}, l \in Lids, p \in Pids :
          rx.map[d][p][l] = IF d \in types \cap {RX} /\ l = lid /\ p = pid
            THEN typed.map[d][p][l] + 1 ELSE typed.map[d][p][l]
    BY <1>4 DEF Taken
  <2>2. \A d \in {RX, TX}, l \in Lids, p \in Pids :
          tx.map[d][p][l] = IF d \in types \cap {TX} /\ l = lid /\ p = pid
            THEN rx.map[d][p][l] + 1 ELSE rx.map[d][p][l]
    BY <1>6 DEF Taken
  <2> QED  BY <1>2, <1>3, <1>7, <2>1, <2>2
<1>12. \A d \in {RX, TX}, p \in Pids :
         t.next[d][p] = IF d \in types /\ p = pid THEN s.next[d][p] + 1 ELSE s.next[d][p]
  BY <1>2, <1>3, <1>4, <1>6, <1>7 DEF Taken
<1> QED  BY <1>7, <1>8, <1>9, <1>10, <1>11, <1>12 DEF Taken
-----------------------------------------------------------------------------
(* The table when the pairs P of lcores and ports have been connected, T   *)
(* the types the lcores have in the end: an lcore that was connected has   *)
(* its type, its lists name each of its ports once, and each of them is    *)
(* counted; a port has given out as many queues as it has lcores, one to   *)
(* each; an lcore that does both has one list.                             *)
Servers(P, T, d, p) == {l \in Lids : <<l, p>> \in P /\ d \in T[l]}

TypesSet(s, P, T) ==
  \A l \in Lids : s.type[l] = IF \E p \in Pids : <<l, p>> \in P THEN T[l] ELSE {}
PidsListed(s, P, T) ==
  \A d \in {RX, TX}, l \in Lids :
    /\ \A i, j \in DOMAIN s.pids[d][l] : s.pids[d][l][i] = s.pids[d][l][j] => i = j
    /\ \A p \in Pids :
         (\E k \in DOMAIN s.pids[d][l] : s.pids[d][l][k] = p) <=>
           (<<l, p>> \in P /\ d \in T[l])
MapMarked(s, P, T) ==
  \A d \in {RX, TX}, l \in Lids, p \in Pids :
    s.map[d][p][l] = IF <<l, p>> \in P /\ d \in T[l] THEN 1 ELSE 0
NextCounts(s, P, T) ==
  \A d \in {RX, TX}, p \in Pids :
    s.next[d][p] = Cardinality(Servers(P, T, d, p))
QidsGiven(s, P, T) ==
  \A d \in {RX, TX}, p \in Pids :
    /\ \A l \in Servers(P, T, d, p) : s.qids[d][l][p] < s.next[d][p]
    /\ \A l, m \in Servers(P, T, d, p) : s.qids[d][l][p] = s.qids[d][m][p] => l = m
    /\ \A q \in Nat : q < s.next[d][p] =>
         \E l \in Servers(P, T, d, p) : s.qids[d][l][p] = q
BothAlike(s, T) ==
  \A l \in Lids : T[l] = {RX, TX} => s.pids[RX][l] = s.pids[TX][l]
Connected(s, P, T) ==
  /\ s \in Table
  /\ TypesSet(s, P, T)
  /\ PidsListed(s, P, T)
  /\ MapMarked(s, P, T)
  /\ NextCounts(s, P, T)
  /\ QidsGiven(s, P, T)
  /\ BothAlike(s, T)

(* A port has finitely many lcores.                                        *)
LEMMA ServedFinite ==
  ASSUME NEW P, NEW T, NEW d, NEW p
  PROVE  IsFiniteSet(Servers(P, T, d, p))
<1>1. NbLids \in Nat
  BY L2pAssumption
<1>2. IsFiniteSet(Lids)
  BY <1>1, FS_Interval DEF Lids
<1>3. Servers(P, T, d, p) \subseteq Lids
  BY DEF Servers
<1> QED  BY <1>2, <1>3, FS_Subset

(* l2p_create: nothing is connected.                                       *)
LEMMA CreatedConnected ==
  ASSUME NEW T \in [Lids -> SUBSET {RX, TX}]
  PROVE  Connected(Created, {}, T)
<1>1. Created \in Table
  BY DEF Created, Table
<1>2. TypesSet(Created, {}, T) /\ MapMarked(Created, {}, T) /\ BothAlike(Created, T)
  BY DEF TypesSet, MapMarked, BothAlike, Created
<1>3. PidsListed(Created, {}, T)
  BY DEF PidsListed, Created
<1>4. \A d \in {RX, TX}, p \in Pids : Servers({}, T, d, p) = {}
  BY DEF Servers
<1>5. \A d \in {RX, TX}, p \in Pids : Created.next[d][p] = 0
  BY DEF Created
<1>6. NextCounts(Created, {}, T)
  BY <1>4, <1>5, FS_EmptySet DEF NextCounts
<1>7. QidsGiven(Created, {}, T)
  BY <1>4, <1>5 DEF QidsGiven
<1> QED  BY <1>1, <1>2, <1>3, <1>6, <1>7 DEF Connected

(* l2p_connect of a pair that was not connected before, with the type the  *)
(* lcore has in the end.                                                   *)
LEMMA ConnectKeeps ==
  ASSUME NEW T \in [Lids -> SUBSET {RX, TX}], NEW P \in SUBSET (Lids \X Pids), NEW s,
         Connected(s, P, T), NEW lid \in Lids, NEW pid \in Pids, <<lid, pid>> \notin P,
         T[lid] # {}
  PROVE  Connected(Connect(s, pid, lid, T[lid]), P \cup {<<lid, pid>>}, T)
<1> DEFINE t == Connect(s, pid, lid, T[lid])
           Q == P \cup {<<lid, pid>>}
<1>0. T[lid] \in SUBSET {RX, TX}
  OBVIOUS
<1>1. /\ s \in Table /\ TypesSet(s, P, T) /\ PidsListed(s, P, T) /\ MapMarked(s, P, T)
      /\ NextCounts(s, P, T) /\ QidsGiven(s, P, T) /\ BothAlike(s, T)
  BY DEF Connected
<1>2. /\ Taken(s, t, T[lid], pid, lid)
      /\ \A l \in Lids : t.type[l] = IF l = lid THEN T[lid] ELSE s.type[l]
  BY <1>0, <1>1, ConnectFacts
<1> HIDE DEF t
<1>3. \A l \in Lids, p \in Pids :
        <<l, p>> \in Q <=> <<l, p>> \in P \/ (l = lid /\ p = pid)
  OBVIOUS
<1> HIDE DEF Q
<1>4. TypesSet(t, Q, T)
  BY <1>1, <1>2, <1>3 DEF TypesSet
<1>5. MapMarked(t, Q, T)
  <2> SUFFICES ASSUME NEW d \in {RX, TX}, NEW l \in Lids, NEW p \in Pids
               PROVE  t.map[d][p][l] = IF <<l, p>> \in Q /\ d \in T[l] THEN 1 ELSE 0
    BY DEF MapMarked
  <2>1. s.map[d][p][l] = IF <<l, p>> \in P /\ d \in T[l] THEN 1 ELSE 0
    BY <1>1 DEF MapMarked
  <2>2. t.map[d][p][l] = IF d \in T[lid] /\ l = lid /\ p = pid
                         THEN s.map[d][p][l] + 1 ELSE s.map[d][p][l]
    BY <1>2 DEF Taken
  <2> QED  BY <1>3, <2>1, <2>2
<1>6. PidsListed(t, Q, T)
  <2> SUFFICES ASSUME NEW d \in {RX, TX}, NEW l \in Lids
               PROVE  /\ \A i, j \in DOMAIN t.pids[d][l] :
                           t.pids[d][l][i] = t.pids[d][l][j] => i = j
                      /\ \A p \in Pids :
                           (\E k \in DOMAIN t.pids[d][l] : t.pids[d][l][k] = p) <=>
                             (<<l, p>> \in Q /\ d \in T[l])
    BY DEF PidsListed
  <2> DEFINE old == s.pids[d][l]
             new == t.pids[d][l]
  <2>1. /\ \A i, j \in DOMAIN old : old[i] = old[j] => i = j
        /\ \A p \in Pids :
             (\E k \in DOMAIN old : old[k] = p) <=> (<<l, p>> \in P /\ d \in T[l])
    BY <1>1 DEF PidsListed
  <2>2. old \in Seq(Pids)
    BY <1>1 DEF Table
  <2>3. new = IF d \in T[lid] /\ l = lid THEN Append(old, pid) ELSE old
    BY <1>2 DEF Taken
  <2> HIDE DEF old, new
  <2>4. CASE d \in T[lid] /\ l = lid
    <3>1. new = Append(old, pid)
      BY <2>3, <2>4
    <3>2. /\ Len(old) \in Nat /\ DOMAIN old = 1..Len(old)
          /\ DOMAIN new = 1..(Len(old) + 1) /\ new[Len(old) + 1] = pid
          /\ \A k \in 1..Len(old) : new[k] = old[k]
      BY <2>2, <3>1
    <3>3. \A k \in DOMAIN old : old[k] # pid
      BY <2>1, <2>4
    <3>4. \A k \in DOMAIN new : k \in DOMAIN old \/ k = Len(old) + 1
      BY <3>2
    <3>5. \A k \in DOMAIN old : k \in DOMAIN new /\ new[k] = old[k]
      BY <3>2
    <3>6. Len(old) + 1 \in DOMAIN new
      BY <3>2
    <3>7. \A i, j \in DOMAIN new : new[i] = new[j] => i = j
      BY <2>1, <3>2, <3>3, <3>4, <3>5
    <3>8. ASSUME NEW p \in Pids
          PROVE  (\E k \in DOMAIN new : new[k] = p) <=> (<<l, p>> \in Q /\ d \in T[l])
      <4>1. (\E k \in DOMAIN new : new[k] = p) <=>
              ((\E k \in DOMAIN old : old[k] = p) \/ p = pid)
        BY <3>2, <3>4, <3>5, <3>6
      <4> QED  BY <1>3, <2>1, <2>4, <4>1
    <3> QED  BY <3>7, <3>8 DEF new
  <2>5. CASE ~ (d \in T[lid] /\ l = lid)
    <3>1. new = old
      BY <2>3, <2>5
    <3>2. \A p \in Pids :
            (<<l, p>> \in Q /\ d \in T[l]) <=> (<<l, p>> \in P /\ d \in T[l])
      BY <1>3, <2>5
    <3> QED  BY <2>1, <3>1, <3>2 DEF new
  <2> QED  BY <2>4, <2>5
<1>7. BothAlike(t, T)
  <2> SUFFICES ASSUME NEW l \in Lids, T[l] = {RX, TX}
               PROVE  t.pids[RX][l] = t.pids[TX][l]
    BY DEF BothAlike
  <2>1. s.pids[RX][l] = s.pids[TX][l]
    BY <1>1 DEF BothAlike
  <2>2. \A d \in {RX, TX} :
          t.pids[d][l] = IF d \in T[lid] /\ l = lid THEN Append(s.pids[d][l], pid)
                         ELSE s.pids[d][l]
    BY <1>2 DEF Taken
  <2> QED  BY <2>1, <2>2
<1>8. ASSUME NEW d \in {RX, TX}, NEW p \in Pids
      PROVE  IF d \in T[lid] /\ p = pid
             THEN /\ Servers(Q, T, d, p) = Servers(P, T, d, p) \cup {lid}
                  /\ lid \notin Servers(P, T, d, p)
             ELSE Servers(Q, T, d, p) = Servers(P, T, d, p)
  BY <1>3 DEF Servers
<1>9. \A d \in {RX, TX}, p \in Pids :
        t.next[d][p] = IF d \in T[lid] /\ p = pid THEN s.next[d][p] + 1 ELSE s.next[d][p]
  BY <1>2 DEF Taken
<1>10. NextCounts(t, Q, T)
  <2> SUFFICES ASSUME NEW d \in {RX, TX}, NEW p \in Pids
               PROVE  t.next[d][p] = Cardinality(Servers(Q, T, d, p))
    BY DEF NextCounts
  <2>1. s.next[d][p] = Cardinality(Servers(P, T, d, p))
    BY <1>1 DEF NextCounts
  <2>2. IsFiniteSet(Servers(P, T, d, p))
    BY ServedFinite
  <2>3. CASE d \in T[lid] /\ p = pid
    <3>1. /\ Servers(Q, T, d, p) = Servers(P, T, d, p) \cup {lid}
          /\ lid \notin Servers(P, T, d, p)
      BY <1>8, <2>3
    <3>2. Cardinality(Servers(P, T, d, p) \cup {lid}) =
            Cardinality(Servers(P, T, d, p)) + 1
      BY <2>2, <3>1, FS_AddElement
    <3> QED  BY <1>9, <2>1, <2>3, <3>1, <3>2
  <2>4. CASE ~ (d \in T[lid] /\ p = pid)
    BY <1>8, <1>9, <2>1, <2>4
  <2> QED  BY <2>3, <2>4
<1>11. QidsGiven(t, Q, T)
  <2> SUFFICES ASSUME NEW d \in {RX, TX}, NEW p \in Pids
               PROVE  /\ \A l \in Servers(Q, T, d, p) : t.qids[d][l][p] < t.next[d][p]
                      /\ \A l, m \in Servers(Q, T, d, p) :
                           t.qids[d][l][p] = t.qids[d][m][p] => l = m
                      /\ \A q \in Nat : q < t.next[d][p] =>
                           \E l \in Servers(Q, T, d, p) : t.qids[d][l][p] = q
    BY DEF QidsGiven
  <2> DEFINE old == Servers(P, T, d, p)
             new == Servers(Q, T, d, p)
             n == s.next[d][p]
  <2>1. /\ \A l \in old : s.qids[d][l][p] < n
        /\ \A l, m \in old : s.qids[d][l][p] = s.qids[d][m][p] => l = m
        /\ \A q \in Nat : q < n => \E l \in old : s.qids[d][l][p] = q
    BY <1>1 DEF QidsGiven
  <2>2. n \in Nat /\ \A l \in Lids : s.qids[d][l][p] \in Nat
    <3>1. s.next[d] \in [Pids -> Nat] /\ s.qids[d] \in [Lids -> [Pids -> Nat]]
      BY <1>1 DEF Table
    <3> QED  BY <3>1
  <2>3. \A l \in Lids :
          t.qids[d][l][p] = IF d \in T[lid] /\ l = lid /\ p = pid THEN n
                            ELSE s.qids[d][l][p]
    BY <1>2 DEF Taken
  <2>4. old \subseteq Lids /\ new \subseteq Lids
    BY DEF Servers
  <2>5. CASE d \in T[lid] /\ p = pid
    <3>1. new = old \cup {lid} /\ lid \notin old
      BY <1>8, <2>5
    <3>2. t.next[d][p] = n + 1
      BY <1>9, <2>5
    <3> HIDE DEF old, new, n
    <3>3. t.qids[d][lid][p] = n /\ \A l \in old : t.qids[d][l][p] = s.qids[d][l][p]
      BY <2>3, <2>4, <2>5, <3>1
    <3>4. \A l \in new : t.qids[d][l][p] < n + 1
      BY <2>1, <2>2, <2>4, <3>1, <3>3
    <3>5. \A l, m \in new : t.qids[d][l][p] = t.qids[d][m][p] => l = m
      BY <2>1, <2>2, <2>4, <3>1, <3>3
    <3>6. ASSUME NEW q \in Nat, q < n + 1 PROVE \E l \in new : t.qids[d][l][p] = q
      <4>1. CASE q = n
        BY <3>1, <3>3, <4>1
      <4>2. CASE q # n
        <5>1. q < n
          BY <2>2, <3>6, <4>2
        <5> QED  BY <2>1, <3>1, <3>3, <5>1
      <4> QED  BY <4>1, <4>2
    <3> QED  BY <3>2, <3>4, <3>5, <3>6 DEF new
  <2>6. CASE ~ (d \in T[lid] /\ p = pid)
    <3>1. new = old
      BY <1>8, <2>6
    <3>2. t.next[d][p] = n
      BY <1>9, <2>6
    <3>3. \A l \in Lids : t.qids[d][l][p] = s.qids[d][l][p]
      BY <2>3, <2>6
    <3> HIDE DEF old, new, n
    <3> QED  BY <2>1, <2>4, <3>1, <3>2, <3>3 DEF new
  <2> QED  BY <2>5, <2>6
<1>12. t \in Table
  BY <1>2 DEF Taken
<1>13. Connected(t, Q, T)
  BY <1>4, <1>5, <1>6, <1>7, <1>10, <1>11, <1>12 DEF Connected
<1> QED  BY <1>13 DEF t, Q
-----------------------------------------------------------------------------
(* The loop of pg_parse_matrix over the ports, as a sequence of tables;    *)
(* then those over the lcores and the entries.                             *)
PortsRun(f, s, entry, lid) ==
  /\ f[0] = s /\ ConnectPorts(s, entry, lid) = f[NbPids]
  /\ \A n \in 1..NbPids :
       f[n] = IF n - 1 \in PortsOf(entry)
              THEN Connect(f[n - 1], n - 1, lid, Types(entry, lid)) ELSE f[n - 1]
LcoresRun(f, s, entry) ==
  /\ f[0] = s /\ ConnectLcores(s, entry) = f[NbLids]
  /\ \A n \in 1..NbLids :
       f[n] = IF Types(entry, n - 1) # {} THEN ConnectPorts(f[n - 1], entry, n - 1)
              ELSE f[n - 1]
EntriesRun(f, matrix) ==
  /\ f[0] = Created /\ Parsed(matrix) = f[Len(matrix)]
  /\ \A n \in 1..Len(matrix) : f[n] = ConnectLcores(f[n - 1], matrix[n])

(* pg_parse_matrix loops over the ports.                                   *)
LEMMA PortsLoop ==
  ASSUME NEW s \in Table, NEW entry, NEW lid \in Lids
  PROVE  \E f : PortsRun(f, s, entry, lid)
<1> DEFINE ports == PortsOf(entry)
           types == Types(entry, lid)
           moves(n) == n \in 1..NbPids /\ n - 1 \in ports
           step == [x \in Table \X Nat |->
                      IF moves(x[2]) THEN Connect(x[1], x[2] - 1, lid, types) ELSE x[1]]
           body(f) == [n \in 0..NbPids |->
                         IF n = 0 THEN s
                         ELSE IF n - 1 \in ports THEN Connect(f[n - 1], n - 1, lid, types)
                              ELSE f[n - 1]]
<1>0. NbPids \in Nat /\ types \in SUBSET {RX, TX}
  BY L2pAssumption DEF Types
<1> HIDE DEF ports, types
<1>1. ASSUME NEW x \in Table \X Nat
      PROVE  (IF moves(x[2]) THEN Connect(x[1], x[2] - 1, lid, types) ELSE x[1]) \in Table
  <2>1. CASE moves(x[2])
    <3>1. x[2] - 1 \in Pids /\ x[1] \in Table
      BY <1>0, <2>1 DEF Pids
    <3> QED  BY <1>0, <2>1, <3>1, ConnectFacts DEF Taken
  <2>2. CASE ~ moves(x[2])
    BY <2>2
  <2> QED  BY <2>1, <2>2
<1>2. step \in [Table \X Nat -> Table]
  <2> HIDE DEF moves
  <2> QED  BY <1>1
<1>3. PICK f \in [0..NbPids -> Table] :
        f[0] = s /\ \A n \in 1..NbPids : f[n] = step[<<f[n - 1], n>>]
  <2> HIDE DEF step
  <2>1. Loops(Table, s, step, NbPids)
    BY <1>0, <1>2, ForLoop
  <2> QED  BY <2>1 DEF Loops
<1>4. ASSUME NEW n \in 0..NbPids
      PROVE  f[n] = body(f)[n]
  <2>1. CASE n = 0
    BY <1>3, <2>1
  <2>2. CASE n # 0
    <3>1. n \in 1..NbPids /\ n \in Nat /\ n - 1 \in 0..NbPids
      BY <1>0, <2>2
    <3>2. f[n - 1] \in Table
      BY <3>1
    <3>3. step[<<f[n - 1], n>>] =
            IF moves(n) THEN Connect(f[n - 1], n - 1, lid, types) ELSE f[n - 1]
      BY <3>1, <3>2
    <3>4. f[n] = step[<<f[n - 1], n>>]
      <4> HIDE DEF step
      <4> QED  BY <1>3, <3>1
    <3> HIDE DEF step
    <3> QED  BY <2>2, <3>1, <3>3, <3>4
  <2> QED  BY <2>1, <2>2
<1>5. f = body(f)
  <2>1. DOMAIN f = 0..NbPids /\ f = [n \in 0..NbPids |-> f[n]]
    OBVIOUS
  <2>2. DOMAIN body(f) = 0..NbPids
    OBVIOUS
  <2> QED  BY <1>4, <2>1, <2>2
<1> DEFINE g == CHOOSE g : g = body(g)
<1>6. g = body(g)
  <2> HIDE DEF body
  <2> QED  BY <1>5
<1>7. ConnectPorts(s, entry, lid) = g[NbPids]
  BY DEF ConnectPorts, ports, types
<1> HIDE DEF g
<1>8. g[0] = s
  BY <1>0, <1>6
<1>9. ASSUME NEW n \in 1..NbPids
      PROVE  g[n] = IF n - 1 \in ports THEN Connect(g[n - 1], n - 1, lid, types)
                    ELSE g[n - 1]
  <2>1. n \in 0..NbPids /\ n # 0
    BY <1>0
  <2> QED  BY <1>6, <2>1
<1> QED  BY <1>7, <1>8, <1>9 DEF PortsRun, ports, types

(* It leaves a table.                                                      *)
LEMMA PortsTable ==
  ASSUME NEW s \in Table, NEW entry, NEW lid \in Lids
  PROVE  ConnectPorts(s, entry, lid) \in Table
<1>0. NbPids \in Nat /\ Types(entry, lid) \in SUBSET {RX, TX}
  BY L2pAssumption DEF Types
<1>1. PICK f : PortsRun(f, s, entry, lid)
  BY PortsLoop
<1> DEFINE I == {n \in Nat : n <= NbPids => f[n] \in Table}
<1>2. 0 \in I
  BY <1>1 DEF PortsRun
<1>3. ASSUME NEW n \in I PROVE n + 1 \in I
  <2> SUFFICES ASSUME n + 1 <= NbPids PROVE f[n + 1] \in Table
    OBVIOUS
  <2>1. n \in Nat /\ n + 1 \in 1..NbPids /\ (n + 1) - 1 = n
    BY <1>0
  <2>2. f[n] \in Table /\ n \in Pids
    BY <1>0, <2>1 DEF Pids
  <2>3. f[n + 1] = IF n \in PortsOf(entry) THEN Connect(f[n], n, lid, Types(entry, lid))
                   ELSE f[n]
    BY <1>1, <2>1 DEF PortsRun
  <2>4. Connect(f[n], n, lid, Types(entry, lid)) \in Table
    BY <1>0, <2>2, ConnectFacts DEF Taken
  <2> QED  BY <2>2, <2>3, <2>4
<1>4. NbPids \in I
  <2>1. I \subseteq Nat
    OBVIOUS
  <2> HIDE DEF I
  <2> QED  BY <1>0, <1>2, <1>3, <2>1, NatInd
<1> QED  BY <1>0, <1>1, <1>4 DEF PortsRun

(* It connects an lcore to the ports of an entry.                          *)
LEMMA PortsKeep ==
  ASSUME NEW T \in [Lids -> SUBSET {RX, TX}], NEW P \in SUBSET (Lids \X Pids), NEW s,
         Connected(s, P, T), NEW lid \in Lids, NEW entry, Types(entry, lid) = T[lid],
         T[lid] # {}, \A p \in PortsOf(entry) : <<lid, p>> \notin P
  PROVE  Connected(ConnectPorts(s, entry, lid),
              P \cup {x \in Lids \X Pids : x[1] = lid /\ x[2] \in PortsOf(entry)}, T)
<1>0. NbPids \in Nat /\ s \in Table
  BY L2pAssumption DEF Connected
<1>1. PICK f : PortsRun(f, s, entry, lid)
  BY <1>0, PortsLoop
<1> DEFINE Q(n) == P \cup {x \in Lids \X Pids :
                           x[1] = lid /\ x[2] \in PortsOf(entry) /\ x[2] < n}
           I == {n \in Nat : n <= NbPids => Connected(f[n], Q(n), T)}
<1> HIDE DEF Q
<1>2. 0 \in I
  <2>1. \A p \in Pids : ~ (p < 0)
    BY DEF Pids
  <2>2. Q(0) = P
    BY <2>1 DEF Q
  <2> QED  BY <1>1, <2>2 DEF PortsRun
<1>3. ASSUME NEW n \in I PROVE n + 1 \in I
  <2> SUFFICES ASSUME n + 1 <= NbPids PROVE Connected(f[n + 1], Q(n + 1), T)
    OBVIOUS
  <2>1. n \in Nat /\ n + 1 \in 1..NbPids /\ (n + 1) - 1 = n /\ n \in Pids
    BY <1>0 DEF Pids
  <2>2. Connected(f[n], Q(n), T)
    BY <1>0, <2>1
  <2>3. f[n + 1] = IF n \in PortsOf(entry) THEN Connect(f[n], n, lid, Types(entry, lid))
                   ELSE f[n]
    BY <1>1, <2>1 DEF PortsRun
  <2>4. \A p \in Pids : p < n + 1 <=> p < n \/ p = n
    BY <2>1 DEF Pids
  <2>5. CASE n \in PortsOf(entry)
    <3>1. Q(n + 1) = Q(n) \cup {<<lid, n>>}
      <4>1. \A x \in Lids \X Pids : x[2] < n + 1 <=> x[2] < n \/ x[2] = n
        BY <2>4
      <4>2. \A x \in Lids \X Pids : x = <<lid, n>> <=> x[1] = lid /\ x[2] = n
        OBVIOUS
      <4>3. <<lid, n>> \in Lids \X Pids
        BY <2>1
      <4> QED  BY <2>5, <4>1, <4>2, <4>3 DEF Q
    <3>2. Q(n) \in SUBSET (Lids \X Pids) /\ <<lid, n>> \notin Q(n)
      BY <2>1, <2>5 DEF Q
    <3>3. f[n + 1] = Connect(f[n], n, lid, T[lid])
      BY <2>3, <2>5
    <3>4. Connected(Connect(f[n], n, lid, T[lid]), Q(n) \cup {<<lid, n>>}, T)
      BY <2>1, <2>2, <3>2, ConnectKeeps
    <3> QED  BY <3>1, <3>3, <3>4
  <2>6. CASE n \notin PortsOf(entry)
    <3>1. Q(n + 1) = Q(n)
      BY <2>4, <2>6 DEF Q
    <3>2. f[n + 1] = f[n]
      BY <2>3, <2>6
    <3> QED  BY <2>2, <3>1, <3>2
  <2> QED  BY <2>5, <2>6
<1>4. NbPids \in I
  <2>1. I \subseteq Nat
    OBVIOUS
  <2> HIDE DEF I
  <2> QED  BY <1>0, <1>2, <1>3, <2>1, NatInd
<1>5. Connected(f[NbPids], Q(NbPids), T)
  BY <1>0, <1>4
<1>6. Q(NbPids) = P \cup {x \in Lids \X Pids : x[1] = lid /\ x[2] \in PortsOf(entry)}
  <2>1. \A p \in Pids : p < NbPids
    BY <1>0 DEF Pids
  <2> QED  BY <2>1 DEF Q
<1> QED  BY <1>1, <1>5, <1>6 DEF PortsRun

(* The loop over the lcores, likewise.                                     *)
LEMMA LcoresLoop ==
  ASSUME NEW s \in Table, NEW entry
  PROVE  \E f : LcoresRun(f, s, entry)
<1> DEFINE named(n) == Types(entry, n) # {}
           moves(n) == n \in 1..NbLids /\ named(n - 1)
           step == [x \in Table \X Nat |->
                      IF moves(x[2]) THEN ConnectPorts(x[1], entry, x[2] - 1) ELSE x[1]]
           body(f) == [n \in 0..NbLids |->
                         IF n = 0 THEN s
                         ELSE IF named(n - 1) THEN ConnectPorts(f[n - 1], entry, n - 1)
                              ELSE f[n - 1]]
<1>0. NbLids \in Nat
  BY L2pAssumption
<1> HIDE DEF named
<1>1. ASSUME NEW x \in Table \X Nat
      PROVE  (IF moves(x[2]) THEN ConnectPorts(x[1], entry, x[2] - 1) ELSE x[1]) \in Table
  <2>1. CASE moves(x[2])
    <3>1. x[2] - 1 \in Lids /\ x[1] \in Table
      BY <1>0, <2>1 DEF Lids
    <3> QED  BY <2>1, <3>1, PortsTable
  <2>2. CASE ~ moves(x[2])
    BY <2>2
  <2> QED  BY <2>1, <2>2
<1>2. step \in [Table \X Nat -> Table]
  <2> HIDE DEF moves
  <2> QED  BY <1>1
<1>3. PICK f \in [0..NbLids -> Table] :
        f[0] = s /\ \A n \in 1..NbLids : f[n] = step[<<f[n - 1], n>>]
  <2> HIDE DEF step
  <2>1. Loops(Table, s, step, NbLids)
    BY <1>0, <1>2, ForLoop
  <2> QED  BY <2>1 DEF Loops
<1>4. ASSUME NEW n \in 0..NbLids
      PROVE  f[n] = body(f)[n]
  <2>1. CASE n = 0
    BY <1>3, <2>1
  <2>2. CASE n # 0
    <3>1. n \in 1..NbLids /\ n \in Nat /\ n - 1 \in 0..NbLids
      BY <1>0, <2>2
    <3>2. f[n - 1] \in Table
      BY <3>1
    <3>3. step[<<f[n - 1], n>>] =
            IF moves(n) THEN ConnectPorts(f[n - 1], entry, n - 1) ELSE f[n - 1]
      BY <3>1, <3>2
    <3>4. f[n] = step[<<f[n - 1], n>>]
      <4> HIDE DEF step
      <4> QED  BY <1>3, <3>1
    <3> HIDE DEF step
    <3> QED  BY <2>2, <3>1, <3>3, <3>4
  <2> QED  BY <2>1, <2>2
<1>5. f = body(f)
  <2>1. DOMAIN f = 0..NbLids /\ f = [n \in 0..NbLids |-> f[n]]
    OBVIOUS
  <2>2. DOMAIN body(f) = 0..NbLids
    OBVIOUS
  <2> QED  BY <1>4, <2>1, <2>2
<1> DEFINE g == CHOOSE g : g = body(g)
<1>6. g = body(g)
  <2> HIDE DEF body
  <2> QED  BY <1>5
<1>7. ConnectLcores(s, entry) = g[NbLids]
  BY DEF ConnectLcores, named
<1> HIDE DEF g
<1>8. g[0] = s
  BY <1>0, <1>6
<1>9. ASSUME NEW n \in 1..NbLids
      PROVE  g[n] = IF named(n - 1) THEN ConnectPorts(g[n - 1], entry, n - 1)
                    ELSE g[n - 1]
  <2>1. n \in 0..NbLids /\ n # 0
    BY <1>0
  <2> QED  BY <1>6, <2>1
<1> QED  BY <1>7, <1>8, <1>9 DEF LcoresRun, named

(* The pairs of lcore and port an entry names.                             *)
Pairs(entry) == {x \in Lids \X Pids : Types(entry, x[1]) # {} /\ x[2] \in PortsOf(entry)}

(* It leaves a table.                                                      *)
LEMMA LcoresTable ==
  ASSUME NEW s \in Table, NEW entry
  PROVE  ConnectLcores(s, entry) \in Table
<1>0. NbLids \in Nat
  BY L2pAssumption
<1>1. PICK f : LcoresRun(f, s, entry)
  BY LcoresLoop
<1> DEFINE I == {n \in Nat : n <= NbLids => f[n] \in Table}
<1>2. 0 \in I
  BY <1>1 DEF LcoresRun
<1>3. ASSUME NEW n \in I PROVE n + 1 \in I
  <2> SUFFICES ASSUME n + 1 <= NbLids PROVE f[n + 1] \in Table
    OBVIOUS
  <2>1. n \in Nat /\ n + 1 \in 1..NbLids /\ (n + 1) - 1 = n
    BY <1>0
  <2>2. f[n] \in Table /\ n \in Lids
    BY <1>0, <2>1 DEF Lids
  <2>3. f[n + 1] = IF Types(entry, n) # {} THEN ConnectPorts(f[n], entry, n) ELSE f[n]
    BY <1>1, <2>1 DEF LcoresRun
  <2> QED  BY <2>2, <2>3, PortsTable
<1>4. NbLids \in I
  <2>1. I \subseteq Nat
    OBVIOUS
  <2> HIDE DEF I
  <2> QED  BY <1>0, <1>2, <1>3, <2>1, NatInd
<1> QED  BY <1>0, <1>1, <1>4 DEF LcoresRun

(* It connects the lcores of an entry to its ports.                        *)
LEMMA LcoresKeep ==
  ASSUME NEW T \in [Lids -> SUBSET {RX, TX}], NEW P \in SUBSET (Lids \X Pids), NEW s,
         Connected(s, P, T), NEW entry,
         \A l \in Lids : Types(entry, l) # {} =>
           Types(entry, l) = T[l] /\ \A p \in PortsOf(entry) : <<l, p>> \notin P
  PROVE  Connected(ConnectLcores(s, entry), P \cup Pairs(entry), T)
<1>0. NbLids \in Nat /\ s \in Table
  BY L2pAssumption DEF Connected
<1>1. PICK f : LcoresRun(f, s, entry)
  BY <1>0, LcoresLoop
<1> DEFINE Q(n) == P \cup {x \in Lids \X Pids : /\ Types(entry, x[1]) # {}
                                                /\ x[2] \in PortsOf(entry) /\ x[1] < n}
           I == {n \in Nat : n <= NbLids => Connected(f[n], Q(n), T)}
<1> HIDE DEF Q
<1>2. 0 \in I
  <2>1. \A l \in Lids : ~ (l < 0)
    BY DEF Lids
  <2>2. Q(0) = P
    BY <2>1 DEF Q
  <2> QED  BY <1>1, <2>2 DEF LcoresRun
<1>3. ASSUME NEW n \in I PROVE n + 1 \in I
  <2> SUFFICES ASSUME n + 1 <= NbLids PROVE Connected(f[n + 1], Q(n + 1), T)
    OBVIOUS
  <2>1. n \in Nat /\ n + 1 \in 1..NbLids /\ (n + 1) - 1 = n /\ n \in Lids
    BY <1>0 DEF Lids
  <2>2. Connected(f[n], Q(n), T)
    BY <1>0, <2>1
  <2>3. f[n + 1] = IF Types(entry, n) # {} THEN ConnectPorts(f[n], entry, n) ELSE f[n]
    BY <1>1, <2>1 DEF LcoresRun
  <2>4. \A l \in Lids : l < n + 1 <=> l < n \/ l = n
    BY <2>1 DEF Lids
  <2>5. CASE Types(entry, n) # {}
    <3> DEFINE R == {x \in Lids \X Pids : x[1] = n /\ x[2] \in PortsOf(entry)}
    <3>1. Q(n + 1) = Q(n) \cup R
      <4>1. \A x \in Lids \X Pids : x[1] < n + 1 <=> x[1] < n \/ x[1] = n
        BY <2>4
      <4> QED  BY <2>5, <4>1 DEF Q
    <3>2. Q(n) \in SUBSET (Lids \X Pids) /\ \A p \in PortsOf(entry) : <<n, p>> \notin Q(n)
      BY <2>1, <2>5 DEF Q
    <3>3. f[n + 1] = ConnectPorts(f[n], entry, n)
      BY <2>3, <2>5
    <3>4. Types(entry, n) = T[n] /\ T[n] # {}
      BY <2>1, <2>5
    <3>5. Connected(ConnectPorts(f[n], entry, n), Q(n) \cup R, T)
      BY <2>1, <2>2, <3>2, <3>4, PortsKeep
    <3> QED  BY <3>1, <3>3, <3>5
  <2>6. CASE Types(entry, n) = {}
    <3>1. Q(n + 1) = Q(n)
      BY <2>4, <2>6 DEF Q
    <3>2. f[n + 1] = f[n]
      BY <2>3, <2>6
    <3> QED  BY <2>2, <3>1, <3>2
  <2> QED  BY <2>5, <2>6
<1>4. NbLids \in I
  <2>1. I \subseteq Nat
    OBVIOUS
  <2> HIDE DEF I
  <2> QED  BY <1>0, <1>2, <1>3, <2>1, NatInd
<1>5. Connected(f[NbLids], Q(NbLids), T)
  BY <1>0, <1>4
<1>6. Q(NbLids) = P \cup Pairs(entry)
  <2>1. \A l \in Lids : l < NbLids
    BY <1>0 DEF Lids
  <2> QED  BY <2>1 DEF Pairs, Q
<1> QED  BY <1>1, <1>5, <1>6 DEF LcoresRun

(* The loop over the entries, likewise.                                    *)
LEMMA ParsedLoop ==
  ASSUME NEW matrix, matrix \in Seq(ToSet(matrix))
  PROVE  \E f : EntriesRun(f, matrix)
<1> DEFINE N == Len(matrix)
           step == [x \in Table \X Nat |-> ConnectLcores(x[1], matrix[x[2]])]
           body(f) == [n \in 0..N |-> IF n = 0 THEN Created
                                     ELSE ConnectLcores(f[n - 1], matrix[n])]
<1>0. N \in Nat /\ Created \in Table
  BY DEF Created, Table
<1> HIDE DEF N
<1>1. step \in [Table \X Nat -> Table]
  BY LcoresTable
<1>2. PICK f \in [0..N -> Table] :
        f[0] = Created /\ \A n \in 1..N : f[n] = step[<<f[n - 1], n>>]
  <2> HIDE DEF step
  <2>1. Loops(Table, Created, step, N)
    BY <1>0, <1>1, ForLoop
  <2> QED  BY <2>1 DEF Loops
<1>3. ASSUME NEW n \in 0..N
      PROVE  f[n] = body(f)[n]
  <2>1. CASE n = 0
    BY <1>2, <2>1
  <2>2. CASE n # 0
    <3>1. n \in 1..N /\ n \in Nat /\ n - 1 \in 0..N
      BY <1>0, <2>2
    <3>2. f[n - 1] \in Table
      BY <3>1
    <3>3. step[<<f[n - 1], n>>] = ConnectLcores(f[n - 1], matrix[n])
      BY <3>1, <3>2
    <3>4. f[n] = step[<<f[n - 1], n>>]
      <4> HIDE DEF step
      <4> QED  BY <1>2, <3>1
    <3> HIDE DEF step
    <3> QED  BY <2>2, <3>1, <3>3, <3>4
  <2> QED  BY <2>1, <2>2
<1>4. f = body(f)
  <2>1. DOMAIN f = 0..N /\ f = [n \in 0..N |-> f[n]]
    OBVIOUS
  <2>2. DOMAIN body(f) = 0..N
    OBVIOUS
  <2> QED  BY <1>3, <2>1, <2>2
<1> DEFINE g == CHOOSE g : g = body(g)
<1>5. g = body(g)
  <2> HIDE DEF body
  <2> QED  BY <1>4
<1>6. Parsed(matrix) = g[N]
  BY DEF Parsed, N
<1> HIDE DEF g
<1>7. g[0] = Created
  BY <1>0, <1>5
<1>8. ASSUME NEW n \in 1..N
      PROVE  g[n] = ConnectLcores(g[n - 1], matrix[n])
  <2>1. n \in 0..N /\ n # 0
    BY <1>0
  <2> QED  BY <1>5, <2>1
<1> QED  BY <1>6, <1>7, <1>8 DEF EntriesRun, N

(* What the entries say an lcore does, and the pairs of the first n of     *)
(* them.                                                                   *)
Does(matrix) ==
  [l \in Lids |-> UNION {Types(matrix[i], l) : i \in DOMAIN matrix}]
AllPairs(matrix, n) == {x \in Lids \X Pids : \E i \in 1..n : x \in Pairs(matrix[i])}

(* pg_parse_matrix connects the pairs the entries name.                    *)
LEMMA ParsedConnected ==
  ASSUME NEW matrix, matrix \in Seq(ToSet(matrix)), Consistent(matrix)
  PROVE  Connected(Parsed(matrix), AllPairs(matrix, Len(matrix)), Does(matrix))
<1> DEFINE N == Len(matrix)
           T == Does(matrix)
           Q(n) == AllPairs(matrix, n)
<1>0. N \in Nat /\ DOMAIN matrix = 1..N
  OBVIOUS
<1>1. T \in [Lids -> SUBSET {RX, TX}]
  BY DEF Does, Types
<1>2. PICK f : EntriesRun(f, matrix)
  BY ParsedLoop
<1>8. /\ f[0] = Created /\ Parsed(matrix) = f[N]
      /\ \A n \in 1..N : f[n] = ConnectLcores(f[n - 1], matrix[n])
  BY <1>2 DEF EntriesRun
<1> HIDE DEF N
<1>3. ASSUME NEW i \in 1..N, NEW l \in Lids, Types(matrix[i], l) # {}
      PROVE  Types(matrix[i], l) = T[l]
  <2>1. \A j \in 1..N :
          Types(matrix[j], l) = {} \/ Types(matrix[j], l) = Types(matrix[i], l)
    BY <1>0, <1>3 DEF Consistent
  <2> QED  BY <1>0, <2>1 DEF Does
<1> HIDE DEF T
<1> DEFINE I == {n \in Nat : n <= N => Connected(f[n], Q(n), T)}
<1> HIDE DEF Q
<1>4. 0 \in I
  <2>1. Q(0) = {}
    BY DEF Q, AllPairs
  <2> QED  BY <1>0, <1>1, <1>8, <2>1, CreatedConnected
<1>5. ASSUME NEW n \in I PROVE n + 1 \in I
  <2> SUFFICES ASSUME n + 1 <= N PROVE Connected(f[n + 1], Q(n + 1), T)
    OBVIOUS
  <2>1. n \in Nat /\ n + 1 \in 1..N /\ (n + 1) - 1 = n
    BY <1>0
  <2> DEFINE e == matrix[n + 1]
  <2>2. Connected(f[n], Q(n), T) /\ f[n + 1] = ConnectLcores(f[n], e)
    BY <1>0, <1>8, <2>1
  <2>3. Q(n) \in SUBSET (Lids \X Pids)
    BY DEF Q, AllPairs
  <2>4. Q(n + 1) = Q(n) \cup Pairs(e)
    <3>1. \A i : i \in 1..(n + 1) <=> i \in 1..n \/ i = n + 1
      BY <2>1
    <3>2. Pairs(e) \subseteq Lids \X Pids
      BY DEF Pairs
    <3> QED  BY <3>1, <3>2 DEF Q, AllPairs
  <2>5. ASSUME NEW l \in Lids, Types(e, l) # {}, NEW p \in PortsOf(e)
        PROVE  <<l, p>> \notin Q(n)
    <3> SUFFICES ASSUME <<l, p>> \in Q(n) PROVE FALSE
      OBVIOUS
    <3>1. PICK i \in 1..n : <<l, p>> \in Pairs(matrix[i])
      BY DEF Q, AllPairs
    <3>2. Types(matrix[i], l) # {} /\ p \in PortsOf(matrix[i])
      BY <3>1 DEF Pairs
    <3>3. i \in DOMAIN matrix /\ n + 1 \in DOMAIN matrix /\ i # n + 1
      BY <1>0, <2>1
    <3>4. PortsOf(matrix[i]) \cap PortsOf(e) = {}
      BY <2>5, <3>2, <3>3 DEF Consistent
    <3> QED  BY <2>5, <3>2, <3>4
  <2>6. ASSUME NEW l \in Lids, Types(e, l) # {}
        PROVE  Types(e, l) = T[l] /\ \A p \in PortsOf(e) : <<l, p>> \notin Q(n)
    BY <1>3, <2>1, <2>5, <2>6
  <2> HIDE DEF e
  <2>7. Connected(ConnectLcores(f[n], e), Q(n) \cup Pairs(e), T)
    BY <1>1, <2>2, <2>3, <2>6, LcoresKeep
  <2> QED  BY <2>2, <2>4, <2>7
<1>6. N \in I
  <2>1. I \subseteq Nat
    OBVIOUS
  <2> HIDE DEF I
  <2> QED  BY <1>0, <1>4, <1>5, <2>1, NatInd
<1>7. Connected(f[N], Q(N), T)
  BY <1>0, <1>6
<1> QED  BY <1>7, <1>8 DEF N, Q, T

(* An lcore's loop goes through the ports it was connected to.             *)
LoopsListed(s) ==
  \A d \in {RX, TX}, l \in Lids : Loop(s, d, l) = s.pids[d][l]
LEMMA LoopOfPorts ==
  ASSUME NEW T \in [Lids -> SUBSET {RX, TX}], NEW P \in SUBSET (Lids \X Pids), NEW s,
         Connected(s, P, T)
  PROVE  LoopsListed(s)
<1> SUFFICES ASSUME NEW d \in {RX, TX}, NEW l \in Lids
             PROVE  Loop(s, d, l) = s.pids[d][l]
  BY DEF LoopsListed
<1>1. /\ s \in Table /\ TypesSet(s, P, T) /\ PidsListed(s, P, T) /\ BothAlike(s, T)
  BY DEF Connected
<1>2. \A c \in {RX, TX} : s.pids[c][l] \in Seq(Pids)
  BY <1>1 DEF Table
<1>3. s.type[l] = IF \E p \in Pids : <<l, p>> \in P THEN T[l] ELSE {}
  BY <1>1 DEF TypesSet
<1>4. \A p \in Pids : (\E k \in DOMAIN s.pids[d][l] : s.pids[d][l][k] = p) <=>
                        (<<l, p>> \in P /\ d \in T[l])
  BY <1>1 DEF PidsListed
<1>5. s.type[l] \in SUBSET {RX, TX} /\ RX # TX
  BY <1>1 DEF Table, RX, TX
<1>6. CASE s.type[l] = {RX, TX}
  <2>1. T[l] = {RX, TX}
    BY <1>3, <1>6
  <2>2. s.pids[RX][l] = s.pids[TX][l]
    BY <1>1, <2>1 DEF BothAlike
  <2>3. Loop(s, d, l) = SubSeq(s.pids[RX][l], 1, Len(s.pids[TX][l]))
    BY <1>5, <1>6 DEF Loop
  <2> DEFINE q == s.pids[d][l]
  <2>4. q \in Seq(Pids) /\ Loop(s, d, l) = SubSeq(q, 1, Len(q))
    BY <1>2, <2>2, <2>3
  <2> HIDE DEF q
  <2>5. SubSeq(q, 1, Len(q)) = q
    BY <2>4
  <2> QED  BY <2>4, <2>5 DEF q
<1>7. CASE s.type[l] = {d}
  BY <1>5, <1>7 DEF Loop
<1>8. CASE s.type[l] # {RX, TX} /\ s.type[l] # {d}
  <2>1. Loop(s, d, l) = <<>>
    BY <1>8 DEF Loop
  <2>2. d \notin s.type[l]
    BY <1>5, <1>8
  <2>3. \A p \in Pids : ~ (<<l, p>> \in P /\ d \in T[l])
    BY <1>3, <2>2
  <2>4. \A k \in DOMAIN s.pids[d][l] : s.pids[d][l][k] \in Pids
    BY <1>2
  <2>5. DOMAIN s.pids[d][l] = {}
    BY <1>4, <2>3, <2>4
  <2>6. s.pids[d][l] = <<>>
    <3> DEFINE q == s.pids[d][l]
    <3>1. q \in Seq(Pids) /\ Len(q) \in Nat /\ DOMAIN q = 1..Len(q)
      BY <1>2
    <3>2. DOMAIN q = {}
      BY <2>5
    <3> HIDE DEF q
    <3>3. Len(q) = 0
      BY <3>1, <3>2
    <3>4. q = <<>>
      BY <3>1, <3>3, EmptySeq
    <3> QED  BY <3>4 DEF q
  <2> QED  BY <2>1, <2>6
<1> QED  BY <1>6, <1>7, <1>8

(* A table of connected pairs has each queue served by one lcore, in one   *)
(* place: the queue numbers of a port are those below its next one, each   *)
(* of one lcore, and the lcores that were counted for the port are those   *)
(* with a number.                                                          *)
LEMMA ConnectedServed ==
  ASSUME NEW T \in [Lids -> SUBSET {RX, TX}], NEW P \in SUBSET (Lids \X Pids), NEW s,
         Connected(s, P, T)
  PROVE  QueuesServed(s)
<1>1. /\ s \in Table /\ PidsListed(s, P, T) /\ MapMarked(s, P, T)
      /\ NextCounts(s, P, T) /\ QidsGiven(s, P, T)
  BY DEF Connected
<1> SUFFICES ASSUME NEW d \in {RX, TX}, NEW pid \in Pids, NEW q \in Nat
             PROVE  Cardinality(Served(s, d, pid, q)) =
                      IF q < Queues(s, d, pid) THEN 1 ELSE 0
  <2>1. IsFiniteSet(Lids)
    BY L2pAssumption, FS_Interval DEF Lids
  <2>2. 0..Cardinality(Lids) \subseteq Nat
    BY <2>1, FS_CardinalityType
  <2> QED  BY <2>2 DEF QueuesServed
<1> DEFINE on == Servers(P, T, d, pid)
           n == s.next[d][pid]
<1>2. Queues(s, d, pid) = n
  <2>1. {l \in Lids : s.map[d][pid][l] > 0} = on
    BY <1>1 DEF MapMarked, Servers
  <2> QED  BY <1>1, <2>1 DEF Queues, NextCounts
<1>3. \A l \in Lids : \A k : <<l, k>> \in Served(s, d, pid, q) <=>
        /\ s.qids[d][l][pid] = q
        /\ k \in DOMAIN s.pids[d][l] /\ s.pids[d][l][k] = pid
  <2>1. \A l \in Lids : Loop(s, d, l) = s.pids[d][l]
    BY LoopOfPorts DEF LoopsListed
  <2>2. \A l \in Lids : \A k : <<l, k>> \in Served(s, d, pid, q) <=>
          /\ s.qids[d][l][pid] = q
          /\ k \in DOMAIN Loop(s, d, l) /\ Loop(s, d, l)[k] = pid
    BY DEF Served
  <2> QED  BY <2>1, <2>2
<1>4. \A x \in Served(s, d, pid, q) : \E l \in Lids : \E k : x = <<l, k>>
  BY DEF Served
<1>5. \A l \in Lids :
        /\ \A i, j \in DOMAIN s.pids[d][l] : s.pids[d][l][i] = s.pids[d][l][j] => i = j
        /\ (\E k \in DOMAIN s.pids[d][l] : s.pids[d][l][k] = pid) <=> l \in on
  BY <1>1 DEF PidsListed, Servers
<1>6. /\ \A l \in on : s.qids[d][l][pid] < n
      /\ \A l, m \in on : s.qids[d][l][pid] = s.qids[d][m][pid] => l = m
      /\ \A r \in Nat : r < n => \E l \in on : s.qids[d][l][pid] = r
  BY <1>1 DEF QidsGiven
<1>7. on \subseteq Lids
  BY DEF Servers
<1>8. n \in Nat
  BY <1>1 DEF Table
<1> HIDE DEF on, n
<1>9. CASE q < n
  <2>1. PICK l \in on : s.qids[d][l][pid] = q
    BY <1>6, <1>9
  <2>2. PICK k \in DOMAIN s.pids[d][l] : s.pids[d][l][k] = pid
    BY <1>5, <1>7, <2>1
  <2>3. <<l, k>> \in Served(s, d, pid, q)
    BY <1>3, <1>7, <2>1, <2>2
  <2>4. ASSUME NEW x \in Served(s, d, pid, q) PROVE x = <<l, k>>
    <3>0. PICK m \in Lids : \E e : x = <<m, e>>
      BY <1>4
    <3>1. PICK j : x = <<m, j>>
      BY <3>0
    <3>2. /\ s.qids[d][m][pid] = q
          /\ j \in DOMAIN s.pids[d][m] /\ s.pids[d][m][j] = pid
      BY <1>3, <2>4, <3>1
    <3>3. m \in on
      BY <1>5, <3>2
    <3>4. m = l
      BY <1>6, <2>1, <3>2, <3>3
    <3> QED  BY <1>5, <1>7, <2>2, <3>1, <3>2, <3>4
  <2>5. Served(s, d, pid, q) = {<<l, k>>}
    BY <2>3, <2>4
  <2> QED  BY <1>2, <1>9, <2>5, FS_Singleton
<1>10. CASE ~ (q < n)
  <2>1. ASSUME NEW x \in Served(s, d, pid, q) PROVE FALSE
    <3>0. PICK m \in Lids : \E e : x = <<m, e>>
      BY <1>4
    <3>1. PICK j : x = <<m, j>>
      BY <3>0
    <3>2. /\ s.qids[d][m][pid] = q
          /\ j \in DOMAIN s.pids[d][m] /\ s.pids[d][m][j] = pid
      BY <1>3, <2>1, <3>1
    <3>3. m \in on
      BY <1>5, <3>2
    <3> QED  BY <1>6, <1>10, <3>2, <3>3
  <2>2. Served(s, d, pid, q) = {}
    BY <2>1
  <2> QED  BY <1>2, <1>10, <2>2, FS_EmptySet
<1> QED  BY <1>9, <1>10

(* An lcore that both receives and transmits does so for the same ports:   *)
(* what Lifecycle assumes of its mapping.                                  *)
LEMMA ConnectedAlike ==
  ASSUME NEW T \in [Lids -> SUBSET {RX, TX}], NEW P \in SUBSET (Lids \X Pids), NEW s,
         Connected(s, P, T), NEW l \in Lids
  PROVE  RxPortsOf(s, l) # {} /\ TxPortsOf(s, l) # {} =>
           RxPortsOf(s, l) = TxPortsOf(s, l)
<1>1. PidsListed(s, P, T) /\ BothAlike(s, T) /\ s \in Table
  BY DEF Connected
<1>2. \A d \in {RX, TX} : Loop(s, d, l) = s.pids[d][l]
  <2>1. LoopsListed(s)
    BY LoopOfPorts
  <2> QED  BY <2>1 DEF LoopsListed
<1> SUFFICES ASSUME RxPortsOf(s, l) # {}, TxPortsOf(s, l) # {}
             PROVE  RxPortsOf(s, l) = TxPortsOf(s, l)
  OBVIOUS
<1>3. ASSUME NEW d \in {RX, TX}, ToSet(Loop(s, d, l)) # {} PROVE d \in T[l]
  <2> DEFINE q == s.pids[d][l]
  <2>1. q \in Seq(Pids)
    BY <1>1 DEF Table
  <2>2. \A p \in Pids : (\E k \in DOMAIN q : q[k] = p) <=> (<<l, p>> \in P /\ d \in T[l])
    BY <1>1 DEF PidsListed
  <2>3. ToSet(q) # {}
    BY <1>2, <1>3
  <2> HIDE DEF q
  <2>4. PICK k \in DOMAIN q : TRUE
    BY <2>3 DEF ToSet
  <2>5. q[k] \in Pids
    BY <2>1, <2>4
  <2> QED  BY <2>2, <2>4, <2>5
<1>4. RX \in T[l] /\ TX \in T[l]
  BY <1>3 DEF RxPortsOf, TxPortsOf
<1>5. s.pids[RX][l] = s.pids[TX][l]
  BY <1>1, <1>4 DEF BothAlike
<1> QED  BY <1>2, <1>5 DEF RxPortsOf, TxPortsOf

LEMMA LoopsAlike ==
  ASSUME NEW matrix, matrix \in Seq(ToSet(matrix)), Consistent(matrix), NEW l \in Lids,
         RxPortsOf(Parsed(matrix), l) # {}, TxPortsOf(Parsed(matrix), l) # {}
  PROVE  RxPortsOf(Parsed(matrix), l) = TxPortsOf(Parsed(matrix), l)
<1>1. Connected(Parsed(matrix), AllPairs(matrix, Len(matrix)), Does(matrix))
  BY ParsedConnected
<1>2. /\ Does(matrix) \in [Lids -> SUBSET {RX, TX}]
      /\ AllPairs(matrix, Len(matrix)) \in SUBSET (Lids \X Pids)
  BY DEF Does, Types, AllPairs
<1> QED  BY <1>1, <1>2, ConnectedAlike

(* Whatever consistent matrix -m gave.                                     *)
LEMMA MatrixServed ==
  ASSUME NEW matrix, matrix \in Seq(ToSet(matrix)), Consistent(matrix)
  PROVE  QueuesServed(Parsed(matrix))
<1>1. Connected(Parsed(matrix), AllPairs(matrix, Len(matrix)), Does(matrix))
  BY ParsedConnected
<1>2. /\ Does(matrix) \in [Lids -> SUBSET {RX, TX}]
      /\ AllPairs(matrix, Len(matrix)) \in SUBSET (Lids \X Pids)
  BY DEF Does, Types, AllPairs
<1> QED  BY <1>1, <1>2, ConnectedServed

(* When the lcores are launched, every queue that pktgen_config_ports gave *)
(* a port is served by one lcore at one place of its loop, and no lcore    *)
(* uses a queue beyond them, for any numbers of lcores and ports and any   *)
(* matrix whose entries agree about each lcore (l2p_connect and            *)
(* pg_parse_matrix against port_map_info).                                 *)
THEOREM EachQueueHasItsLcore == Spec => []EachQueueServed
<1>1. EachQueueServed
  BY MappingAssumption, MatrixServed DEF EachQueueServed
<1> QED  BY <1>1, PTL
=============================================================================

------------------------------ MODULE Transmit ------------------------------
(***************************************************************************)
(* The transmit engine of one port of pktgen: the commands that start,     *)
(* prime, stop and reconfigure it (app/pktgen-cmds.c), the POSIX signal    *)
(* handlers that do the same behind the command line's back                *)
(* (app/pktgen-tool.c), and the lcores that poll the port's flags and hand *)
(* bursts of packets to the device, one lcore per TX queue                 *)
(* (app/pktgen.c, pktgen_main_transmit).                                   *)
(*                                                                         *)
(* Everything these threads share is a word read and written without a     *)
(* lock: the port flags, each queue's flags, the two packet counters and   *)
(* is_first_tx.  One action below is one access to one of them, with the   *)
(* thread-local work up to the next access.  The port and queue flags are  *)
(* changed by compare-and-set loops in the code, so changing one is one    *)
(* atomic step here.                                                       *)
(***************************************************************************)
EXTENDS Naturals, FiniteSets

CONSTANTS
  NQ,         \* number of TX queues of the port, each polled by its lcore
  TxBurst,    \* info->tx_burst
  Counts,     \* values "set <port> count" may be given, 0 is forever
  PrimeCnt,   \* info->prime_cnt
  Handlers,   \* signal handlers that run commands: "usr" (SIGUSR1, SIGUSR2)
              \* and "alrm" (SIGALRM)
  TestDuration, \* test_duration of user_input.cfg, 0 is for ever
  Modes,      \* packet modes the command line switches on and off
  Options,    \* burst options it switches on and off
  MaxCmds,    \* bound: commands begun in a behaviour
  MaxCfg      \* bound: versions of the packet configuration

ASSUME TxAssumption ==
  /\ NQ \in Nat \ {0}
  /\ TxBurst \in Nat \ {0}
  /\ Counts \subseteq Nat
  /\ PrimeCnt \in Nat \ {0}
  /\ Handlers \subseteq {"usr", "alrm"}
  /\ TestDuration \in Nat
  /\ Modes \subseteq {"SEND_RANGE_PKTS", "SEND_SEQ_PKTS", "SEND_PCAP_PKTS"}
  /\ Options \subseteq {"SEND_RANDOM_PKTS", "SEND_LATENCY_PKTS",
                        "PROCESS_TX_TAP_PKTS"}
  /\ MaxCmds \in Nat
  /\ MaxCfg \in Nat

Queues == 0..NQ-1
Pools  == {"tx_mp", "range_mp", "seq_mp", "pcap_mp"}
Threads == {"cli"} \cup Handlers
NoQ    == NQ                   \* the port_lock is free

ModeFlags == {"SEND_RANGE_PKTS", "SEND_SEQ_PKTS", "SEND_PCAP_PKTS"}
OptionFlags == {"SEND_RANDOM_PKTS", "SEND_LATENCY_PKTS", "PROCESS_TX_TAP_PKTS"}
PortFlags == {"SENDING_PACKETS", "SEND_FOREVER"} \cup ModeFlags \cup OptionFlags
QFlags    == {"CLEAR_FAST_ALLOC_FLAG", "DO_TX_FLUSH"}
Sending   == {"SENDING_PACKETS", "SEND_FOREVER"}

VARIABLES
  portFlags,     \* info->port_flags
  qFlags,        \* info->q[q].flags
  transmitCount, \* info->transmit_count
  currentCount,  \* info->current_tx_count
  portLock,      \* holder of info->port_lock, or NoQ
  isFirstTx,     \* is_first_tx
  alarm,         \* the process's alarm timer is running
  cfg,           \* version of the packet settings (seq_pkt, range)
  pool,          \* version of the settings each mempool's mbufs were built
                 \* from, 0 before any build
  lpc,           \* where each TX lcore is in pktgen_main_transmit
  mp,            \* the mempool it transmits from
  left,          \* its local count (tmp1, then the packets left to hand over)
  cpc,           \* where each commanding thread is
  cq,            \* its loop index over the queues
  ncmd,          \* commands begun
  \* history of the transmission in progress, read by no action
  loaded,        \* packets asked for when currentCount was last set
  granted,       \* packets lcores took out of currentCount since
  late,          \* bursts each queue began since the port last stopped
  startCfg,      \* settings in force when the queue was last told to rebuild
  builtMp        \* mempool the queue last rebuilt

ports   == <<portFlags, qFlags>>
counts  == <<transmitCount, currentCount, loaded, granted>>
timer   == <<isFirstTx, alarm>>
pools   == <<portLock, cfg, pool, startCfg, builtMp>>
lcores  == <<lpc, mp, left>>
cmds    == <<cpc, cq, ncmd>>
vars    == <<ports, counts, timer, pools, lcores, cmds, late>>

LcorePc == {"poll", "setup", "lock", "build", "send", "load", "cas", "done",
            "alloc", "burst", "tagged", "first", "unfirst", "qflags", "flush"}
CmdPc   == {"idle", "start_q", "start_cnt", "start_send", "start_ever",
            "prime_q", "prime_cnt", "prime_send", "flush_q", "alrm_first",
            "mode_range", "mode_seq", "mode_pcap"}

Init ==
  /\ portFlags = {}
  /\ qFlags = [q \in Queues |-> {}]
  /\ transmitCount = 0                       \* DEFAULT_TX_COUNT, forever
  /\ currentCount = 0
  /\ portLock = NoQ
  /\ isFirstTx = TRUE
  /\ alarm = FALSE
  /\ cfg = 1
  /\ pool = [q \in Queues |-> [p \in Pools |-> 0]]
  /\ lpc = [q \in Queues |-> "poll"]
  /\ mp = [q \in Queues |-> "tx_mp"]
  /\ left = [q \in Queues |-> 0]
  /\ cpc = [t \in Threads |-> "idle"]
  /\ cq = [t \in Threads |-> 0]
  /\ ncmd = 0
  /\ loaded = 0
  /\ granted = 0
  /\ late = [q \in Queues |-> 0]
  /\ startCfg = [q \in Queues |-> 0]
  /\ builtMp = [q \in Queues |-> "tx_mp"]

-----------------------------------------------------------------------------
(* Commands.  A thread begins one when it is idle; a handler's are those   *)
(* start_gtp_traffic and quit_gtp_traffic issue.                           *)

CGoto(t, l) == cpc' = [cpc EXCEPT ![t] = l]

Begin(t, l) ==
  /\ cpc[t] = "idle"
  /\ ncmd < MaxCmds
  /\ ncmd' = ncmd + 1
  /\ CGoto(t, l)
  /\ cq' = [cq EXCEPT ![t] = 0]

\* Mutant: the loop runs one queue too far and does not restart at zero.
SetQFlag_past(t, f, here, next) ==
  /\ cpc[t] = here
  /\ qFlags' = [qFlags EXCEPT ![cq[t]] = @ \cup {f}]
  /\ cq' = [cq EXCEPT ![t] = @ + 1]
  /\ CGoto(t, IF cq[t] = NQ - 1 THEN next ELSE here)
  /\ UNCHANGED <<portFlags, ncmd>>

\* One turn of "for (q = 0; q < txcnt; q++) pktgen_set_q_flags(info, q, f)".
SetQFlag(t, f, here, next) ==
  /\ cpc[t] = here
  /\ qFlags' = [qFlags EXCEPT ![cq[t]] = @ \cup {f}]
  /\ cq' = [cq EXCEPT ![t] = IF @ = NQ - 1 THEN 0 ELSE @ + 1]
  /\ CGoto(t, IF cq[t] = NQ - 1 THEN next ELSE here)
  /\ UNCHANGED <<portFlags, ncmd>>

\* rte_atomic64_set(&info->current_tx_count, k)
LoadCount(k) ==
  /\ currentCount' = k
  /\ loaded' = k
  /\ granted' = 0
  /\ UNCHANGED transmitCount

SetSending ==
  /\ portFlags' = portFlags \cup {"SENDING_PACKETS"}
  /\ late' = [q \in Queues |-> 0]

\* pktgen_start_transmitting, which does nothing on a port already sending.
Start(t) ==
  /\ t \in {"cli", "usr"}
  /\ "SENDING_PACKETS" \notin portFlags
  /\ Begin(t, "start_q")
  /\ UNCHANGED <<ports, counts, timer, pools, lcores, late>>

StartClearQ(t) ==
  /\ SetQFlag(t, "CLEAR_FAST_ALLOC_FLAG", "start_q", "start_cnt")
  /\ startCfg' = [startCfg EXCEPT ![cq[t]] = cfg]
  /\ UNCHANGED <<counts, timer, portLock, cfg, pool, builtMp, lcores, late>>

StartCount(t) ==
  /\ cpc[t] = "start_cnt"
  /\ LoadCount(transmitCount)
  /\ CGoto(t, "start_send")
  /\ UNCHANGED <<ports, timer, pools, lcores, cq, ncmd, late>>

StartSend(t) ==
  /\ cpc[t] = "start_send"
  /\ SetSending
  /\ CGoto(t, "start_ever")
  /\ UNCHANGED <<qFlags, counts, timer, pools, lcores, cq, ncmd>>

\* The counter is read again, after the lcores have seen SENDING_PACKETS.
StartForever(t) ==
  /\ cpc[t] = "start_ever"
  /\ portFlags' = IF currentCount = 0 THEN portFlags \cup {"SEND_FOREVER"}
                                      ELSE portFlags
  /\ CGoto(t, "idle")
  /\ UNCHANGED <<qFlags, counts, timer, pools, lcores, cq, ncmd, late>>

\* pktgen_prime_ports, which asks nothing about the port's state and leaves
\* SEND_FOREVER as it finds it.
Prime ==
  /\ Begin("cli", "prime_q")
  /\ UNCHANGED <<ports, counts, timer, pools, lcores, late>>

PrimeClearQ ==
  /\ SetQFlag("cli", "CLEAR_FAST_ALLOC_FLAG", "prime_q", "prime_cnt")
  /\ startCfg' = [startCfg EXCEPT ![cq["cli"]] = cfg]
  /\ UNCHANGED <<counts, timer, portLock, cfg, pool, builtMp, lcores, late>>

PrimeCount ==
  /\ cpc["cli"] = "prime_cnt"
  /\ LoadCount(PrimeCnt)
  /\ CGoto("cli", "prime_send")
  /\ UNCHANGED <<ports, timer, pools, lcores, cq, ncmd, late>>

PrimeSend ==
  /\ cpc["cli"] = "prime_send"
  /\ SetSending
  /\ CGoto("cli", "flush_q")
  /\ UNCHANGED <<qFlags, counts, timer, pools, lcores, cq, ncmd>>

\* pktgen_stop_transmitting: nothing on a port that is not sending.
Stop(t) ==
  /\ t \in {"cli", "usr"}
  /\ "SENDING_PACKETS" \in portFlags
  /\ Begin(t, "flush_q")
  /\ portFlags' = portFlags \ Sending
  /\ UNCHANGED <<qFlags, counts, timer, pools, lcores, late>>

FlushQ(t) ==
  /\ SetQFlag(t, "DO_TX_FLUSH", "flush_q",
              IF t = "alrm" THEN "alrm_first" ELSE "idle")
  /\ UNCHANGED <<counts, timer, pools, lcores, late>>

\* SIGALRM: stop_pkt_frwding stops the port and rearms is_first_tx.  A test
\* lasts whole seconds: the timer never rings between register_for_timeout
\* and the store that follows it.
Alarm ==
  /\ "alrm" \in Handlers /\ alarm /\ cpc["alrm"] = "idle"
  /\ \A q \in Queues : lpc[q] # "unfirst"
  /\ alarm' = FALSE
  /\ cq' = [cq EXCEPT !["alrm"] = 0]
  /\ portFlags' = portFlags \ (IF "SENDING_PACKETS" \in portFlags
                               THEN Sending ELSE {})
  /\ CGoto("alrm", IF "SENDING_PACKETS" \in portFlags THEN "flush_q"
                                                      ELSE "alrm_first")
  /\ UNCHANGED <<qFlags, counts, isFirstTx, pools, lcores, ncmd, late>>

\* Mutant: the handler stops the port and does not rearm is_first_tx.
AlarmFirst_forgotten ==
  /\ "alrm" \in Handlers /\ cpc["alrm"] = "alrm_first"
  /\ CGoto("alrm", "idle")
  /\ UNCHANGED <<ports, counts, timer, pools, lcores, cq, ncmd, late>>

AlarmFirst ==
  /\ "alrm" \in Handlers /\ cpc["alrm"] = "alrm_first"
  /\ isFirstTx' = TRUE
  /\ CGoto("alrm", "idle")
  /\ UNCHANGED <<ports, counts, alarm, pools, lcores, cq, ncmd, late>>

\* single_set_tx_count
SetCount(k) ==
  /\ Begin("cli", "idle")
  /\ k # transmitCount
  /\ transmitCount' = k
  /\ UNCHANGED <<ports, currentCount, loaded, granted, timer, pools, lcores,
                 late>>

\* Any command that changes the packets to be built (set, range, seq): it
\* writes the settings and leaves the mempools alone.
SetConfig ==
  /\ Begin("cli", "idle")
  /\ cfg < MaxCfg
  /\ cfg' = cfg + 1
  /\ UNCHANGED <<ports, counts, timer, portLock, pool, startCfg, builtMp,
                 lcores, late>>

ModePc == [SEND_RANGE_PKTS |-> "mode_range", SEND_SEQ_PKTS |-> "mode_seq",
           SEND_PCAP_PKTS |-> "mode_pcap"]

\* enable_range, pktgen_set_port_seqCnt, enable_pcap: the other modes, of
\* which at most one is set, are cleared first, the wanted one is set after.
EnableMode(m) ==
  /\ Begin("cli", ModePc[m])
  /\ portFlags' = portFlags \ (ModeFlags \ {m})
  /\ UNCHANGED <<qFlags, counts, timer, pools, lcores, late>>

SetMode(m) ==
  /\ cpc["cli"] = ModePc[m]
  /\ portFlags' = portFlags \cup {m}
  /\ CGoto("cli", "idle")
  /\ UNCHANGED <<qFlags, counts, timer, pools, lcores, cq, ncmd, late>>

\* enable_random, enable_latency, enable_tx_tap: one flag each.
EnableOption(f) ==
  /\ f \notin portFlags
  /\ Begin("cli", "idle")
  /\ portFlags' = portFlags \cup {f}
  /\ UNCHANGED <<qFlags, counts, timer, pools, lcores, late>>

\* Switching a mode or an option off.
Disable(f) ==
  /\ f \in portFlags
  /\ Begin("cli", "idle")
  /\ portFlags' = portFlags \ {f}
  /\ UNCHANGED <<qFlags, counts, timer, pools, lcores, late>>

-----------------------------------------------------------------------------
(* A TX lcore: one iteration of pktgen_main_transmit on its queue.         *)

At(q, l)   == lpc[q] = l
Goto(q, l) == lpc' = [lpc EXCEPT ![q] = l]
Clear(q, f) == qFlags' = [qFlags EXCEPT ![q] = @ \ {f}]

\* The mempool the mode flags choose: range before sequence before PCAP.
ChosenPool(flags) ==
  IF "SEND_RANGE_PKTS" \in flags THEN "range_mp"
  ELSE IF "SEND_SEQ_PKTS" \in flags THEN "seq_mp"
  ELSE IF "SEND_PCAP_PKTS" \in flags THEN "pcap_mp" ELSE "tx_mp"

\* The port flags are read once; the lcore goes by them for this iteration.
Poll(q) ==
  /\ At(q, "poll")
  /\ IF "SENDING_PACKETS" \in portFlags
       THEN /\ mp' = [mp EXCEPT ![q] = ChosenPool(portFlags)]
            /\ Goto(q, "setup")
       ELSE /\ Goto(q, "qflags")
            /\ UNCHANGED mp
  /\ UNCHANGED <<ports, counts, timer, pools, left, cmds, late>>

\* pktgen_setup_packets clears the request before it does the work, and
\* leaves a PCAP pool as the file's packets filled it.
SetupPackets(q) ==
  /\ At(q, "setup")
  /\ IF "CLEAR_FAST_ALLOC_FLAG" \in qFlags[q]
       THEN /\ Clear(q, "CLEAR_FAST_ALLOC_FLAG")
            /\ builtMp' = [builtMp EXCEPT ![q] = mp[q]]
            /\ Goto(q, IF mp[q] = "pcap_mp" THEN "send" ELSE "lock")
       ELSE /\ Goto(q, "send")
            /\ UNCHANGED <<qFlags, builtMp>>
  /\ UNCHANGED <<portFlags, counts, timer, portLock, cfg, pool, startCfg, mp,
                 left, cmds, late>>

\* Mutant: no lock around the shared packet scratch.
LockPort_none(q) ==
  /\ At(q, "lock")
  /\ portLock' = q
  /\ left' = [left EXCEPT ![q] = cfg]
  /\ Goto(q, "build")
  /\ UNCHANGED <<ports, counts, timer, cfg, pool, startCfg, builtMp, mp, cmds,
                 late>>

\* rte_spinlock_lock; the settings read from here on are at least these.
LockPort(q) ==
  /\ At(q, "lock")
  /\ portLock = NoQ
  /\ portLock' = q
  /\ left' = [left EXCEPT ![q] = cfg]
  /\ Goto(q, "build")
  /\ UNCHANGED <<ports, counts, timer, cfg, pool, startCfg, builtMp, mp, cmds,
                 late>>

\* Mutant: the rebuild request is cleared when the work is done.
BuildPool_clear(q) ==
  /\ At(q, "build")
  /\ Clear(q, "CLEAR_FAST_ALLOC_FLAG")
  /\ pool' = [pool EXCEPT ![q][mp[q]] = left[q]]
  /\ portLock' = NoQ
  /\ left' = [left EXCEPT ![q] = 0]
  /\ Goto(q, "send")
  /\ UNCHANGED <<portFlags, counts, timer, cfg, startCfg, builtMp, mp, cmds,
                 late>>

\* rte_mempool_obj_iter(mp, pktgen_setup_cb, ...) and the unlock.
BuildPool(q) ==
  /\ At(q, "build")
  /\ pool' = [pool EXCEPT ![q][mp[q]] = left[q]]
  /\ portLock' = NoQ
  /\ left' = [left EXCEPT ![q] = 0]
  /\ Goto(q, "send")
  /\ UNCHANGED <<ports, counts, timer, cfg, startCfg, builtMp, mp, cmds, late>>

\* pktgen_send_pkts reads the port flags anew.
SendPkts(q) ==
  /\ At(q, "send")
  /\ IF "SEND_FOREVER" \in portFlags
       THEN left' = [left EXCEPT ![q] = TxBurst] /\ Goto(q, "alloc")
       ELSE Goto(q, "load") /\ UNCHANGED left
  /\ UNCHANGED <<ports, counts, timer, pools, mp, cmds, late>>

\* pkt_atomic64_tx_count: read the counter ...
LoadTxCount(q) ==
  /\ At(q, "load")
  /\ left' = [left EXCEPT ![q] = currentCount]
  /\ Goto(q, IF currentCount = 0 THEN "done" ELSE "cas")
  /\ UNCHANGED <<ports, counts, timer, pools, mp, cmds, late>>

\* Mutant: the whole count in one burst.
Burst_whole(k) == k

Burst(k) == IF k > TxBurst THEN TxBurst ELSE k

\* Mutant: a plain store where the code compares and sets.
CasTxCount_store(q) ==
  /\ At(q, "cas")
  /\ currentCount' = left[q] - Burst(left[q])
  /\ granted' = granted + Burst(left[q])
  /\ left' = [left EXCEPT ![q] = Burst(left[q])]
  /\ Goto(q, "alloc")
  /\ UNCHANGED <<ports, transmitCount, loaded, timer, pools, mp, cmds, late>>

\* ... and take a burst out of it if no other lcore or command changed it.
CasTxCount(q) ==
  /\ At(q, "cas")
  /\ IF currentCount = left[q]
       THEN /\ currentCount' = currentCount - Burst(left[q])
            /\ granted' = granted + Burst(left[q])
            /\ left' = [left EXCEPT ![q] = Burst(left[q])]
            /\ Goto(q, "alloc")
       ELSE /\ Goto(q, "load")
            /\ left' = [left EXCEPT ![q] = 0]
            /\ UNCHANGED <<currentCount, granted>>
  /\ UNCHANGED <<ports, transmitCount, loaded, timer, pools, mp, cmds, late>>

\* Mutant: the lcore that finds nothing left only drops SEND_FOREVER.
EndTransmit_half(q) ==
  /\ At(q, "done")
  /\ portFlags' = portFlags \ {"SEND_FOREVER"}
  /\ Goto(q, "qflags")
  /\ UNCHANGED <<qFlags, counts, timer, pools, mp, left, cmds, late>>

\* Nothing left: the lcore itself ends the transmission.
EndTransmit(q) ==
  /\ At(q, "done")
  /\ portFlags' = portFlags \ Sending
  /\ Goto(q, "qflags")
  /\ UNCHANGED <<qFlags, counts, timer, pools, mp, left, cmds, late>>

\* pg_pktmbuf_alloc_bulk succeeds and the burst begins: pktgen_send_burst
\* goes by the flags of that moment ...
AllocOk(q) ==
  /\ At(q, "alloc")
  /\ Goto(q, IF portFlags \cap OptionFlags = {} THEN "burst" ELSE "tagged")
  /\ late' = [late EXCEPT ![q] = IF "SENDING_PACKETS" \in portFlags
                                 THEN @ ELSE @ + 1]
  /\ UNCHANGED <<ports, counts, timer, pools, mp, left, cmds>>

\* ... or the mempool is empty and the burst, taken from the count or not,
\* is not sent.
AllocFail(q) ==
  /\ At(q, "alloc")
  /\ left' = [left EXCEPT ![q] = 0]
  /\ Goto(q, "qflags")
  /\ UNCHANGED <<ports, counts, timer, pools, mp, cmds, late>>

\* _send_burst_fast: the device takes k of the packets left.
TxBurstCall(q, k) ==
  /\ At(q, "burst")
  /\ k <= left[q]
  /\ left' = [left EXCEPT ![q] = @ - k]
  /\ Goto(q, "first")
  /\ UNCHANGED <<ports, counts, timer, pools, mp, cmds, late>>

\* _send_burst_random, _send_burst_latency and the tapped burst: the same loop
\* without the packet counters and without a look at is_first_tx.
TxBurstTagged(q, k) ==
  /\ At(q, "tagged")
  /\ k <= left[q]
  /\ left' = [left EXCEPT ![q] = @ - k]
  /\ Goto(q, IF k = left[q] THEN "qflags" ELSE "tagged")
  /\ UNCHANGED <<ports, counts, timer, pools, mp, cmds, late>>

\* The first packets of a run start the test's timer (register_for_timeout).
FirstTx(q) ==
  /\ At(q, "first")
  /\ IF isFirstTx
       THEN /\ alarm' = (alarm \/ TestDuration > 0)
            /\ Goto(q, "unfirst")
       ELSE /\ Goto(q, IF left[q] = 0 THEN "qflags" ELSE "burst")
            /\ UNCHANGED alarm
  /\ UNCHANGED <<ports, counts, isFirstTx, pools, mp, left, cmds, late>>

FirstTxDone(q) ==
  /\ At(q, "unfirst")
  /\ isFirstTx' = FALSE
  /\ Goto(q, IF left[q] = 0 THEN "qflags" ELSE "burst")
  /\ UNCHANGED <<ports, counts, alarm, pools, mp, left, cmds, late>>

\* Mutant: the port flags are read once, before the lcore's loop.
PollQFlags_hoisted(q) ==
  /\ At(q, "qflags")
  /\ Goto(q, IF "DO_TX_FLUSH" \in qFlags[q] THEN "flush" ELSE "send")
  /\ UNCHANGED <<ports, counts, timer, pools, mp, left, cmds, late>>

PollQFlags(q) ==
  /\ At(q, "qflags")
  /\ Goto(q, IF "DO_TX_FLUSH" \in qFlags[q] THEN "flush" ELSE "poll")
  /\ mp' = [mp EXCEPT ![q] = "tx_mp"]      \* the pointer dies here
  /\ UNCHANGED <<ports, counts, timer, pools, left, cmds, late>>

\* pktgen_tx_flush: the queue's table is empty after every burst (packets
\* other threads queue on it are the subject of Mbufs).
TxFlush(q) ==
  /\ At(q, "flush")
  /\ Clear(q, "DO_TX_FLUSH")
  /\ Goto(q, "poll")
  /\ UNCHANGED <<portFlags, counts, timer, pools, mp, left, cmds, late>>

-----------------------------------------------------------------------------
Command ==
  \/ \E t \in Threads :
       \/ Start(t) \/ StartClearQ(t) \/ StartCount(t) \/ StartSend(t)
       \/ StartForever(t)
       \/ Stop(t) \/ FlushQ(t)
  \/ Prime \/ PrimeClearQ \/ PrimeCount \/ PrimeSend
  \/ Alarm \/ AlarmFirst
  \/ \E k \in Counts : SetCount(k)
  \/ SetConfig
  \/ \E m \in Modes : EnableMode(m) \/ SetMode(m)
  \/ \E f \in Options : EnableOption(f)
  \/ \E f \in Modes \cup Options : Disable(f)

Lcore(q) ==
  \/ Poll(q) \/ SetupPackets(q) \/ LockPort(q) \/ BuildPool(q) \/ SendPkts(q)
  \/ LoadTxCount(q) \/ CasTxCount(q) \/ EndTransmit(q)
  \/ AllocOk(q) \/ AllocFail(q)
  \/ \E k \in 0..TxBurst : TxBurstCall(q, k) \/ TxBurstTagged(q, k)
  \/ FirstTx(q) \/ FirstTxDone(q)
  \/ PollQFlags(q) \/ TxFlush(q)

Next == Command \/ \E q \in Queues : Lcore(q)

Spec == Init /\ [][Next]_vars

-----------------------------------------------------------------------------
TypeTimer == isFirstTx \in BOOLEAN /\ alarm \in BOOLEAN

TypeData ==
  /\ portFlags \in SUBSET PortFlags
  /\ qFlags \in [Queues -> SUBSET QFlags]
  /\ transmitCount \in Nat /\ currentCount \in Nat
  /\ portLock \in Queues \cup {NoQ}
  /\ cfg \in Nat
  /\ pool \in [Queues -> [Pools -> Nat]]
  /\ lpc \in [Queues -> LcorePc]
  /\ mp \in [Queues -> Pools]
  /\ left \in [Queues -> Nat]
  /\ cpc \in [Threads -> CmdPc]
  /\ cq \in [Threads -> Queues]
  /\ ncmd \in Nat
  /\ loaded \in Nat /\ granted \in Nat
  /\ late \in [Queues -> Nat]
  /\ startCfg \in [Queues -> Nat]
  /\ builtMp \in [Queues -> Pools]

\* The types of the port's words, the threads' places and the history.
TypeOK == TypeData /\ TypeTimer

\* No packet of a counted transmission is granted twice or vanishes from the
\* count, whatever the lcores and the commands do to the counter meanwhile:
\* what is left and what the lcores took is what was asked for
\* (pkt_atomic64_tx_count against rte_atomic64_set).
BudgetConserved == currentCount + granted = loaded

\* Once the port has stopped, by whoever's hand, a queue begins at most one
\* more burst: the one its lcore had already decided on
\* (pktgen_stop_transmitting against pktgen_main_transmit).
StopBound == \A q \in Queues : late[q] <= 1

\* A queue that has consumed a start's rebuild request has a mempool built
\* from the settings that start was given, or newer ones: no change made
\* before the start is lost (pktgen_setup_packets clears the request first).
RebuiltForStart ==
  \A q \in Queues :
    /\ "CLEAR_FAST_ALLOC_FLAG" \notin qFlags[q]
    /\ lpc[q] \notin {"lock", "build"}
    /\ builtMp[q] # "pcap_mp"
    => pool[q][builtMp[q]] >= startCfg[q]

\* One lcore at a time builds packets in the port's shared seq_pkt scratch
\* (port_lock around rte_mempool_obj_iter).
SetupExclusive ==
  \A q, r \in Queues : lpc[q] = "build" /\ lpc[r] = "build" => q = r

\* The counter behaves as the abstract transmit budget.
Budget == INSTANCE TxBudget WITH remaining <- currentCount
ImplementsBudget == Budget!Spec

-----------------------------------------------------------------------------
(* Fairness: an lcore's loop runs for as long as the program does, a       *)
(* command or handler that has begun goes on, an armed timer rings, and a  *)
(* port that is up keeps taking packets and giving their mbufs back.       *)

Continue(t) ==
  \/ StartClearQ(t) \/ StartCount(t) \/ StartSend(t) \/ StartForever(t)
  \/ FlushQ(t)

Fairness ==
  /\ \A q \in Queues :
       /\ WF_vars(Lcore(q))
       /\ SF_vars(LockPort(q))
       /\ SF_vars(AllocOk(q))
       /\ SF_vars(\E k \in 1..TxBurst :
                    TxBurstCall(q, k) \/ TxBurstTagged(q, k))
  /\ \A t \in Threads : WF_vars(Continue(t))
  /\ WF_vars(PrimeClearQ \/ PrimeCount \/ PrimeSend)
  /\ \A m \in Modes : WF_vars(SetMode(m))
  /\ WF_vars(Alarm) /\ WF_vars(AlarmFirst)

FairSpec == Spec /\ Fairness

IsSending == "SENDING_PACKETS" \in portFlags

\* A port does not stay sending for good unless it is told to send forever:
\* a counted transmission is ended by the lcores themselves.
FiniteRunEnds == <>[]IsSending => []<>("SEND_FOREVER" \in portFlags)

\* With a test duration, no transmission of plain bursts outlives the timer
\* that its first packets, or an earlier run's, started (register_for_timeout).
TestDurationEnds ==
  TestDuration > 0 /\ <>[](portFlags \cap OptionFlags = {}) => []<>(~IsSending)

=============================================================================

------------------------------- MODULE Mbufs -------------------------------
(***************************************************************************)
(* Who holds each packet buffer of one port of pktgen: its mempool, the    *)
(* burst an RX lcore is working on, the TX table of queue 0                *)
(* (info->q[0].tx_mbufs), or the device that transmits it.                 *)
(*                                                                         *)
(* Two lcores of app/pktgen.c share the table without a lock.  "tx" runs   *)
(* pktgen_main_transmit: it queues the ARP and ping requests of the        *)
(* command line one by one, fills the table with a whole burst of traffic, *)
(* and flushes it.  "rx" runs pktgen_main_receive: it answers ARP and ping *)
(* requests by queueing the very mbuf that brought them, and then releases *)
(* what it received.  On a port with one lcore the two take turns.         *)
(***************************************************************************)
EXTENDS Naturals, FiniteSets, Sequences, Functions, SequencesExt

CONSTANTS
  RxBufs, TxBufs, SpecialBufs, \* the mbufs of rx_mp, tx_mp and special_mp
  Bursts,      \* values of "set <port> burst"
  TableSize,   \* DEFAULT_PKT_BURST, the entries of m_table
  SeqCnt,      \* info->seqCnt, the sequence packets requests are sent for
  Forever,     \* the port sends without a count
  Roles,       \* values of traffic_gen_as in user_input.cfg
  Split,       \* one lcore receives, another transmits
  NoBuf,       \* the NULL an unused table entry holds
  MaxCmds,     \* bound: commands in a behaviour
  MaxReuses    \* bound: receive bursts that double an mbuf, see Reply

Bufs == RxBufs \cup TxBufs \cup SpecialBufs

ASSUME MbufAssumption ==
  /\ RxBufs \cap TxBufs = {} /\ RxBufs \cap SpecialBufs = {}
  /\ TxBufs \cap SpecialBufs = {}
  /\ IsFiniteSet(Bufs) /\ NoBuf \notin Bufs
  /\ TableSize \in Nat \ {0}
  /\ Bursts \subseteq 1..TableSize /\ Bursts # {}
  /\ SeqCnt \in Nat /\ MaxCmds \in Nat /\ MaxReuses \in Nat
  /\ Roles \subseteq {"IL_TRAFFIC_GEN", "IL_TRAFFIC_RESP",
                     "IL_TRAFFIC_RESP_AS_REF"}
  /\ Roles # {}
  /\ Forever \in BOOLEAN /\ Split \in BOOLEAN

Lcores   == {"rx", "tx"}
Requests == {"arp", "ping"}    \* SEND_ARP_REQUEST, SEND_PING4_REQUEST

VARIABLES
  role,      \* traffic_gen_as
  input,     \* PROCESS_INPUT_PKTS, with ICMP_ECHO_ENABLE_FLAG
  pool,      \* how often each mbuf is in its mempool
  dev,       \* how often it is in the device's TX ring
  table,     \* tx_mbufs.m_table, one entry past its end included
  len,       \* tx_mbufs.len
  txBurst,   \* info->tx_burst
  requests,  \* the SEND_ARP_PING_REQUESTS bits of port_flags
  flush,     \* DO_TX_FLUSH of queue 0
  pc,        \* where each lcore is
  back,      \* where its pktgen_send_burst returns to
  m,         \* the mbuf it is queueing
  i,         \* a local count: the length it read, or allocations made
  ptr, cnt,  \* pktgen_send_burst's pkts and cnt
  burst,     \* rx: the packets it received and still holds
  seen,      \* rx: how many of them it has looked at
  todo,      \* tx: requests still to send
  ncmd,      \* commands given
  reused     \* received mbufs queued or handed over, and freed all the same

mem    == <<pool, dev>>
tab    == <<table, len>>
flags  == <<role, input, requests, flush>>
locals == <<back, m, i, ptr, cnt>>
rx     == <<burst, seen>>
vars   == <<mem, tab, txBurst, flags, pc, locals, rx, todo, ncmd, reused>>

Init ==
  /\ role \in Roles
  /\ input = FALSE
  /\ pool = [b \in Bufs |-> 1]
  /\ dev = [b \in Bufs |-> 0]
  /\ table = [e \in 1..TableSize+1 |-> NoBuf]
  /\ len = 0
  /\ txBurst \in Bursts
  /\ requests = {}
  /\ flush = FALSE
  /\ pc = [t \in Lcores |-> "idle"]
  /\ back = [t \in Lcores |-> "idle"]
  /\ m = [t \in Lcores |-> NoBuf]
  /\ i = [t \in Lcores |-> 0]
  /\ ptr = [t \in Lcores |-> 1]
  /\ cnt = [t \in Lcores |-> 0]
  /\ burst = << >> /\ seen = 0
  /\ todo = 0
  /\ ncmd = 0
  /\ reused = 0

At(t, l)   == pc[t] = l
Goto(t, l) == pc' = [pc EXCEPT ![t] = l]

\* Going on where pktgen_send_mbuf or pktgen_send_burst was called.
Return(t) == Goto(t, back[t]) /\ back' = [back EXCEPT ![t] = "idle"]

\* One lcore for both: it does one thing at a time.
Turn(t) == Split \/ \A u \in Lcores \ {t} : At(u, "idle")

\* Mbufs entering a place, as often as each occurs in a sequence, and mbufs
\* leaving one.
Times(b, s) == Cardinality({e \in DOMAIN s : s[e] = b})
Plus(f, s)  == [b \in Bufs |-> f[b] + Times(b, s)]
Less(f, S)  == [b \in Bufs |-> IF b \in S THEN f[b] - 1 ELSE f[b]]

\* The mbufs a mempool can give, in the order it gives them: which of equals
\* comes first makes no difference.
Free(S) == SetToSeq({b \in S : pool[b] > 0})

-----------------------------------------------------------------------------
(* Commands.                                                               *)

\* pktgen_send_arp_requests, pktgen_ping4
Request(r) ==
  /\ ncmd < MaxCmds /\ ncmd' = ncmd + 1
  /\ requests' = requests \cup {r}
  /\ UNCHANGED <<mem, tab, txBurst, role, input, flush, pc, locals, rx, todo,
                 reused>>

\* single_set_tx_burst
SetBurst(k) ==
  /\ ncmd < MaxCmds /\ ncmd' = ncmd + 1
  /\ k # txBurst /\ txBurst' = k
  /\ UNCHANGED <<mem, tab, flags, pc, locals, rx, todo, reused>>

\* enable_process
EnableProcess(on) ==
  /\ ncmd < MaxCmds /\ ncmd' = ncmd + 1
  /\ input # on /\ input' = on
  /\ UNCHANGED <<mem, tab, txBurst, role, requests, flush, pc, locals, rx,
                 todo,
                 reused>>

-----------------------------------------------------------------------------
(* pktgen_send_mbuf and pktgen_send_burst, called by either lcore.         *)

\* mtab->m_table[mtab->len++] = m: the length is read ...
ReadLen(t) ==
  /\ At(t, "queue")
  /\ i' = [i EXCEPT ![t] = len]
  /\ Goto(t, "store")
  /\ UNCHANGED <<mem, tab, txBurst, flags, back, m, ptr, cnt, rx, todo, ncmd,
                 reused>>

\* ... the entry and the new length are stored, and a full table is sent.
StoreMbuf(t) ==
  /\ At(t, "store")
  /\ table' = [table EXCEPT ![i[t] + 1] = m[t]]
  /\ len' = i[t] + 1
  /\ i' = [i EXCEPT ![t] = 0] /\ m' = [m EXCEPT ![t] = NoBuf]
  /\ IF i[t] + 1 >= txBurst THEN Goto(t, "take") /\ UNCHANGED back
                            ELSE Return(t)
  /\ UNCHANGED <<mem, txBurst, flags, ptr, cnt, rx, todo, ncmd, reused>>

\* cnt = mtab->len ...
TakeLen(t) ==
  /\ At(t, "take")
  /\ cnt' = [cnt EXCEPT ![t] = len]
  /\ Goto(t, "zero")
  /\ UNCHANGED <<mem, tab, txBurst, flags, back, m, i, ptr, rx, todo, ncmd,
                 reused>>

\* ... and mtab->len = 0, before anything is sent.
ZeroLen(t) ==
  /\ At(t, "zero")
  /\ len' = 0
  /\ IF cnt[t] = 0 THEN Return(t) ELSE Goto(t, "call") /\ UNCHANGED back
  /\ UNCHANGED <<mem, table, txBurst, flags, m, i, ptr, cnt, rx, todo, ncmd,
                 reused>>

\* rte_eth_tx_burst: the device gives back the mbufs of packets it has sent
\* and takes the first of those it is offered.
Hand(given, done) ==
  /\ dev' = Plus(Less(dev, done), given)
  /\ pool' = Plus(pool, SetToSeq(done))

Offered(t, k) == SubSeq(table, ptr[t], ptr[t] + k - 1)

TxBurst(t, k, done) ==
  /\ At(t, "call")
  /\ k <= cnt[t]
  /\ Hand(Offered(t, k), done)
  /\ cnt' = [cnt EXCEPT ![t] = @ - k]
  /\ ptr' = [ptr EXCEPT ![t] = IF k = cnt[t] THEN 1 ELSE @ + k]
  /\ IF k = cnt[t] THEN Return(t) ELSE UNCHANGED <<pc, back>>
  /\ UNCHANGED <<tab, txBurst, flags, m, i, rx, todo, ncmd, reused>>

\* pktgen_set_q_flags(info, 0, DO_TX_FLUSH), after the mbuf is queued.
AskFlush(t) ==
  /\ At(t, "flag")
  /\ flush' = TRUE
  /\ Goto(t, IF t = "rx" THEN "classify" ELSE "special")
  /\ seen' = IF t = "rx" THEN seen + 1 ELSE seen
  /\ UNCHANGED <<mem, tab, txBurst, role, input, requests, locals, burst, todo,
                 ncmd, reused>>

-----------------------------------------------------------------------------
(* pktgen_main_transmit.                                                   *)

\* The flags are read once for the requests and for what follows them.
Poll ==
  /\ At("tx", "idle") /\ Turn("tx")
  /\ IF requests # {}
       THEN /\ todo' = Cardinality(requests) * (SeqCnt + 1)
            /\ Goto("tx", "special")
       ELSE /\ \E l \in {"alloc", "qflags"} : Goto("tx", l)
            /\ UNCHANGED todo
  /\ UNCHANGED <<mem, tab, txBurst, flags, locals, rx, ncmd, reused>>

\* pktgen_send_arp, pktgen_send_ping4: one request for each sequence packet
\* and one for the single packet, if there is an mbuf for it.
SendSpecial ==
  /\ At("tx", "special") /\ todo > 0
  /\ todo' = todo - 1
  /\ IF Free(SpecialBufs) # << >>
       THEN LET b == Free(SpecialBufs)[1] IN
              /\ pool' = Less(pool, {b})
              /\ m' = [m EXCEPT !["tx"] = b]
              /\ back' = [back EXCEPT !["tx"] = "flag"]
              /\ Goto("tx", "queue")
       ELSE UNCHANGED <<pool, m, back, pc>>
  /\ UNCHANGED <<dev, tab, txBurst, flags, i, ptr, cnt, rx, ncmd, reused>>

\* Every request bit is cleared, those set meanwhile included.
ClearRequests ==
  /\ At("tx", "special") /\ todo = 0
  /\ requests' = {}
  /\ \E l \in {"alloc", "qflags"} : Goto("tx", l)
  /\ UNCHANGED <<mem, tab, txBurst, role, input, flush, locals, rx, todo, ncmd,
                 reused>>

\* pktgen_send_pkts: a bulk of mbufs overwrites the table from its start.
\* Taken from the count, a burst may be a short one.
AllocBulk(k) ==
  /\ At("tx", "alloc")
  /\ IF Forever THEN k = txBurst ELSE k <= txBurst
  /\ k <= Len(Free(TxBufs))
  /\ LET bulk == SubSeq(Free(TxBufs), 1, k) IN
       /\ pool' = Less(pool, ToSet(bulk))
       /\ table' = [e \in DOMAIN table |-> IF e <= k THEN bulk[e] ELSE table[e]]
  /\ i' = [i EXCEPT !["tx"] = k]
  /\ Goto("tx", "fill")
  /\ UNCHANGED <<dev, len, txBurst, flags, back, m, ptr, cnt, rx, todo, ncmd,
                 reused>>

AllocFails ==
  /\ At("tx", "alloc")
  /\ Len(Free(TxBufs)) < txBurst
  /\ Goto("tx", "qflags")
  /\ UNCHANGED <<mem, tab, txBurst, flags, locals, rx, todo, ncmd, reused>>

\* Mutant: the counted burst too takes its length from info->tx_burst.
SetLen_reread ==
  /\ At("tx", "fill")
  /\ len' = txBurst
  /\ i' = [i EXCEPT !["tx"] = 0]
  /\ back' = [back EXCEPT !["tx"] = "qflags"]
  /\ Goto("tx", "take")
  /\ UNCHANGED <<mem, table, txBurst, flags, m, ptr, cnt, rx, todo, ncmd,
                 reused>>

\* tx_mbufs.len = txCnt, or info->tx_burst read a second time.
SetLen ==
  /\ At("tx", "fill")
  /\ len' = IF Forever THEN txBurst ELSE i["tx"]
  /\ i' = [i EXCEPT !["tx"] = 0]
  /\ back' = [back EXCEPT !["tx"] = "qflags"]
  /\ Goto("tx", "take")
  /\ UNCHANGED <<mem, table, txBurst, flags, m, ptr, cnt, rx, todo, ncmd,
                 reused>>

\* Mutant: the flush flag is looked at only when nothing is queued.
PollFlush_empty ==
  /\ At("tx", "qflags")
  /\ IF flush /\ len = 0
       THEN Goto("tx", "take") /\ back' = [back EXCEPT !["tx"] = "cleanup"]
       ELSE Goto("tx", "idle") /\ UNCHANGED back
  /\ UNCHANGED <<mem, tab, txBurst, flags, m, i, ptr, cnt, rx, todo, ncmd,
                 reused>>

PollFlush ==
  /\ At("tx", "qflags")
  /\ IF flush
       THEN Goto("tx", "take") /\ back' = [back EXCEPT !["tx"] = "cleanup"]
       ELSE Goto("tx", "idle") /\ UNCHANGED back
  /\ UNCHANGED <<mem, tab, txBurst, flags, m, i, ptr, cnt, rx, todo, ncmd,
                 reused>>

\* The end of pktgen_tx_flush: rte_eth_tx_done_cleanup, and the flag.
FlushDone(done) ==
  /\ At("tx", "cleanup")
  /\ Hand(<< >>, done)
  /\ flush' = FALSE
  /\ Goto("tx", "idle")
  /\ UNCHANGED <<tab, txBurst, role, input, requests, locals, rx, todo, ncmd,
                 reused>>

-----------------------------------------------------------------------------
(* pktgen_main_receive.                                                    *)

\* rte_eth_rx_burst: the device filled mbufs of its own mempool.
Receive ==
  /\ At("rx", "idle") /\ Turn("rx")
  /\ \E k \in 1..txBurst :
       /\ k <= Len(Free(RxBufs))
       /\ burst' = SubSeq(Free(RxBufs), 1, k)
       /\ pool' = Less(pool, ToSet(burst'))
  /\ seen' = 0
  /\ Goto("rx", "classify")
  /\ UNCHANGED <<dev, tab, txBurst, flags, locals, todo, ncmd, reused>>

\* pktgen_packet_classify: a packet that needs no answer,
Classify ==
  /\ At("rx", "classify") /\ seen < Len(burst)
  /\ seen' = seen + 1
  /\ UNCHANGED <<mem, tab, txBurst, flags, pc, locals, burst, todo, ncmd,
                 reused>>

\* or a request for this port: pktgen_process_arp and pktgen_process_ping4
\* turn its mbuf into the reply and queue it.
Reply ==
  /\ input
  /\ At("rx", "classify") /\ seen < Len(burst)
  /\ reused < MaxReuses /\ reused' = reused + 1
  /\ m' = [m EXCEPT !["rx"] = burst[seen + 1]]
  /\ back' = [back EXCEPT !["rx"] = "flag"]
  /\ Goto("rx", "queue")
  /\ UNCHANGED <<mem, tab, txBurst, flags, i, ptr, cnt, rx, todo, ncmd>>

Reflecting == role = "IL_TRAFFIC_RESP_AS_REF"

\* Mutant: the packet looked at first is not freed.
Release_short ==
  /\ At("rx", "classify") /\ seen = Len(burst) /\ ~Reflecting
  /\ pool' = Plus(pool, SubSeq(burst, 2, Len(burst)))
  /\ burst' = << >> /\ seen' = 0
  /\ Goto("rx", "idle")
  /\ UNCHANGED <<dev, tab, txBurst, flags, locals, todo, ncmd, reused>>

\* rte_pktmbuf_free_bulk of everything received, answered or not.
Release ==
  /\ At("rx", "classify") /\ seen = Len(burst) /\ ~Reflecting
  /\ pool' = Plus(pool, burst)
  /\ burst' = << >> /\ seen' = 0
  /\ Goto("rx", "idle")
  /\ UNCHANGED <<dev, tab, txBurst, flags, locals, todo, ncmd, reused>>

\* The reflecting responder sends the burst back: the device takes it all,
ReflectBurst(done) ==
  /\ At("rx", "classify") /\ seen = Len(burst) /\ Reflecting
  /\ Hand(burst, done)
  /\ burst' = << >> /\ seen' = 0
  /\ Goto("rx", "idle")
  /\ UNCHANGED <<tab, txBurst, flags, locals, todo, ncmd, reused>>

\* or the first k of it, and then all of it is freed.
ReflectPart(k, done) ==
  /\ At("rx", "classify") /\ seen = Len(burst) /\ Reflecting
  /\ k < Len(burst)
  /\ reused' = IF k > 0 THEN reused + 1 ELSE reused
  /\ reused' <= MaxReuses
  /\ dev' = Plus(Less(dev, done), SubSeq(burst, 1, k))
  /\ pool' = Plus(Plus(pool, SetToSeq(done)), burst)
  /\ burst' = << >> /\ seen' = 0
  /\ Goto("rx", "idle")
  /\ UNCHANGED <<tab, txBurst, flags, locals, todo, ncmd>>

-----------------------------------------------------------------------------
\* The packets the device has sent since it was last asked.
Done == SUBSET {b \in Bufs : dev[b] > 0}

SendBurst(t) ==
  \/ TakeLen(t) \/ ZeroLen(t)
  \/ \E k \in 0..TableSize, done \in Done : TxBurst(t, k, done)

Command == \/ \E r \in Requests : Request(r)
           \/ \E k \in Bursts : SetBurst(k)
           \/ \E on \in BOOLEAN : EnableProcess(on)

TxLcore ==
  \/ Poll \/ SendSpecial \/ ReadLen("tx") \/ StoreMbuf("tx") \/ AskFlush("tx")
  \/ ClearRequests
  \/ (\E k \in 1..TableSize : AllocBulk(k)) \/ AllocFails \/ SetLen
  \/ SendBurst("tx")
  \/ PollFlush \/ \E done \in Done : FlushDone(done)

RxLcore ==
  \/ Receive \/ Classify
  \/ Reply \/ ReadLen("rx") \/ StoreMbuf("rx") \/ SendBurst("rx")
  \/ AskFlush("rx")
  \/ Release
  \/ \E done \in Done :
       ReflectBurst(done) \/ \E k \in 0..TableSize : ReflectPart(k, done)

Next == Command \/ TxLcore \/ RxLcore

Spec == Init /\ [][Next]_vars

-----------------------------------------------------------------------------
LcorePc == {"idle", "queue", "store", "take", "zero", "call", "flag", "special",
            "alloc", "fill", "qflags", "cleanup", "classify"}

\* The types of the places an mbuf may be in, of the lcores' positions and
\* of their local counts.
TypeOK ==
  /\ role \in Roles /\ input \in BOOLEAN
  /\ pool \in [Bufs -> Nat] /\ dev \in [Bufs -> Nat]
  /\ table \in [1..TableSize+1 -> Bufs \cup {NoBuf}]
  /\ len \in 0..TableSize+1
  /\ txBurst \in 1..TableSize
  /\ requests \subseteq Requests /\ flush \in BOOLEAN
  /\ pc \in [Lcores -> LcorePc] /\ back \in [Lcores -> LcorePc]
  /\ m \in [Lcores -> Bufs \cup {NoBuf}]
  /\ i \in [Lcores -> 0..TableSize+1]
  /\ ptr \in [Lcores -> 1..TableSize+2]
  /\ cnt \in [Lcores -> 0..TableSize+1]
  /\ burst \in Seq(RxBufs) /\ seen \in 0..TableSize
  /\ todo \in Nat /\ ncmd \in 0..MaxCmds /\ reused \in 0..MaxReuses

\* The entries of the table that are still to be sent.
Pending ==
  1..len \cup (IF At("tx", "fill") THEN 1..i["tx"] ELSE {})
  \cup UNION {ptr[t]..(ptr[t] + cnt[t] - 1) : t \in {u \in Lcores : At(u, "call")}}

Queueing == {m[t] : t \in {u \in Lcores : pc[u] \in {"queue", "store"}}}

Holders(b) ==
  pool[b] + dev[b] + Times(b, burst)
  + Cardinality({e \in Pending : table[e] = b})
  + (IF b \in Queueing THEN 1 ELSE 0)

\* An mbuf is never in two places at once: not in its mempool while a packet
\* is built in it, queued or sent, and not queued twice; and the table, where
\* the queued ones are, never holds more than its entries, whatever "set burst"
\* does between one queued packet and the next.  Of received mbufs this holds
\* as long as none has been answered with or reflected in part.
SoleOwner ==
  /\ len <= TableSize
  /\ \A b \in Bufs : (b \in RxBufs => reused = 0) => Holders(b) <= 1

\* What leaks, because pktgen_send_pkts fills the table from its start
\* whatever pktgen_send_mbuf has queued there, is an ARP or ping request:
\* no mbuf of the traffic or of the receive side is ever lost.
OnlyRequestsLeak == \A b \in Bufs : Holders(b) = 0 => b \in SpecialBufs

\* Fairness: both lcores' loops go on, a lcore that does both transmits after
\* each receive, and the device takes packets when it is offered them again
\* and again.
Fairness ==
  /\ WF_vars(TxLcore) /\ WF_vars(RxLcore) /\ SF_vars(Poll)
  /\ \A t \in Lcores :
       SF_vars(\E k \in 1..TableSize, done \in Done : TxBurst(t, k, done))

FairSpec == Spec /\ Fairness

\* A queued packet does not stay in the table: its DO_TX_FLUSH is seen.
QueueEmpties == len > 0 ~> len = 0

-----------------------------------------------------------------------------
\* A request that is answered: "No need to free mbuf as it was reused" by
\* the reply, which waits in the table or belongs to the device.
ReusedNotFreed ==
  \A b \in RxBufs :
    pool[b] > 0 => dev[b] = 0 /\ \A e \in Pending : table[e] # b
=============================================================================

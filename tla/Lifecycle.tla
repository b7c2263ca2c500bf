----------------------------- MODULE Lifecycle -----------------------------
(***************************************************************************)
(* How pktgen comes up and goes down: the master lcore (main of            *)
(* app/pktgen-main.c, with the command line it runs), the lcores it        *)
(* launches (pktgen_launch_one_lcore and the three loops of app/pktgen.c)  *)
(* and the SIGUSR2 handler (quit_gtp_traffic), which interrupts the        *)
(* master.  They meet in the stop flags of the l2p table, which an lcore   *)
(* clears when it enters its loop and the master sets when it leaves the   *)
(* command line, in the command line's quit flag, in the ports' devices    *)
(* and in the per-flow packet counters.                                    *)
(***************************************************************************)
EXTENDS Naturals, FiniteSets

CONSTANTS
  Lcores,    \* the lcores enabled besides the master
  Ports,     \* the ports
  RxPorts,   \* ports each lcore receives on, and
  TxPorts,   \* ports it transmits on, as the command line's -m maps them
  Late,      \* lcores whose start-up delay, (lid + 1) * 21 ms, is longer than
             \* the second the master gives them
  MaxSig,    \* bound: SIGUSR2 signals
  MaxQueued  \* bound: packets queued outside a burst

ASSUME LifecycleAssumption ==
  /\ RxPorts \in [Lcores -> SUBSET Ports] /\ TxPorts \in [Lcores -> SUBSET Ports]
  \* an lcore that does both does so for the same ports
  /\ \A l \in Lcores :
       RxPorts[l] # {} /\ TxPorts[l] # {} => RxPorts[l] = TxPorts[l]
  /\ \A p \in Ports : \E l \in Lcores : p \in TxPorts[l]
  /\ Late \subseteq Lcores
  /\ MaxSig \in Nat /\ MaxQueued \in Nat

MasterPc == {"launch", "cli", "stop", "join", "close", "free", "exited"}
LcorePc  == {"off", "delay", "poll", "receive", "transmit", "flush", "exited"}

VARIABLES
  master,    \* where the master is in main
  todo,      \* lcores or ports its present loop has yet to come to
  lc,        \* where each lcore is
  stop,      \* l2p->stop[lid]
  quit,      \* this_cli->quit_flag
  sig,       \* the SIGUSR2 handler runs, on top of the master
  nsig,      \* signals so far
  dev,       \* state of each port's device
  queued,    \* packets in the TX table of each port
  nqueued,   \* packets queued so far
  counters   \* per_flow_tx_cnt and per_flow_rx_cnt

mvars == <<master, todo>>
lvars == <<lc, stop>>
svars == <<sig, nsig>>
qvars == <<queued, nqueued>>
vars  == <<mvars, lvars, quit, svars, dev, qvars, counters>>

\* From the launch of the lcores on: the command line exists, the signal
\* handlers are installed and every port is configured and started.
Init ==
  /\ master = "launch" /\ todo = Lcores
  /\ lc = [l \in Lcores |-> "off"]
  /\ stop = [l \in Lcores |-> FALSE]
  /\ quit = FALSE
  /\ sig = FALSE /\ nsig = 0
  /\ dev = [p \in Ports |-> "started"]
  /\ queued = [p \in Ports |-> 0] /\ nqueued = 0
  /\ counters = "none"

HasWork(l) == RxPorts[l] \cup TxPorts[l] # {}

-----------------------------------------------------------------------------
(* The master: main, and the command line inside it.                       *)

\* The master runs unless the signal handler does.
Master(here) == master = here /\ ~sig

Go(next, items) == master' = next /\ todo' = items

\* rte_eal_remote_launch for each lcore; one without a port returns at once.
LaunchLcore(l) ==
  /\ Master("launch") /\ l \in todo
  /\ todo' = todo \ {l} /\ UNCHANGED master
  /\ lc' = [lc EXCEPT ![l] = IF HasWork(l) THEN "delay" ELSE "exited"]
  /\ UNCHANGED <<stop, quit, svars, dev, qvars, counters>>

\* rte_delay_ms(1000): by its end every lcore with a shorter delay is in its
\* loop.  cli_start forgets a request to quit that came before it.
StartCli ==
  /\ Master("launch") /\ todo = {}
  /\ \A l \in Lcores \ Late : lc[l] # "delay"
  /\ Go("cli", {})
  /\ quit' = FALSE
  /\ UNCHANGED <<lvars, svars, dev, qvars, counters>>

\* "range src ip max": the counters are allocated the first time.
AllocCounters ==
  /\ Master("cli") /\ ~quit /\ counters = "none"
  /\ counters' = "allocated"
  /\ UNCHANGED <<mvars, lvars, quit, svars, dev, qvars>>

\* The quit command, or the end of the input.
Quit ==
  /\ Master("cli") /\ ~quit
  /\ quit' = TRUE
  /\ UNCHANGED <<mvars, lvars, svars, dev, qvars, counters>>

LeaveCli ==
  /\ Master("cli") /\ quit
  /\ Go("stop", Lcores)
  /\ UNCHANGED <<lvars, quit, svars, dev, qvars, counters>>

\* Mutant: only the lcores that transmit are told.
StopLcore_tx(l) ==
  /\ Master("stop") /\ l \in todo
  /\ todo' = todo \ {l} /\ UNCHANGED master
  /\ stop' = [stop EXCEPT ![l] = TxPorts[l] # {}]
  /\ UNCHANGED <<lc, quit, svars, dev, qvars, counters>>

\* pktgen_stop_running
StopLcore(l) ==
  /\ Master("stop") /\ l \in todo
  /\ todo' = todo \ {l} /\ UNCHANGED master
  /\ stop' = [stop EXCEPT ![l] = TRUE]
  /\ UNCHANGED <<lc, quit, svars, dev, qvars, counters>>

StopDone ==
  /\ Master("stop") /\ todo = {}
  /\ Go("join", {})
  /\ UNCHANGED <<lvars, quit, svars, dev, qvars, counters>>

\* Mutant: the devices are stopped without waiting for the lcores.
WaitLcores_none ==
  /\ Master("join")
  /\ Go("close", Ports)
  /\ UNCHANGED <<lvars, quit, svars, dev, qvars, counters>>

\* rte_eal_mp_wait_lcore
WaitLcores ==
  /\ Master("join")
  /\ \A l \in Lcores : lc[l] = "exited"
  /\ Go("close", Ports)
  /\ UNCHANGED <<lvars, quit, svars, dev, qvars, counters>>

\* rte_eth_dev_stop, a delay and rte_eth_dev_close, port after port.
StopDevice(p) ==
  /\ Master("close") /\ p \in todo /\ dev[p] = "started"
  /\ \A r \in Ports : dev[r] # "stopped"
  /\ dev' = [dev EXCEPT ![p] = "stopped"]
  /\ UNCHANGED <<mvars, lvars, quit, svars, qvars, counters>>

CloseDevice(p) ==
  /\ Master("close") /\ p \in todo /\ dev[p] = "stopped"
  /\ dev' = [dev EXCEPT ![p] = "closed"]
  /\ todo' = todo \ {p} /\ UNCHANGED master
  /\ UNCHANGED <<lvars, quit, svars, qvars, counters>>

\* cli_destroy; from here on this_cli is NULL.
DestroyCli ==
  /\ Master("close") /\ todo = {}
  /\ Go("free", {})
  /\ UNCHANGED <<lvars, quit, svars, dev, qvars, counters>>

\* get_tx_rx_counts has read the counters; delete_dynamic_pkt_cnt frees them
\* and main returns.
Exit ==
  /\ Master("free")
  /\ counters' = IF counters = "none" THEN "none" ELSE "freed"
  /\ Go("exited", {})
  /\ UNCHANGED <<lvars, quit, svars, dev, qvars>>

-----------------------------------------------------------------------------
(* SIGUSR2, at any time: the handler stops the traffic, sleeps a second    *)
(* and quits the command line, or the process when there is none any more. *)

Signal ==
  /\ ~sig /\ nsig < MaxSig /\ master # "exited"
  /\ sig' = TRUE /\ nsig' = nsig + 1
  /\ UNCHANGED <<mvars, lvars, quit, dev, qvars, counters>>

SignalDone ==
  /\ sig /\ sig' = FALSE
  /\ IF master = "free"
       THEN Go("exited", {}) /\ UNCHANGED quit
       ELSE quit' = TRUE /\ UNCHANGED mvars
  /\ UNCHANGED <<lvars, nsig, dev, qvars, counters>>

-----------------------------------------------------------------------------
(* The lcores.                                                             *)

Goto(l, next) == lc' = [lc EXCEPT ![l] = next]

\* The delay is over: pg_start_lcore, and into the loop.
EnterLoop(l) ==
  /\ lc[l] = "delay"
  /\ stop' = [stop EXCEPT ![l] = FALSE]
  /\ Goto(l, "poll")
  /\ UNCHANGED <<mvars, quit, svars, dev, qvars, counters>>

\* while (pg_lcore_is_running(...))
Iterate(l) ==
  /\ lc[l] = "poll" /\ ~stop[l]
  /\ Goto(l, IF RxPorts[l] # {} THEN "receive" ELSE "transmit")
  /\ UNCHANGED <<mvars, stop, quit, svars, dev, qvars, counters>>

\* pktgen_main_receive on each of its ports: a reply is queued, or nothing.
Receive(l) ==
  /\ lc[l] = "receive"
  /\ \/ UNCHANGED qvars
     \/ \E p \in RxPorts[l] :
          /\ nqueued < MaxQueued /\ nqueued' = nqueued + 1
          /\ queued' = [queued EXCEPT ![p] = @ + 1]
  /\ Goto(l, IF TxPorts[l] # {} THEN "transmit" ELSE "poll")
  /\ UNCHANGED <<mvars, stop, quit, svars, dev, counters>>

\* pktgen_main_transmit on each of its ports: nothing, a burst, which takes
\* what is queued along, or a request queued.
Transmit(l) ==
  /\ lc[l] = "transmit"
  /\ \/ UNCHANGED qvars
     \/ \E p \in TxPorts[l] :
          \/ queued' = [queued EXCEPT ![p] = 0] /\ UNCHANGED nqueued
          \/ /\ nqueued < MaxQueued /\ nqueued' = nqueued + 1
             /\ queued' = [queued EXCEPT ![p] = @ + 1]
  /\ Goto(l, "poll")
  /\ UNCHANGED <<mvars, stop, quit, svars, dev, counters>>

LeaveLoop(l) ==
  /\ lc[l] = "poll" /\ stop[l]
  /\ Goto(l, "flush")
  /\ UNCHANGED <<mvars, stop, quit, svars, dev, qvars, counters>>

\* Mutant: the lcore leaves its tables as they are.
ExitCleanup_none(l) ==
  /\ lc[l] = "flush"
  /\ Goto(l, "exited")
  /\ UNCHANGED <<mvars, stop, quit, svars, dev, qvars, counters>>

\* pktgen_exit_cleanup: the tables of the ports it transmits on are sent.
ExitCleanup(l) ==
  /\ lc[l] = "flush"
  /\ queued' = [p \in Ports |-> IF p \in TxPorts[l] THEN 0 ELSE queued[p]]
  /\ Goto(l, "exited")
  /\ UNCHANGED <<mvars, stop, quit, svars, dev, nqueued, counters>>

-----------------------------------------------------------------------------
MasterStep ==
  \/ \E l \in Lcores : LaunchLcore(l) \/ StopLcore(l)
  \/ StartCli \/ LeaveCli \/ StopDone \/ WaitLcores
  \/ \E p \in Ports : StopDevice(p) \/ CloseDevice(p)
  \/ DestroyCli \/ Exit

Command == AllocCounters \/ Quit

Lcore(l) ==
  \/ EnterLoop(l) \/ Iterate(l) \/ Receive(l) \/ Transmit(l) \/ LeaveLoop(l)
  \/ ExitCleanup(l)

\* The process is gone, or hangs for good: both are ends of a behaviour.
Next ==
  \/ MasterStep \/ Command \/ Signal \/ SignalDone
  \/ \E l \in Lcores : master # "exited" /\ Lcore(l)

Spec == Init /\ [][Next]_vars

\* Fairness: every thread runs on, the handler returns, and a launched lcore
\* gets through its delay and its loop.
Fairness ==
  /\ WF_vars(MasterStep) /\ WF_vars(SignalDone)
  /\ \A l \in Lcores : WF_vars(master # "exited" /\ Lcore(l))

FairSpec == Spec /\ Fairness

-----------------------------------------------------------------------------
\* The types of the threads' places and of what they share.
TypeOK ==
  /\ master \in MasterPc /\ todo \subseteq Lcores \cup Ports
  /\ lc \in [Lcores -> LcorePc] /\ stop \in [Lcores -> BOOLEAN]
  /\ quit \in BOOLEAN /\ sig \in BOOLEAN /\ nsig \in Nat
  /\ dev \in [Ports -> {"started", "stopped", "closed"}]
  /\ queued \in [Ports -> Nat] /\ nqueued \in Nat
  /\ counters \in {"none", "allocated", "freed"}

\* Nobody receives from, transmits on or flushes a port whose device is no
\* longer started, and nobody counts a packet once the counters are freed,
\* late lcores and signals included (rte_eal_mp_wait_lcore against
\* rte_eth_dev_stop and delete_dynamic_pkt_cnt).
QuiescedBeforeClose ==
  \A l \in Lcores :
    lc[l] \in {"receive", "transmit", "flush"} =>
      /\ counters # "freed"
      /\ \A p \in RxPorts[l] \cup TxPorts[l] : dev[p] = "started"

\* Nothing is left in a port's TX table when its device is stopped, unless
\* another lcore than those that transmit on it queued a reply there
\* (pktgen_exit_cleanup).
FlushedBeforeClose ==
  \A p \in Ports :
    dev[p] # "started" /\ queued[p] > 0 =>
      \E l \in Lcores : p \in RxPorts[l] /\ p \notin TxPorts[l]

\* A late lcore that cleared its stop flag after the master had set it: the
\* master waits for it for ever.
Revived(l) == master = "join" /\ lc[l] # "exited" /\ ~stop[l]

\* A request to quit the command line ends the program, unless a late lcore
\* misses it (pktgen_stop_running, "stop pktgen cleanly").
QuitExits ==
  quit /\ master = "cli" ~>
    master = "exited" \/ \E l \in Late : Revived(l)
=============================================================================

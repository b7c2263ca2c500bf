------------------------------- MODULE Flows -------------------------------
(***************************************************************************)
(* The flows of a test: a generator or a responder reads user_input.cfg    *)
(* when it is started (parse_user_config) and then the command file that   *)
(* autotest/generate_cmd_file wrote from it, builds its packets from the   *)
(* range of user equipment (UE) addresses, and counts the packets it sends *)
(* and receives by UE.  The counters' arrays are allocated by the thread   *)
(* that runs the commands (range_set_src_ip and range_set_dst_ip of        *)
(* app/pktgen-cmds.c, set_ip_pkt_counters of app/pktgen-tool.c) while the  *)
(* lcores already receive (store_packet_cnt); nothing but the order of the *)
(* assignments to start_ip and end_ip keeps these from using them.         *)
(***************************************************************************)
EXTENDS RangePacket, Sequences, SequencesExt

CONSTANTS
  Queues,     \* queues of the port: one sending and one receiving lcore each
  Tests,      \* what user_input.cfg holds in a test: a sequence, the text the
              \* program is started with and the later ones the user generates
              \* and loads a command file from.  A text is a record of the keys
              \* that are in it
  PoolSize,   \* mbufs in a queue's range_mp
  DefaultIp,  \* the addresses of a port before any command
  MaxCount    \* bound: packets each lcore counts

ASSUME FlowsAssumption ==
  /\ IsFiniteSet(Queues) /\ Queues # {}
  /\ PoolSize \in Nat \ {0} /\ MaxCount \in Nat /\ DefaultIp \in 1..(Word - 1)

Dirs == {"tx", "rx"}
Lcores == Dirs \X Queues
Minus(a, b) == (a - b) % Word      \* on uint32_t

VARIABLES
  role,      \* traffic_gen_as
  test,      \* the test
  gtpu,      \* enable_gtpu and gtpu_info
  loaded,    \* the command file being loaded, and the next line of it
  line,
  todo,      \* rows set_ip_pkt_counters has still to allocate
  window,    \* start_ip and end_ip
  subs,
  range,     \* info->range
  pkt,       \* seq_pkt[RANGE_PKT]
  first,     \* min_vlan_set, min_cos_set and min_tos_set are unset
  enb,       \* enb_cnt of construct_ipv4_hdr
  building,  \* queues whose mempool is to be built
  pool,      \* packets of each queue's range_mp: [ue, teid, enb]
  row,       \* length of per_flow_tx_cnt[q] and per_flow_rx_cnt[q], or None
  flow,      \* their values
  total,     \* tx_qid_cnts and rx_qid_cnts
  at,        \* the address an lcore is about to count, or 0
  seen,      \* history: packets of each address that passed the comparison
  wild       \* history: an lcore wrote outside the array

settings == <<window, subs, range>>
build    == <<pkt, first, enb, building, pool>>
counters == <<flow, total, at, seen, wild>>
who == <<role, test, gtpu>>
flowsVars == <<who, loaded, line, todo, settings, build, row, counters>>

None == -1
-----------------------------------------------------------------------------
(* user_input.cfg, which the program and the generator of command files    *)
(* each read for themselves.                                               *)
Given(cfg, keys) == keys \subseteq DOMAIN cfg

(* parse_user_config: key after key in this order, until one is missing or *)
(* a range does not hold what it is for; what was read before stays, as    *)
(* main goes on whatever is returned.  "network" is the addresses and the  *)
(* ports of the hosts.                                                     *)
ConfigKeys ==
  <<"network", "test_duration", "enable_gtpu", "no_of_enb", "enb_ip_range",
    "flows", "ue_ip_range", "app_srvr_ip_range", "s1u_sgw_ip", "enb_teid",
    "s1u_teid">>
GtpuKeys == {"no_of_enb", "enb_ip_range", "s1u_sgw_ip", "enb_teid", "s1u_teid"}
Fits(ends, n) == Minus(ends[1] + n, 1) <= ends[2]

Number(cfg, key) == IF Given(cfg, {key}) THEN cfg[key] ELSE 0
Refused(cfg, key) ==
  \/ ~Given(cfg, {key}) /\ (key \in GtpuKeys => cfg.enable_gtpu = 1)
  \/ /\ Given(cfg, {key}) /\ key = "enb_ip_range"
     /\ ~Fits(cfg.enb_ip_range, Number(cfg, "no_of_enb"))
  \/ /\ Given(cfg, {key}) /\ key = "ue_ip_range"
     /\ ~Fits(cfg.ue_ip_range, Number(cfg, "flows"))
parse_user_config(cfg) ==
  LET read == {n \in DOMAIN ConfigKeys : \A m \in 1..n : ~Refused(cfg, ConfigKeys[m])}
      Value(key) == IF \E n \in read : ConfigKeys[n] = key THEN Number(cfg, key) ELSE 0
  IN [ok |-> read = DOMAIN ConfigKeys, enable |-> Value("enable_gtpu"),
      no_of_enb |-> Value("no_of_enb"), no_of_ue |-> Value("flows"),
      s1u_teid |-> Value("s1u_teid")]

(* parse_user_input_values: the command file is written if these are all   *)
(* there, even with more flows than UE addresses; else it stays as it was. *)
ScriptKeys ==
  {"pps", "pkt_size", "flows", "test_duration", "proto_type", "ue_ip_range",
   "app_srvr_ip_range", "macs", "protocol"}
Asked(t, n) == t[CHOOSE k \in 1..n : /\ Given(t[k], ScriptKeys)
                                    /\ \A m \in (k + 1)..n : ~Given(t[m], ScriptKeys)]

(* What the tests have in common: there is a command file to start with,   *)
(* its flows are addresses in a row, in every file from the same one, and  *)
(* the server is none of them, nor the address after the last nor 0.0.0.0. *)
Ue(t) == t[1].ue_ip_range[1]
Server(t) == t[1].app_srvr_ip_range[1]
ASSUME TestsAssumption ==
  \A t \in Tests :
    /\ t \in Seq(ToSet(t)) /\ t # <<>> /\ Given(t[1], ScriptKeys)
    /\ Ue(t) \in 0..(Word - 1) /\ Server(t) \in 1..(Word - 1)
    /\ \A n \in DOMAIN t : Given(t[n], ScriptKeys) =>
         /\ t[n].flows \in Nat \ {0} /\ Ue(t) + t[n].flows <= Word
         /\ t[n].ue_ip_range[1] = Ue(t) /\ t[n].app_srvr_ip_range[1] = Server(t)
         /\ Server(t) \notin Ue(t)..(Ue(t) + t[n].flows)
-----------------------------------------------------------------------------
(* Mutant: the single address, which opens the window, is set last.        *)
Script_singleLast(cfg) ==
  LET lo == cfg.ue_ip_range[1]
      last == Minus(lo + cfg.flows, 1)
      server == cfg.app_srvr_ip_range[1]
      Of(dir, min, hi, inc) ==
        << <<dir, "start", min>>, <<dir, "min", min>>, <<dir, "max", hi>>,
           <<dir, "inc", inc>> >>
  IN IF role = "gen"
     THEN Of("srcIp", lo, last, 1) \o Of("dstIp", server, server, 0)
          \o << <<"single", "src", lo>>, <<"single", "dst", server>> >>
     ELSE Of("srcIp", server, server, 0) \o Of("dstIp", lo, last, 1)
          \o << <<"single", "src", server>>, <<"single", "dst", lo>> >>

(* create_pktgen_cmdfile: the lines that set addresses.                    *)
Script(cfg) ==
  LET lo == cfg.ue_ip_range[1]
      last == Minus(lo + cfg.flows, 1)
      server == cfg.app_srvr_ip_range[1]
      Of(dir, min, hi, inc) ==
        << <<dir, "start", min>>, <<dir, "min", min>>, <<dir, "max", hi>>,
           <<dir, "inc", inc>> >>
  IN IF role = "gen"
     THEN << <<"single", "src", lo>>, <<"single", "dst", server>> >>
          \o Of("srcIp", lo, last, 1) \o Of("dstIp", server, server, 0)
     ELSE << <<"single", "src", server>>, <<"single", "dst", lo>> >>
          \o Of("srcIp", server, server, 0) \o Of("dstIp", lo, last, 1)

UeField == IF role = "gen" THEN "srcIp" ELSE "dstIp"
UeWord  == IF role = "gen" THEN "src" ELSE "dst"

Still == [start |-> 0, min |-> 0, max |-> 0, inc |-> 0]
\* The fields the command file gives one value.
Fixed == [teid |-> Still, srcPort |-> Still, dstPort |-> Still,
          vlan |-> Still, cos |-> Still, tos |-> Still, size |-> Still,
          srcMac |-> Still, dstMac |-> Still]

FirstRange ==
  [f \in DOMAIN Fixed \cup {"srcIp", "dstIp"} |->
     IF f \in DOMAIN Fixed THEN Fixed[f]
     ELSE Span(DefaultIp, DefaultIp, DefaultIp + 1, IF f = "dstIp" THEN 1 ELSE 0)]

FlowsInit ==
  /\ role \in {"gen", "resp"}
  /\ test \in Tests /\ gtpu = parse_user_config(test[1])
  /\ loaded = 1 /\ line = 1 /\ todo = <<>>
  /\ window = [start |-> 0, end |-> 0] /\ subs = 0
  /\ range = FirstRange
  /\ pkt = [ethType |-> "ipv4", proto |-> "udp", teid |-> 0, srcPort |-> 0,
            dstPort |-> 0, srcIp |-> DefaultIp, dstIp |-> DefaultIp, vlan |-> 0,
            cos |-> 0, tos |-> 0, size |-> 0, srcMac |-> 0, dstMac |-> 0]
  /\ first = {"vlan", "cos", "tos"} /\ enb = 0
  /\ building = {} /\ pool = [q \in Queues |-> <<>>]
  /\ row = [l \in Lcores |-> None]
  /\ flow = [l \in Lcores |-> [i \in 0..(Word - 1) |-> 0]]
  /\ total = [l \in Lcores |-> 0] /\ at = [l \in Lcores |-> 0]
  /\ seen = [l \in Lcores |-> [a \in 0..(Word - 1) |-> 0]]
  /\ wild = FALSE
-----------------------------------------------------------------------------
(* The thread that runs the commands.                                      *)
Loaded == Asked(test, loaded)
Lines == Script(Loaded)
Due == IF todo = <<>> /\ line <= Len(Lines) THEN {Lines[line]} ELSE {}

(* single_set_ipaddr: the UE side's address is where the window starts.    *)
SetSingle(which, ip) ==
  /\ window' = IF which = UeWord THEN [window EXCEPT !.start = ip] ELSE window
  /\ line' = line + 1
  /\ UNCHANGED <<who, loaded, todo, subs, range, build, row, counters>>

(* range_set_src_ip and range_set_dst_ip, other than the UE side's max.    *)
SetRange(f, what, ip) ==
  /\ f = UeField => what # "max"
  /\ range' = [range EXCEPT ![f][what] = ip]
  /\ line' = line + 1
  /\ UNCHANGED <<who, loaded, todo, window, subs, build, row, counters>>

(* The UE side's max.  Both sides take src_ip_min for the first flow.      *)
\* set_ip_pkt_counters: the arrays are allocated when there are none.
Missing(d) == IF \A q \in Queues : row[<<d, q>>] = None
              THEN SetToSeq({d} \X Queues) ELSE <<>>
OpenRange(ip) ==
  /\ subs' = Minus(ip + 1, range.srcIp.min)
  /\ todo' = Missing("tx") \o Missing("rx") \o << <<"end", ip>> >>
  /\ UNCHANGED <<who, loaded, line, window, range, build, row, counters>>

AllocRow ==
  /\ todo # <<>> /\ Head(todo) \in Lcores
  /\ row' = [row EXCEPT ![Head(todo)] = subs] /\ todo' = Tail(todo)
  /\ UNCHANGED <<who, loaded, line, settings, build, counters>>

CloseRange ==
  /\ todo # <<>> /\ Head(todo)[1] = "end"
  /\ window' = [window EXCEPT !.end = Head(todo)[2]]
  /\ range' = [range EXCEPT ![UeField].max = Head(todo)[2]]
  /\ todo' = <<>> /\ line' = line + 1
  /\ UNCHANGED <<who, loaded, subs, build, row, counters>>

(* start: every sending lcore is to build its packets first.               *)
Start ==
  /\ line = Len(Lines) + 1
  /\ building' = Queues /\ pool' = [q \in Queues |-> <<>>] /\ line' = line + 1
  /\ UNCHANGED <<who, loaded, todo, settings, pkt, first, enb, row, counters>>

(* The user loads another file while the port is sending.                  *)
LoadNext ==
  /\ line = Len(Lines) + 2 /\ building = {} /\ loaded < Len(test)
  /\ loaded' = loaded + 1 /\ line' = 1
  /\ UNCHANGED <<who, todo, settings, build, row, counters>>
-----------------------------------------------------------------------------
(* The lcores.                                                             *)

(* encap_gtpu_hdr and construct_ipv4_hdr: the generator's GTP-U tunnel.    *)
Teid(ip) == (gtpu.s1u_teid + Minus(ip, window.start)) % Word
NextEnb == IF enb + 1 > Minus(gtpu.no_of_ue, 1) \/ enb + 1 > Minus(gtpu.no_of_enb, 1)
           THEN 0 ELSE enb + 1
Tunnels == gtpu.enable # 0 /\ role = "gen"

(* pktgen_setup_cb for the next mbuf of a range mempool.  One lcore at a   *)
(* time has the port's lock: the first in order, here.                     *)
BuildPacket(q) ==
  /\ q \in building
  /\ \A p \in building : p # q => pool[p] = <<>>
  /\ LET p == NextPacket(pkt, range, first) IN
     /\ pkt' = p /\ first' = FirstAfter(first, pkt, range)
     /\ pool' = [pool EXCEPT ![q] =
          Append(@, [ue |-> p[UeField],
                     teid |-> IF Tunnels THEN Teid(p.srcIp) ELSE None,
                     enb |-> IF Tunnels THEN enb ELSE None])]
  /\ enb' = IF Tunnels THEN NextEnb ELSE enb
  /\ building' = IF Len(pool'[q]) = PoolSize THEN building \ {q} ELSE building
  /\ UNCHANGED <<who, loaded, line, todo, settings, row, counters>>

(* store_packet_cnt compares the address with the window...                *)
Classify(l, ip) ==
  /\ at[l] = 0 /\ ip # 0
  /\ total[l] < MaxCount
  /\ ip \in window.start..window.end
  /\ at' = [at EXCEPT ![l] = ip]
  /\ seen' = [seen EXCEPT ![l][ip] = @ + 1]
  /\ UNCHANGED <<who, loaded, line, todo, settings, build, row, flow, total, wild>>

\* pktgen_inc_tx_count: a packet of the mempool.
Send(q) ==
  /\ q \notin building
  /\ \E n \in 1..Len(pool[q]) : Classify(<<"tx", q>>, pool[q][n].ue)

\* pktgen_inc_rx_and_reverse_addr: whatever comes in, GTP-U or not.
Receive(q) == \E ip \in 0..(Word - 1) : Classify(<<"rx", q>>, ip)

(* Mutant: it is always the first queue's array.                           *)
Store_firstRow(l) ==
  /\ at[l] # 0
  /\ LET i == Minus(at[l], window.start)
         k == <<l[1], CHOOSE q \in Queues : TRUE>>
     IN IF i < row[k] THEN flow' = [flow EXCEPT ![k][i] = @ + 1] /\ UNCHANGED wild
                      ELSE wild' = TRUE /\ UNCHANGED flow
  /\ total' = [total EXCEPT ![l] = @ + 1]
  /\ at' = [at EXCEPT ![l] = 0]
  /\ UNCHANGED <<who, loaded, line, todo, settings, build, row, seen>>

(* ...and reads start_ip again for the place to count it at.               *)
Store(l) ==
  /\ at[l] # 0
  /\ LET i == Minus(at[l], window.start)
     IN IF i < row[l] THEN flow' = [flow EXCEPT ![l][i] = @ + 1] /\ UNCHANGED wild
                      ELSE wild' = TRUE /\ UNCHANGED flow
  /\ total' = [total EXCEPT ![l] = @ + 1]
  /\ at' = [at EXCEPT ![l] = 0]
  /\ UNCHANGED <<who, loaded, line, todo, settings, build, row, seen>>

Commands ==
  \/ \E cmd \in Due :
       \/ cmd[1] = "single" /\ SetSingle(cmd[2], cmd[3])
       \/ cmd[1] # "single" /\ SetRange(cmd[1], cmd[2], cmd[3])
       \/ cmd[1] = UeField /\ cmd[2] = "max" /\ OpenRange(cmd[3])
  \/ AllocRow \/ CloseRange \/ Start \/ LoadNext

FlowsNext ==
  \/ Commands
  \/ \E q \in Queues : BuildPacket(q) \/ Send(q) \/ Receive(q)
  \/ \E l \in Lcores : Store(l)

FlowsSpec == FlowsInit /\ [][FlowsNext]_flowsVars
-----------------------------------------------------------------------------
(* No packet is counted outside the arrays, though they are allocated      *)
(* while packets come in: the window is opened by the last assignment.     *)
(* With files of growing numbers of flows this fails.                      *)
InBounds == ~wild

(* Each packet is counted once, in its queue's array and as its own UE's.  *)
FlowsAddUp ==
  \A l \in Lcores, a \in 0..(Word - 1) :
    seen[l][a] = (IF a >= Ue(test) THEN flow[l][a - Ue(test)] ELSE 0)
                 + (IF at[l] = a /\ a # 0 THEN 1 ELSE 0)

(* The mempool of a sending queue holds a packet of every flow the file    *)
(* asked for and, in GTP-U, in the tunnel of that UE and no other from one *)
(* of the eNodeBs - if the program did not refuse what it was started with.*)
EveryFlow ==
  line = Len(Lines) + 2 =>
    \A q \in Queues \ building :
      LET packets == {pool[q][n] : n \in 1..PoolSize} IN
      /\ {p.ue : p \in packets} = Ue(test)..(Ue(test) + Loaded.flows - 1)
      /\ Tunnels /\ gtpu.ok => \A p \in packets :
           /\ p.teid = (test[1].s1u_teid + p.ue - Ue(test)) % Word
           /\ p.enb \in 0..(test[1].no_of_enb - 1)
=============================================================================

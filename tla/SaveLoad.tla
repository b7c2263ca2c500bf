------------------------------ MODULE SaveLoad ------------------------------
(***************************************************************************)
(* A user sets a port up from the command line and from Lua, saves the     *)
(* configuration (pktgen_save), and loads the file into a program that has *)
(* just been started.  What is saved is text: the lines below are those    *)
(* the program prints, and loading runs them through the same Console and  *)
(* LuaBinding a user's own commands go through.  A line neither accepts    *)
(* is written all the same.                                                *)
(***************************************************************************)
EXTENDS Console, LuaBinding

CONSTANTS
  Lines,      \* command lines the user may type
  Calls,      \* Lua calls the user may make
  MaxInput    \* how many of both: bounds the run

(* Where a setter takes a number, the command line and the Lua library     *)
(* have made one of the word: an unsigned one, whatever was typed.  Sizes  *)
(* in a packet of the sequence are numbers, too.  Only a rate may come     *)
(* with a sign, which single_set_tx_rate does not look at; one below zero, *)
(* for which C defines no number of packets per second, is left out.       *)
Counts == {"size", "rate", "pps", "burst", "tx_cycles", "cycles", "prime",
           "seq_cnt", "seqCnt"}
Numeric(line) ==
  /\ line[1] = "set" /\ line[2] \in Counts => line[3] \in Nat
  /\ line[1] = "pkt_size" => line[3] \in Nat
  /\ line[1] = "range" /\ line[2] = "size" =>
       IF Len(line) = 4 THEN line[4] \in Nat
       ELSE \A n \in 1..4 : line[3][n] \in Nat
  /\ line[1] \in {"seq", "seqTable", "compile"} => line[3].size \in Nat

(* So are ports and the numbers of the ranges, and the protocol of the     *)
(* ranges is the one the first letter of its word names.                   *)
Typed(line) ==
  /\ line[1] = "set" /\ line[2] \in {"sport", "dport"} => line[3] \in Nat
  /\ line[1] = "range" /\ line[2] \in {"src port", "dst port", "vlan", "cos", "tos"} =>
       IF Len(line) = 4 THEN line[4] \in Nat
       ELSE \A n \in 1..4 : line[3][n] \in Nat
  /\ line[1] \in {"src_port", "dst_port", "vlan_id"} => line[3] \in Nat
  /\ line[1] = "ip_proto" => line[2] \in {"tcp", "udp", "icmp"}

ASSUME InputAssumption ==
  /\ MaxInput \in Nat
  /\ \A line \in Lines : Numeric(line) /\ Typed(line)
  /\ \A call \in Calls : Numeric(call) /\ Typed(call)

VARIABLES
  port,       \* the settings of the port
  saved,      \* the settings when the file was written
  file,       \* what was written: [kind, lines]
  phase,      \* "editing" -> "loading" -> "loaded"
  input,      \* number of lines typed and calls made
  next        \* the next line of the file to load

vars == <<port, saved, file, phase, input, next>>

EnDis(s, f) == IF f \in s.flags THEN "enable" ELSE "disable"
-----------------------------------------------------------------------------
(* pktgen_script_save: the SINGLE packet.  The words vlanid, mpls_entry    *)
(* and gre_key are in no map of the command line.                          *)
SingleLines(s) ==
  LET p == s.pkts[Single] IN
  << <<IF s.macFromArp THEN "enable" ELSE "disable", "mac_from_arp">>,
     <<"set", "count", s.count>>, <<"set", "size", p.size + Fcs>>,
     <<"set", "rate", s.rate>>,   <<"set", "pps", s.pps>>,
     <<"set", "burst", s.burst>>, <<"set", "sport", p.sport>>,
     <<"set", "dport", p.dport>>, <<"set", "prime", s.prime>>,
     <<"set", "type", p.ethType>>, <<"set", "proto", p.proto>>,
     <<"set", "dst ip", p.dstIp>>, <<"set", "src ip", <<p.srcIp, p.mask>>>>,
     <<"set", "dst mac", p.dstMac>>, <<"set", "src mac", p.srcMac>>,
     <<"set", "vlanid", p.vlanid>>, <<"set", "pattern", s.fill>> >>
  \o (IF s.fill = "user" THEN << <<"set", "user pattern", s.user>> >> ELSE <<>>)
  \o << <<"set", "jitter", s.jitter>> >>

FlagLines(s) ==
  LET p == s.pkts[Single] IN
  << <<EnDis(s, "SEND_MPLS_LABEL"), "mpls">>, <<"set", "mpls_entry", p.mpls>>,
     <<EnDis(s, "SEND_Q_IN_Q_IDS"), "qinq">>, <<"set", "qinqids", p.qinq>>,
     <<EnDis(s, "SEND_GRE_IPv4_HEADER"), "gre">>,
     <<EnDis(s, "SEND_GRE_ETHER_HEADER"), "gre_eth">>,
     <<"set", "gre_key", p.greKey>>,
     <<EnDis(s, "ICMP_ECHO_ENABLE_FLAG"), "icmp">>,
     <<EnDis(s, "SEND_PCAP_PKTS"), "pcap">>,
     <<EnDis(s, "SEND_RANGE_PKTS"), "range">>,
     <<EnDis(s, "SEND_LATENCY_PKTS"), "latency">>,
     <<EnDis(s, "PROCESS_INPUT_PKTS"), "process">>,
     <<EnDis(s, "CAPTURE_PKTS"), "capture">>,
     <<EnDis(s, "PROCESS_RX_TAP_PKTS"), "rx_tap">>,
     <<EnDis(s, "PROCESS_TX_TAP_PKTS"), "tx_tap">>,
     <<EnDis(s, "SEND_VLAN_ID"), "vlan">> >>

(* The ranges.  "mac src", "sport" and "dport" are written where range_map *)
(* wants "src mac", "src port" and "dst port".                             *)
SmmiSeq == <<"start", "min", "max", "inc">>
RangeLines(s, d, word) ==
  [n \in 1..4 |-> <<"range", word, SmmiSeq[n], s.range[d][SmmiSeq[n]]>>]
SizeText(s, what) == s.range["size"][what] + (IF what = "inc" THEN 0 ELSE Fcs)

AllRangeLines(s) ==
  RangeLines(s, "src mac", "mac src") \o RangeLines(s, "dst mac", "mac dst")
  \o RangeLines(s, "src ip", "src ip") \o RangeLines(s, "dst ip", "dst ip")
  \o << <<"range", "proto", s.rangeProto>> >>
  \o RangeLines(s, "src port", "sport") \o RangeLines(s, "dst port", "dport")
  \o RangeLines(s, "vlan", "vlan") \o RangeLines(s, "cos", "cos")
  \o RangeLines(s, "tos", "tos")
  \o [n \in 1..4 |-> <<"range", "size", SmmiSeq[n], SizeText(s, SmmiSeq[n])>>]

(* The sequence.  A stored address is in host order and printed as if it   *)
(* were so, whatever its packet's type: see Stored.                        *)
SeqText(p) ==
  [dstMac |-> p.dstMac, srcMac |-> p.srcMac, dstIp |-> p.dstIp,
   srcIp |-> p.srcIp, mask |-> p.mask, sport |-> p.sport, dport |-> p.dport,
   type |-> IF p.ethType \in {"ipv4", "ipv6"} THEN p.ethType ELSE "Other",
   proto |-> p.proto, vlanid |-> p.vlanid, size |-> p.size + Fcs,
   teid |-> p.teid]
SeqLines(s) ==
  << <<"set", "seq_cnt", s.seqCnt>> >>
  \o [j \in 1..s.seqCnt |-> <<"seq", j - 1, SeqText(s.pkts[j - 1])>>]

ScriptOf(s) == SingleLines(s) \o FlagLines(s) \o AllRangeLines(s) \o SeqLines(s)
-----------------------------------------------------------------------------
(* pktgen_lua_save.  It saves no pps, and of the SINGLE packet's addresses *)
(* not its source MAC.                                                     *)
LuaSingle(s) ==
  LET p == s.pkts[Single] IN
  << <<"mac_from_arp", IF s.macFromArp THEN "enable" ELSE "disable">>,
     <<"set", "count", s.count>>, <<"set", "size", p.size + Fcs>>,
     <<"set", "rate", s.rate>>, <<"set", "burst", s.burst>>,
     <<"set", "sport", p.sport>>, <<"set", "dport", p.dport>>,
     <<"set", "prime", s.prime>>, <<"set_type", p.ethType>>,
     <<"set_proto", p.proto>>, <<"set_ipaddr", "dst", p.dstIp>>,
     <<"set_ipaddr", "src", <<p.srcIp, p.mask>>>>, <<"set_mac", p.dstMac>>,
     <<"vlanid", p.vlanid>>, <<"pattern", s.fill>> >>
  \o (IF s.fill = "user" THEN << <<"userPattern", s.user>> >> ELSE <<>>)
  \o << <<"jitter", s.jitter>> >>

LuaFlags(s) ==
  LET p == s.pkts[Single] IN
  << <<"mpls", EnDis(s, "SEND_MPLS_LABEL")>>, <<"mpls_entry", p.mpls>>,
     <<"qinq", EnDis(s, "SEND_Q_IN_Q_IDS")>>,
     <<"qinqids", p.qinq[1], p.qinq[2]>>,
     <<"gre", EnDis(s, "SEND_GRE_IPv4_HEADER")>>,
     <<"gre_eth", EnDis(s, "SEND_GRE_ETHER_HEADER")>>,
     <<"gre_key", p.greKey>>, <<"icmp_echo", EnDis(s, "ICMP_ECHO_ENABLE_FLAG")>>,
     <<"pcap", EnDis(s, "SEND_PCAP_PKTS")>>,
     <<"set_range", EnDis(s, "SEND_RANGE_PKTS")>>,
     <<"latency", EnDis(s, "SEND_LATENCY_PKTS")>>,
     <<"process", EnDis(s, "PROCESS_INPUT_PKTS")>>,
     <<"capture", EnDis(s, "CAPTURE_PKTS")>>,
     <<"rxtap", EnDis(s, "PROCESS_RX_TAP_PKTS")>>,
     <<"txtap", EnDis(s, "PROCESS_TX_TAP_PKTS")>>,
     <<"vlan", EnDis(s, "SEND_VLAN_ID")>> >>

(* Mutant: the increment of a range is not written.                        *)
LuaRange_noInc(s, d, f) == [n \in 1..3 |-> <<f, SmmiSeq[n], s.range[d][SmmiSeq[n]]>>]

(* The ranges.  The functions cos and tos set the SINGLE packet and take   *)
(* one value, not a word and a value.                                      *)
LuaRange(s, d, f) == [n \in 1..4 |-> <<f, SmmiSeq[n], s.range[d][SmmiSeq[n]]>>]
LuaRanges(s) ==
  LuaRange(s, "src mac", "src_mac") \o LuaRange(s, "dst mac", "dst_mac")
  \o LuaRange(s, "src ip", "src_ip") \o LuaRange(s, "dst ip", "dst_ip")
  \o << <<"ip_proto", s.rangeProto>> >>
  \o LuaRange(s, "src port", "src_port") \o LuaRange(s, "dst port", "dst_port")
  \o LuaRange(s, "vlan", "vlan_id") \o LuaRange(s, "cos", "cos")
  \o LuaRange(s, "tos", "tos")
  \o [n \in 1..4 |-> <<"pkt_size", SmmiSeq[n], SizeText(s, SmmiSeq[n])>>]

(* The tables of the sequence hold no cos and no tos, their size is not    *)
(* the one SetSeq expects, and none of it is reached.                      *)
LuaScriptOf(s) ==
  LuaSingle(s) \o LuaFlags(s) \o LuaRanges(s) \o << <<"set", "seq_cnt", s.seqCnt>> >>
-----------------------------------------------------------------------------
Init ==
  /\ port = Fresh /\ saved = Fresh
  /\ file = [kind |-> "none", lines |-> <<>>]
  /\ phase = "editing" /\ input = 0 /\ next = 1

(* A command typed at the prompt.                                          *)
Type(line) ==
  /\ phase = "editing" /\ input < MaxInput
  /\ port' = Run(port, line) /\ input' = input + 1
  /\ UNCHANGED <<saved, file, phase, next>>

(* A call from a Lua script or the Lua prompt.                             *)
MakeCall(call) ==
  /\ phase = "editing" /\ input < MaxInput /\ Accepts(call)
  /\ port' = Call(port, call) /\ input' = input + 1
  /\ UNCHANGED <<saved, file, phase, next>>

(* pktgen_save, the name of the file selecting the language; the program   *)
(* is then stopped and started with the file (option -f).                  *)
SaveAndRestart(kind) ==
  /\ phase = "editing"
  /\ file' = [kind |-> kind, lines |-> IF kind = "lua" THEN LuaScriptOf(port)
                                                       ELSE ScriptOf(port)]
  /\ saved' = port /\ port' = Fresh /\ phase' = "loading"
  /\ UNCHANGED <<input, next>>

(* cli_execute_cmdfile: a line, whatever became of those before it.        *)
LoadLine ==
  /\ phase = "loading" /\ file.kind = "cmd" /\ next <= Len(file.lines)
  /\ port' = Run(port, file.lines[next]) /\ next' = next + 1
  /\ UNCHANGED <<saved, file, phase, input>>

(* execute_lua_string: a call; an error leaves the rest unread.            *)
LoadCall ==
  /\ phase = "loading" /\ file.kind = "lua" /\ next <= Len(file.lines)
  /\ Accepts(file.lines[next])
  /\ port' = Call(port, file.lines[next]) /\ next' = next + 1
  /\ UNCHANGED <<saved, file, phase, input>>

Stuck == file.kind = "lua" /\ next <= Len(file.lines)
                           /\ ~Accepts(file.lines[next])
EndLoad ==
  /\ phase = "loading" /\ (next > Len(file.lines) \/ Stuck)
  /\ phase' = "loaded"
  /\ UNCHANGED <<port, saved, file, input, next>>

Next ==
  \/ \E line \in Lines : Type(line)
  \/ \E call \in Calls : MakeCall(call)
  \/ \E kind \in {"cmd", "lua"} : SaveAndRestart(kind)
  \/ LoadLine \/ LoadCall \/ EndLoad

Spec == Init /\ [][Next]_vars
-----------------------------------------------------------------------------
Flags == ModeFlags \cup TagFlags \cup GreFlags \cup
  {"ICMP_ECHO_ENABLE_FLAG", "SEND_LATENCY_PKTS", "PROCESS_INPUT_PKTS",
   "CAPTURE_PKTS", "PROCESS_RX_TAP_PKTS", "PROCESS_TX_TAP_PKTS",
   "PROCESS_GARP_PKTS", "SEND_RANDOM_PKTS", "BONDING_TX_PACKETS",
   "SEND_SHORT_PACKETS", "SEND_PING4_REQUEST", "SEND_ARP_REQUEST",
   "SEND_GRATUITOUS_ARP"}

(* Whatever is typed, called or loaded, and in whatever order, a port is   *)
(* in one mode, puts one kind of tag on its packets and one kind of GRE    *)
(* header: the flags the transmitter and the packet constructor test one   *)
(* after the other never ask for two things.                               *)
ModesExclusive == Exclusive(port)

(* Whatever is typed, called or loaded, and in whatever order, the         *)
(* settings are ones the transmitter can send with: a burst fits the table *)
(* of queued packets, the sequence lies in the packet table and is not     *)
(* empty when it is to be sent, a packet and a range of sizes fit a mbuf,  *)
(* the pace is never computed for packets of no size, and no two modes,    *)
(* tags or headers are asked for at once.                                  *)
Sendable ==
  /\ ModesExclusive
  /\ port.burst \in 1..MaxBurst /\ port.prime \in 1..MaxPrime
  /\ port.seqCnt \in 0..SeqSlots
  /\ "SEND_SEQ_PKTS" \in port.flags => port.seqCnt > 0
  /\ port.pkts[Single].size \in 0..MaxSize
  /\ \A what \in {"start", "min", "max"} :
       port.range["size"][what] \in MinSize..MaxSize
  /\ WireSize(port) > 0
  /\ port.rate \in Nat /\ port.pps \in Nat /\ port.cycles \in Nat

-----------------------------------------------------------------------------
(* What a file brings back of the settings s it was saved from: the fields *)
(* that come back, and for the others what stands there instead.           *)
SavedFlags ==
  Flags \ {"PROCESS_GARP_PKTS", "SEND_RANDOM_PKTS", "BONDING_TX_PACKETS",
           "SEND_SHORT_PACKETS", "SEND_PING4_REQUEST", "SEND_ARP_REQUEST",
           "SEND_GRATUITOUS_ARP", "SEND_SEQ_PKTS"}

(* Both kinds: a short packet grows to the least size, and one of IPv6 by  *)
(* what its least packet is longer; ICMP takes the packet to IPv4; CoS,    *)
(* ToS and TEID of the SINGLE packet are lost.                             *)
KeptSingle(p) ==
  LET n    == Max({p.size, MinSize})
      more == IF p.ethType = "ipv6" /\ n < MinV6Size THEN MinV6Size - MinSize ELSE 0
  IN  [Fresh.pkts[Single] EXCEPT
         !.size = n + more,
         !.ethType = IF p.proto = "icmp" THEN "ipv4" ELSE p.ethType,
         !.proto = p.proto, !.sport = p.sport, !.dport = p.dport,
         !.srcIp = p.srcIp, !.mask = p.mask, !.dstIp = p.dstIp,
         !.dstMac = p.dstMac]
Kept(s) ==
  [Fresh EXCEPT !.flags = s.flags \cap SavedFlags, !.macFromArp = s.macFromArp,
                !.count = s.count, !.burst = s.burst, !.prime = s.prime,
                !.jitter = s.jitter, !.fill = s.fill]

(* The settings less what sets the pace.                                   *)
Unpaced(s) == [s EXCEPT !.rate = 0, !.pps = 0, !.cycles = 0]

(* A slot of the sequence: all but its CoS and ToS, but the addresses of   *)
(* an IPv6 packet come back the other way round.                           *)
KeptSeqPkt(p, fresh) ==
  LET ip(a) == IF p.ethType = "ipv6" THEN Swap(a) ELSE a
  IN  [p EXCEPT !.cos = fresh.cos, !.tos = fresh.tos,
                !.srcIp = ip(p.srcIp), !.dstIp = ip(p.dstIp)]

(* Loading a saved command file: the ranges of MAC addresses, ports and    *)
(* TEIDs are lost, the size increment comes back as 64, and a port with a  *)
(* sequence comes back in sequence mode even if it was in another.         *)
KeptByFile(s) ==
  LET sequenced == IF s.seqCnt > 0 THEN {"SEND_SEQ_PKTS"} ELSE {}
      ranges == {"src ip", "dst ip", "vlan", "cos", "tos", "size"}
      single == [KeptSingle(s.pkts[Single]) EXCEPT
                   !.srcMac = s.pkts[Single].srcMac, !.qinq = s.pkts[Single].qinq]
      ranged == IF s.rangeProto = "icmp" THEN Fresh.rangeProto ELSE s.rangeProto
  IN  [Kept(s) EXCEPT
         !.flags = IF s.seqCnt > 0 THEN (@ \ ModeFlags) \cup sequenced ELSE @,
         !.user = IF s.fill = "user" THEN "pattern" ELSE @,
         !.seqCnt = s.seqCnt, !.rangeProto = ranged,
         !.range = [d \in Dims |->
                      CASE d = "size" -> [s.range[d] EXCEPT !.inc = MinSize + Fcs]
                        [] d \in ranges \ {"size"} -> s.range[d]
                        [] OTHER -> @[d]],
         !.pkts = [k \in Slots |->
                     CASE k < s.seqCnt -> KeptSeqPkt(s.pkts[k], @[k])
                       [] k = Single   -> single
                       [] k = Ranged   -> [@[k] EXCEPT !.proto = ranged]
                       [] OTHER        -> @[k]]]

(* Loading a saved Lua script, which ends at the range of the CoS: what    *)
(* comes after it is lost, the sequence included.                          *)
KeptByScript(s) ==
  LET ranges == {"src mac", "dst mac", "src ip", "dst ip", "src port",
                 "dst port", "vlan"}
      p == s.pkts[Single]
      single == [KeptSingle(p) EXCEPT
                   !.vlanid = VlanId(p.vlanid), !.mpls = p.mpls,
                   !.greKey = p.greKey,
                   !.qinq = <<VlanId(p.qinq[1]), VlanId(p.qinq[2])>>]
  IN  [Kept(s) EXCEPT
         !.user = IF s.fill = "user" THEN s.user ELSE @,
         !.rangeProto = s.rangeProto,
         !.range = [d \in Dims |-> IF d \in ranges THEN s.range[d] ELSE @[d]],
         !.pkts = [k \in Slots |->
                     CASE k = Single -> single
                       [] k = Ranged -> [@[k] EXCEPT
                            !.proto = s.rangeProto,
                            !.srcMac = s.range["src mac"].start,
                            !.dstMac = s.range["dst mac"].start]
                       [] OTHER -> @[k]]]

(* Loading a saved command file into a new program gives KeptByFile of     *)
(* what was saved, no line undoing what one before it has restored.        *)
Restored ==
  phase = "loaded" /\ file.kind = "cmd"
    => Unpaced(port) = Unpaced(KeptByFile(saved))

(* The same for a Lua script.  The rate comes back too, unless set pps had *)
(* taken it beyond the speed of the link or to zero.                       *)
RestoredByLua ==
  phase = "loaded" /\ file.kind = "lua"
    => /\ Unpaced(port) = Unpaced(KeptByScript(saved))
       /\ saved.rate \in 1..Link => port.rate = saved.rate

(* A rate survives a command file only as packets per second: it comes     *)
(* back at most one packet per second lower, and the pause between two     *)
(* bursts fits it.  (Sequences and PCAP files, whose sizes the file sets   *)
(* after the pace, packets it brings back longer and rates beyond the      *)
(* speed of the link, which set pps takes, are left out.)                  *)
PaceKept ==
  phase = "loaded" /\ file.kind = "cmd" /\ saved.seqCnt = 0
      /\ "SEND_PCAP_PKTS" \notin saved.flags
      /\ KeptByFile(saved).pkts[Single].size = saved.pkts[Single].size
      /\ saved.pps <= Link \div WireSize(saved)
    => /\ port.pps \in (saved.pps - 1)..saved.pps
       /\ port.cycles = Cycles(port.pps, saved.burst)
=============================================================================

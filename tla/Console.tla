------------------------------ MODULE Console ------------------------------
(***************************************************************************)
(* The settings commands of the command line (app/cli-functions.c).  A     *)
(* line is a tuple of its words without the port list; numbers, addresses  *)
(* and the three names of a packet stay one word.  Run(s, line) is what    *)
(* the line makes of the settings: a line that no map accepts, or whose    *)
(* handler has no case for it, changes nothing, and the next line of a     *)
(* command file is read all the same.                                      *)
(***************************************************************************)
EXTENDS PortSettings

(* valid_pkt_size: what the size of a packet is taken for.                 *)
ValidSize(s, n) ==
  LET least == IF "SEND_SHORT_PACKETS" \in s.flags THEN 0 ELSE MinSize + Fcs
  IN  Min({Max({n, least}), MaxSize + Fcs})

(* set_cmd: words that set_map accepts.                                    *)
SetCmd(s, what, v) ==
  CASE what = "count"     -> SetTxCount(s, v)
    [] what = "size"      -> SetPktSize(s, ValidSize(s, v))
    [] what = "rate"      -> SetTxRate(s, v)
    [] what = "pps"       -> SetPps(s, v)
    [] what = "burst"     -> SetTxBurst(s, v)
    [] what = "tx_cycles" -> SetTxCycles(s, v)
    [] what \in {"sport", "dport"}    -> SetPort(s, what, v)
    [] what \in {"seq_cnt", "seqCnt"} -> SetSeqCnt(s, v)
    [] what = "prime"     -> SetPrime(s, v)
    [] what = "vlan"      -> SetVlanId(s, v)
    [] what = "jitter"    -> SetJitter(s, v)
    [] what = "cos"       -> SetCos(s, v)
    [] what = "tos"       -> SetTos(s, v)
    [] what = "type" /\ v \in {"arp", "ipv4", "ipv6", "vlan"} -> SetPktType(s, v)
    [] what = "proto"     -> SetProto(s, v)
    [] what = "src mac"   -> SetSrcMac(s, v)
    [] what = "dst mac"   -> SetDstMac(s, v)
    [] what = "src ip"    -> SetSrcIp(s, v[1], v[2])
    [] what = "dst ip"    -> SetDstIp(s, v)
    [] what = "qinqids"   -> SetQinq(s, v[1], v[2])
    [] what = "pattern"   -> SetPattern(s, v)
    \* the handler takes the word before the pattern, which is "pattern"
    [] what = "user pattern" -> SetUserPattern(s, "pattern")
    [] OTHER -> s

(* range_cmd, the forms with one value.                                    *)
RangeDim(s, d, what, v) ==
  CASE d \in {"dst mac", "src mac"}   -> RangeMac(s, d, what, v)
    [] d \in {"dst ip", "src ip"}     -> RangeIp(s, d, what, v)
    [] d \in {"dst port", "src port"} -> RangePort(s, d, what, v)
    [] d = "vlan" -> RangeVlan(s, what, v)
    [] d = "cos"  -> RangeCos(s, what, v)
    [] d = "tos"  -> RangeTos(s, what, v)
    [] d = "size" -> RangeSize(s, what, ValidSize(s, v))
    [] OTHER -> s

(* The forms with all four: start, min, max and inc in this order.         *)
RangeAll(s, d, v) ==
  RangeDim(RangeDim(RangeDim(RangeDim(s, d, "start", v[1]),
                             d, "min", v[2]), d, "max", v[3]), d, "inc", v[4])

RangeOther(s, what, v) ==
  CASE what = "proto" /\ v \in {"tcp", "udp"} -> RangeProto(s, v)
    [] what = "mpls entry" -> SetMpls(s, v)
    [] what = "qinq index" -> RangeQinq(s, v[1], v[2])
    [] what = "gre key"    -> SetGreKey(s, v)
    [] OTHER -> s

(* en_dis_cmd.  The capture's own state is another component's.            *)
Enable(s, what, on) ==
  CASE what = "process" -> Switch(s, on, {"PROCESS_INPUT_PKTS"})
    [] what = "mpls"    -> EnableMpls(s, on)
    [] what = "qinq"    -> EnableQinq(s, on)
    [] what = "gre"     -> EnableGre(s, on)
    [] what = "gre_eth" -> EnableGreEth(s, on)
    [] what = "vlan"    -> EnableVlan(s, on)
    [] what = "garp"    -> EnableGarp(s, on)
    [] what = "random"  -> Switch(s, on, {"SEND_RANDOM_PKTS"})
    [] what = "latency" -> Switch(s, on, {"SEND_LATENCY_PKTS"})
    [] what = "pcap"    -> EnablePcap(s, on)
    [] what = "rx_tap"  -> EnableTap(s, on, "PROCESS_RX_TAP_PKTS")
    [] what = "tx_tap"  -> EnableTap(s, on, "PROCESS_TX_TAP_PKTS")
    [] what = "icmp"    -> Switch(s, on, {"ICMP_ECHO_ENABLE_FLAG"})
    [] what = "range"   -> EnableRange(s, on)
    [] what = "capture" -> Switch(s, on, {"CAPTURE_PKTS"})
    [] what = "bonding" -> Switch(s, on, {"BONDING_TX_PACKETS"})
    [] what = "short"   -> Switch(s, on, {"SEND_SHORT_PACKETS"})
    [] what = "mac_from_arp" -> EnableMacFromArp(s, on)
    [] OTHER -> s

(* seq_cmd: ICMP over IPv6 and slots past the last are refused.            *)
SeqCmd(s, k, q) ==
  IF \/ q.proto = "icmp" /\ q.type = "ipv6"
     \/ k >= SeqSlots \/ q.type \notin {"ipv4", "ipv6"}
  THEN s ELSE SetSeq(s, k, q)
SeqCosTos(s, k, cos, tos) ==
  IF k >= SeqSlots THEN s ELSE SetSeqCosTos(s, k, cos, tos)

(* start_stop_cmd and misc_cmd, as far as they touch settings.             *)
Misc(s, what) ==
  CASE what = "arp request"    -> SendArp(s, FALSE)
    [] what = "arp gratuitous" -> SendArp(s, TRUE)
    [] what = "ping4"          -> Ping4(s)
    [] what = "reset"          -> Reset(s)
    [] OTHER -> s

Run(s, line) ==
  CASE line[1] = "set"     -> SetCmd(s, line[2], line[3])
    [] line[1] = "range" /\ line[2] \notin Dims -> RangeOther(s, line[2], line[3])
    [] line[1] = "range" /\ line[2] \in Dims /\ Len(line) = 4
         -> RangeDim(s, line[2], line[3], line[4])
    [] line[1] = "range" /\ line[2] \in Dims /\ Len(line) = 3
         -> RangeAll(s, line[2], line[3])
    [] line[1] \in {"enable", "disable"} -> Enable(s, line[2], line[1] = "enable")
    [] line[1] = "seq"     -> SeqCmd(s, line[2], line[3])
    [] line[1] = "seq cos" -> SeqCosTos(s, line[2], line[3], line[4])
    [] line[1] = "misc"    -> Misc(s, line[2])
    [] OTHER -> s
=============================================================================

----------------------------- MODULE LuaBinding -----------------------------
(***************************************************************************)
(* The settings functions of the Lua library (app/lpktgenlib.c).  A call   *)
(* is a tuple: the name of the function and its arguments without the port *)
(* list.  A function that does not exist, is called with another number of *)
(* arguments or does not know the word it is given raises an error before  *)
(* it has changed anything (Accepts), and the script ends there.  The      *)
(* function seq is one of them: it wants 12 or 13 arguments and reads 15.  *)
(***************************************************************************)
EXTENDS PortSettings

(* The functions, and the number of arguments each insists on.             *)
Arity ==
  [set |-> 2, set_mac |-> 1, set_ipaddr |-> 2, set_proto |-> 1, set_type |-> 1,
   mac_from_arp |-> 1, ping4 |-> 0, send_arp |-> 1, reset |-> 0, pcap |-> 1,
   icmp_echo |-> 1, vlan |-> 1, vlanid |-> 1, cos |-> 1, tos |-> 1, mpls |-> 1,
   mpls_entry |-> 1, qinq |-> 1, qinqids |-> 2, gre |-> 1, gre_eth |-> 1,
   gre_key |-> 1, set_range |-> 1, latency |-> 1, process |-> 1, capture |-> 1,
   bonding |-> 1, garp |-> 1, rxtap |-> 1, txtap |-> 1, pattern |-> 1,
   userPattern |-> 1, jitter |-> 1, dst_mac |-> 2, src_mac |-> 2, dst_ip |-> 2,
   src_ip |-> 2, dst_port |-> 2, src_port |-> 2, vlan_id |-> 2, pkt_size |-> 2,
   gtpu_teid |-> 2, ip_proto |-> 1, seqTable |-> 2, compile |-> 2, rnd |-> 3]

SetWords == {"count", "size", "rate", "burst", "cycles", "sport", "dport",
             "seq_cnt", "seqCnt", "prime"}

(* The counts of arguments pktgen_seq takes, of which set_seq reads 15.    *)
SeqArity == {n \in {12, 13} : n >= 15}

Accepts(call) ==
  /\ call[1] \in DOMAIN Arity \cup {"seq"}
  /\ Len(call) - 1 \in IF call[1] = "seq" THEN SeqArity ELSE {Arity[call[1]]}
  /\ call[1] = "set" => call[2] \in SetWords

On(state) == state = "enable"
VlanId(n) == IF n \in VlanIds THEN n ELSE 1

(* pktgen_set.                                                             *)
SetValue(s, what, v) ==
  CASE what = "count"  -> SetTxCount(s, v)
    [] what = "size"   -> SetPktSize(s, v)
    [] what = "rate"   -> SetTxRate(s, v)
    [] what = "burst"  -> SetTxBurst(s, v)
    [] what = "cycles" -> SetTxCycles(s, v)
    [] what = "prime"  -> SetPrime(s, v)
    [] what \in {"sport", "dport"}    -> SetPort(s, what, v)
    [] what \in {"seq_cnt", "seqCnt"} -> SetSeqCnt(s, v)

(* set_seqTable: also behind the name compile.                             *)
SeqTable(s, k, q) ==
  IF k >= SeqSlots \/ (q.proto = "icmp" /\ q.type = "ipv6") THEN s
  ELSE SetSeqCosTos(SetSeq(s, k, q), k, q.cos, q.tos)

(* pktgen_rnd with one bit field per index: the port sends random packets  *)
(* exactly as long as it has one.                                          *)
Rnd(s, idx, mask) ==
  LET t == [s EXCEPT !.rnd = IF mask = "off" THEN @ \ {idx} ELSE @ \cup {idx}]
  IN  Switch(t, t.rnd /= {}, {"SEND_RANDOM_PKTS"})

(* Functions that take one word, enable or disable: what is sent in front  *)
(* of the packet, what a port does with packets, and the others.           *)
TagSwitches == {"vlan", "mpls", "qinq"}
TagSwitch(s, f, on) ==
  CASE f = "vlan" -> EnableVlan(s, on)
    [] f = "mpls" -> EnableMpls(s, on)
    [] f = "qinq" -> EnableQinq(s, on)

ModeSwitches == {"process", "capture", "bonding"}
ModeSwitch(s, f, on) ==
  CASE f = "process" -> Switch(s, on, {"PROCESS_INPUT_PKTS"})
    [] f = "capture" -> Switch(s, on, {"CAPTURE_PKTS"})
    [] f = "bonding" -> Switch(s, on, {"BONDING_TX_PACKETS"})

TapSwitches == {"rxtap", "txtap", "garp"}
TapSwitch(s, f, on) ==
  CASE f = "rxtap" -> EnableTap(s, on, "PROCESS_RX_TAP_PKTS")
    [] f = "txtap" -> EnableTap(s, on, "PROCESS_TX_TAP_PKTS")
    [] f = "garp"  -> EnableGarp(s, on)

Switches == TagSwitches \cup ModeSwitches \cup TapSwitches \cup
  {"mac_from_arp", "pcap", "icmp_echo", "gre", "gre_eth", "set_range", "latency"}
EnableCall(s, f, on) ==
  CASE f \in TagSwitches  -> TagSwitch(s, f, on)
    [] f \in ModeSwitches -> ModeSwitch(s, f, on)
    [] f \in TapSwitches  -> TapSwitch(s, f, on)
    [] f = "mac_from_arp" -> EnableMacFromArp(s, on)
    [] f = "pcap"      -> EnablePcap(s, on)
    [] f = "icmp_echo" -> Switch(s, on, {"ICMP_ECHO_ENABLE_FLAG"})
    [] f = "gre"       -> EnableGre(s, on)
    [] f = "gre_eth"   -> EnableGreEth(s, on)
    [] f = "set_range" -> EnableRange(s, on)
    [] f = "latency"   -> Switch(s, on, {"SEND_LATENCY_PKTS"})

(* Functions on the SINGLE packet: its addresses and protocol, its tags,   *)
(* what it is filled with.                                                 *)
HeaderNames == {"set_mac", "set_ipaddr", "set_proto", "set_type"}
HeaderCall(s, call) ==
  LET f == call[1]  v == call[2] IN
  CASE f = "set_mac"     -> SetDstMac(s, v)
    [] f = "set_ipaddr"  -> IF v = "src" THEN SetSrcIp(s, call[3][1], call[3][2])
                                         ELSE SetDstIp(s, call[3])
    [] f = "set_proto"   -> SetProto(s, v)
    [] f = "set_type"    -> SetPktType(s, v)

LabelNames == {"mpls_entry", "qinqids", "gre_key"}
LabelCall(s, call) ==
  LET f == call[1]  v == call[2] IN
  CASE f = "mpls_entry"  -> SetMpls(s, v)
    [] f = "qinqids"     -> SetQinq(s, VlanId(v), VlanId(call[3]))
    [] f = "gre_key"     -> SetGreKey(s, v)

FillNames == {"pattern", "userPattern", "jitter"}
FillCall(s, f, v) ==
  CASE f = "pattern"     -> SetPattern(s, v)
    [] f = "userPattern" -> SetUserPattern(s, v)
    [] f = "jitter"      -> SetJitter(s, v)

SingleCall(s, call) ==
  LET f == call[1]  v == call[2] IN
  CASE f = "set"         -> SetValue(s, v, call[3])
    [] f \in HeaderNames -> HeaderCall(s, call)
    [] f \in LabelNames  -> LabelCall(s, call)
    [] f \in FillNames   -> FillCall(s, f, v)
    [] f = "vlanid"      -> SetVlanId(s, VlanId(v))
    [] f = "cos"         -> SetCos(s, IF v % 2^8 > 7 THEN 0 ELSE v)
    [] f = "tos"         -> SetTos(s, v)

(* Functions on the ranges.                                                *)
AddressRanges == {"dst_mac", "src_mac", "dst_ip", "src_ip"}
AddressRange(s, f, what, v) ==
  CASE f = "dst_mac"   -> RangeMac(s, "dst mac", what, v)
    [] f = "src_mac"   -> RangeMac(s, "src mac", what, v)
    [] f = "dst_ip"    -> RangeIp(s, "dst ip", what, v)
    [] f = "src_ip"    -> RangeIp(s, "src ip", what, v)

NumberRanges == {"dst_port", "src_port", "vlan_id", "gtpu_teid"}
NumberRange(s, f, what, v) ==
  CASE f = "dst_port"  -> RangePort(s, "dst port", what, v)
    [] f = "src_port"  -> RangePort(s, "src port", what, v)
    [] f = "vlan_id"   -> RangeVlan(s, what, v)
    [] f = "gtpu_teid" -> RangeTeid(s, what, v)

Ranges == AddressRanges \cup NumberRanges \cup {"pkt_size"}
RangeCall(s, call) ==
  LET f == call[1]  what == call[2]  v == call[3] IN
  CASE f \in AddressRanges -> AddressRange(s, f, what, v)
    [] f \in NumberRanges  -> NumberRange(s, f, what, v)
    [] f = "pkt_size"      -> RangeSize(s, what, v)

(* A call with as many arguments as the function wants.                    *)
Call(s, call) ==
  CASE call[1] \in Switches  -> EnableCall(s, call[1], On(call[2]))
    [] call[1] \in Ranges    -> RangeCall(s, call)
    [] call[1] = "ip_proto"  -> RangeProto(s, call[2])
    [] call[1] \in {"seqTable", "compile"} -> SeqTable(s, call[2], call[3])
    [] call[1] = "rnd"       -> Rnd(s, call[2], call[4])
    [] call[1] = "ping4"     -> Ping4(s)
    [] call[1] = "send_arp"  -> SendArp(s, call[2] = "g")
    [] call[1] = "reset"     -> Reset(s)
    [] OTHER                 -> SingleCall(s, call)
=============================================================================

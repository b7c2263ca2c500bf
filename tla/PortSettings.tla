---------------------------- MODULE PortSettings ----------------------------
(***************************************************************************)
(* The settings of a port and what every command does to them              *)
(* (app/pktgen-cmds.c, pktgen_config_ports and pktgen_range_setup): one    *)
(* operator per setter, from the settings before to the settings after.    *)
(* Both front ends, the command line and the Lua binding, call these.      *)
(*                                                                         *)
(* The settings are one record.  The copies of VLAN id, CoS, ToS, MPLS and *)
(* GRE key that port_info_t keeps beside the SINGLE packet's are always    *)
(* equal to it and are not modelled twice.  An IP address is its four      *)
(* bytes, a MAC address a number.  tx_rate, a percentage in the code, is   *)
(* kept as the bytes per second it stands for, which is exact where the    *)
(* code's double is.                                                       *)
(***************************************************************************)
EXTENDS Integers, Sequences, FiniteSetsExt

CONSTANTS
  SeqSlots,      \* NUM_SEQ_PKTS
  Link,          \* link speed, in bytes per second
  Hz,            \* pktgen.hz
  TxQueues,      \* get_port_txcnt: transmitting lcores of the port
  PcapSize,      \* average packet of the port's PCAP file, 0 without a file
  TapOpens,      \* whether the system lets the program open a TAP interface
  SrcMac, PeerMac, \* the device's address, and its neighbour's
  LeastRate      \* what a rate of zero becomes: 0.01 percent of Link

ASSUME SettingsAssumption ==
  /\ SeqSlots \in Nat \ {0} /\ Link \in Nat \ {0} /\ Hz \in Nat
  /\ TxQueues \in Nat /\ PcapSize \in Nat /\ TapOpens \in BOOLEAN
  /\ LeastRate \in 1..Link

\* Slots of seq_pkt: the sequence, SINGLE_PKT, PING_PKT and RANGE_PKT.  No
\* command reaches those after them.
Single == SeqSlots
Ping   == SeqSlots + 1
Ranged == SeqSlots + 2
Slots  == 0..Ranged

MinSize == 60   MaxSize == 1514   MinV6Size == 74   Fcs == 4
Overhead == 24              \* preamble, inter-frame gap and FCS
MaxBurst == 64              \* DEFAULT_PKT_BURST
MaxPrime == 4
VlanIds == 1..4095
Default == [ip |-> <<0, 0, 0, 0>>, mask |-> 24, rate |-> Link]

Dims == {"dst mac", "src mac", "dst ip", "src ip", "dst port", "src port",
         "vlan", "cos", "tos", "size", "teid"}
Smmi == {"start", "min", "max", "inc"}

ModeFlags == {"SEND_RANGE_PKTS", "SEND_SEQ_PKTS", "SEND_PCAP_PKTS"}
TagFlags  == {"SEND_VLAN_ID", "SEND_MPLS_LABEL", "SEND_Q_IN_Q_IDS"}
GreFlags  == {"SEND_GRE_IPv4_HEADER", "SEND_GRE_ETHER_HEADER"}

(* No two of a group of flags, and so one mode, tag and GRE header.        *)
AtMostOne(s, F) == \A f, g \in F : f \in s.flags /\ g \in s.flags => f = g
Exclusive(s) ==
  AtMostOne(s, ModeFlags) /\ AtMostOne(s, TagFlags) /\ AtMostOne(s, GreFlags)
-----------------------------------------------------------------------------
(* pktgen_set_port_flags and pktgen_clr_port_flags.                        *)
SetFlags(s, F) == [s EXCEPT !.flags = @ \cup F]
ClrFlags(s, F) == [s EXCEPT !.flags = @ \ F]

(* A flag that is switched on and off and touches no other.                *)
Switch(s, on, F) == IF on THEN SetFlags(s, F) ELSE ClrFlags(s, F)

(* Mutant: switching one off switches off those it excludes, too.          *)
OneOf_clearsGroup(s, on, f, group) ==
  IF on THEN SetFlags(ClrFlags(s, group), {f}) ELSE ClrFlags(s, group)

(* One of a set of flags that exclude each other.                          *)
OneOf(s, on, f, group) ==
  IF on THEN SetFlags(ClrFlags(s, group), {f}) ELSE ClrFlags(s, {f})

Put(s, k, p) == [s EXCEPT !.pkts[k] = p]

(* The bytes the packets of the sequence take, added up in a loop.         *)
SeqBytes(s) ==
  LET bytes[n \in 0..SeqSlots] ==
        IF n = 0 THEN 0 ELSE bytes[n - 1] + (s.pkts[n - 1].size + Overhead)
  IN  bytes[s.seqCnt]

(* pktgen_wire_size: the bytes a packet takes on the wire, on the average. *)
WireSize(s) ==
  IF "SEND_PCAP_PKTS" \in s.flags THEN PcapSize + Overhead
  ELSE IF s.seqCnt > 0 THEN SeqBytes(s) \div s.seqCnt
                       ELSE s.pkts[Single].size + Overhead

Cycles(pps, burst) ==
  (IF pps > 0 THEN Hz \div pps ELSE Hz \div 4) * burst * TxQueues

(* Mutant: the pause between two bursts is not computed again.             *)
Paced_keepsCycles(s) ==
  [s EXCEPT !.pps = ((Link \div WireSize(s)) * s.rate) \div Link]

(* pktgen_packet_rate: packets per second and the pause between two bursts *)
(* out of the rate.                                                        *)
Paced(s) ==
  LET pps == ((Link \div WireSize(s)) * s.rate) \div Link
  IN  [s EXCEPT !.pps = pps, !.cycles = Cycles(pps, s.burst)]
-----------------------------------------------------------------------------
(* The first settings of a port.                                           *)
SrcIp == <<192, 168, 0, 1>>      \* of port 0; its neighbour is port 1
DstIp == <<192, 168, 1, 1>>
Span(start, min, max, inc) ==
  [start |-> start, min |-> min, max |-> max, inc |-> inc]

(* pktgen_port_defaults for one slot; the source MAC is not touched.       *)
DefaultPkt(p, neighbour) ==
  [p EXCEPT !.size = MinSize, !.sport = 1234, !.dport = 5678,
            !.proto = "tcp", !.ethType = "ipv4", !.vlanid = 1, !.cos = 0,
            !.tos = 0, !.mask = 24, !.srcIp = SrcIp, !.dstIp = DstIp,
            !.dstMac = neighbour]

PortDefaults(s) ==
  LET t == [s EXCEPT !.pkts = [k \in Slots |-> DefaultPkt(s.pkts[k], PeerMac)],
                     !.count = 0, !.rate = Default.rate, !.burst = MaxBurst,
                     !.seqCnt = 0, !.prime = 1]
  IN  Paced(t)

(* pktgen_range_setup: all ranges but that of the TEID.                    *)
FirstSpan(s, d) ==
  LET single == s.pkts[Single]
      IpSpan(ip, inc) == Span(ip, ip, <<ip[1], ip[2], ip[3], 254>>, inc)
  IN CASE d = "dst ip" -> IpSpan(DstIp, <<0, 0, 0, 1>>)
       [] d = "src ip" -> IpSpan(SrcIp, Default.ip)
       [] d \in {"dst port", "src port"} -> Span(0, 0, 254, 1)
       [] d = "vlan"    -> Span(single.vlanid, 1, 4095, 0)
       [] d = "cos"     -> Span(single.cos, 0, 7, 0)
       [] d = "tos"     -> Span(single.tos, 0, 255, 0)
       [] d = "size"    -> Span(MinSize, MinSize, MaxSize, 0)
       [] d = "dst mac" -> Span(single.dstMac, 0, 0, 0)
       [] d = "src mac" -> Span(single.srcMac, 0, 0, 0)
       [] OTHER         -> s.range[d]
RangeSetup(s) ==
  [s EXCEPT !.range = [d \in Dims |-> FirstSpan(s, d)], !.rangeProto = "tcp",
            !.pkts[Ranged].size = MinSize]

ZeroPkt == [size |-> 0, ethType |-> "ipv4", proto |-> "tcp", sport |-> 0,
            dport |-> 0, srcIp |-> Default.ip, dstIp |-> Default.ip,
            mask |-> 0, srcMac |-> 0, dstMac |-> 0, vlanid |-> 0, cos |-> 0,
            tos |-> 0, qinq |-> <<0, 0>>, mpls |-> 0, greKey |-> 0, teid |-> 0]

(* pktgen_config_ports: what a port is before the first command.  Only the *)
(* sequence and the SINGLE packet learn the device's address.              *)
Fresh ==
  RangeSetup(PortDefaults(
    [flags |-> {}, macFromArp |-> FALSE, count |-> 0, rate |-> 0, pps |-> 0,
     cycles |-> 0, burst |-> 0, prime |-> 0, seqCnt |-> 0, rangeProto |-> "tcp",
     range |-> [d \in Dims |-> Span(0, 0, 0, 0)], jitter |-> 50,
     fill |-> "abc", user |-> "0123456789abcdef", rnd |-> {},
     pkts |-> [k \in Slots |-> IF k <= Single
                               THEN [ZeroPkt EXCEPT !.srcMac = SrcMac]
                               ELSE ZeroPkt]]))

(* pktgen_reset: the flags other than the mode's stay as they are, and so  *)
(* do the addresses, tags and patterns the defaults do not mention.        *)
Reset(s) ==
  LET t == RangeSetup(PortDefaults([s EXCEPT !.macFromArp = FALSE]))
  IN  Paced([ClrFlags(t, {"SEND_RANGE_PKTS", "SEND_SEQ_PKTS"})
               EXCEPT !.rnd = {}, !.seqCnt = 0])
-----------------------------------------------------------------------------
(* Switches, in the order of pktgen-cmds.c.  "on" is what the word enable  *)
(* or disable has been turned into.                                        *)
EnableTap(s, on, f) == IF on /\ ~TapOpens THEN s ELSE Switch(s, on, {f})
EnableMacFromArp(s, on) == [s EXCEPT !.macFromArp = on]
EnableGarp(s, on) == Switch(s, on, {"PROCESS_GARP_PKTS", "PROCESS_INPUT_PKTS"})
EnableVlan(s, on) == OneOf(s, on, "SEND_VLAN_ID", TagFlags)
EnableMpls(s, on) == OneOf(s, on, "SEND_MPLS_LABEL", TagFlags)
EnableQinq(s, on) == OneOf(s, on, "SEND_Q_IN_Q_IDS", TagFlags)
EnableGre(s, on) == OneOf(s, on, "SEND_GRE_IPv4_HEADER", GreFlags)
EnableGreEth(s, on) == OneOf(s, on, "SEND_GRE_ETHER_HEADER", GreFlags)

(* Mutant: range mode is entered without leaving the others.               *)
EnableRange_keepsOther(s, on) == Paced(Switch(s, on, {"SEND_RANGE_PKTS"}))

(* enable_range: the pace is computed again, though for the packet sizes   *)
(* of the sequence as long as seqCnt is not zero.                          *)
EnableRange(s, on) == Paced(OneOf(s, on, "SEND_RANGE_PKTS", ModeFlags))

(* enable_pcap: only a port with a PCAP file can send it.                  *)
EnablePcap(s, on) ==
  IF PcapSize = 0 THEN s
  ELSE Paced(OneOf(s, on, "SEND_PCAP_PKTS", ModeFlags))
-----------------------------------------------------------------------------
(* The SINGLE packet.                                                      *)
SinglePut(s, p) == Put(s, Single, p)

SetTxCount(s, n) == [s EXCEPT !.count = n]

(* single_set_pkt_size: size includes the FCS.  The pace is left alone.    *)
SetPktSize(s, size) ==
  LET p     == s.pkts[Single]
      least == IF "SEND_SHORT_PACKETS" \in s.flags THEN 0 ELSE MinSize
      n     == Min({Max({size - Fcs, 0, least}), MaxSize})
  IN  SinglePut(s, [p EXCEPT !.size = IF p.ethType = "ipv6"
                                      THEN Max({n, MinV6Size}) ELSE n])

SetTxRate(s, rate) ==
  Paced([s EXCEPT !.rate = IF rate = 0 THEN LeastRate ELSE Min({rate, Link})])

(* pktgen_set_port_pps: the rate follows, unbounded, and the burst is set  *)
(* to 32.                                                                  *)
SetPps(s, pps) ==
  [s EXCEPT !.pps = pps, !.rate = pps * WireSize(s), !.burst = 32,
            !.cycles = Cycles(pps, 32)]

(* single_set_tx_burst: the pace is left alone.                            *)
SetTxBurst(s, n) == [s EXCEPT !.burst = Min({Max({n, 1}), MaxBurst})]
SetTxCycles(s, n) == [s EXCEPT !.cycles = n]

SetPrime(s, n) == [s EXCEPT !.prime = IF n = 0 THEN 1 ELSE Min({n, MaxPrime})]

(* Mutant: a count of zero does not leave sequence mode.                   *)
SetSeqCnt_keepsMode(s, n) ==
  LET t == [s EXCEPT !.seqCnt = Min({n, SeqSlots})]
  IN  Paced(IF n > 0 THEN OneOf(t, TRUE, "SEND_SEQ_PKTS", ModeFlags) ELSE t)

(* pktgen_set_port_seqCnt: a count selects the sequence, zero leaves it.   *)
SetSeqCnt(s, n) ==
  LET t == [s EXCEPT !.seqCnt = Min({n, SeqSlots})]
  IN  Paced(OneOf(t, n > 0, "SEND_SEQ_PKTS", ModeFlags))

SetPort(s, field, n) ==
  SinglePut(s, [s.pkts[Single] EXCEPT ![field] = n % 2^16])

(* single_set_proto: ICMP turns the packet into an IPv4 packet.            *)
SetProto(s, proto) ==
  SinglePut(s, [s.pkts[Single] EXCEPT
                  !.proto = proto,
                  !.ethType = IF proto = "icmp" THEN "ipv4" ELSE @])

(* single_set_pkt_type: between IPv4 and IPv6 the size moves by the        *)
(* difference of the smallest packets; "vlan" and unknown words are IPv4.  *)
SetPktType(s, word) ==
  LET p    == s.pkts[Single]
      type == IF word \in {"arp", "ipv6"} THEN word ELSE "ipv4"
      size == CASE p.ethType = "ipv6" /\ type = "ipv4" /\ p.size >= MinV6Size
                     -> p.size - (MinV6Size - MinSize)
                [] p.ethType = "ipv4" /\ type = "ipv6" /\ p.size < MinV6Size
                     -> p.size + (MinV6Size - MinSize)
                [] OTHER -> p.size
  IN  SinglePut(s, [p EXCEPT !.ethType = type, !.size = size])

SetVlanId(s, n)  == SinglePut(s, [s.pkts[Single] EXCEPT !.vlanid = n])
SetCos(s, n)     == SinglePut(s, [s.pkts[Single] EXCEPT !.cos = n % 2^8])
SetTos(s, n)     == SinglePut(s, [s.pkts[Single] EXCEPT !.tos = n % 2^8])
SetMpls(s, n)    == SinglePut(s, [s.pkts[Single] EXCEPT !.mpls = n])
SetGreKey(s, n)  == SinglePut(s, [s.pkts[Single] EXCEPT !.greKey = n])
SetQinq(s, o, i) == SinglePut(s, [s.pkts[Single] EXCEPT !.qinq = <<o, i>>])
SetDstMac(s, m)  == SinglePut(s, [s.pkts[Single] EXCEPT !.dstMac = m])
SetSrcMac(s, m)  == SinglePut(s, [s.pkts[Single] EXCEPT !.srcMac = m])
SetDstIp(s, ip)  == SinglePut(s, [s.pkts[Single] EXCEPT !.dstIp = ip])
SetSrcIp(s, ip, mask) ==
  SinglePut(s, [s.pkts[Single] EXCEPT !.srcIp = ip, !.mask = mask])

SetJitter(s, n)  == [s EXCEPT !.jitter = n]
SetPattern(s, w) == [s EXCEPT !.fill = w]
SetUserPattern(s, text) == [s EXCEPT !.user = text, !.fill = "user"]

(* pktgen_ping4: the request is a copy of the SINGLE packet.               *)
Ping4(s) == SetFlags(Put(s, Ping, [s.pkts[Single] EXCEPT !.proto = "icmp"]),
                     {"SEND_PING4_REQUEST"})
SendArp(s, gratuitous) ==
  SetFlags(s, {IF gratuitous THEN "SEND_GRATUITOUS_ARP" ELSE "SEND_ARP_REQUEST"})
-----------------------------------------------------------------------------
(* Ranges: "what" is one of Smmi.                                          *)
SetSpan(s, d, what, v) == [s EXCEPT !.range[d][what] = v]
CapInc(what, v, cap) == IF what = "inc" THEN Min({v, cap}) ELSE v

RangeMac(s, d, what, m) ==
  LET t == SetSpan(s, d, what, m)
      f == IF d = "dst mac" THEN "dstMac" ELSE "srcMac"
  IN  IF what = "start" THEN [t EXCEPT !.pkts[Ranged][f] = m] ELSE t

RangeIp(s, d, what, ip) == SetSpan(s, d, what, ip)
RangePort(s, d, what, n) == SetSpan(s, d, what, CapInc(what, n % 2^16, 64))

RangeTeid(s, what, n) ==
  CASE what = "inc" /\ n = 0 -> s
    [] what = "start" -> [SetSpan(s, "teid", what, n)
                            EXCEPT !.pkts[Ranged].teid = n]
    [] OTHER -> SetSpan(s, "teid", what, n)

RangeVlan(s, what, n) ==
  SetSpan(s, "vlan", what, IF what = "inc" THEN Min({n, 64})
                           ELSE IF n \in VlanIds THEN n ELSE 1)
RangeTos(s, what, n) == SetSpan(s, "tos", what, n % 2^8)
RangeCos(s, what, n) == SetSpan(s, "cos", what, CapInc(what, n % 2^8, 7))

(* range_set_pkt_size: sizes between 64 and 1518 lose their FCS.           *)
RangeSize(s, what, n) ==
  SetSpan(s, "size", what,
          IF what = "inc" THEN Min({n, MinSize + Fcs})
          ELSE CASE n < MinSize + Fcs -> MinSize
                 [] n > MaxSize + Fcs -> MaxSize
                 [] OTHER             -> n - Fcs)

(* range_set_proto.                                                        *)
RangeProto(s, proto) ==
  Put([s EXCEPT !.rangeProto = proto], Ranged,
      [s.pkts[Ranged] EXCEPT !.proto = proto,
                             !.ethType = IF proto = "icmp" THEN "ipv4" ELSE @])

RangeQinq(s, o, i) == [s EXCEPT !.pkts[Ranged].qinq = <<o, i>>]
-----------------------------------------------------------------------------
(* The sequence.  q holds the fields a command names, its addresses as     *)
(* they were typed.                                                        *)

(* IPv4 addresses are kept in host order.  Those of an IPv6 packet are     *)
(* copied as they are: four bytes of them, the other way round.            *)
Swap(ip) == <<ip[4], ip[3], ip[2], ip[1]>>
Stored(type, ip) == IF type = "ipv4" THEN ip ELSE Swap(ip)

SeqPkt(p, q) ==
  [p EXCEPT !.dstMac = q.dstMac, !.srcMac = q.srcMac, !.mask = q.mask,
            !.srcIp = Stored(q.type, q.srcIp), !.dstIp = Stored(q.type, q.dstIp),
            !.sport = q.sport, !.dport = q.dport, !.proto = q.proto,
            !.ethType = IF q.type = "ipv6" /\ q.proto /= "icmp" THEN "ipv6" ELSE "ipv4",
            !.size = (q.size - Fcs) % 2^16, !.vlanid = q.vlanid,
            !.teid = q.teid]

(* pktgen_set_seq, pktgen_set_cos_tos_seq.                                 *)
SetSeq(s, k, q) == Put(s, k, SeqPkt(s.pkts[k], q))
SetSeqCosTos(s, k, cos, tos) ==
  Put(s, k, [s.pkts[k] EXCEPT !.cos = cos, !.tos = tos])
=============================================================================

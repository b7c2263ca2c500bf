---------------------------- MODULE RangePacket ----------------------------
(***************************************************************************)
(* The next packet of a range (pktgen_range_ctor of app/pktgen-range.c):   *)
(* every field of the packet moves on by the increment of its range and    *)
(* wraps at its ends; with no increment it stays at the range's start.     *)
(* The TEID, the ports and the IP addresses wrap in the width of their C   *)
(* type before they are compared; the others are computed in a type no     *)
(* sum of theirs overflows.                                                *)
(***************************************************************************)
EXTENDS Integers

CONSTANT Word     \* 2^32: what an address or a TEID wraps at

ASSUME WordAssumption == Word \in Nat \ {0}

Gtpu == 2152           \* PG_IPPROTO_L4_GTPU_PORT
MinOf == [vlan |-> 1, cos |-> 0, tos |-> 0]  \* MIN_VLAN_ID, MIN_COS, MIN_TOS

Short == 2^16

Span(start, min, max, inc) ==
  [start |-> start, min |-> min, max |-> max, inc |-> inc]

(* Mutant: the last value of the range is taken for one beyond it.         *)
Wrap_early(v, r) == IF v < r.min THEN r.max ELSE IF v >= r.max THEN r.min ELSE v

(* Two ifs in a row, as for the TEID and the ports, come to the same as    *)
(* an if and an else.                                                      *)
Wrap(v, r) == IF v < r.min THEN r.max ELSE IF v > r.max THEN r.min ELSE v

Advance(v, r) == IF r.inc = 0 THEN r.start ELSE Wrap(v + r.inc, r)
AdvanceIp(v, r) == IF r.inc = 0 THEN r.start ELSE Wrap((v + r.inc) % Word, r)
AdvanceIn(v, r, width) ==
  IF r.inc = 0 THEN r.start ELSE Wrap((v + r.inc) % width, r)

(* VLAN id, CoS and ToS: the very first packet of the program, of whatever *)
(* port, starts from nought if it is found at the least value.             *)
AdvanceTag(v, r, f, first) ==
  Advance(IF v = MinOf[f] /\ f \in first THEN 0 ELSE v, r)

(* Only IPv4 packets over TCP or UDP move; any other is left as it is.     *)
Moves(pkt) == pkt.ethType = "ipv4" /\ pkt.proto \in {"tcp", "udp"}

(* Of the tags, those whose first packet is still to come.                 *)
FirstAfter(first, pkt, range) ==
  {f \in first : ~Moves(pkt) \/ range[f].inc = 0 \/ pkt[f] # MinOf[f]}

(* The TEID moves when the packet's destination port is GTP-U's, as the    *)
(* packet before left it.                                                  *)
NextPacket(pkt, range, first) ==
  IF ~Moves(pkt) THEN pkt
  ELSE [pkt EXCEPT
         !.teid = IF pkt.dstPort # Gtpu THEN @
                  ELSE AdvanceIn(@, range.teid, Word),
         !.srcPort = AdvanceIn(@, range.srcPort, Short),
         !.dstPort = AdvanceIn(@, range.dstPort, Short),
         !.srcIp = AdvanceIp(@, range.srcIp), !.dstIp = AdvanceIp(@, range.dstIp),
         !.vlan = AdvanceTag(@, range.vlan, "vlan", first),
         !.cos = AdvanceTag(@, range.cos, "cos", first),
         !.tos = AdvanceTag(@, range.tos, "tos", first),
         !.size = Advance(@, range.size),
         !.srcMac = Advance(@, range.srcMac), !.dstMac = Advance(@, range.dstMac)]
=============================================================================

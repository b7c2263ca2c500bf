--------------------------- MODULE MCNeighbours ---------------------------
(* Instances of the segment for TLC: port "a" has a sequence of one packet *)
(* to "b" and a single packet to "c", which answers it; the others have a  *)
(* single packet to "a".                                                   *)
EXTENDS Neighbours

Slot(src, dst, proto) ==
  [srcIp |-> src, dstIp |-> dst, dstMac |-> NoMac, proto |-> proto,
   ethType |-> "ipv4", dport |-> 80, size |-> 60]

MCSlots == [a |-> <<Slot("a1", "b1", "tcp"), Slot("a2", "c1", "icmp")>>,
            b |-> <<Slot("b1", "c1", "icmp")>>,
            c |-> <<Slot("c1", "a1", "tcp")>>]
MCRangeDst == [a |-> "x", b |-> "a1", c |-> "a2"]

All == {"PROCESS_INPUT_PKTS", "ICMP_ECHO_ENABLE_FLAG"}
MCModes ==
  {[flags |-> [a |-> All, b |-> All \cup {"PROCESS_GARP_PKTS"}, c |-> All],
    fromArp |-> TRUE],
   [flags |-> [a |-> All \cup {"SEND_VLAN_ID"}, b |-> {"PROCESS_INPUT_PKTS"},
               c |-> All],
    fromArp |-> FALSE]}
=============================================================================

------------------------------ MODULE Headers ------------------------------
(***************************************************************************)
(* What a port's packets are made of: pktgen_packet_ctor of app/pktgen.c   *)
(* and the header constructors it calls.  A packet is the record of its    *)
(* layers and of the length fields in them; addresses are its slot's.      *)
(* With a GRE flag set the constructors are handed a null pointer, so      *)
(* there is no packet: see Builds.                                         *)
(***************************************************************************)
EXTENDS Integers

CONSTANT TunnelGen     \* enable_gtpu, on a generator: the packet is to be
                       \* wrapped in outer IPv4, UDP and GTP-U headers

ASSUME HeadersAssumption == TunnelGen \in BOOLEAN

\* sizeof
EtherHdr == 14   VlanHdr == 4   MplsHdr == 4   QinqHdr == 8
IpHdr == 20   Ipv6Hdr == 40   TcpHdr == 20   UdpHdr == 8   GtpuHdr == 8

GtpuPort == 2152
Short(n) == n % 2^16           \* a length is computed in a uint16_t

(* The tag pktgen_ether_hdr_ctor writes, VLAN before MPLS before Q-in-Q.   *)
Tag(flags) ==
  IF "SEND_VLAN_ID" \in flags THEN "vlan"
  ELSE IF "SEND_MPLS_LABEL" \in flags THEN "mpls"
  ELSE IF "SEND_Q_IN_Q_IDS" \in flags THEN "qinq" ELSE "none"

EtherSize(tag) ==
  EtherHdr + CASE tag = "vlan" -> VlanHdr [] tag = "mpls" -> MplsHdr
               [] tag = "qinq" -> QinqHdr [] OTHER -> 0

(* pktgen_gre_hdr_ctor and pktgen_gre_ether_hdr_ctor clear a header at the *)
(* address they are given.                                                 *)
Builds(flags) ==
  flags \cap {"SEND_GRE_IPv4_HEADER", "SEND_GRE_ETHER_HEADER"} = {}

(* pktgen_ipv4_ctor: the total length.                                     *)
IpLen(size, ether) ==
  Short(size - ether - IF TunnelGen THEN IpHdr + UdpHdr + GtpuHdr ELSE 0)

(* pktgen_udp_hdr_ctor, pktgen_gtpu_hdr_ctor, pktgen_ipv6_ctor: the        *)
(* lengths of the datagram, the tunnel's payload and the IPv6 payload.     *)
UdpLen(size, ether) ==
  Short(size - ether - IpHdr
        - IF TunnelGen THEN IpHdr + UdpHdr + GtpuHdr ELSE 0)
GtpuLen(size, ether, proto) ==
  Short(size - ether - GtpuHdr - IF proto = "udp" THEN UdpHdr ELSE TcpHdr)
Ipv6Len(size, ether) == Short(size - ether - Ipv6Hdr)

(* What follows the IP header.  An ICMP packet is a timestamp request,     *)
(* unless it is built to be an echo request.                               *)
Upper(p, icmp) ==
  IF p.proto = "icmp" THEN IF icmp = "echo" THEN "echo" ELSE "timestamp"
  ELSE IF p.dport = GtpuPort THEN "gtpu" ELSE p.proto

NoLen == -1

(* pktgen_packet_ctor, for the slot p of a port with these flags.  An ARP  *)
(* packet is a reply; of IPv6 only TCP and UDP are built, and both with    *)
(* the destination for the source, too.                                    *)
Packet(p, flags, icmp) ==
  LET tag == Tag(flags)
      ether == EtherSize(tag)
      Base == [type |-> p.ethType, tag |-> tag, size |-> p.size,
               ether |-> ether, upper |-> "none", ipLen |-> NoLen,
               upperLen |-> NoLen, srcIp |-> p.srcIp, dstIp |-> p.dstIp]
  IN CASE p.ethType = "ipv4" ->
            LET upper == Upper(p, icmp) IN
            [Base EXCEPT !.upper = upper, !.ipLen = IpLen(p.size, ether),
                         !.upperLen = CASE upper = "udp" -> UdpLen(p.size, ether)
                                        [] upper = "gtpu" ->
                                             GtpuLen(p.size, ether, p.proto)
                                        [] OTHER -> NoLen]
       [] p.ethType = "ipv6" /\ p.proto \in {"tcp", "udp"} ->
            [Base EXCEPT !.upper = p.proto, !.ipLen = Ipv6Len(p.size, ether),
                         !.srcIp = p.dstIp]
       [] OTHER -> Base
=============================================================================

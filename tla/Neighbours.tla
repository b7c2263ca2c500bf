----------------------------- MODULE Neighbours -----------------------------
(***************************************************************************)
(* ARP, gratuitous ARP and ping between ports on one broadcast segment:    *)
(* app/pktgen-arp.c, app/pktgen-ipv4.c and app/pktgen-vlan.c, called from  *)
(* pktgen_packet_classify and pktgen_send_special of app/pktgen.c.  The    *)
(* thread of the commands sets a request bit; a transmitting lcore of the  *)
(* port sends the requests packet after packet and then clears all the     *)
(* bits; a receiving lcore answers requests in the mbuf they came in, and  *)
(* learns the address of the port's destination from the replies.          *)
(***************************************************************************)
EXTENDS Headers, Sequences, FiniteSets, SequencesExt

CONSTANTS
  Ports,      \* also their MAC addresses
  Txq,        \* transmitting lcores of each port
  Slots,      \* Slots[p]: p's sequence (seqCnt of them), then its SINGLE_PKT
  RangeDst,   \* RangeDst[p]: destination address of p's RANGE_PKT
  Modes,      \* settings: flags of each port, and the global flag mac_from_arp
  NewDst,     \* addresses the user gives a single packet
  Askers,     \* bound: the ports the user gives commands for
  RingSize,   \* descriptors of a port's receive ring
  MaxAsk, MaxLoss   \* bounds: requests of the user, packets the segment loses

NoMac == "none"      \* the MAC address a slot has before it learns one
Requests == {"SEND_GRATUITOUS_ARP", "SEND_ARP_REQUEST", "SEND_PING4_REQUEST"}

ASSUME NeighboursAssumption ==
  /\ NoMac \notin Ports /\ DOMAIN Slots = Ports /\ DOMAIN RangeDst = Ports
  /\ \A p \in Ports :
       /\ Len(Slots[p]) \in Nat \ {0} /\ DOMAIN Slots[p] = 1..Len(Slots[p])
       /\ \A s \in 1..Len(Slots[p]) :
            /\ {"srcIp", "dstIp", "dstMac", "ethType"} \subseteq DOMAIN Slots[p][s]
            /\ Slots[p][s].ethType \in {"ipv4", "ipv6"}
  /\ \A mode \in Modes : \A p \in Ports :
        mode.flags[p] \cap Requests = {} /\ Builds(mode.flags[p])
  /\ RingSize \in Nat \ {0} /\ MaxAsk \in Nat /\ MaxLoss \in Nat
  /\ Askers \subseteq Ports

VARIABLES
  flags,    \* port_flags
  slot,     \* seq_pkt[0..seqCnt-1] and seq_pkt[SINGLE_PKT]
  rangeMac, \* eth_dst_addr of seq_pkt[RANGE_PKT]
  fromArp,  \* MAC_FROM_ARP_FLAG of pktgen.flags
  todo,     \* what pktgen_send_special of a transmitting lcore has to send
  ring,     \* packets in the ports' receive rings
  echo,     \* history: the port has counted an echo request or reply
  asked, lost   \* history: commands of the user, and packets lost (a full
                \* ring counts for more than MaxLoss)

vars == <<flags, slot, rangeMac, fromArp, todo, ring, echo, asked, lost>>

Idle == << <<"idle", 0>> >>
Single(p) == Len(Slots[p])          \* SINGLE_PKT

(* pktgen_find_matching_ipsrc, pktgen_find_matching_ipdst: the first slot  *)
(* of the sequence, then the single packet, or 0; and for destinations     *)
(* the range packet after them.                                            *)
FirstSlot(p, Matches(_)) ==
  LET found == {s \in 1..Single(p) : Matches(slot[p][s])} IN
  IF found = {} THEN 0 ELSE CHOOSE s \in found : \A t \in found : s <= t
(* Mutant: the single packet is not looked at.                             *)
MatchingSrc_sequence(p, ip) == FirstSlot(p, LAMBDA x : x # slot[p][Single(p)] /\ x.srcIp = ip)
MatchingSrc(p, ip) == FirstSlot(p, LAMBDA x : x.srcIp = ip)
MatchingDst(p, ip) == FirstSlot(p, LAMBDA x : x.dstIp = ip)

Owners(ip) == {p \in Ports : \E s \in 1..Single(p) : slot[p][s].srcIp = ip}

(* The segment gives a packet to every other port; a full ring drops it.   *)
SendFrom(p, rings, msg) ==
  LET full == {q \in Ports \ {p} : Len(rings[q]) = RingSize}
  IN /\ ring' = [q \in Ports |-> IF q \in full \cup {p} THEN rings[q]
                                ELSE Append(rings[q], msg)]
     /\ lost' = IF full = {} THEN lost ELSE MaxLoss + 1

Arp(op, sha, spa, tha, tpa) ==
  [type |-> "arp", tag |-> "none", op |-> op, sha |-> sha, spa |-> spa,
   tha |-> tha, tpa |-> tpa]

(***************************************************************************)
(* The commands arp, garp, ping4 and set <port> dst ip.                    *)
(***************************************************************************)
(* pktgen_send_arp_requests and pktgen_ping4.  (The packet pktgen_ping4    *)
(* builds in PING_PKT is overwritten before it is used.)                   *)
Ask(p, request) ==
  /\ asked < MaxAsk
  /\ asked' = asked + 1
  /\ flags' = [flags EXCEPT ![p] = @ \cup {request}]
  /\ UNCHANGED <<slot, rangeMac, fromArp, todo, ring, echo, lost>>

(* single_set_ipaddr leaves the MAC address of the old destination.        *)
SetDst(p, ip) ==
  /\ slot[p][Single(p)].dstIp # ip
  /\ asked < MaxAsk
  /\ asked' = asked + 1
  /\ slot' = [slot EXCEPT ![p][Single(p)].dstIp = ip]
  /\ UNCHANGED <<flags, rangeMac, fromArp, todo, ring, echo, lost>>

(***************************************************************************)
(* pktgen_send_special, on the lcore of a transmit queue.                  *)
(***************************************************************************)
(* Mutant: one kind of request at a time, where all of them are cleared.   *)
Kinds_one(wanted) ==
  SelectSeq(<<"SEND_GRATUITOUS_ARP", "SEND_ARP_REQUEST", "SEND_PING4_REQUEST">>,
            LAMBDA r : wanted \cap Requests = {r})
Kinds(wanted) ==
  LET If(request) == IF request \in wanted THEN <<request>> ELSE <<>>
  IN If("SEND_GRATUITOUS_ARP") \o If("SEND_ARP_REQUEST") \o If("SEND_PING4_REQUEST")

(* Slot after slot, each kind of request for it.                           *)
SpecialsOf(p, wanted) ==
  LET kinds == Kinds(wanted)   n == Len(kinds)
  IN [k \in 1..(Single(p) * n) |-> <<kinds[((k - 1) % n) + 1], ((k - 1) \div n) + 1>>]

(* pktgen_main_transmit: the flags are read once.                          *)
BeginSpecial(p, q) ==
  /\ todo[p][q] = Idle
  /\ flags[p] \cap Requests # {}
  /\ todo' = [todo EXCEPT ![p][q] = SpecialsOf(p, flags[p])]
  /\ UNCHANGED <<flags, slot, rangeMac, fromArp, ring, echo, asked, lost>>

(* pktgen_send_arp.                                                        *)
ArpOf(p, request, x) ==
  Arp("request", p, x.srcIp,
      IF request = "SEND_GRATUITOUS_ARP" THEN p ELSE NoMac,
      IF request = "SEND_GRATUITOUS_ARP" THEN x.srcIp ELSE x.dstIp)

(* pktgen_send_ping4 copies the slot, its protocol and type included.      *)
PingOf(p, x) ==
  LET packet == Packet(x, flags[p], "echo")
  IN [field \in DOMAIN packet \cup {"smac", "dmac"} |->
        CASE field = "smac" -> p [] field = "dmac" -> x.dstMac
          [] OTHER -> packet[field]]

SendNext(p, q) ==
  /\ todo[p][q] \notin {Idle, <<>>}
  /\ LET request == Head(todo[p][q])[1]
         x == slot[p][Head(todo[p][q])[2]]
     IN SendFrom(p, ring, IF request = "SEND_PING4_REQUEST"
                            THEN PingOf(p, x) ELSE ArpOf(p, request, x))
  /\ todo' = [todo EXCEPT ![p][q] = Tail(@)]
  /\ UNCHANGED <<flags, slot, rangeMac, fromArp, echo, asked>>

(* All request bits are cleared, those set since they were read, too.      *)
EndSpecial(p, q) ==
  /\ todo[p][q] = <<>>
  /\ flags' = [flags EXCEPT ![p] = @ \ Requests]
  /\ todo' = [todo EXCEPT ![p][q] = Idle]
  /\ UNCHANGED <<slot, rangeMac, fromArp, ring, echo, asked, lost>>

(***************************************************************************)
(* pktgen_packet_classify, on the lcore of the receive queue.              *)
(***************************************************************************)
Rest(p) == [ring EXCEPT ![p] = Tail(@)]
Ignore(p) == ring' = Rest(p) /\ UNCHANGED <<slot, rangeMac, echo, lost>>

Learn(p, s, mac) == slot' = [slot EXCEPT ![p][s].dstMac = mac]

(* pktgen_process_arp.  A gratuitous ARP is never answered where GARP      *)
(* packets are processed.                                                  *)
Gratuitous(p, m) == "PROCESS_GARP_PKTS" \in flags[p] /\ m.tpa = m.spa

GarpIn(p, m) ==
  LET s == MatchingDst(p, m.spa) IN
  /\ m.op = "request" /\ Gratuitous(p, m)
  /\ IF s # 0 THEN Learn(p, s, m.sha) /\ UNCHANGED rangeMac
     ELSE /\ rangeMac' = IF RangeDst[p] = m.spa
                           THEN [rangeMac EXCEPT ![p] = m.sha] ELSE rangeMac
          /\ UNCHANGED slot
  /\ ring' = Rest(p)
  /\ UNCHANGED <<echo, lost>>

ArpRequestIn(p, m) ==
  LET s == MatchingSrc(p, m.tpa) IN
  /\ m.op = "request" /\ ~Gratuitous(p, m)
  /\ IF s = 0 THEN Ignore(p)
     ELSE /\ IF fromArp THEN Learn(p, s, m.sha) ELSE UNCHANGED slot
          /\ SendFrom(p, Rest(p), [Arp("reply", p, m.tpa, m.sha, m.spa)
                                     EXCEPT !.tag = m.tag])
          /\ UNCHANGED <<rangeMac, echo>>

(* The first slot with the address the reply is for, if the reply is from  *)
(* that slot's destination.                                                *)
(* Mutant: without the comparison with the destination.                    *)
ArpReplyIn_any(p, m) ==
  LET s == MatchingSrc(p, m.tpa) IN
  /\ m.op = "reply"
  /\ IF s # 0 THEN Learn(p, s, m.sha) ELSE UNCHANGED slot
  /\ ring' = Rest(p)
  /\ UNCHANGED <<rangeMac, echo, lost>>

ArpReplyIn(p, m) ==
  LET s == MatchingSrc(p, m.tpa) IN
  /\ m.op = "reply"
  /\ IF s # 0 /\ slot[p][s].dstIp = m.spa THEN Learn(p, s, m.sha)
     ELSE UNCHANGED slot
  /\ ring' = Rest(p)
  /\ UNCHANGED <<rangeMac, echo, lost>>

(* Mutant: the type is left at echo request.                               *)
EchoReply_echo(m) ==
  [m EXCEPT !.srcIp = m.dstIp, !.dstIp = m.srcIp,
            !.smac = m.dmac, !.dmac = m.smac]

(* The request goes back in its mbuf.                                      *)
EchoReply(m) ==
  [m EXCEPT !.upper = "echo_reply", !.srcIp = m.dstIp, !.dstIp = m.srcIp,
            !.smac = m.dmac, !.dmac = m.smac]

(* pktgen_process_ping4.  Behind a VLAN tag the checksum takes in four     *)
(* bytes that follow the packet: it may come out either way.               *)
PingIn(p, m) ==
  LET Answered == m.upper = "echo" /\ MatchingSrc(p, m.dstIp) # 0
  IN IF "ICMP_ECHO_ENABLE_FLAG" \notin flags[p] THEN Ignore(p)
     ELSE \/ m.tag = "vlan" /\ Ignore(p)
          \/ /\ Answered
             /\ echo' = [echo EXCEPT ![p] = TRUE]
             /\ SendFrom(p, Rest(p), EchoReply(m))
             /\ UNCHANGED <<slot, rangeMac>>
          \/ /\ ~Answered
             /\ echo' = [echo EXCEPT ![p] = @ \/ m.upper = "echo_reply"]
             /\ ring' = Rest(p)
             /\ UNCHANGED <<slot, rangeMac, lost>>

(* A VLAN tag is looked behind (pktgen_process_vlan), another tag is not.  *)
Receive(p) ==
  /\ ring[p] # <<>>
  /\ LET m == Head(ring[p]) IN
     IF \/ "PROCESS_INPUT_PKTS" \notin flags[p]
        \/ m.type = "ipv6" \/ m.tag \in {"mpls", "qinq"}
       THEN Ignore(p)
     ELSE \/ m.type = "arp" /\ (GarpIn(p, m) \/ ArpRequestIn(p, m) \/ ArpReplyIn(p, m))
          \/ m.type = "ipv4" /\ PingIn(p, m)
  /\ UNCHANGED <<flags, fromArp, todo, asked>>

(***************************************************************************)
(* The segment, which may lose a packet on its way to a port.              *)
(***************************************************************************)
Lose(p) ==
  /\ ring[p] # <<>> /\ lost < MaxLoss
  /\ lost' = lost + 1
  /\ ring' = [ring EXCEPT ![p] = Front(@)]
  /\ UNCHANGED <<flags, slot, rangeMac, fromArp, todo, echo, asked>>

Init ==
  /\ \E mode \in Modes : flags = mode.flags /\ fromArp = mode.fromArp
  /\ slot = Slots
  /\ rangeMac = [p \in Ports |-> NoMac]
  /\ todo = [p \in Ports |-> [q \in Txq |-> Idle]]
  /\ ring = [p \in Ports |-> <<>>]
  /\ echo = [p \in Ports |-> FALSE]
  /\ asked = 0 /\ lost = 0

User == \E p \in Askers :
  \/ \E request \in Requests : Ask(p, request)
  \/ \E ip \in NewDst : SetDst(p, ip)
Special(p, q) == BeginSpecial(p, q) \/ SendNext(p, q) \/ EndSpecial(p, q)

Next ==
  \/ User
  \/ \E p \in Ports, q \in Txq : Special(p, q)
  \/ \E p \in Ports : Receive(p) \/ Lose(p)

(* The lcores' loops; the user owes nothing.                               *)
Fairness == \A p \in Ports :
  WF_vars(Receive(p)) /\ \A q \in Txq : WF_vars(Special(p, q))

Spec == Init /\ [][Next]_vars /\ Fairness

(***************************************************************************)
(* Properties                                                              *)
(***************************************************************************)
(* A port replaces the MAC address of a destination only by that of a port *)
(* which owns the address, though the user may have changed it while the   *)
(* answer was on its way (the comparison in pktgen_process_arp); or, with  *)
(* mac_from_arp, by that of the port which asks for the slot's address.    *)
LearnsFromOwner ==
  [][\A p \in Ports :
       /\ \A s \in 1..Single(p) :
            LET x == slot[p][s]   mac == slot'[p][s].dstMac IN
            mac # x.dstMac =>
              \/ mac \in Owners(x.dstIp)
              \/ /\ fromArp
                 /\ Head(ring[p]).type = "arp" /\ Head(ring[p]).op = "request"
                 /\ Head(ring[p]).tpa = x.srcIp /\ Head(ring[p]).sha = mac
       /\ rangeMac'[p] # rangeMac[p] => rangeMac'[p] \in Owners(RangeDst[p])]_vars

(* The request is set and will be read: no lcore is about to clear it.     *)
WillSend(p, request) ==
  /\ request \in flags[p]
  /\ \A q \in Txq : todo[p][q] = Idle

Processing(p) == "PROCESS_INPUT_PKTS" \in flags[p]

(* An ARP request that is set while the lcores of its port are not sending *)
(* requests resolves the destination of every slot that is the first with  *)
(* its source address, if a port that answers owns the destination,        *)
(* nothing is lost and the user asks for no other destination.             *)
Resolves ==
  \A p \in Askers : \A s \in 1..Single(p) : \A ip \in NewDst :
    (/\ WillSend(p, "SEND_ARP_REQUEST") /\ Processing(p)
     /\ slot[p][s].dstIp = ip /\ slot[p][s].srcIp # ip
     /\ MatchingSrc(p, slot[p][s].srcIp) = s
     /\ \E q \in Owners(ip) \ {p} : Processing(q))
    ~> (\/ slot[p][s].dstMac \in Owners(ip)
        \/ slot[p][s].dstIp # ip \/ lost > 0)

(* A ping of a port whose single packet is an untagged ICMP packet comes   *)
(* back under the same conditions.                                         *)
Echoing(p) == Processing(p) /\ "ICMP_ECHO_ENABLE_FLAG" \in flags[p]

EchoComesBack ==
  \A p \in Askers : \A ip \in NewDst :
    LET x == slot[p][Single(p)] IN
    (/\ WillSend(p, "SEND_PING4_REQUEST") /\ Echoing(p)
     /\ x.ethType = "ipv4" /\ x.proto = "icmp" /\ Tag(flags[p]) = "none"
     /\ x.dstIp = ip
     /\ \E q \in Owners(ip) \ {p} : Echoing(q))
    ~> (echo[p] \/ slot[p][Single(p)].dstIp # ip \/ lost > 0)

(* Answers are never answered in their turn: whatever the user has asked   *)
(* for, the segment falls silent.                                          *)
Silent == \A p \in Ports : ring[p] = <<>> /\ \A q \in Txq : todo[p][q] = Idle
FallsSilent == []<>Silent
=============================================================================

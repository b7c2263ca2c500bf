--------------------------- MODULE ExchangeProofs ---------------------------
(***************************************************************************)
(* What two nodes tell each other: proofs that a port learns addresses     *)
(* from their owners only (Neighbours), for any ports, slots, settings and *)
(* commands, and however many frames are lost, and that the counts a       *)
(* generator is told by its responder are current and the losses it        *)
(* reports err in a known direction (StatsExchange), for any numbers of    *)
(* packets and losses and any size of the sockets.                         *)
(***************************************************************************)
EXTENDS Neighbours, StatsExchange, SequenceTheorems, WellFoundedInduction, TLAPS

(***************************************************************************)
(* Sequences whose elements have no common type.                           *)
(***************************************************************************)
Row(r) == r \in Seq({r[n] : n \in 1..Len(r)})

LEMMA RowIn ==
  ASSUME NEW S, NEW r \in Seq(S)
  PROVE  Row(r)
<1>1. Len(r) \in Nat /\ DOMAIN r = 1..Len(r)
  OBVIOUS
<1> DEFINE T == {r[n] : n \in 1..Len(r)}
<1>2. r \in [1..Len(r) -> T]
  OBVIOUS
<1>3. r \in Seq(T)
  BY <1>1, <1>2
<1> QED  BY <1>3 DEF Row

LEMMA RowAppend ==
  ASSUME NEW r, Row(r), NEW m
  PROVE  /\ Row(Append(r, m)) /\ Len(Append(r, m)) = Len(r) + 1
         /\ \A n \in 1..Len(Append(r, m)) :
              Append(r, m)[n] = m \/ (n \in 1..Len(r) /\ Append(r, m)[n] = r[n])
<1> DEFINE S == {r[n] : n \in 1..Len(r)} \cup {m}
<1>1. r \in Seq(S) /\ m \in S
  BY DEF Row
<1>2. Append(r, m) \in Seq(S) /\ Len(r) \in Nat
  BY <1>1
<1>3. Row(Append(r, m))
  BY <1>2, RowIn
<1>4. Len(Append(r, m)) = Len(r) + 1
  BY <1>1
<1>5. \A n \in 1..(Len(r) + 1) :
        Append(r, m)[n] = IF n <= Len(r) THEN r[n] ELSE m
  BY <1>1
<1> QED  BY <1>2, <1>3, <1>4, <1>5

LEMMA RowTail ==
  ASSUME NEW r, Row(r), r # <<>>
  PROVE  /\ Row(Tail(r)) /\ Len(Tail(r)) = Len(r) - 1 /\ 1 \in 1..Len(r)
         /\ Head(r) = r[1]
         /\ \A n \in 1..Len(Tail(r)) : n + 1 \in 1..Len(r) /\ Tail(r)[n] = r[n + 1]
<1> DEFINE S == {r[n] : n \in 1..Len(r)}
<1>1. r \in Seq(S) /\ Len(r) \in Nat \ {0}
  BY DEF Row
<1>2. Tail(r) \in Seq(S) /\ Len(Tail(r)) = Len(r) - 1 /\ Head(r) = r[1]
  BY <1>1
<1>3. Row(Tail(r))
  BY <1>2, RowIn
<1>4. \A n \in 1..(Len(r) - 1) : Tail(r)[n] = r[n + 1]
  BY <1>1
<1> QED  BY <1>1, <1>2, <1>3, <1>4

LEMMA RowFront ==
  ASSUME NEW r, Row(r), r # <<>>
  PROVE  /\ Row(Front(r))
         /\ \A n \in 1..Len(Front(r)) : n \in 1..Len(r) /\ Front(r)[n] = r[n]
<1> DEFINE S == {r[n] : n \in 1..Len(r)}
<1>1. r \in Seq(S) /\ Len(r) \in Nat \ {0}
  BY DEF Row
<1> DEFINE f == SubSeq(r, 1, Len(r) - 1)
<1>2. /\ f \in Seq(S)
      /\ Len(f) = IF 1 <= Len(r) - 1 THEN (Len(r) - 1) - 1 + 1 ELSE 0
      /\ \A n \in 1..((Len(r) - 1) - 1 + 1) : f[n] = r[1 + n - 1]
  <2>1. 1 \in Int /\ Len(r) - 1 \in Int
    BY <1>1
  <2>2. \A n \in 1..(Len(r) - 1) : r[n] \in S
    BY <1>1
  <2> HIDE DEF S
  <2> QED  BY <2>1, <2>2, SubSeqProperties
<1>3. Front(r) = f
  BY DEF Front
<1> HIDE DEF S, f
<1>4. Len(f) = Len(r) - 1 /\ \A n \in 1..(Len(r) - 1) : f[n] = r[n]
  <2>1. \A len, end \in Int :
          end >= 0 /\ len = (IF 1 <= end THEN end - 1 + 1 ELSE 0) => len = end
    OBVIOUS
  <2>3. Len(f) \in Int /\ Len(r) - 1 \in Int /\ Len(r) - 1 >= 0
    BY <1>1, <1>2
  <2>4. Len(f) = Len(r) - 1
    BY <1>2, <2>1, <2>3
  <2>2. ASSUME NEW n \in 1..(Len(r) - 1)
        PROVE  f[n] = r[n]
    <3>1. n \in 1..((Len(r) - 1) - 1 + 1) /\ 1 + n - 1 = n
      BY <1>1
    <3> QED  BY <1>2, <3>1
  <2> QED  BY <2>2, <2>4
<1>5. Row(f)
  BY <1>2, RowIn
<1>6. \A n \in 1..Len(f) : n \in 1..Len(r) /\ f[n] = r[n]
  BY <1>1, <1>4
<1> QED  BY <1>3, <1>5, <1>6
-----------------------------------------------------------------------------
(* What a port finds is a slot with the address it looks for.              *)
LEMMA Least ==
  ASSUME NEW S \in SUBSET Nat, S # {}
  PROVE  \E s \in S : \A t \in S : s <= t
<1> DEFINE Less == {pair \in Nat \X Nat : pair[1] < pair[2]}
<1>1. IsWellFoundedOn(Less, Nat)
  BY NatLessThanWellFounded DEF OpToRel
<1>2. \E s \in S : \A t \in S : <<t, s>> \notin Less
  <2> HIDE DEF Less
  <2> QED  BY <1>1, WFMin
<1>3. \A s, t \in S : <<t, s>> \notin Less => s <= t
  OBVIOUS
<1> QED  BY <1>2, <1>3

SlotInv ==
  /\ DOMAIN slot = Ports
  /\ \A p \in Ports :
       /\ Single(p) \in Nat \ {0} /\ DOMAIN slot[p] = 1..Single(p)
       /\ \A s \in 1..Single(p) :
            /\ {"srcIp", "dstIp", "dstMac", "ethType"} \subseteq DOMAIN slot[p][s]
            /\ slot[p][s].ethType \in {"ipv4", "ipv6"}
            /\ slot[p][s].srcIp = Slots[p][s].srcIp

LEMMA Found ==
  ASSUME SlotInv, NEW p \in Ports, NEW ip
  PROVE  /\ LET s == MatchingSrc(p, ip) IN
            s # 0 => s \in 1..Single(p) /\ slot[p][s].srcIp = ip
         /\ LET s == MatchingDst(p, ip) IN
            s # 0 => s \in 1..Single(p) /\ slot[p][s].dstIp = ip
<1> DEFINE src == {s \in 1..Single(p) : slot[p][s].srcIp = ip}
           dst == {s \in 1..Single(p) : slot[p][s].dstIp = ip}
<1>1. src \in SUBSET Nat /\ dst \in SUBSET Nat
  BY DEF SlotInv
<1>2. src # {} => \E s \in src : \A t \in src : s <= t
  BY <1>1, Least
<1>3. dst # {} => \E s \in dst : \A t \in dst : s <= t
  BY <1>1, Least
<1>4. MatchingSrc(p, ip) = IF src = {} THEN 0
                           ELSE CHOOSE s \in src : \A t \in src : s <= t
  BY DEF MatchingSrc, FirstSlot
<1>5. MatchingDst(p, ip) = IF dst = {} THEN 0
                           ELSE CHOOSE s \in dst : \A t \in dst : s <= t
  BY DEF MatchingDst, FirstSlot
<1>6. MatchingSrc(p, ip) # 0 => MatchingSrc(p, ip) \in src
  BY <1>2, <1>4
<1>7. MatchingDst(p, ip) # 0 => MatchingDst(p, ip) \in dst
  BY <1>3, <1>5
<1> QED  BY <1>6, <1>7

(* Learning changes one MAC address, and no owner.                         *)
LEMMA Learned ==
  ASSUME SlotInv, NEW p \in Ports, NEW s \in 1..Single(p), NEW mac,
         Learn(p, s, mac)
  PROVE  /\ SlotInv'
         /\ \A ip : Owners(ip)' = Owners(ip)
         /\ slot'[p][s].dstMac = mac
         /\ \A q \in Ports : \A t \in 1..Single(q) :
              slot'[q][t] = slot[q][t] \/ (q = p /\ t = s)
<1>1. /\ DOMAIN slot' = Ports
      /\ \A q \in Ports : DOMAIN slot'[q] = 1..Single(q)
      /\ \A q \in Ports : \A t \in 1..Single(q) :
           slot'[q][t] = IF q = p /\ t = s THEN [slot[p][s] EXCEPT !.dstMac = mac]
                         ELSE slot[q][t]
  BY DEF SlotInv, Learn
<1>2. /\ DOMAIN slot'[p][s] = DOMAIN slot[p][s]
      /\ slot'[p][s].dstMac = mac
      /\ slot'[p][s].srcIp = slot[p][s].srcIp
      /\ slot'[p][s].ethType = slot[p][s].ethType
  BY <1>1 DEF SlotInv
<1>3. \A q \in Ports : \A t \in 1..Single(q) : slot'[q][t].srcIp = slot[q][t].srcIp
  BY <1>1, <1>2
<1>4. SlotInv'
  BY <1>1, <1>2 DEF SlotInv, Single
<1>5. \A ip : Owners(ip)' = Owners(ip)
  BY <1>3 DEF Owners, Single
<1> QED  BY <1>1, <1>2, <1>4, <1>5
-----------------------------------------------------------------------------
(* Whoever names himself in an ARP packet owns the address he gives.       *)
Truthful(m) ==
  "type" \in DOMAIN m /\ (m.type = "arp" => m.sha \in Owners(m.spa))

RingOk(rings) ==
  /\ DOMAIN rings = Ports
  /\ \A p \in Ports : Row(rings[p]) /\ \A n \in 1..Len(rings[p]) : Truthful(rings[p][n])
RingInv == RingOk(ring)

TodoInv ==
  /\ DOMAIN todo = Ports
  /\ \A p \in Ports :
       /\ DOMAIN todo[p] = Txq
       /\ \A q \in Txq : \/ todo[p][q] = Idle
                         \/ todo[p][q] \in Seq(Requests \X (1..Single(p)))

IInv == SlotInv /\ RingInv /\ TodoInv /\ DOMAIN rangeMac = Ports

(* A truthful packet on the segment leaves every ring so.                  *)
LEMMA Sent ==
  ASSUME NEW rings, RingOk(rings), NEW p, NEW m, Truthful(m), SendFrom(p, rings, m)
  PROVE  RingOk(ring')
<1>1. /\ DOMAIN ring' = Ports
      /\ \A q \in Ports : ring'[q] = rings[q] \/ ring'[q] = Append(rings[q], m)
  BY DEF SendFrom
<1>2. ASSUME NEW q \in Ports
      PROVE  Row(ring'[q]) /\ \A n \in 1..Len(ring'[q]) : Truthful(ring'[q][n])
  <2>1. Row(rings[q]) /\ \A n \in 1..Len(rings[q]) : Truthful(rings[q][n])
    BY DEF RingOk
  <2>2. CASE ring'[q] = rings[q]
    BY <2>1, <2>2
  <2>3. CASE ring'[q] = Append(rings[q], m)
    BY <2>1, <2>3, RowAppend
  <2> QED  BY <1>1, <2>2, <2>3
<1> QED  BY <1>1, <1>2 DEF RingOk

LEMMA Taken ==
  ASSUME RingInv, NEW p \in Ports, ring[p] # <<>>
  PROVE  Truthful(Head(ring[p])) /\ RingOk(Rest(p))
<1>1. Row(ring[p]) /\ \A n \in 1..Len(ring[p]) : Truthful(ring[p][n])
  BY DEF RingInv, RingOk
<1>2. Truthful(Head(ring[p]))
  BY <1>1, RowTail
<1>3. Row(Tail(ring[p])) /\ \A n \in 1..Len(Tail(ring[p])) : Truthful(Tail(ring[p])[n])
  BY <1>1, RowTail
<1> QED  BY <1>2, <1>3 DEF RingInv, RingOk, Rest

(* Rings are as truthful as before where the owners are the same.          *)
LEMMA SameOwners ==
  ASSUME RingOk(ring'), \A ip : Owners(ip)' = Owners(ip)
  PROVE  RingInv'
  BY DEF RingInv, RingOk, Truthful

LEMMA SameSlots ==
  ASSUME SlotInv, UNCHANGED slot
  PROVE  SlotInv' /\ \A ip : Owners(ip)' = Owners(ip)
  BY DEF SlotInv, Owners, Single

LEMMA Wanted ==
  ASSUME NEW p \in Ports, NEW wanted, Single(p) \in Nat
  PROVE  SpecialsOf(p, wanted) \in Seq(Requests \X (1..Single(p)))
<1> DEFINE kinds == Kinds(wanted)
           n == Len(kinds)
           S == Single(p)
<1>1. kinds \in Seq(Requests) /\ n \in 0..3
  <2> DEFINE If(request) == IF request \in wanted THEN <<request>> ELSE <<>>
             g == If("SEND_GRATUITOUS_ARP")
             a == If("SEND_ARP_REQUEST")
             i == If("SEND_PING4_REQUEST")
  <2>1. ASSUME NEW T, NEW request \in T
        PROVE  If(request) \in Seq(T) /\ Len(If(request)) \in 0..1
    <3>1. CASE request \in wanted
      BY <3>1
    <3>2. CASE request \notin wanted
      BY <3>2
    <3> QED  BY <3>1, <3>2
  <2> HIDE DEF If
  <2>0. /\ g \in Seq(Requests) /\ Len(g) \in 0..1
        /\ a \in Seq(Requests) /\ Len(a) \in 0..1
        /\ i \in Seq(Requests) /\ Len(i) \in 0..1
    <3>1. /\ "SEND_GRATUITOUS_ARP" \in Requests /\ "SEND_ARP_REQUEST" \in Requests
          /\ "SEND_PING4_REQUEST" \in Requests
      BY DEF Requests
    <3> QED  BY <2>1, <3>1
  <2> USE DEF If
  <2>2. kinds = (g \o a) \o i
    BY DEF Kinds
  <2> HIDE DEF g, a, i, kinds
  <2>3. g \o a \in Seq(Requests) /\ Len(g \o a) = Len(g) + Len(a)
    BY <2>0, ConcatProperties
  <2>4. (g \o a) \o i \in Seq(Requests) /\ Len((g \o a) \o i) = Len(g \o a) + Len(i)
    BY <2>0, <2>3, ConcatProperties
  <2> QED  BY <2>0, <2>2, <2>3, <2>4, SMTT(20)
<1>2. ASSUME NEW k \in 1..(S * n)
      PROVE  ((k - 1) % n) + 1 \in 1..n /\ ((k - 1) \div n) + 1 \in 1..S
  <2> HIDE DEF n, S
  <2>1. n \in 1..3 /\ S \in Nat
    BY <1>1 DEF S
  <2>2. CASE n = 1  BY <2>1, <2>2
  <2>3. CASE n = 2  BY <2>1, <2>3
  <2>4. CASE n = 3  BY <2>1, <2>4
  <2> QED  BY <2>1, <2>2, <2>3, <2>4
<1>3. S * n \in Nat
  BY <1>1
<1>4. SpecialsOf(p, wanted) \in [1..(S * n) -> Requests \X (1..S)]
  <2> HIDE DEF kinds, n, S
  <2>1. \A k \in 1..n : kinds[k] \in Requests
    BY <1>1 DEF n
  <2>2. SpecialsOf(p, wanted) =
          [k \in 1..(S * n) |-> <<kinds[((k - 1) % n) + 1], ((k - 1) \div n) + 1>>]
    BY DEF SpecialsOf, kinds, n, S
  <2> QED  BY <1>2, <2>1, <2>2
<1>5. \A f, len, T : len \in Nat /\ f \in [1..len -> T] => f \in Seq(T)
  BY SeqDef
<1> QED
  <2> HIDE DEF n
  <2> QED  BY <1>3, <1>4, <1>5
-----------------------------------------------------------------------------
(* What LearnsFromOwner says of one step.                                  *)
Learns ==
  \A p \in Ports :
    /\ \A s \in 1..Single(p) :
         LET x == slot[p][s]   mac == slot'[p][s].dstMac IN
         mac # x.dstMac =>
           \/ mac \in Owners(x.dstIp)
           \/ /\ fromArp
              /\ Head(ring[p]).type = "arp" /\ Head(ring[p]).op = "request"
              /\ Head(ring[p]).tpa = x.srcIp /\ Head(ring[p]).sha = mac
    /\ rangeMac'[p] # rangeMac[p] => rangeMac'[p] \in Owners(RangeDst[p])

(* A step that learns nothing.                                             *)
LEMMA Quiet ==
  ASSUME IInv, UNCHANGED <<slot, rangeMac>>, RingOk(ring'), TodoInv'
  PROVE  IInv' /\ Learns
<1>1. SlotInv' /\ \A ip : Owners(ip)' = Owners(ip)
  BY SameSlots DEF IInv
<1>2. RingInv'
  BY <1>1, SameOwners
<1>3. Learns
  BY DEF Learns
<1> QED  BY <1>1, <1>2, <1>3 DEF IInv

LEMMA SameTodo ==
  ASSUME TodoInv, UNCHANGED todo
  PROVE  TodoInv'
  BY DEF TodoInv, Single

LEMMA AskStep ==
  ASSUME IInv, NEW p \in Ports, NEW request, Ask(p, request)
  PROVE  IInv' /\ Learns
  BY Quiet, SameTodo DEF IInv, RingInv, Ask

(* A new destination changes no owner.                                     *)
LEMMA SetDstStep ==
  ASSUME IInv, NEW p \in Ports, NEW ip, SetDst(p, ip)
  PROVE  IInv' /\ Learns
<1>1. Single(p) \in 1..Single(p)
  BY DEF IInv, SlotInv
<1>2. /\ DOMAIN slot' = Ports
      /\ \A q \in Ports : DOMAIN slot'[q] = 1..Single(q)
      /\ \A q \in Ports : \A t \in 1..Single(q) :
           slot'[q][t] = IF q = p /\ t = Single(p)
                         THEN [slot[p][Single(p)] EXCEPT !.dstIp = ip]
                         ELSE slot[q][t]
  BY <1>1 DEF IInv, SlotInv, SetDst
<1>3. \A q \in Ports : \A t \in 1..Single(q) :
        /\ DOMAIN slot'[q][t] = DOMAIN slot[q][t]
        /\ slot'[q][t].srcIp = slot[q][t].srcIp
        /\ slot'[q][t].dstMac = slot[q][t].dstMac
        /\ slot'[q][t].ethType = slot[q][t].ethType
  BY <1>1, <1>2 DEF IInv, SlotInv
<1>4. SlotInv'
  BY <1>2, <1>3 DEF IInv, SlotInv, Single
<1>5. \A a : Owners(a)' = Owners(a)
  BY <1>3 DEF Owners, Single
<1>6. RingInv'
  BY <1>5, SameOwners DEF IInv, RingInv, SetDst
<1>7. Learns
  BY <1>3 DEF Learns, SetDst
<1>8. TodoInv'
  BY SameTodo DEF IInv, SetDst
<1> QED  BY <1>4, <1>6, <1>7, <1>8 DEF IInv, SetDst

LEMMA BeginStep ==
  ASSUME IInv, NEW p \in Ports, NEW q \in Txq, BeginSpecial(p, q)
  PROVE  IInv' /\ Learns
<1>1. SpecialsOf(p, flags[p]) \in Seq(Requests \X (1..Single(p)))
  BY Wanted DEF IInv, SlotInv
<1>2. TodoInv'
  BY <1>1 DEF IInv, TodoInv, BeginSpecial, Single
<1> QED  BY <1>2, Quiet DEF IInv, RingInv, BeginSpecial

(* The packets pktgen_send_special sends are truthful.                     *)
LEMMA TruthfulArp ==
  ASSUME SlotInv, NEW p \in Ports, NEW s \in 1..Single(p), NEW request
  PROVE  Truthful(ArpOf(p, request, slot[p][s]))
<1>1. p \in Owners(slot[p][s].srcIp)
  BY DEF Owners
<1> QED  BY <1>1 DEF Truthful, ArpOf, Arp

LEMMA TruthfulPing ==
  ASSUME SlotInv, NEW p \in Ports, NEW s \in 1..Single(p)
  PROVE  Truthful(PingOf(p, slot[p][s]))
<1> DEFINE x == slot[p][s]
           packet == Packet(x, flags[p], "echo")
<1>1. x.ethType \in {"ipv4", "ipv6"}
  BY DEF SlotInv
<1>2. "type" \in DOMAIN packet /\ packet.type = x.ethType
  <2> HIDE DEF x
  <2>1. CASE x.ethType = "ipv4"
    BY <2>1 DEF Packet
  <2>2. CASE x.ethType = "ipv6" /\ x.proto \in {"tcp", "udp"}
    BY <2>2 DEF Packet
  <2>3. CASE x.ethType = "ipv6" /\ x.proto \notin {"tcp", "udp"}
    BY <2>3 DEF Packet
  <2> QED  BY <1>1, <2>1, <2>2, <2>3
<1>3. "type" \in DOMAIN PingOf(p, x) /\ PingOf(p, x).type = x.ethType
  <2>1. /\ DOMAIN PingOf(p, x) = DOMAIN packet \cup {"smac", "dmac"}
        /\ PingOf(p, x).type = packet.type
    <3>1. PingOf(p, x) =
            [field \in DOMAIN packet \cup {"smac", "dmac"} |->
               CASE field = "smac" -> p [] field = "dmac" -> x.dstMac
                 [] OTHER -> packet[field]]
      BY DEF PingOf
    <3> HIDE DEF packet, x
    <3> QED  BY <1>2, <3>1
  <2> HIDE DEF packet, x
  <2> QED  BY <1>2, <2>1
<1> QED  BY <1>1, <1>3 DEF Truthful

LEMMA SendStep ==
  ASSUME IInv, NEW p \in Ports, NEW q \in Txq, SendNext(p, q)
  PROVE  IInv' /\ Learns
<1> DEFINE list == todo[p][q]
           request == Head(list)[1]
           s == Head(list)[2]
           m == IF request = "SEND_PING4_REQUEST"
                  THEN PingOf(p, slot[p][s]) ELSE ArpOf(p, request, slot[p][s])
<1>1. list \in Seq(Requests \X (1..Single(p))) /\ list # <<>>
  BY DEF IInv, TodoInv, SendNext
<1>2. Head(list) \in Requests \X (1..Single(p))
      /\ Tail(list) \in Seq(Requests \X (1..Single(p)))
  BY <1>1, HeadTailProperties
<1>3. s \in 1..Single(p)
  BY <1>2
<1>4. SlotInv
  BY DEF IInv
<1>5. Truthful(m)
  BY <1>3, <1>4, TruthfulArp, TruthfulPing
<1>6. SendFrom(p, ring, m)
  BY DEF SendNext
<1>7. RingOk(ring')
  <2> HIDE DEF m
  <2> QED  BY <1>5, <1>6, Sent DEF IInv, RingInv
<1>8. TodoInv'
  <2>1. todo' = [todo EXCEPT ![p][q] = Tail(list)]
    BY DEF SendNext
  <2> HIDE DEF list
  <2> QED  BY <1>2, <2>1 DEF IInv, TodoInv, Single
<1> QED  BY <1>7, <1>8, Quiet DEF SendNext

LEMMA EndStep ==
  ASSUME IInv, NEW p \in Ports, NEW q \in Txq, EndSpecial(p, q)
  PROVE  IInv' /\ Learns
<1>1. TodoInv'
  BY DEF IInv, TodoInv, EndSpecial, Single
<1> QED  BY <1>1, Quiet DEF IInv, RingInv, EndSpecial

LEMMA LoseStep ==
  ASSUME IInv, NEW p \in Ports, Lose(p)
  PROVE  IInv' /\ Learns
<1>1. Row(ring[p]) /\ ring[p] # <<>> /\ \A n \in 1..Len(ring[p]) : Truthful(ring[p][n])
  BY DEF IInv, RingInv, RingOk, Lose
<1> DEFINE front == Front(ring[p])
<1>2. Row(front) /\ \A n \in 1..Len(front) : Truthful(front[n])
  BY <1>1, RowFront
<1>3. ring' = [ring EXCEPT ![p] = front]
  BY DEF Lose
<1>4. RingOk(ring')
  <2> HIDE DEF front
  <2> QED  BY <1>2, <1>3 DEF IInv, RingInv, RingOk
<1>5. TodoInv'
  BY SameTodo DEF IInv, Lose
<1> QED  BY <1>4, <1>5, Quiet DEF Lose
-----------------------------------------------------------------------------
(* pktgen_packet_classify.  A port that learns the address of one slot.    *)
LEMMA Learning ==
  ASSUME IInv, NEW p \in Ports, NEW s \in 1..Single(p), NEW mac,
         Learn(p, s, mac), RingOk(ring'), TodoInv', UNCHANGED rangeMac,
         \/ mac \in Owners(slot[p][s].dstIp)
         \/ /\ fromArp
            /\ Head(ring[p]).type = "arp" /\ Head(ring[p]).op = "request"
            /\ Head(ring[p]).tpa = slot[p][s].srcIp /\ Head(ring[p]).sha = mac
  PROVE  IInv' /\ Learns
<1>1. SlotInv
  BY DEF IInv
<1>2. /\ SlotInv'
      /\ \A ip : Owners(ip)' = Owners(ip)
      /\ slot'[p][s].dstMac = mac
      /\ \A q \in Ports : \A t \in 1..Single(q) :
           slot'[q][t] = slot[q][t] \/ (q = p /\ t = s)
  BY <1>1, Learned
<1>3. RingInv'
  BY <1>2, SameOwners
<1>4. Learns
  BY <1>2 DEF Learns
<1> QED  BY <1>2, <1>3, <1>4 DEF IInv

LEMMA GarpStep ==
  ASSUME IInv, NEW p \in Ports, ring[p] # <<>>, TodoInv',
         Head(ring[p]).type = "arp", GarpIn(p, Head(ring[p]))
  PROVE  IInv' /\ Learns
<1> DEFINE m == Head(ring[p])
           s == MatchingDst(p, m.spa)
<1>1. SlotInv /\ RingInv
  BY DEF IInv
<1>2. m.sha \in Owners(m.spa) /\ RingOk(ring')
  BY <1>1, Taken DEF Truthful, GarpIn
<1>3. CASE s # 0
  <2>1. s \in 1..Single(p) /\ slot[p][s].dstIp = m.spa
    BY <1>1, <1>3, Found
  <2>2. Learn(p, s, m.sha) /\ UNCHANGED rangeMac
    BY <1>3 DEF GarpIn
  <2> HIDE DEF s
  <2> QED  BY <1>2, <2>1, <2>2, Learning
<1>4. CASE s = 0
  <2>1. /\ rangeMac' = IF RangeDst[p] = m.spa
                         THEN [rangeMac EXCEPT ![p] = m.sha] ELSE rangeMac
        /\ UNCHANGED slot
    BY <1>4 DEF GarpIn
  <2>2. SlotInv' /\ \A ip : Owners(ip)' = Owners(ip)
    BY <1>1, <2>1, SameSlots
  <2>3. DOMAIN rangeMac' = Ports
    BY <2>1 DEF IInv
  <2>4. Learns
    BY <1>2, <2>1 DEF Learns, IInv
  <2>5. RingInv'
    BY <1>2, <2>2, SameOwners
  <2> QED  BY <2>2, <2>3, <2>4, <2>5 DEF IInv
<1> QED  BY <1>3, <1>4

LEMMA RequestStep ==
  ASSUME IInv, NEW p \in Ports, ring[p] # <<>>, TodoInv',
         Head(ring[p]).type = "arp", ArpRequestIn(p, Head(ring[p]))
  PROVE  IInv' /\ Learns
<1> DEFINE m == Head(ring[p])
           s == MatchingSrc(p, m.tpa)
           reply == [Arp("reply", p, m.tpa, m.sha, m.spa) EXCEPT !.tag = m.tag]
<1>1. SlotInv /\ RingInv
  BY DEF IInv
<1>2. RingOk(Rest(p))
  BY <1>1, Taken
<1>3. CASE s = 0
  BY <1>2, <1>3, Quiet DEF ArpRequestIn, Ignore
<1>4. CASE s # 0
  <2>1. s \in 1..Single(p) /\ slot[p][s].srcIp = m.tpa
    BY <1>1, <1>4, Found
  <2>2. /\ IF fromArp THEN Learn(p, s, m.sha) ELSE UNCHANGED slot
        /\ SendFrom(p, Rest(p), reply)
        /\ UNCHANGED rangeMac
        /\ m.op = "request"
    BY <1>4 DEF ArpRequestIn
  <2>3. p \in Owners(m.tpa)
    BY <2>1 DEF Owners
  <2>4. Truthful(reply)
    BY <2>3 DEF Truthful, Arp
  <2>5. RingOk(ring')
    <3> HIDE DEF reply
    <3> QED  BY <1>2, <2>2, <2>4, Sent
  <2>6. CASE fromArp
    <3> HIDE DEF s, reply
    <3> QED  BY <2>1, <2>2, <2>5, <2>6, Learning
  <2>7. CASE ~fromArp
    BY <2>2, <2>5, <2>7, Quiet
  <2> QED  BY <2>6, <2>7
<1> QED  BY <1>3, <1>4

LEMMA ReplyStep ==
  ASSUME IInv, NEW p \in Ports, ring[p] # <<>>, TodoInv',
         Head(ring[p]).type = "arp", ArpReplyIn(p, Head(ring[p]))
  PROVE  IInv' /\ Learns
<1> DEFINE m == Head(ring[p])
           s == MatchingSrc(p, m.tpa)
<1>1. SlotInv /\ RingInv
  BY DEF IInv
<1>2. m.sha \in Owners(m.spa) /\ RingOk(ring')
  BY <1>1, Taken DEF Truthful, ArpReplyIn
<1>3. CASE s # 0 /\ slot[p][s].dstIp = m.spa
  <2>1. s \in 1..Single(p)
    BY <1>1, <1>3, Found
  <2>2. Learn(p, s, m.sha) /\ UNCHANGED rangeMac
    BY <1>3 DEF ArpReplyIn
  <2> HIDE DEF s
  <2> QED  BY <1>2, <1>3, <2>1, <2>2, Learning
<1>4. CASE ~(s # 0 /\ slot[p][s].dstIp = m.spa)
  BY <1>2, <1>4, Quiet DEF ArpReplyIn
<1> QED  BY <1>3, <1>4

LEMMA PingStep ==
  ASSUME IInv, NEW p \in Ports, ring[p] # <<>>, TodoInv',
         Head(ring[p]).type = "ipv4", PingIn(p, Head(ring[p]))
  PROVE  IInv' /\ Learns
<1> DEFINE m == Head(ring[p])
<1>1. Truthful(m) /\ RingOk(Rest(p))
  BY Taken DEF IInv
<1>2. Truthful(EchoReply(m))
  BY <1>1 DEF Truthful, EchoReply
<1>3. UNCHANGED <<slot, rangeMac>>
      /\ (ring' = Rest(p) \/ SendFrom(p, Rest(p), EchoReply(m)))
  BY DEF PingIn, Ignore
<1>4. RingOk(ring')
  <2>1. CASE ring' = Rest(p)
    BY <1>1, <2>1
  <2>2. CASE SendFrom(p, Rest(p), EchoReply(m))
    BY <1>1, <1>2, <2>2, Sent
  <2> QED  BY <1>3, <2>1, <2>2
<1> QED  BY <1>3, <1>4, Quiet

LEMMA ReceiveStep ==
  ASSUME IInv, NEW p \in Ports, Receive(p)
  PROVE  IInv' /\ Learns
<1>1. ring[p] # <<>> /\ TodoInv'
  BY SameTodo DEF IInv, Receive
<1>2. CASE Ignore(p)
  <2>1. RingOk(ring')
    BY <1>1, <1>2, Taken DEF IInv, Ignore
  <2> QED  BY <1>1, <1>2, <2>1, Quiet DEF Ignore
<1>3. CASE Head(ring[p]).type = "arp" /\ GarpIn(p, Head(ring[p]))
  BY <1>1, <1>3, GarpStep
<1>4. CASE Head(ring[p]).type = "arp" /\ ArpRequestIn(p, Head(ring[p]))
  BY <1>1, <1>4, RequestStep
<1>5. CASE Head(ring[p]).type = "arp" /\ ArpReplyIn(p, Head(ring[p]))
  BY <1>1, <1>5, ReplyStep
<1>6. CASE Head(ring[p]).type = "ipv4" /\ PingIn(p, Head(ring[p]))
  BY <1>1, <1>6, PingStep
<1> QED  BY <1>2, <1>3, <1>4, <1>5, <1>6 DEF Receive
-----------------------------------------------------------------------------
LEMMA Initially ==
  ASSUME Init
  PROVE  IInv
<1>1. SlotInv
  BY NeighboursAssumption DEF Init, SlotInv, Single
<1>2. Row(<<>>) /\ Len(<<>>) = 0
  BY EmptySeq DEF Row
<1>3. RingInv
  BY <1>2 DEF Init, RingInv, RingOk
<1>4. TodoInv
  BY DEF Init, TodoInv
<1> QED  BY <1>1, <1>3, <1>4 DEF Init, IInv

LEMMA Steps ==
  ASSUME IInv, [Next]_vars
  PROVE  IInv' /\ [Learns]_vars
<1>1. ASSUME NEW p \in Askers, NEW request \in Requests, Ask(p, request)
      PROVE  IInv' /\ Learns
  BY <1>1, AskStep, NeighboursAssumption
<1>2. ASSUME NEW p \in Askers, NEW ip \in NewDst, SetDst(p, ip)
      PROVE  IInv' /\ Learns
  BY <1>2, SetDstStep, NeighboursAssumption
<1>3. ASSUME NEW p \in Ports, NEW q \in Txq, Special(p, q)
      PROVE  IInv' /\ Learns
  BY <1>3, BeginStep, SendStep, EndStep DEF Special
<1>4. ASSUME NEW p \in Ports, Receive(p) \/ Lose(p)
      PROVE  IInv' /\ Learns
  BY <1>4, ReceiveStep, LoseStep
<1>5. CASE UNCHANGED vars
  <2>1. RingOk(ring') /\ TodoInv'
    BY <1>5, SameTodo DEF IInv, RingInv, vars
  <2> QED  BY <1>5, <2>1, Quiet DEF vars
<1> QED  BY <1>1, <1>2, <1>3, <1>4, <1>5 DEF Next, User

(* A port takes an Ethernet address for a destination only from the port   *)
(* that owns it, or, with mac_from_arp, from the port that asks for the    *)
(* slot's own address (pktgen_process_arp): whatever addresses the slots   *)
(* have, however often the user asks or changes them, and whatever the     *)
(* rings and the segment lose.                                             *)
THEOREM LearnsTruly == Spec => LearnsFromOwner
<1>1. Init => IInv
  BY Initially
<1>2. IInv /\ [Next]_vars => IInv' /\ [Learns]_vars
  BY Steps
<1>3. Spec => [][Learns]_vars
  BY <1>1, <1>2, PTL DEF Spec
<1>4. Learns <=>
        \A p \in Ports :
          /\ \A s \in 1..Single(p) :
               LET x == slot[p][s]   mac == slot'[p][s].dstMac IN
               mac # x.dstMac =>
                 \/ mac \in Owners(x.dstIp)
                 \/ /\ fromArp
                    /\ Head(ring[p]).type = "arp" /\ Head(ring[p]).op = "request"
                    /\ Head(ring[p]).tpa = x.srcIp /\ Head(ring[p]).sha = mac
          /\ rangeMac'[p] # rangeMac[p] => rangeMac'[p] \in Owners(RangeDst[p])
  BY DEF Learns
<1> QED  BY <1>3, <1>4, PTL DEF LearnsFromOwner
-----------------------------------------------------------------------------
\* Pointwise order of two pairs of totals.
Le(a, b) == \A d \in Totals : a[d] <= b[d]

\* One node's step of the counters.
LEMMA CountOneLemma ==
  ASSUME TypeOK, NEW x \in Nodes, NEW d \in Totals, CountOne(x, d)
  PROVE  /\ cnt' \in [Nodes -> Counts]
         /\ \A y \in Nodes, e \in Totals :
              cnt'[y][e] = IF y = x /\ e = d THEN cnt[y][e] + 1 ELSE cnt[y][e]
<1> USE DEF TypeOK, Counts
<1>1. /\ cnt'[x] = [cnt[x] EXCEPT ![d] = @ + 1]
      /\ \A y \in Nodes : y # x => cnt'[y] = cnt[y]
  BY DEF CountOne
<1>2. cnt'[x] \in Counts /\ \A e \in Totals : cnt'[x][e] = IF e = d THEN cnt[x][e] + 1 ELSE cnt[x][e]
  BY <1>1
<1> QED
  BY <1>1, <1>2 DEF CountOne

\* The losses reported, when the counts have their types: differences of
\* naturals of which the first is the larger.
LEMMA ReportLemma ==
  ASSUME TypeOK, Report
  PROVE  /\ report' \in [ul : Nat, dl : Nat]
         /\ report'.ul + shown["rx"] >= cnt["gen"]["tx"]
         /\ report'.dl > 0 => report'.dl + cnt["gen"]["rx"] = shown["tx"]
<1>1. /\ cnt["gen"]["tx"] \in Nat /\ cnt["gen"]["rx"] \in Nat
      /\ shown["tx"] \in Nat /\ shown["rx"] \in Nat
  BY DEF TypeOK, Counts, Nodes, Totals
<1> DEFINE ul == Larger(cnt["gen"]["tx"], shown["rx"])
           dl == Larger(shown["tx"], cnt["gen"]["rx"])
<1>2. /\ ul \in Nat /\ ul >= shown["rx"] /\ ul >= cnt["gen"]["tx"]
      /\ dl \in Nat /\ dl >= cnt["gen"]["rx"]
      /\ dl = shown["tx"] \/ dl = cnt["gen"]["rx"]
  BY <1>1 DEF Larger
<1> HIDE DEF ul, dl
<1>3. report' = [ul |-> ul - shown["rx"], dl |-> dl - cnt["gen"]["rx"]]
  BY <1>1, <1>2 DEF Report, Minus, ul, dl
<1> QED
  BY <1>1, <1>2, <1>3

\* Initially everything has its type.
LEMMA TypeInit == StatsInit => TypeOK
  BY StatsAssumption DEF StatsInit, TypeOK, Zero, Counts

\* Every step keeps the types.
LEMMA TypeNext == TypeOK /\ [StatsNext]_statsVars => TypeOK'
<1> SUFFICES ASSUME TypeOK, [StatsNext]_statsVars PROVE TypeOK'
  OBVIOUS
<1> USE DEF TypeOK, traffic, responder, path, generator, statsVars
<1>1. ASSUME NEW x \in Nodes, Send(x) PROVE TypeOK'
  BY <1>1 DEF Send
<1>2. ASSUME NEW x \in Nodes, CountTx(x) PROVE TypeOK'
  BY <1>2, CountOneLemma DEF CountTx, Totals
<1>3. ASSUME NEW x \in Nodes, CountRx(x) PROVE TypeOK'
  BY <1>3, CountOneLemma DEF CountRx, Totals
<1>4. CASE TakeRequest
  BY <1>4 DEF TakeRequest, Goto, Nodes, Threads
<1>5. CASE ShowPage
  BY <1>5 DEF ShowPage, Goto, Threads
<1>6. ASSUME NEW t \in Threads, Clear(t) PROVE TypeOK'
  BY <1>6, SMTT(20) DEF Clear, Goto, Zero, Counts, Nodes, Totals
<1>7. ASSUME NEW t \in Threads, SumRx(t) PROVE TypeOK'
  BY <1>7, SMTT(20) DEF SumRx, Goto, Counts, Nodes, Totals
<1>8. ASSUME NEW t \in Threads, SumTx(t) PROVE TypeOK'
  <2>1. /\ mem' \in Counts /\ base' \in [Threads -> Nat]
        /\ spc' \in [Threads -> {"idle", "clear", "rx", "tx", "reply"}]
    BY <1>8, SMTT(20) DEF SumTx, Goto, Counts, Nodes, Totals
  <2> QED
    BY <1>8, <2>1 DEF SumTx
<1>9. CASE Reply
  <2>1. net' \in Seq(Counts) /\ whenAsked' \in Counts
    BY <1>9 DEF Reply, Zero, Counts
  <2>2. spc' \in [Threads -> {"idle", "clear", "rx", "tx", "reply"}]
    BY <1>9 DEF Reply, Goto
  <2> QED
    BY <1>9, <2>1, <2>2 DEF Reply
<1>10. CASE LoseRequest
  BY <1>10 DEF LoseRequest
<1>11. CASE LoseReply
  BY <1>11 DEF LoseReply
<1>12. CASE Deliver
  BY <1>12 DEF Deliver
<1>13. CASE Poll
  BY <1>13 DEF Poll
<1>14. CASE PollRecv
  BY <1>14 DEF PollRecv
<1>15. CASE PollTimeout
  BY <1>15 DEF PollTimeout
<1>16. CASE Quit
  BY <1>16 DEF Quit
<1>17. CASE Report
  <2>1. report' \in [ul : Nat, dl : Nat]
    BY <1>17, ReportLemma
  <2> QED
    BY <1>17, <2>1 DEF Report
<1>18. CASE UNCHANGED statsVars
  BY <1>18
<1> QED
  BY <1>1, <1>2, <1>3, <1>4, <1>5, <1>6, <1>7, <1>8, <1>9, <1>10, <1>11,
     <1>12, <1>13, <1>14, <1>15, <1>16, <1>17, <1>18
  DEF StatsNext, Traffic, Sock, Page, Path, Thread, Threads

\* The types of the counters, datagrams and threads hold throughout.
THEOREM TypeCorrect == StatsSpec => []TypeOK
  BY TypeInit, TypeNext, PTL DEF StatsSpec

-----------------------------------------------------------------------------
(* Sequences of answers.                                                   *)

LEMMA FirstAndRest ==
  ASSUME NEW S, NEW s \in Seq(S), s # << >>
  PROVE  /\ Len(s) \in Nat \ {0} /\ Head(s) = s[1] /\ Head(s) \in S
         /\ Tail(s) \in Seq(S) /\ Len(Tail(s)) = Len(s) - 1
         /\ \A i \in 1..Len(s) - 1 : Tail(s)[i] = s[i + 1]
  OBVIOUS

LEMMA OneMore ==
  ASSUME NEW S, NEW s \in Seq(S), NEW v \in S
  PROVE  /\ Append(s, v) \in Seq(S) /\ Len(Append(s, v)) = Len(s) + 1
         /\ \A i \in 1..Len(s) : Append(s, v)[i] = s[i]
         /\ Append(s, v)[Len(s) + 1] = v
  OBVIOUS

LEMMA LeTransitive ==
  ASSUME NEW a \in Counts, NEW b \in Counts, NEW c \in Counts,
         Le(a, b), Le(b, c)
  PROVE  Le(a, c)
  BY DEF Le, Counts

-----------------------------------------------------------------------------
(* What is known of the responder never exceeds what it has counted.       *)

\* A node counts no more packets than have been sent.
CountInv ==
  \A x \in Nodes : /\ cnt[x]["tx"] <= sent[x]
                   /\ cnt[x]["rx"] <= sent[Other(x)]

Known(v) == Le(v, cnt["resp"])

KnownInv ==
  /\ Known(mem) /\ Known(whenAsked) /\ Known(shown)
  /\ \A i \in 1..Len(net) : Known(net[i])
  /\ \A i \in 1..Len(inbox) : Known(inbox[i])

\* Counters only grow, and the generator's stand still when it has reported.
LEMMA Growing ==
  ASSUME TypeOK, TypeOK', [StatsNext]_statsVars
  PROVE  /\ \A x \in Nodes : sent[x] <= sent'[x] /\ Le(cnt[x], cnt'[x])
         /\ gpc = "done" => /\ sent'["gen"] = sent["gen"]
                            /\ cnt'["gen"] = cnt["gen"]
<1> DEFINE Still == gpc = "done" => /\ sent'["gen"] = sent["gen"]
                                    /\ cnt'["gen"] = cnt["gen"]
<1>0. "rx" \in Totals /\ "tx" \in Totals
  BY DEF Totals
<1>1. /\ \A y \in Nodes, d \in Totals : cnt[y][d] \in Nat
      /\ \A y \in Nodes : sent[y] \in Nat
  BY DEF TypeOK, Counts
<1>2. ASSUME NEW x \in Nodes, Send(x)
      PROVE  /\ cnt' = cnt /\ \A y \in Nodes : sent[y] <= sent'[y]
             /\ Still
  BY <1>1, <1>2, SMTT(20) DEF Send, Counting, Nodes, TypeOK
<1>3. ASSUME NEW x \in Nodes, CountTx(x) \/ CountRx(x)
      PROVE  /\ sent' = sent /\ \A y \in Nodes : Le(cnt[y], cnt'[y])
             /\ Still
  <2>1. PICK d \in Totals : Counting(x) /\ CountOne(x, d) /\ sent' = sent
    BY <1>0, <1>3 DEF CountTx, CountRx
  <2>2. \A y \in Nodes, e \in Totals :
          cnt'[y][e] = IF y = x /\ e = d THEN cnt[y][e] + 1 ELSE cnt[y][e]
    BY <2>1, CountOneLemma
  <2>3. \A y \in Nodes : Le(cnt[y], cnt'[y])
    BY <1>1, <2>2 DEF Le
  <2>4. \A y \in Nodes \ {x} : cnt'[y] = cnt[y]
    BY <2>1 DEF CountOne, TypeOK
  <2> QED
    BY <2>1, <2>3, <2>4 DEF Counting, Nodes
<1>4. Traffic \/ UNCHANGED traffic
  BY DEF StatsNext, Sock, Page, Path, Thread, TakeRequest, ShowPage, Clear,
     SumRx, SumTx, Reply, LoseRequest, LoseReply, Deliver, Poll, PollRecv,
     PollTimeout, Quit, Report, statsVars, traffic
<1>5. CASE UNCHANGED traffic
  BY <1>1, <1>5 DEF traffic, Le
<1> HIDE DEF Still
<1>6. \A y \in Nodes : Le(cnt[y], cnt[y]) /\ sent[y] <= sent[y]
  BY <1>1 DEF Le
<1> QED
  BY <1>2, <1>3, <1>4, <1>5, <1>6 DEF Traffic, Still

LEMMA CountNext ==
  ASSUME TypeOK, TypeOK', CountInv, [StatsNext]_statsVars PROVE CountInv'
<1>1. /\ \A y \in Nodes, d \in Totals : cnt[y][d] \in Nat
      /\ \A y \in Nodes : sent[y] \in Nat /\ Other(y) \in Nodes
      /\ "rx" \in Totals /\ "tx" \in Totals
  BY DEF TypeOK, Counts, Other, Nodes, Totals
<1>2. ASSUME NEW x \in Nodes, Send(x) PROVE CountInv'
  <2>1. cnt' = cnt /\ \A y \in Nodes : sent[y] <= sent'[y] /\ sent'[y] \in Nat
    BY <1>2 DEF Send, TypeOK
  <2> QED
    BY <1>1, <2>1 DEF CountInv
<1>3. ASSUME NEW x \in Nodes, CountTx(x) PROVE CountInv'
  <2>1. /\ sent' = sent /\ cnt[x]["tx"] < sent[x]
        /\ \A y \in Nodes, e \in Totals :
             cnt'[y][e] = IF y = x /\ e = "tx" THEN cnt[y][e] + 1 ELSE cnt[y][e]
    BY <1>1, <1>3, CountOneLemma DEF CountTx
  <2> QED
    BY <1>1, <2>1 DEF CountInv
<1>4. ASSUME NEW x \in Nodes, CountRx(x) PROVE CountInv'
  <2>1. /\ sent' = sent /\ cnt[x]["rx"] < sent[Other(x)]
        /\ \A y \in Nodes, e \in Totals :
             cnt'[y][e] = IF y = x /\ e = "rx" THEN cnt[y][e] + 1 ELSE cnt[y][e]
    BY <1>1, <1>4, CountOneLemma DEF CountRx
  <2> QED
    BY <1>1, <2>1 DEF CountInv
<1>5. CASE UNCHANGED traffic
  BY <1>5 DEF traffic, CountInv
<1> QED
  BY <1>2, <1>3, <1>4, <1>5 DEF StatsNext, Traffic, Sock, Page, Path, Thread,
     TakeRequest, ShowPage, Clear, SumRx, SumTx, Reply, LoseRequest,
     LoseReply, Deliver, Poll, PollRecv, PollTimeout, Quit, Report, statsVars


LEMMA KnownInit == StatsInit => CountInv /\ KnownInv
  BY DEF StatsInit, CountInv, KnownInv, Known, Le, Zero, Nodes, Totals, Other

LEMMA KnownNext ==
  ASSUME TypeOK, TypeOK', KnownInv, [StatsNext]_statsVars PROVE KnownInv'
<1>1. \A v \in Counts : Le(v, cnt["resp"]) => Le(v, cnt'["resp"])
  BY Growing, LeTransitive DEF TypeOK, Nodes
<1>2. /\ mem \in Counts /\ whenAsked \in Counts /\ shown \in Counts
      /\ net \in Seq(Counts) /\ inbox \in Seq(Counts)
      /\ cnt["resp"] \in Counts
      /\ \A i \in 1..Len(net) : net[i] \in Counts
      /\ \A i \in 1..Len(inbox) : inbox[i] \in Counts
  BY SMTT(20) DEF TypeOK, Nodes
<1>3. /\ Le(mem, cnt'["resp"]) /\ Le(whenAsked, cnt'["resp"])
      /\ Le(shown, cnt'["resp"])
      /\ \A i \in 1..Len(net) : Le(net[i], cnt'["resp"])
      /\ \A i \in 1..Len(inbox) : Le(inbox[i], cnt'["resp"])
  BY <1>1, <1>2 DEF KnownInv, Known
<1>4. Le(Zero, cnt'["resp"])
  BY DEF TypeOK, Counts, Nodes, Le, Zero
<1> USE DEF KnownInv, Known
<1>5. CASE UNCHANGED <<mem, whenAsked, net, inbox, shown>>
  BY <1>3, <1>5
<1>6. CASE TakeRequest
  <2>1. Le(whenAsked', cnt'["resp"])
    BY <1>2, <1>6 DEF TakeRequest, traffic, Le, Counts
  <2> QED
    BY <1>3, <1>6, <2>1 DEF TakeRequest, generator
<1>7. ASSUME NEW t \in Threads, Clear(t) PROVE KnownInv'
  BY <1>3, <1>4, <1>7 DEF Clear, path, generator
<1>8. ASSUME NEW t \in Threads, SumRx(t) \/ SumTx(t) PROVE KnownInv'
  <2>1. PICK d \in Totals, k \in Nat :
          mem' = [mem EXCEPT ![d] = k] /\ k <= cnt'["resp"][d]
    <3>1. cnt["resp"]["rx"] \in Nat /\ cnt["resp"]["tx"] \in Nat
      BY <1>2 DEF Counts, Totals
    <3>2. base[t] \in Nat
      BY DEF TypeOK
    <3>3. cnt' = cnt
      BY <1>8 DEF SumRx, SumTx, traffic
    <3> QED
      BY <1>8, <3>1, <3>2, <3>3 DEF SumRx, SumTx, Totals
  <2>2. Le(mem', cnt'["resp"])
    BY <1>2, <1>3, <2>1 DEF Le, Counts
  <2> QED
    BY <1>3, <1>8, <2>2 DEF SumRx, SumTx, path, generator
<1>9. CASE Reply
  <2>1. \A i \in 1..Len(net') : Le(net'[i], cnt'["resp"])
    <3>1. CASE net' = net
      BY <1>3, <3>1
    <3>2. CASE net' = Append(net, mem)
      BY <1>2, <1>3, <3>2, OneMore
    <3> QED
      BY <1>9, <3>1, <3>2 DEF Reply
  <2> QED
    BY <1>3, <1>4, <1>9, <2>1 DEF Reply, generator
<1>10. CASE LoseReply
  <2>1. \A i \in 1..Len(net') : Le(net'[i], cnt'["resp"])
    BY <1>2, <1>3, <1>10, FirstAndRest DEF LoseReply
  <2> QED
    BY <1>3, <1>10, <2>1 DEF LoseReply, responder, generator
<1>11. CASE Deliver
  <2>1. \A i \in 1..Len(net') : Le(net'[i], cnt'["resp"])
    BY <1>2, <1>3, <1>11, FirstAndRest DEF Deliver
  <2>2. \A i \in 1..Len(inbox') : Le(inbox'[i], cnt'["resp"])
    <3>1. Head(net) \in Counts /\ Le(Head(net), cnt'["resp"])
      BY <1>2, <1>3, <1>11, FirstAndRest DEF Deliver
    <3> QED
      BY <1>2, <1>3, <1>11, <3>1, OneMore DEF Deliver
  <2> QED
    BY <1>3, <1>11, <2>1, <2>2 DEF Deliver, responder, generator
<1>12. CASE PollRecv
  <2>1. \A i \in 1..Len(inbox') : Le(inbox'[i], cnt'["resp"])
    BY <1>2, <1>3, <1>12, FirstAndRest DEF PollRecv
  <2>2. Le(shown', cnt'["resp"])
    BY <1>2, <1>3, <1>12, FirstAndRest DEF PollRecv
  <2> QED
    BY <1>3, <1>12, <2>1, <2>2 DEF PollRecv, responder
<1> QED
  BY <1>5, <1>6, <1>7, <1>8, <1>9, <1>10, <1>11, <1>12 DEF StatsNext, Traffic,
     Send, CountTx, CountRx, Sock, Page, Path, Thread, ShowPage,
     LoseRequest, Poll, PollTimeout, Quit, Report, Threads, statsVars,
     responder, path, generator

\* Nothing the generator holds of the responder exceeds its counters.
THEOREM NothingInvented == StatsSpec => []KnownInv
<1>1. TypeOK /\ KnownInv /\ [StatsNext]_statsVars => KnownInv'
  BY TypeNext, KnownNext
<1> QED
  BY <1>1, KnownInit, TypeCorrect, PTL DEF StatsSpec

LEMMA LossNext ==
  ASSUME TypeOK, TypeOK', CountInv, CountInv', KnownInv, LossBounds,
         [StatsNext]_statsVars
  PROVE  LossBounds'
<1>1. /\ sent["resp"] <= sent'["resp"]
      /\ cnt["resp"]["rx"] <= cnt'["resp"]["rx"]
      /\ gpc = "done" => /\ sent'["gen"] = sent["gen"]
                         /\ cnt'["gen"] = cnt["gen"]
  BY Growing DEF Le, Nodes, Totals
<1>2. /\ \A x \in Nodes : sent[x] \in Nat /\ sent'[x] \in Nat
      /\ \A x \in Nodes, d \in Totals : cnt[x][d] \in Nat /\ cnt'[x][d] \in Nat
      /\ \A d \in Totals : shown[d] \in Nat
      /\ report.ul \in Nat /\ report.dl \in Nat
  BY DEF TypeOK, Counts
<1>3. "rx" \in Totals /\ "tx" \in Totals /\ "gen" \in Nodes /\ "resp" \in Nodes
  BY DEF Totals, Nodes
<1>4. CASE Report
  <2>1. /\ shown["rx"] <= cnt["resp"]["rx"] /\ shown["tx"] <= cnt["resp"]["tx"]
        /\ cnt["resp"]["tx"] <= sent["resp"]
    BY <1>3 DEF KnownInv, Known, Le, CountInv
  <2>2. UNCHANGED <<sent, cnt>> /\ cnt["gen"]["tx"] = sent["gen"]
    BY <1>4 DEF Report, traffic
  <2>3. /\ report'.ul + shown["rx"] >= cnt["gen"]["tx"]
        /\ report'.dl > 0 => report'.dl + cnt["gen"]["rx"] = shown["tx"]
        /\ report'.ul \in Nat /\ report'.dl \in Nat
    BY <1>4, ReportLemma
  <2> QED
    BY <1>2, <1>3, <2>1, <2>2, <2>3 DEF LossBounds
<1>5. CASE ~Report
  <2>1. report' = report /\ (gpc' = "done" => gpc = "done")
    BY <1>5 DEF StatsNext, Traffic, Send, CountTx, CountRx, Sock, Page, Path,
       Thread, TakeRequest, ShowPage, Clear, SumRx, SumTx, Reply, LoseRequest,
       LoseReply, Deliver, Poll, PollRecv, PollTimeout, Quit, statsVars, generator
  <2> QED
    BY <1>1, <1>2, <1>3, <2>1 DEF LossBounds
<1> QED
  BY <1>4, <1>5

\* Of what the generator sent no loss is left out of its report, and of what
\* the responder sent none is invented, whatever was lost or late between
\* them (get_tx_rx_counts).
THEOREM LossesBounded == StatsSpec => []LossBounds
<1>1. StatsInit => LossBounds
  BY DEF StatsInit, LossBounds
<1>2. TypeOK /\ CountInv /\ [StatsNext]_statsVars => CountInv'
  BY TypeNext, CountNext
<1>3. TypeOK /\ TypeOK' /\ CountInv /\ CountInv' /\ KnownInv /\ LossBounds
        /\ [StatsNext]_statsVars => LossBounds'
  BY LossNext
<1> QED
  BY <1>1, <1>2, <1>3, KnownInit, NothingInvented, TypeCorrect, PTL DEF StatsSpec

-----------------------------------------------------------------------------
(* The responder's threads kept apart (~Overlap).                          *)

\* What the answering thread has added up so far is no older than the
\* request, and the page's thread is not at it.
AnswerInv ==
  /\ At("page", "idle") \/ At("sock", "idle")
  /\ At("sock", "rx") => whenAsked["rx"] <= base["sock"]
  /\ At("sock", "tx") => /\ whenAsked["rx"] <= mem["rx"]
                         /\ whenAsked["tx"] <= base["sock"]
  /\ At("sock", "reply") => Le(whenAsked, mem)

Ordered(s) == \A i, j \in 1..Len(s) : i <= j => Le(s[i], s[j])

\* The answers under way are in the order they were read off the counters,
\* the one shown before them and the one being made behind them.
OrderInv ==
  /\ Ordered(net) /\ Ordered(inbox)
  /\ \A i \in 1..Len(inbox), j \in 1..Len(net) : Le(inbox[i], net[j])
  /\ \A i \in 1..Len(inbox) : Le(shown, inbox[i])
  /\ \A j \in 1..Len(net) : Le(shown, net[j])
  /\ ~At("sock", "idle") => /\ Le(shown, whenAsked)
                            /\ \A i \in 1..Len(inbox) : Le(inbox[i], whenAsked)
                            /\ \A j \in 1..Len(net) : Le(net[j], whenAsked)

LEMMA ApartInit == StatsInit => AnswerInv /\ OrderInv
  BY DEF StatsInit, AnswerInv, OrderInv, Ordered, At, Threads, Le, Zero

LEMMA AnswerNext ==
  ASSUME ~Overlap, TypeOK, TypeOK', KnownInv, AnswerInv, [StatsNext]_statsVars
  PROVE  AnswerInv'
<1>1. /\ spc \in [Threads -> {"idle", "clear", "rx", "tx", "reply"}]
      /\ "sock" \in Threads /\ "page" \in Threads
      /\ base \in [Threads -> Nat]
  BY DEF TypeOK, Threads
<1>2. /\ "rx" \in Totals /\ "tx" \in Totals
      /\ mem["rx"] \in Nat /\ mem["tx"] \in Nat
      /\ whenAsked["rx"] \in Nat /\ whenAsked["tx"] \in Nat
      /\ cnt["resp"]["rx"] \in Nat /\ cnt["resp"]["tx"] \in Nat
  BY DEF TypeOK, Counts, Totals, Nodes
<1>3. whenAsked["rx"] <= cnt["resp"]["rx"] /\ whenAsked["tx"] <= cnt["resp"]["tx"]
  BY <1>2 DEF KnownInv, Known, Le
<1> USE DEF AnswerInv, At, Goto
<1>4. CASE UNCHANGED <<mem, spc, base, whenAsked>>
  BY <1>4
<1>5. CASE TakeRequest
  BY <1>1, <1>5 DEF TakeRequest, Free, Threads
<1>6. CASE ShowPage
  BY <1>1, <1>6 DEF ShowPage, Free, Threads
<1>7. CASE Thread("page")
  <2>1. spc["sock"] = "idle" /\ spc'["sock"] = "idle"
    BY <1>1, <1>7 DEF Thread, Clear, SumRx, SumTx
  <2> QED
    BY <2>1
<1>8. CASE Thread("sock")
  <2>1. spc["page"] = "idle" /\ spc'["page"] = "idle"
    BY <1>1, <1>8 DEF Thread, Clear, SumRx, SumTx
  <2>2. CASE Clear("sock")
    BY <1>1, <1>2, <1>3, <2>1, <2>2 DEF Clear
  <2>3. CASE SumRx("sock")
    <3>1. PICK k \in base["sock"]..cnt["resp"]["rx"] :
            mem' = [mem EXCEPT !["rx"] = k]
      BY <2>3 DEF SumRx
    <3>2. mem'["rx"] = k /\ k >= whenAsked["rx"]
      BY <1>1, <1>2, <2>3, <3>1, SMTT(20) DEF SumRx, TypeOK, Counts
    <3> QED
      BY <1>1, <1>2, <1>3, <2>1, <2>3, <3>2 DEF SumRx
  <2>4. CASE SumTx("sock")
    <3>1. PICK k \in base["sock"]..cnt["resp"]["tx"] :
            mem' = [mem EXCEPT !["tx"] = k]
      BY <2>4 DEF SumTx
    <3>2. /\ mem'["tx"] = k /\ k >= whenAsked["tx"]
          /\ mem'["rx"] = mem["rx"] /\ mem["rx"] >= whenAsked["rx"]
      BY <1>1, <1>2, <2>4, <3>1, SMTT(20) DEF SumTx, TypeOK, Counts
    <3>3. Le(whenAsked, mem') /\ whenAsked' = whenAsked /\ spc'["sock"] = "reply"
      BY <1>1, <2>4, <3>2 DEF Le, Totals, SumTx
    <3> QED
      BY <2>1, <3>3
  <2> QED
    BY <1>8, <2>2, <2>3, <2>4 DEF Thread
<1>9. CASE Reply
  BY <1>1, <1>9 DEF Reply
<1> QED
  BY <1>4, <1>5, <1>6, <1>7, <1>8, <1>9 DEF StatsNext, Traffic, Send, CountTx,
     CountRx, Sock, Page, Path, LoseRequest, LoseReply, Deliver, Poll,
     PollRecv, PollTimeout, Quit, Report, statsVars, responder

\* An answer is no older than the request it was made for, when the
\* responder's display leaves sgi_stats_data alone meanwhile.
THEOREM AnswersAreCurrent == ASSUME ~Overlap PROVE StatsSpec => []AnswersCurrent
<1>1. TypeOK /\ KnownInv /\ AnswerInv /\ [StatsNext]_statsVars => AnswerInv'
  BY TypeNext, AnswerNext
<1>2. TypeOK /\ KnownInv /\ AnswerInv => AnswersCurrent
  BY DEF TypeOK, Counts, Nodes, KnownInv, Known, AnswerInv, AnswersCurrent, Le
<1> QED
  BY <1>1, <1>2, ApartInit, NothingInvented, TypeCorrect, PTL DEF StatsSpec

-----------------------------------------------------------------------------
(* What the generator shows.                                               *)

LEMMA RestOrdered ==
  ASSUME NEW s \in Seq(Counts), s # << >>, Ordered(s)
  PROVE  Ordered(Tail(s))
<1>1. /\ Len(Tail(s)) = Len(s) - 1 /\ Len(s) \in Nat
      /\ \A i \in 1..Len(s) - 1 : Tail(s)[i] = s[i + 1]
  BY FirstAndRest
<1>2. ASSUME NEW i \in 1..Len(Tail(s)), NEW j \in 1..Len(Tail(s)), i <= j
      PROVE  Le(Tail(s)[i], Tail(s)[j])
  <2>1. /\ i + 1 <= j + 1 /\ i + 1 \in 1..Len(s) /\ j + 1 \in 1..Len(s)
        /\ Tail(s)[i] = s[i + 1] /\ Tail(s)[j] = s[j + 1]
    BY <1>1, <1>2
  <2> QED
    BY <2>1 DEF Ordered
<1> QED
  BY <1>2 DEF Ordered

LEMMA OrderNext ==
  ASSUME TypeOK, TypeOK', KnownInv, AnswerInv, OrderInv, [StatsNext]_statsVars
  PROVE  OrderInv'
<1>1. /\ net \in Seq(Counts) /\ inbox \in Seq(Counts) /\ mem \in Counts
      /\ whenAsked \in Counts /\ shown \in Counts /\ cnt["resp"] \in Counts
      /\ spc \in [Threads -> {"idle", "clear", "rx", "tx", "reply"}]
      /\ "sock" \in Threads /\ Len(net) \in Nat /\ Len(inbox) \in Nat
      /\ \A i \in 1..Len(net) : net[i] \in Counts
      /\ \A i \in 1..Len(inbox) : inbox[i] \in Counts
  BY SMTT(20) DEF TypeOK, Nodes, Threads
<1> USE DEF OrderInv, Ordered, At
<1>2. CASE UNCHANGED <<net, inbox, shown, whenAsked>> /\
           (spc["sock"] = "idle" => spc'["sock"] = "idle")
  BY <1>2
<1>3. CASE TakeRequest
  <2>1. UNCHANGED <<net, inbox, shown>> /\ whenAsked' = cnt["resp"]
    BY <1>3 DEF TakeRequest, generator
  <2> QED
    BY <2>1 DEF KnownInv, Known
<1>4. CASE Reply
  <2>1. UNCHANGED <<inbox, shown>> /\ spc'["sock"] = "idle"
    BY <1>1, <1>4 DEF Reply, Goto, generator
  <2>2. CASE net' = net
    BY <2>1, <2>2
  <2>3. CASE net' = Append(net, mem)
    <3>1. Le(whenAsked, mem) /\ spc["sock"] = "reply" /\ Le(mem, mem)
      BY <1>1, <1>4 DEF Reply, AnswerInv, Le, Counts
    <3>2. /\ Le(shown, mem)
          /\ \A i \in 1..Len(inbox) : Le(inbox[i], mem)
          /\ \A j \in 1..Len(net) : Le(net[j], mem)
      BY <1>1, <3>1, LeTransitive
    <3>3. /\ Len(net') = Len(net) + 1 /\ net'[Len(net) + 1] = mem
          /\ \A i \in 1..Len(net) : net'[i] = net[i]
      BY <1>1, <2>3, OneMore
    <3>4. \A i \in 1..Len(net') : i \in 1..Len(net) \/ i = Len(net) + 1
      BY <1>1, <3>3
    <3>5. Ordered(net')
      BY <1>1, <3>1, <3>2, <3>3, <3>4
    <3> QED
      BY <2>1, <3>2, <3>3, <3>4, <3>5
  <2> QED
    BY <1>4, <2>2, <2>3 DEF Reply
<1>5. CASE LoseReply
  <2>1. UNCHANGED <<inbox, shown, whenAsked, spc>>
    BY <1>5 DEF LoseReply, responder, generator
  <2>2. /\ Len(net') = Len(net) - 1
        /\ \A i \in 1..Len(net') : net'[i] = net[i + 1] /\ i + 1 \in 1..Len(net)
    BY <1>1, <1>5, FirstAndRest DEF LoseReply
  <2>3. Ordered(net')
    BY <1>1, <1>5, RestOrdered DEF LoseReply
  <2>4. \A i \in 1..Len(inbox'), j \in 1..Len(net') : Le(inbox'[i], net'[j])
    BY <2>1, <2>2
  <2>5. \A j \in 1..Len(net') : Le(shown', net'[j])
    BY <2>1, <2>2
  <2>6. spc["sock"] # "idle" => \A j \in 1..Len(net') : Le(net'[j], whenAsked)
    BY <2>2
  <2> QED
    BY <2>1, <2>3, <2>4, <2>5, <2>6
<1>6. CASE Deliver
  <2>1. UNCHANGED <<shown, whenAsked, spc>>
    BY <1>6 DEF Deliver, responder, generator
  <2>2. /\ Len(net') = Len(net) - 1 /\ 1 \in 1..Len(net)
        /\ \A i \in 1..Len(net') : net'[i] = net[i + 1] /\ i + 1 \in 1..Len(net)
    BY <1>1, <1>6, FirstAndRest DEF Deliver
  <2>3. Head(net) = net[1] /\ Head(net) \in Counts
    BY <1>1, <1>6, FirstAndRest DEF Deliver
  <2>4. /\ Len(inbox') = Len(inbox) + 1 /\ inbox'[Len(inbox) + 1] = net[1]
        /\ \A i \in 1..Len(inbox) : inbox'[i] = inbox[i]
    BY <1>1, <1>6, <2>3, OneMore DEF Deliver
  <2>5. \A i \in 1..Len(inbox') : i \in 1..Len(inbox) \/ i = Len(inbox) + 1
    BY <1>1, <2>4
  <2>6. Le(net[1], net[1])
    BY <2>2
  <2>7. Ordered(inbox')
    BY <1>1, <2>2, <2>4, <2>5, <2>6
  <2>8. Ordered(net')
    BY <1>1, <1>6, RestOrdered DEF Deliver
  <2>9. \A i \in 1..Len(inbox'), j \in 1..Len(net') : Le(inbox'[i], net'[j])
    BY <1>1, <2>2, <2>4, <2>5, SMTT(20)
  <2> QED
    BY <1>1, <2>1, <2>2, <2>4, <2>5, <2>7, <2>8, <2>9
<1>7. CASE PollRecv
  <2>1. UNCHANGED <<net, whenAsked, spc>>
    BY <1>7 DEF PollRecv, responder
  <2>2. /\ Len(inbox') = Len(inbox) - 1 /\ 1 \in 1..Len(inbox)
        /\ \A i \in 1..Len(inbox') : /\ inbox'[i] = inbox[i + 1]
                                     /\ i + 1 \in 1..Len(inbox)
        /\ shown' = inbox[1]
    BY <1>1, <1>7, FirstAndRest DEF PollRecv
  <2>3. Ordered(inbox')
    BY <1>1, <1>7, RestOrdered DEF PollRecv
  <2>4. \A i \in 1..Len(inbox'), j \in 1..Len(net') : Le(inbox'[i], net'[j])
    BY <2>1, <2>2
  <2>5. /\ \A i \in 1..Len(inbox') : Le(shown', inbox'[i])
        /\ \A j \in 1..Len(net') : Le(shown', net'[j])
    <3>1. \A i \in 1..Len(inbox') : 1 <= i + 1
      OBVIOUS
    <3> QED
      BY <1>1, <2>1, <2>2, <3>1
  <2>6. spc["sock"] # "idle" =>
          Le(shown', whenAsked) /\ \A i \in 1..Len(inbox') : Le(inbox'[i], whenAsked)
    BY <2>2
  <2> QED
    BY <2>1, <2>3, <2>4, <2>5, <2>6
<1>8. CASE Thread("page") \/ Thread("sock") \/ ShowPage
  <2>1. UNCHANGED <<net, inbox, shown, whenAsked>>
    BY <1>8 DEF Thread, ShowPage, Clear, SumRx, SumTx, path, generator
  <2>2. spc["sock"] = "idle" => spc'["sock"] = "idle"
    BY <1>1, <1>8 DEF Thread, ShowPage, Clear, SumRx, SumTx, Goto, Threads
  <2> QED
    BY <1>2, <2>1, <2>2
<1> QED
  BY <1>2, <1>3, <1>4, <1>5, <1>6, <1>7, <1>8 DEF StatsNext, Traffic, Send,
     CountTx, CountRx, Sock, Page, Path, LoseRequest, Poll, PollTimeout, Quit,
     Report, statsVars, path, responder, generator

\* Every step of the exchange counts, shows a newer reading, or is invisible
\* in the reading.
LEMMA ReadingNext ==
  ASSUME TypeOK, TypeOK', KnownInv, OrderInv, [StatsNext]_statsVars
  PROVE  [Remote!Next]_(Remote!vars)
<1>1. CASE PollRecv
  <2>1. inbox # << >> /\ shown' = inbox[1] /\ cnt' = cnt /\ 1 \in 1..Len(inbox)
    BY <1>1, FirstAndRest DEF PollRecv, TypeOK, traffic
  <2>2. Le(shown, shown') /\ Le(shown', cnt["resp"])
    BY <2>1 DEF OrderInv, KnownInv, Known
  <2>3. \A d \in Totals : shown'[d] \in shown[d]..cnt["resp"][d]
    BY <2>2 DEF Le, TypeOK, Counts, Nodes
  <2> QED
    BY <2>1, <2>3 DEF Remote!Next, Remote!Show
<1>2. CASE ~PollRecv
  <2>1. shown' = shown
    BY <1>2 DEF StatsNext, Traffic, Send, CountTx, CountRx, Sock, Page, Path,
       Thread, TakeRequest, ShowPage, Clear, SumRx, SumTx, Reply, LoseRequest,
       LoseReply, Deliver, Poll, PollTimeout, Quit, Report, statsVars, generator
  <2>2. \A d \in Totals : cnt'["resp"][d] >= cnt["resp"][d]
    BY Growing DEF Le, Nodes, TypeOK, Counts
  <2> QED
    BY <2>1, <2>2 DEF Remote!Next, Remote!Count
<1> QED
  BY <1>1, <1>2

\* What the generator shows is a reading of growing counters, when the
\* responder's display leaves sgi_stats_data alone: with any number of late
\* and lost answers it never goes back and never runs ahead.
THEOREM ReadingImplemented == ASSUME ~Overlap PROVE StatsSpec => ImplementsReading
<1>1. StatsInit => Remote!Init
  BY DEF StatsInit, Remote!Init, Zero, Remote!Zero, Nodes
<1>2. TypeOK /\ KnownInv /\ AnswerInv /\ [StatsNext]_statsVars => AnswerInv'
  BY TypeNext, AnswerNext
<1>3. TypeOK /\ KnownInv /\ AnswerInv /\ OrderInv /\ [StatsNext]_statsVars => OrderInv'
  BY TypeNext, OrderNext
<1>4. TypeOK /\ TypeOK' /\ KnownInv /\ OrderInv /\ [StatsNext]_statsVars
        => [Remote!Next]_(Remote!vars)
  BY ReadingNext
<1> QED
  BY <1>1, <1>2, <1>3, <1>4, ApartInit, NothingInvented, TypeCorrect, PTL
  DEF StatsSpec, ImplementsReading, Remote!Spec
=============================================================================

--------------------------- MODULE SaveLoadProofs ---------------------------
(***************************************************************************)
(* Proofs about what a saved file and a saved script bring back, for any   *)
(* command lines and Lua calls, any number of them, and any constants of   *)
(* the port.                                                               *)
(*                                                                         *)
(* In this order: what a setter, a line and a call leave of the other      *)
(* fields (...Only, ...Whole); what the lines of a saved file bring back   *)
(* (...Read, up to FileRead and PaceRead) and that a loaded file has been  *)
(* read to the end (FileRestores, FilePaces); the same for the calls of a  *)
(* saved script, up to the first that fails (ScriptRestores).              *)
(***************************************************************************)
EXTENDS SettingsProofs

(* All fields of the settings, and all of a packet.                        *)
FieldNames ==
  {"flags", "macFromArp", "count", "rate", "pps", "cycles", "burst", "prime",
   "seqCnt", "rangeProto", "range", "jitter", "fill", "user", "rnd", "pkts"}
PktFields ==
  {"size", "ethType", "proto", "sport", "dport", "srcIp", "dstIp", "mask",
   "srcMac", "dstMac", "vlanid", "cos", "tos", "qinq", "mpls", "greKey", "teid"}

(* A value that is the function its domain and its values make it.         *)
IsFcn(f) == f = [x \in DOMAIN f |-> f[x]]
Packet(p) == DOMAIN p = PktFields /\ IsFcn(p)
Table(pkts) == DOMAIN pkts = Slots /\ IsFcn(pkts)

(* Of the settings t, u changes only the fields F, and perhaps the pace.   *)
Only(t, u, F) ==
  /\ DOMAIN u = FieldNames
  /\ \A g \in FieldNames : g \in F \cup {"pps", "cycles"} \/ u[g] = t[g]

(* Of the packet in slot k, u changes only the fields F, and nothing else  *)
(* of the settings.                                                        *)
OnSlot(t, u, k, F) ==
  /\ Only(t, u, {"pkts"}) /\ DOMAIN u.pkts = DOMAIN t.pkts
  /\ IsFcn(u.pkts) /\ IsFcn(u.pkts[k])
  /\ \A j \in DOMAIN t.pkts : j = k \/ u.pkts[j] = t.pkts[j]
  /\ DOMAIN u.pkts[k] = DOMAIN t.pkts[k]
  /\ \A y \in PktFields : y \in F \/ u.pkts[k][y] = t.pkts[k][y]

LEMMA PacedOnly ==
  ASSUME NEW s, DOMAIN s = FieldNames, NEW F
  PROVE  Only(s, Paced(s), F)
BY DEF Only, Paced, FieldNames

LEMMA OnlyTwice ==
  ASSUME NEW s, NEW t, NEW u, NEW F, NEW G, Only(s, t, F), Only(t, u, G)
  PROVE  Only(s, u, F \cup G)
BY DEF Only

LEMMA CountsOnly ==
  ASSUME NEW s, DOMAIN s = FieldNames, NEW v
  PROVE  /\ Only(s, SetTxCount(s, v), {"count"}) /\ SetTxCount(s, v).count = v
         /\ Only(s, SetTxBurst(s, v), {"burst"})
         /\ SetTxBurst(s, v).burst = Min({Max({v, 1}), MaxBurst})
         /\ Only(s, SetTxCycles(s, v), {})
         /\ Only(s, SetPrime(s, v), {"prime"})
         /\ SetPrime(s, v).prime = IF v = 0 THEN 1 ELSE Min({v, MaxPrime})
         /\ Only(s, SetPps(s, v), {"rate", "burst"})
         /\ SetPps(s, v).rate = v * WireSize(s)
<1>1. Only(s, SetTxCount(s, v), {"count"}) /\ SetTxCount(s, v).count = v
  BY DEF SetTxCount, Only, FieldNames
<1>2. Only(s, SetTxBurst(s, v), {"burst"})
      /\ SetTxBurst(s, v).burst = Min({Max({v, 1}), MaxBurst})
  BY DEF SetTxBurst, Only, FieldNames
<1>3. Only(s, SetTxCycles(s, v), {})
  BY DEF SetTxCycles, Only, FieldNames
<1>4. Only(s, SetPrime(s, v), {"prime"})
      /\ SetPrime(s, v).prime = IF v = 0 THEN 1 ELSE Min({v, MaxPrime})
  BY DEF SetPrime, Only, FieldNames
<1>5. Only(s, SetPps(s, v), {"rate", "burst"}) /\ SetPps(s, v).rate = v * WireSize(s)
  BY DEF SetPps, Only, FieldNames
<1> QED  BY <1>1, <1>2, <1>3, <1>4, <1>5

LEMMA RateOnly ==
  ASSUME NEW s, DOMAIN s = FieldNames, NEW v
  PROVE  /\ Only(s, SetTxRate(s, v), {"rate"})
         /\ SetTxRate(s, v).rate = IF v = 0 THEN LeastRate ELSE Min({v, Link})
<1> DEFINE r == IF v = 0 THEN LeastRate ELSE Min({v, Link})
           t == [s EXCEPT !.rate = r]
<1>1. Only(s, t, {"rate"}) /\ t.rate = r
  BY DEF Only, FieldNames
<1> HIDE DEF r, t
<1>2. Only(t, Paced(t), {})
  BY <1>1, PacedOnly DEF Only
<1>3. SetTxRate(s, v) = Paced(t)
  BY DEF SetTxRate, t, r
<1> QED  BY <1>1, <1>2, <1>3 DEF Only, FieldNames, r

LEMMA FillOnly ==
  ASSUME NEW s, DOMAIN s = FieldNames, NEW v
  PROVE  /\ Only(s, SetJitter(s, v), {"jitter"}) /\ SetJitter(s, v).jitter = v
         /\ Only(s, SetPattern(s, v), {"fill"}) /\ SetPattern(s, v).fill = v
         /\ Only(s, SetUserPattern(s, v), {"user", "fill"})
         /\ SetUserPattern(s, v).user = v /\ SetUserPattern(s, v).fill = "user"
         /\ Only(s, EnableMacFromArp(s, v), {"macFromArp"})
         /\ EnableMacFromArp(s, v).macFromArp = v
<1>1. Only(s, SetJitter(s, v), {"jitter"}) /\ SetJitter(s, v).jitter = v
  BY DEF SetJitter, Only, FieldNames
<1>2. Only(s, SetPattern(s, v), {"fill"}) /\ SetPattern(s, v).fill = v
  BY DEF SetPattern, Only, FieldNames
<1>3. /\ Only(s, SetUserPattern(s, v), {"user", "fill"})
      /\ SetUserPattern(s, v).user = v /\ SetUserPattern(s, v).fill = "user"
  BY DEF SetUserPattern, Only, FieldNames
<1>4. /\ Only(s, EnableMacFromArp(s, v), {"macFromArp"})
      /\ EnableMacFromArp(s, v).macFromArp = v
  BY DEF EnableMacFromArp, Only, FieldNames
<1> QED  BY <1>1, <1>2, <1>3, <1>4

(* Settings with all fields, and with all fields in each packet.           *)
Formed(s) ==
  /\ DOMAIN s = FieldNames /\ Table(s.pkts)
  /\ \A k \in Slots : Packet(s.pkts[k])

LEMMA OnlyFormed ==
  ASSUME NEW s, Formed(s), NEW t, NEW F, Only(s, t, F), "pkts" \notin F
  PROVE  Formed(t) /\ t.pkts = s.pkts
<1>1. t.pkts = s.pkts /\ DOMAIN t = FieldNames
  BY DEF Only, FieldNames
<1> QED  BY <1>1 DEF Formed

LEMMA SlotFormed ==
  ASSUME NEW s, Formed(s), NEW t, NEW k \in Slots, NEW F, OnSlot(s, t, k, F)
  PROVE  Formed(t)
BY DEF Formed, OnSlot, Only, Packet, Table

LEMMA PutOnly ==
  ASSUME NEW s, Formed(s), NEW k \in Slots, NEW p, Packet(p), NEW F,
         \A y \in PktFields : y \in F \/ p[y] = s.pkts[k][y]
  PROVE  OnSlot(s, Put(s, k, p), k, F) /\ Put(s, k, p).pkts[k] = p
<1> DEFINE t == Put(s, k, p)
<1>1. t.pkts = [s.pkts EXCEPT ![k] = p] /\ Only(s, t, {"pkts"})
  BY DEF Put, Only, Formed, FieldNames
<1> HIDE DEF t
<1>2. t.pkts[k] = p /\ Table(t.pkts)
      /\ \A j \in Slots : j = k \/ t.pkts[j] = s.pkts[j]
  BY <1>1 DEF Formed, Packet, Table, IsFcn
<1>3. OnSlot(s, t, k, F)
  BY <1>1, <1>2 DEF OnSlot, Formed, Packet, Table
<1> QED  BY <1>2, <1>3 DEF t

(* One field of the SINGLE packet.                                         *)
Field(s, y, v) == SinglePut(s, [s.pkts[Single] EXCEPT ![y] = v])

LEMMA FieldOnly ==
  ASSUME NEW s, Formed(s), NEW y \in PktFields, NEW v
  PROVE  /\ OnSlot(s, Field(s, y, v), Single, {y})
         /\ Field(s, y, v).pkts[Single][y] = v
<1> DEFINE p == [s.pkts[Single] EXCEPT ![y] = v]
<1>1. Single \in Slots /\ Packet(s.pkts[Single])
  BY SlotFacts DEF Formed
<1>2. Packet(p) /\ p[y] = v
      /\ \A z \in PktFields : z \in {y} \/ p[z] = s.pkts[Single][z]
  BY <1>1 DEF Packet, IsFcn
<1> HIDE DEF p
<1>3. OnSlot(s, Put(s, Single, p), Single, {y}) /\ Put(s, Single, p).pkts[Single] = p
  BY <1>1, <1>2, PutOnly
<1> QED  BY <1>2, <1>3 DEF Field, SinglePut, p

LEMMA SingleOnly ==
  ASSUME NEW s, Formed(s), NEW v, NEW w
  PROVE  /\ OnSlot(s, SetVlanId(s, v), Single, {"vlanid"})
         /\ SetVlanId(s, v).pkts[Single].vlanid = v
         /\ OnSlot(s, SetCos(s, v), Single, {"cos"})
         /\ OnSlot(s, SetTos(s, v), Single, {"tos"})
         /\ OnSlot(s, SetMpls(s, v), Single, {"mpls"})
         /\ SetMpls(s, v).pkts[Single].mpls = v
         /\ OnSlot(s, SetGreKey(s, v), Single, {"greKey"})
         /\ SetGreKey(s, v).pkts[Single].greKey = v
         /\ OnSlot(s, SetQinq(s, v, w), Single, {"qinq"})
         /\ SetQinq(s, v, w).pkts[Single].qinq = <<v, w>>
         /\ OnSlot(s, SetDstMac(s, v), Single, {"dstMac"})
         /\ SetDstMac(s, v).pkts[Single].dstMac = v
         /\ OnSlot(s, SetSrcMac(s, v), Single, {"srcMac"})
         /\ SetSrcMac(s, v).pkts[Single].srcMac = v
         /\ OnSlot(s, SetDstIp(s, v), Single, {"dstIp"})
         /\ SetDstIp(s, v).pkts[Single].dstIp = v
<1>1. {"vlanid", "cos", "tos", "mpls", "greKey", "qinq", "dstMac", "srcMac", "dstIp"}
        \subseteq PktFields
  BY DEF PktFields
<1>2. /\ SetVlanId(s, v) = Field(s, "vlanid", v) /\ SetMpls(s, v) = Field(s, "mpls", v)
      /\ SetGreKey(s, v) = Field(s, "greKey", v)
      /\ SetQinq(s, v, w) = Field(s, "qinq", <<v, w>>)
      /\ SetDstMac(s, v) = Field(s, "dstMac", v) /\ SetSrcMac(s, v) = Field(s, "srcMac", v)
      /\ SetDstIp(s, v) = Field(s, "dstIp", v)
      /\ SetCos(s, v) = Field(s, "cos", v % 2^8) /\ SetTos(s, v) = Field(s, "tos", v % 2^8)
  BY DEF Field, SetVlanId, SetMpls, SetGreKey, SetQinq, SetDstMac, SetSrcMac,
         SetDstIp, SetCos, SetTos
<1> QED  BY <1>1, <1>2, FieldOnly

(* Fields of 16 and of 8 bits.                                             *)
W16 == 2^16
Word == {n \in Nat : n < W16}
Byte == 0..255

LEMMA WordKept ==
  /\ W16 \in Nat /\ \A n \in Int : n % W16 \in Word
  /\ \A n \in Word : n % W16 = n
<1>1. W16 \in Nat /\ W16 > 0
  BY DEF W16
<1> QED  BY <1>1 DEF Word

LEMMA ByteKept == (\A n \in Nat : n % 2^8 \in Byte) /\ \A n \in Byte : n % 2^8 = n
BY DEF Byte

(* The size a packet of type "ethType" gets when it is set to n.           *)
Sized(ethType, n) == IF ethType = "ipv6" THEN Max({n, MinV6Size}) ELSE n
Least(s) == IF "SEND_SHORT_PACKETS" \in s.flags THEN 0 ELSE MinSize

LEMMA PortOnly ==
  ASSUME NEW s, Formed(s), NEW f \in {"sport", "dport"}, NEW v
  PROVE  /\ OnSlot(s, SetPort(s, f, v), Single, {f})
         /\ SetPort(s, f, v).pkts[Single][f] = v % W16
<1>1. f \in PktFields
  BY DEF PktFields
<1>2. SetPort(s, f, v) = Field(s, f, v % W16)
  BY DEF SetPort, Field, W16
<1> QED  BY <1>1, <1>2, FieldOnly

LEMMA HeaderOnly ==
  ASSUME NEW s, Formed(s), NEW v, NEW w
  PROVE  /\ OnSlot(s, SetProto(s, v), Single, {"proto", "ethType"})
         /\ SetProto(s, v).pkts[Single].proto = v
         /\ SetProto(s, v).pkts[Single].ethType =
              IF v = "icmp" THEN "ipv4" ELSE s.pkts[Single].ethType
         /\ OnSlot(s, SetSrcIp(s, v, w), Single, {"srcIp", "mask"})
         /\ SetSrcIp(s, v, w).pkts[Single].srcIp = v
         /\ SetSrcIp(s, v, w).pkts[Single].mask = w
<1>1. Single \in Slots /\ Packet(s.pkts[Single])
  BY SlotFacts DEF Formed
<1>3. /\ OnSlot(s, SetProto(s, v), Single, {"proto", "ethType"})
      /\ SetProto(s, v).pkts[Single].proto = v
      /\ SetProto(s, v).pkts[Single].ethType =
           IF v = "icmp" THEN "ipv4" ELSE s.pkts[Single].ethType
  <2> DEFINE p == [s.pkts[Single] EXCEPT !.proto = v,
                     !.ethType = IF v = "icmp" THEN "ipv4" ELSE @]
  <2>1. Packet(p) /\ p.proto = v
        /\ p.ethType = (IF v = "icmp" THEN "ipv4" ELSE s.pkts[Single].ethType)
        /\ \A y \in PktFields : y \in {"proto", "ethType"} \/ p[y] = s.pkts[Single][y]
    BY <1>1 DEF PktFields, Packet, IsFcn
  <2> HIDE DEF p
  <2>2. OnSlot(s, Put(s, Single, p), Single, {"proto", "ethType"})
        /\ Put(s, Single, p).pkts[Single] = p
    BY <1>1, <2>1, PutOnly
  <2>3. SetProto(s, v) = Put(s, Single, p)
    BY DEF SetProto, SinglePut, p
  <2> QED  BY <2>1, <2>2, <2>3
<1>4. /\ OnSlot(s, SetSrcIp(s, v, w), Single, {"srcIp", "mask"})
      /\ SetSrcIp(s, v, w).pkts[Single].srcIp = v
      /\ SetSrcIp(s, v, w).pkts[Single].mask = w
  <2> DEFINE p == [s.pkts[Single] EXCEPT !.srcIp = v, !.mask = w]
  <2>1. Packet(p) /\ p.srcIp = v /\ p.mask = w
        /\ \A y \in PktFields : y \in {"srcIp", "mask"} \/ p[y] = s.pkts[Single][y]
    BY <1>1 DEF PktFields, Packet, IsFcn
  <2> HIDE DEF p
  <2>2. OnSlot(s, Put(s, Single, p), Single, {"srcIp", "mask"})
        /\ Put(s, Single, p).pkts[Single] = p
    BY <1>1, <2>1, PutOnly
  <2>3. SetSrcIp(s, v, w) = Put(s, Single, p)
    BY DEF SetSrcIp, SinglePut, p
  <2> QED  BY <2>1, <2>2, <2>3
<1> QED  BY <1>3, <1>4

LEMMA SizeOnly ==
  ASSUME NEW s, Formed(s), NEW v
  PROVE  /\ OnSlot(s, SetPktSize(s, v), Single, {"size"})
         /\ SetPktSize(s, v).pkts[Single].size =
              Sized(s.pkts[Single].ethType,
                    Min({Max({v - Fcs, 0, Least(s)}), MaxSize}))
<1>1. "size" \in PktFields
  BY DEF PktFields
<1> DEFINE n == Min({Max({v - Fcs, 0, Least(s)}), MaxSize})
           x == IF s.pkts[Single].ethType = "ipv6" THEN Max({n, MinV6Size}) ELSE n
<1>2. SetPktSize(s, v) = Field(s, "size", x)
  BY DEF SetPktSize, Least, Field
<1> HIDE DEF x
<1>3. /\ OnSlot(s, SetPktSize(s, v), Single, {"size"})
      /\ SetPktSize(s, v).pkts[Single].size = x
  BY <1>1, <1>2, FieldOnly
<1> QED  BY <1>3 DEF x, Sized

(* single_set_pkt_type.                                                    *)
Kind(word) == IF word \in {"arp", "ipv6"} THEN word ELSE "ipv4"
Resized(p, type) ==
  CASE p.ethType = "ipv6" /\ type = "ipv4" /\ p.size >= MinV6Size
         -> p.size - (MinV6Size - MinSize)
    [] p.ethType = "ipv4" /\ type = "ipv6" /\ p.size < MinV6Size
         -> p.size + (MinV6Size - MinSize)
    [] OTHER -> p.size

LEMMA TypeOnly ==
  ASSUME NEW s, Formed(s), NEW w
  PROVE  /\ OnSlot(s, SetPktType(s, w), Single, {"size", "ethType"})
         /\ SetPktType(s, w).pkts[Single].ethType = Kind(w)
         /\ SetPktType(s, w).pkts[Single].size = Resized(s.pkts[Single], Kind(w))
<1>1. Single \in Slots /\ Packet(s.pkts[Single])
  BY SlotFacts DEF Formed
<1> DEFINE x == Resized(s.pkts[Single], Kind(w))
           p == [s.pkts[Single] EXCEPT !.ethType = Kind(w), !.size = x]
<1>2. SetPktType(s, w) = Put(s, Single, p)
  BY DEF SetPktType, SinglePut, Kind, Resized
<1> HIDE DEF x
<1>3. Packet(p) /\ p.ethType = Kind(w) /\ p.size = x
      /\ \A y \in PktFields : y \in {"size", "ethType"} \/ p[y] = s.pkts[Single][y]
  BY <1>1 DEF PktFields, Packet, IsFcn
<1> HIDE DEF p
<1>4. OnSlot(s, Put(s, Single, p), Single, {"size", "ethType"})
      /\ Put(s, Single, p).pkts[Single] = p
  BY <1>1, <1>3, PutOnly
<1> QED  BY <1>2, <1>3, <1>4 DEF x

(* Switches.                                                               *)
LEMMA FlagsOnly ==
  ASSUME NEW s, DOMAIN s = FieldNames, NEW F
  PROVE  /\ Only(s, SetFlags(s, F), {"flags"}) /\ SetFlags(s, F).flags = s.flags \cup F
         /\ Only(s, ClrFlags(s, F), {"flags"}) /\ ClrFlags(s, F).flags = s.flags \ F
<1>1. Only(s, SetFlags(s, F), {"flags"}) /\ SetFlags(s, F).flags = s.flags \cup F
  BY DEF SetFlags, Only, FieldNames
<1>2. Only(s, ClrFlags(s, F), {"flags"}) /\ ClrFlags(s, F).flags = s.flags \ F
  BY DEF ClrFlags, Only, FieldNames
<1> QED  BY <1>1, <1>2

Switched(F, on, G) == IF on THEN F \cup G ELSE F \ G
Chosen(F, on, f, group) == IF on THEN (F \ group) \cup {f} ELSE F \ {f}

LEMMA SwitchOnly ==
  ASSUME NEW s, DOMAIN s = FieldNames, NEW on, NEW F
  PROVE  /\ Only(s, Switch(s, on, F), {"flags"})
         /\ Switch(s, on, F).flags = Switched(s.flags, on, F)
BY FlagsOnly DEF Switch, Switched

LEMMA OneOfOnly ==
  ASSUME NEW s, DOMAIN s = FieldNames, NEW on, NEW f, NEW group
  PROVE  /\ Only(s, OneOf(s, on, f, group), {"flags"})
         /\ OneOf(s, on, f, group).flags = Chosen(s.flags, on, f, group)
<1>1. Only(s, ClrFlags(s, group), {"flags"}) /\ ClrFlags(s, group).flags = s.flags \ group
  BY FlagsOnly
<1>2. DOMAIN ClrFlags(s, group) = FieldNames
  BY <1>1 DEF Only
<1> DEFINE t == SetFlags(ClrFlags(s, group), {f})
<1>3. /\ Only(ClrFlags(s, group), t, {"flags"})
      /\ t.flags = (s.flags \ group) \cup {f}
  BY <1>1, <1>2, FlagsOnly
<1>4. Only(s, t, {"flags"})
  BY <1>1, <1>3 DEF Only
<1>5. Only(s, ClrFlags(s, {f}), {"flags"}) /\ ClrFlags(s, {f}).flags = s.flags \ {f}
  BY FlagsOnly
<1> QED  BY <1>3, <1>4, <1>5 DEF OneOf, Chosen

LEMMA ModeOnly ==
  ASSUME NEW s, DOMAIN s = FieldNames, NEW on, NEW n
  PROVE  /\ Only(s, EnableRange(s, on), {"flags"})
         /\ EnableRange(s, on).flags = Chosen(s.flags, on, "SEND_RANGE_PKTS", ModeFlags)
         /\ Only(s, EnablePcap(s, on), {"flags"})
         /\ PcapSize # 0 =>
              EnablePcap(s, on).flags = Chosen(s.flags, on, "SEND_PCAP_PKTS", ModeFlags)
         /\ PcapSize = 0 => EnablePcap(s, on) = s
         /\ Only(s, SetSeqCnt(s, n), {"flags", "seqCnt"})
         /\ SetSeqCnt(s, n).seqCnt = Min({n, SeqSlots})
         /\ SetSeqCnt(s, n).flags = Chosen(s.flags, n > 0, "SEND_SEQ_PKTS", ModeFlags)
<1>1. /\ Only(s, EnableRange(s, on), {"flags"})
      /\ EnableRange(s, on).flags = Chosen(s.flags, on, "SEND_RANGE_PKTS", ModeFlags)
  <2> DEFINE t == OneOf(s, on, "SEND_RANGE_PKTS", ModeFlags)
  <2>1. Only(s, t, {"flags"}) /\ t.flags = Chosen(s.flags, on, "SEND_RANGE_PKTS", ModeFlags)
    BY OneOfOnly
  <2> HIDE DEF t
  <2>2. Only(t, Paced(t), {})
    BY <2>1, PacedOnly DEF Only
  <2> QED  BY <2>1, <2>2 DEF EnableRange, t, Only, FieldNames
<1>2. /\ Only(s, EnablePcap(s, on), {"flags"})
      /\ PcapSize # 0 =>
           EnablePcap(s, on).flags = Chosen(s.flags, on, "SEND_PCAP_PKTS", ModeFlags)
      /\ PcapSize = 0 => EnablePcap(s, on) = s
  <2> DEFINE t == OneOf(s, on, "SEND_PCAP_PKTS", ModeFlags)
  <2>1. Only(s, t, {"flags"}) /\ t.flags = Chosen(s.flags, on, "SEND_PCAP_PKTS", ModeFlags)
    BY OneOfOnly
  <2> HIDE DEF t
  <2>2. Only(t, Paced(t), {})
    BY <2>1, PacedOnly DEF Only
  <2>3. Only(s, s, {"flags"})
    BY DEF Only
  <2> QED  BY <2>1, <2>2, <2>3 DEF EnablePcap, t, Only, FieldNames
<1>3. /\ Only(s, SetSeqCnt(s, n), {"flags", "seqCnt"})
      /\ SetSeqCnt(s, n).seqCnt = Min({n, SeqSlots})
      /\ SetSeqCnt(s, n).flags = Chosen(s.flags, n > 0, "SEND_SEQ_PKTS", ModeFlags)
  <2> DEFINE m == Min({n, SeqSlots})
             r == [s EXCEPT !.seqCnt = m]
             t == OneOf(r, n > 0, "SEND_SEQ_PKTS", ModeFlags)
  <2>1. Only(s, r, {"seqCnt"}) /\ r.seqCnt = m /\ r.flags = s.flags /\ DOMAIN r = FieldNames
    BY DEF Only, FieldNames
  <2>2. SetSeqCnt(s, n) = Paced(t)
    BY DEF SetSeqCnt
  <2>3. Only(r, t, {"flags"}) /\ t.flags = Chosen(s.flags, n > 0, "SEND_SEQ_PKTS", ModeFlags)
    <3> HIDE DEF r, m
    <3> QED  BY <2>1, OneOfOnly
  <2> HIDE DEF t, r, m
  <2>4. Only(t, Paced(t), {})
    BY <2>3, PacedOnly DEF Only
  <2>5. Only(s, SetSeqCnt(s, n), {"flags", "seqCnt"})
        /\ SetSeqCnt(s, n).seqCnt = m /\ SetSeqCnt(s, n).flags = t.flags
    BY <2>1, <2>2, <2>3, <2>4 DEF Only, FieldNames
  <2> QED  BY <2>3, <2>5 DEF m
<1> QED  BY <1>1, <1>2, <1>3

(* Ranges.                                                                 *)
Respan(x, what, v) == [x EXCEPT ![what] = v]

LEMMA SpanOnly ==
  ASSUME NEW s, DOMAIN s = FieldNames, NEW d, NEW what, NEW v
  PROVE  /\ Only(s, SetSpan(s, d, what, v), {"range"})
         /\ DOMAIN SetSpan(s, d, what, v).range = DOMAIN s.range
         /\ IsFcn(SetSpan(s, d, what, v).range)
         /\ \A e \in DOMAIN s.range : e = d \/ SetSpan(s, d, what, v).range[e] = s.range[e]
         /\ d \in DOMAIN s.range =>
              SetSpan(s, d, what, v).range[d] = Respan(s.range[d], what, v)
<1> DEFINE x == Respan(s.range[d], what, v)
           r == [s.range EXCEPT ![d] = x]
           t == [s EXCEPT !.range = r]
<1>1. SetSpan(s, d, what, v) = t
  BY DEF SetSpan, Respan
<1> HIDE DEF x
<1>0. IsFcn(r)
  BY DEF IsFcn
<1>2. /\ DOMAIN r = DOMAIN s.range
      /\ \A e \in DOMAIN s.range : e = d \/ r[e] = s.range[e]
      /\ d \in DOMAIN s.range => r[d] = x
  OBVIOUS
<1> HIDE DEF r
<1>3. Only(s, t, {"range"}) /\ t.range = r
  BY DEF Only, FieldNames
<1> HIDE DEF t
<1> QED  BY <1>0, <1>1, <1>2, <1>3 DEF x

Protoed(p, v) ==
  [p EXCEPT !.proto = v, !.ethType = IF v = "icmp" THEN "ipv4" ELSE @]

LEMMA RangeProtoOnly ==
  ASSUME NEW s, Formed(s), NEW v
  PROVE  /\ Only(s, RangeProto(s, v), {"rangeProto", "pkts"})
         /\ RangeProto(s, v).rangeProto = v
         /\ Table(RangeProto(s, v).pkts)
         /\ \A k \in Slots : k = Ranged \/ RangeProto(s, v).pkts[k] = s.pkts[k]
         /\ RangeProto(s, v).pkts[Ranged] = Protoed(s.pkts[Ranged], v)
         /\ Packet(RangeProto(s, v).pkts[Ranged])
<1> DEFINE t == [s EXCEPT !.rangeProto = v]
           p == Protoed(s.pkts[Ranged], v)
<1>1. RangeProto(s, v) = Put(t, Ranged, p)
  BY DEF RangeProto, Protoed
<1>2. Only(s, t, {"rangeProto"}) /\ t.rangeProto = v
  BY DEF Formed, Only, FieldNames
<1> HIDE DEF t
<1>3. Formed(t) /\ t.pkts = s.pkts
  BY <1>2, OnlyFormed
<1>4. Ranged \in Slots /\ Packet(s.pkts[Ranged])
  BY SlotFacts DEF Formed
<1>5. Packet(p)
  BY <1>4 DEF Protoed, Packet, IsFcn
<1>6. p = Protoed(s.pkts[Ranged], v)
  OBVIOUS
<1> HIDE DEF p
<1>7. OnSlot(t, Put(t, Ranged, p), Ranged, PktFields) /\ Put(t, Ranged, p).pkts[Ranged] = p
  BY <1>3, <1>4, <1>5, PutOnly
<1>8. /\ Only(s, RangeProto(s, v), {"rangeProto", "pkts"})
      /\ RangeProto(s, v).rangeProto = v
  BY <1>1, <1>2, <1>7 DEF OnSlot, Only, FieldNames
<1>9. /\ Table(RangeProto(s, v).pkts)
      /\ \A k \in Slots : k = Ranged \/ RangeProto(s, v).pkts[k] = s.pkts[k]
  BY <1>1, <1>3, <1>7 DEF OnSlot, Formed, Table
<1> QED  BY <1>1, <1>5, <1>6, <1>7, <1>8, <1>9

(* A packet put into any slot, or into none.                               *)
LEMMA PutAny ==
  ASSUME NEW s, Formed(s), NEW k, NEW p, k \in Slots => Packet(p)
  PROVE  /\ Only(s, Put(s, k, p), {"pkts"}) /\ Formed(Put(s, k, p))
         /\ \A j \in Slots : j = k \/ Put(s, k, p).pkts[j] = s.pkts[j]
         /\ k \in Slots => Put(s, k, p).pkts[k] = p
<1> DEFINE t == Put(s, k, p)
<1>0. Put(s, k, p) = t
  OBVIOUS
<1>1. t.pkts = [s.pkts EXCEPT ![k] = p] /\ Only(s, t, {"pkts"})
  BY DEF Put, Only, Formed, FieldNames
<1> HIDE DEF t
<1>2. /\ Table(t.pkts)
      /\ k \in Slots => t.pkts[k] = p
      /\ \A j \in Slots : j = k \/ t.pkts[j] = s.pkts[j]
  BY <1>1 DEF Formed, Table, IsFcn
<1>3. Formed(t)
  BY <1>1, <1>2 DEF Formed, Only
<1> QED  BY <1>0, <1>1, <1>2, <1>3

(* What every command keeps: the shapes of the settings' parts, and the    *)
(* values a saved line can bring back.                                     *)
Ports == {"src port", "dst port"}
Bounded(d, what, v) ==
  /\ d \in Ports => IF what = "inc" THEN v \in 0..64 ELSE v \in Word
  /\ d = "vlan" => IF what = "inc" THEN v \in 0..64 ELSE v \in VlanIds
  /\ d = "cos" => IF what = "inc" THEN v \in 0..7 ELSE v \in Byte
  /\ d = "tos" => v \in Byte
IsSpan(x) == x = [what \in Smmi |-> x[what]]
RangesKept(r) ==
  /\ DOMAIN r = Dims /\ IsFcn(r)
  /\ \A d \in Dims : IsSpan(r[d]) /\ \A what \in Smmi : Bounded(d, what, r[d][what])

FlagsKept(F) ==
  /\ "SEND_PCAP_PKTS" \in F => PcapSize # 0
  /\ F \cap {"PROCESS_RX_TAP_PKTS", "PROCESS_TX_TAP_PKTS"} # {} => TapOpens

IsPair(x) == x = <<x[1], x[2]>>
SingleWhole(p) ==
  /\ p.ethType \in {"arp", "ipv4", "ipv6"} /\ IsPair(p.qinq)
  /\ p.sport \in Word /\ p.dport \in Word
SeqWhole(p) ==
  /\ p.ethType \in {"ipv4", "ipv6"}
  /\ p.proto = "icmp" => p.ethType = "ipv4"
  /\ p.size \in Word
  /\ p.qinq = ZeroPkt.qinq /\ p.mpls = ZeroPkt.mpls /\ p.greKey = ZeroPkt.greKey

Whole(s) ==
  /\ Formed(s) /\ s.macFromArp \in BOOLEAN /\ FlagsKept(s.flags)
  /\ s.rangeProto \in {"tcp", "udp", "icmp"} /\ RangesKept(s.range)
  /\ SingleWhole(s.pkts[Single])
  /\ \A k \in Slots : k < SeqSlots => SeqWhole(s.pkts[k])

(* Steps that keep it: those that change none of these parts, and those    *)
(* that change one.                                                        *)
LEMMA PlainWhole ==
  ASSUME NEW s, Whole(s), NEW t, NEW F, Only(s, t, F),
         F \cap {"macFromArp", "flags", "rangeProto", "range", "pkts"} = {}
  PROVE  Whole(t)
<1>1. /\ t.macFromArp = s.macFromArp /\ t.flags = s.flags
      /\ t.rangeProto = s.rangeProto /\ t.range = s.range /\ t.pkts = s.pkts
      /\ DOMAIN t = FieldNames
  BY DEF Only, FieldNames
<1> QED  BY <1>1 DEF Whole, Formed

LEMMA FlagsWhole ==
  ASSUME NEW s, Whole(s), NEW t, NEW F, Only(s, t, F), FlagsKept(t.flags),
         F \cap {"macFromArp", "rangeProto", "range", "pkts"} = {}
  PROVE  Whole(t)
<1>1. /\ t.macFromArp = s.macFromArp
      /\ t.rangeProto = s.rangeProto /\ t.range = s.range /\ t.pkts = s.pkts
      /\ DOMAIN t = FieldNames
  BY DEF Only, FieldNames
<1> QED  BY <1>1 DEF Whole, Formed

LEMMA RangeWhole ==
  ASSUME NEW s, Whole(s), NEW t, Only(s, t, {"range"}), RangesKept(t.range)
  PROVE  Whole(t)
<1>1. /\ t.macFromArp = s.macFromArp /\ t.flags = s.flags
      /\ t.rangeProto = s.rangeProto /\ t.pkts = s.pkts
      /\ DOMAIN t = FieldNames
  BY DEF Only, FieldNames
<1> QED  BY <1>1 DEF Whole, Formed

LEMMA PktsWhole ==
  ASSUME NEW s, Whole(s), NEW t, Only(s, t, {"pkts"}), Formed(t), NEW k,
         \A j \in Slots : j = k \/ t.pkts[j] = s.pkts[j],
         k = Single => SingleWhole(t.pkts[k]),
         k \in Slots /\ k < SeqSlots => SeqWhole(t.pkts[k])
  PROVE  Whole(t)
<1>1. /\ t.macFromArp = s.macFromArp /\ t.flags = s.flags
      /\ t.rangeProto = s.rangeProto /\ t.range = s.range
  BY DEF Only, FieldNames
<1>2. Single \in Slots
  BY SlotFacts
<1> QED  BY <1>1, <1>2 DEF Whole

LEMMA SingleStep ==
  ASSUME NEW s, Whole(s), NEW t, NEW F, OnSlot(s, t, Single, F),
         SingleWhole(t.pkts[Single])
  PROVE  Whole(t)
<1>1. Single \in Slots /\ ~(Single < SeqSlots)
  BY SlotFacts, SettingsAssumption DEF Single
<1>2. Formed(t)
  BY <1>1, SlotFormed DEF Whole
<1>3. Only(s, t, {"pkts"}) /\ \A j \in Slots : j = Single \/ t.pkts[j] = s.pkts[j]
  BY DEF OnSlot, Whole, Formed, Table
<1> QED  BY <1>1, <1>2, <1>3, PktsWhole

LEMMA SingleQuietStep ==
  ASSUME NEW s, Whole(s), NEW t, NEW F, OnSlot(s, t, Single, F),
         F \cap {"ethType", "qinq", "sport", "dport"} = {}
  PROVE  Whole(t)
<1> DEFINE p == s.pkts[Single]
           r == t.pkts[Single]
<1>1. /\ r.ethType = p.ethType /\ r.qinq = p.qinq
      /\ r.sport = p.sport /\ r.dport = p.dport
  BY DEF OnSlot, PktFields
<1> HIDE DEF r, p
<1>2. SingleWhole(p)
  BY DEF Whole, p
<1>3. SingleWhole(r)
  BY <1>1, <1>2 DEF SingleWhole
<1> QED  BY <1>3, SingleStep DEF r

LEMMA CountsWhole ==
  ASSUME NEW s, Whole(s), NEW v
  PROVE  /\ Whole(SetTxCount(s, v)) /\ Whole(SetTxRate(s, v)) /\ Whole(SetPps(s, v))
         /\ Whole(SetTxBurst(s, v)) /\ Whole(SetTxCycles(s, v)) /\ Whole(SetPrime(s, v))
         /\ Whole(SetJitter(s, v)) /\ Whole(SetPattern(s, v))
         /\ Whole(SetUserPattern(s, v))
<1>1. DOMAIN s = FieldNames
  BY DEF Whole, Formed
<1> DEFINE Big == {"macFromArp", "flags", "rangeProto", "range", "pkts"}
<1>2. /\ {"count"} \cap Big = {} /\ {"rate"} \cap Big = {} /\ {} \cap Big = {}
      /\ {"rate", "burst"} \cap Big = {} /\ {"burst"} \cap Big = {}
      /\ {"prime"} \cap Big = {} /\ {"jitter"} \cap Big = {} /\ {"fill"} \cap Big = {}
      /\ {"user", "fill"} \cap Big = {}
  OBVIOUS
<1>3. \A t, F : Only(s, t, F) /\ F \cap Big = {} => Whole(t)
  BY PlainWhole
<1> HIDE DEF Big
<1>4. /\ Whole(SetTxCount(s, v)) /\ Whole(SetTxRate(s, v)) /\ Whole(SetPps(s, v))
      /\ Whole(SetTxBurst(s, v)) /\ Whole(SetTxCycles(s, v)) /\ Whole(SetPrime(s, v))
  BY <1>1, <1>2, <1>3, CountsOnly, RateOnly
<1>5. /\ Whole(SetJitter(s, v)) /\ Whole(SetPattern(s, v))
      /\ Whole(SetUserPattern(s, v))
  BY <1>1, <1>2, <1>3, FillOnly
<1> QED  BY <1>4, <1>5

LEMMA MacFromArpWhole ==
  ASSUME NEW s, Whole(s), NEW on \in BOOLEAN PROVE Whole(EnableMacFromArp(s, on))
<1> DEFINE t == EnableMacFromArp(s, on)
<1>1. Only(s, t, {"macFromArp"}) /\ t.macFromArp = on
  BY FillOnly DEF Whole, Formed
<1> HIDE DEF t
<1>2. /\ t.flags = s.flags
      /\ t.rangeProto = s.rangeProto /\ t.range = s.range /\ t.pkts = s.pkts
      /\ DOMAIN t = FieldNames
  BY <1>1 DEF Only, FieldNames
<1>3. Whole(t)
  BY <1>1, <1>2 DEF Whole, Formed
<1> QED  BY <1>3 DEF t

LEMMA SingleSettersWhole ==
  ASSUME NEW s, Whole(s), NEW v, NEW w
  PROVE  /\ Whole(SetVlanId(s, v)) /\ Whole(SetCos(s, v)) /\ Whole(SetTos(s, v))
         /\ Whole(SetMpls(s, v)) /\ Whole(SetGreKey(s, v)) /\ Whole(SetDstMac(s, v))
         /\ Whole(SetSrcMac(s, v)) /\ Whole(SetDstIp(s, v)) /\ Whole(SetSrcIp(s, v, w))
         /\ Whole(SetPktSize(s, v)) /\ Whole(SetQinq(s, v, w))
<1>1. Formed(s)
  BY DEF Whole
<1> DEFINE Big == {"ethType", "qinq", "sport", "dport"}
<1>2. /\ {"vlanid"} \cap Big = {} /\ {"cos"} \cap Big = {} /\ {"tos"} \cap Big = {}
      /\ {"mpls"} \cap Big = {} /\ {"greKey"} \cap Big = {} /\ {"dstMac"} \cap Big = {}
      /\ {"srcMac"} \cap Big = {} /\ {"dstIp"} \cap Big = {}
      /\ {"srcIp", "mask"} \cap Big = {} /\ {"size"} \cap Big = {}
  OBVIOUS
<1>3. \A t, F : OnSlot(s, t, Single, F) /\ F \cap Big = {} => Whole(t)
  BY SingleQuietStep
<1> HIDE DEF Big
<1>4. /\ Whole(SetVlanId(s, v)) /\ Whole(SetCos(s, v)) /\ Whole(SetTos(s, v))
      /\ Whole(SetMpls(s, v)) /\ Whole(SetGreKey(s, v)) /\ Whole(SetDstMac(s, v))
      /\ Whole(SetSrcMac(s, v)) /\ Whole(SetDstIp(s, v))
  BY <1>1, <1>2, <1>3, SingleOnly
<1>5. Whole(SetSrcIp(s, v, w))
  BY <1>1, <1>2, <1>3, HeaderOnly
<1>6. Whole(SetPktSize(s, v))
  BY <1>1, <1>2, <1>3, SizeOnly
<1>7. Whole(SetQinq(s, v, w))
  <2> DEFINE t == SetQinq(s, v, w)
             p == s.pkts[Single]
             r == t.pkts[Single]
  <2>1. OnSlot(s, t, Single, {"qinq"}) /\ r.qinq = <<v, w>>
    BY <1>1, SingleOnly
  <2>2. r.ethType = p.ethType /\ r.sport = p.sport /\ r.dport = p.dport
    BY <2>1 DEF OnSlot, PktFields
  <2> HIDE DEF r, p, t
  <2>3. SingleWhole(r)
    BY <2>1, <2>2 DEF SingleWhole, IsPair, Whole, p
  <2> QED  BY <2>1, <2>3, SingleStep DEF r, t
<1> QED  BY <1>4, <1>5, <1>6, <1>7

LEMMA HeaderWhole ==
  ASSUME NEW s, Whole(s), NEW v
  PROVE  /\ v \in Nat => Whole(SetPort(s, "sport", v)) /\ Whole(SetPort(s, "dport", v))
         /\ Whole(SetProto(s, v)) /\ Whole(SetPktType(s, v))
<1>1. Formed(s) /\ SingleWhole(s.pkts[Single])
  BY DEF Whole
<1>2. ASSUME v \in Nat, NEW f \in {"sport", "dport"} PROVE Whole(SetPort(s, f, v))
  <2> DEFINE t == SetPort(s, f, v)
             p == s.pkts[Single]
             r == t.pkts[Single]
  <2>0. OnSlot(s, t, Single, {f}) /\ r[f] = v % W16
    BY <1>1, PortOnly
  <2>1. OnSlot(s, t, Single, {f}) /\ r[f] \in Word
    <3> HIDE DEF t, r
    <3> QED  BY <1>2, <2>0, WordKept
  <2>2. /\ r.ethType = p.ethType /\ r.qinq = p.qinq
        /\ r.sport = p.sport \/ f = "sport"
        /\ r.dport = p.dport \/ f = "dport"
    BY <2>1 DEF OnSlot, PktFields
  <2> HIDE DEF r, p, t
  <2>3. SingleWhole(r)
    BY <1>1, <1>2, <2>1, <2>2 DEF SingleWhole, p
  <2> QED  BY <2>1, <2>3, SingleStep DEF r, t
<1>3. Whole(SetProto(s, v))
  <2> DEFINE t == SetProto(s, v)
             p == s.pkts[Single]
             r == t.pkts[Single]
  <2>1. OnSlot(s, t, Single, {"proto", "ethType"})
        /\ r.ethType = IF v = "icmp" THEN "ipv4" ELSE p.ethType
    BY <1>1, HeaderOnly
  <2>2. r.qinq = p.qinq /\ r.sport = p.sport /\ r.dport = p.dport
    BY <2>1 DEF OnSlot, PktFields
  <2> HIDE DEF r, p, t
  <2>3. SingleWhole(r)
    BY <1>1, <2>1, <2>2 DEF SingleWhole, p
  <2> QED  BY <2>1, <2>3, SingleStep DEF r, t
<1>4. Whole(SetPktType(s, v))
  <2> DEFINE t == SetPktType(s, v)
             p == s.pkts[Single]
             r == t.pkts[Single]
  <2>1. OnSlot(s, t, Single, {"size", "ethType"}) /\ r.ethType = Kind(v)
    BY <1>1, TypeOnly
  <2>2. r.qinq = p.qinq /\ r.sport = p.sport /\ r.dport = p.dport
    BY <2>1 DEF OnSlot, PktFields
  <2> HIDE DEF r, p, t
  <2>3. SingleWhole(r)
    BY <1>1, <2>1, <2>2 DEF SingleWhole, p, Kind
  <2> QED  BY <2>1, <2>3, SingleStep DEF r, t
<1> QED  BY <1>2, <1>3, <1>4

(* Flags a command may set: all but those of PCAP files and TAP interfaces *)
(* at will, and those if there is the file or the interface opens.         *)
Free(F) == F \cap {"SEND_PCAP_PKTS", "PROCESS_RX_TAP_PKTS", "PROCESS_TX_TAP_PKTS"} = {}

LEMMA SwitchWhole ==
  ASSUME NEW s, Whole(s), NEW on, NEW F, Free(F)
  PROVE  Whole(Switch(s, on, F)) /\ Whole(SetFlags(s, F)) /\ Whole(ClrFlags(s, F))
<1>1. DOMAIN s = FieldNames /\ FlagsKept(s.flags)
  BY DEF Whole, Formed
<1>2. FlagsKept(s.flags \cup F) /\ FlagsKept(s.flags \ F)
  BY <1>1 DEF FlagsKept, Free
<1>3. {"flags"} \cap {"macFromArp", "rangeProto", "range", "pkts"} = {}
  OBVIOUS
<1>4. Whole(SetFlags(s, F)) /\ Whole(ClrFlags(s, F))
  BY <1>1, <1>2, <1>3, FlagsOnly, FlagsWhole
<1> QED  BY <1>4 DEF Switch

LEMMA OneOfWhole ==
  ASSUME NEW s, Whole(s), NEW on, NEW f, NEW group, on => FlagsKept({f})
  PROVE  Whole(OneOf(s, on, f, group))
<1>1. DOMAIN s = FieldNames /\ FlagsKept(s.flags)
  BY DEF Whole, Formed
<1>2. FlagsKept(Chosen(s.flags, on, f, group))
  BY <1>1 DEF FlagsKept, Chosen
<1>3. {"flags"} \cap {"macFromArp", "rangeProto", "range", "pkts"} = {}
  OBVIOUS
<1> QED  BY <1>1, <1>2, <1>3, OneOfOnly, FlagsWhole

LEMMA EnablesWhole ==
  ASSUME NEW s, Whole(s), NEW on, NEW n
  PROVE  /\ Whole(EnableVlan(s, on)) /\ Whole(EnableMpls(s, on))
         /\ Whole(EnableQinq(s, on)) /\ Whole(EnableGre(s, on))
         /\ Whole(EnableGreEth(s, on)) /\ Whole(EnableGarp(s, on))
         /\ Whole(EnableRange(s, on)) /\ Whole(EnablePcap(s, on))
         /\ Whole(SetSeqCnt(s, n))
<1>1. DOMAIN s = FieldNames /\ FlagsKept(s.flags)
  BY DEF Whole, Formed
<1>2. /\ FlagsKept({"SEND_VLAN_ID"}) /\ FlagsKept({"SEND_MPLS_LABEL"})
      /\ FlagsKept({"SEND_Q_IN_Q_IDS"}) /\ FlagsKept({"SEND_GRE_IPv4_HEADER"})
      /\ FlagsKept({"SEND_GRE_ETHER_HEADER"})
  BY DEF FlagsKept
<1>3. /\ Whole(EnableVlan(s, on)) /\ Whole(EnableMpls(s, on))
      /\ Whole(EnableQinq(s, on)) /\ Whole(EnableGre(s, on))
      /\ Whole(EnableGreEth(s, on))
  BY <1>2, OneOfWhole DEF EnableVlan, EnableMpls, EnableQinq, EnableGre, EnableGreEth
<1>4. Whole(EnableGarp(s, on))
  BY SwitchWhole DEF EnableGarp, Free
<1>5. /\ {"flags"} \cap {"macFromArp", "rangeProto", "range", "pkts"} = {}
      /\ {"flags", "seqCnt"} \cap {"macFromArp", "rangeProto", "range", "pkts"} = {}
  OBVIOUS
<1>6. Whole(EnableRange(s, on))
  <2>1. FlagsKept(Chosen(s.flags, on, "SEND_RANGE_PKTS", ModeFlags))
    BY <1>1 DEF FlagsKept, Chosen
  <2> QED  BY <1>1, <1>5, <2>1, ModeOnly, FlagsWhole
<1>7. Whole(EnablePcap(s, on))
  <2>1. PcapSize # 0 => FlagsKept(Chosen(s.flags, on, "SEND_PCAP_PKTS", ModeFlags))
    BY <1>1 DEF FlagsKept, Chosen
  <2> QED  BY <1>1, <1>5, <2>1, ModeOnly, FlagsWhole
<1>8. Whole(SetSeqCnt(s, n))
  <2>1. FlagsKept(Chosen(s.flags, n > 0, "SEND_SEQ_PKTS", ModeFlags))
    BY <1>1 DEF FlagsKept, Chosen
  <2> QED  BY <1>1, <1>5, <2>1, ModeOnly, FlagsWhole
<1> QED  BY <1>3, <1>4, <1>6, <1>7, <1>8

LEMMA TapWhole ==
  ASSUME NEW s, Whole(s), NEW on,
         NEW f \in {"PROCESS_RX_TAP_PKTS", "PROCESS_TX_TAP_PKTS"}
  PROVE  Whole(EnableTap(s, on, f))
<1>1. DOMAIN s = FieldNames /\ FlagsKept(s.flags)
  BY DEF Whole, Formed
<1>2. {"flags"} \cap {"macFromArp", "rangeProto", "range", "pkts"} = {}
  OBVIOUS
<1>3. TapOpens => FlagsKept(s.flags \cup {f})
  BY <1>1 DEF FlagsKept
<1>4. FlagsKept(s.flags \ {f})
  BY <1>1 DEF FlagsKept
<1>5. TapOpens => Whole(SetFlags(s, {f}))
  BY <1>1, <1>2, <1>3, FlagsOnly, FlagsWhole
<1>6. Whole(ClrFlags(s, {f}))
  BY <1>1, <1>2, <1>4, FlagsOnly, FlagsWhole
<1> QED  BY <1>5, <1>6 DEF EnableTap, Switch
-----------------------------------------------------------------------------
LEMMA SpanWhole ==
  ASSUME NEW s, Whole(s), NEW d, NEW what, NEW v,
         what \in Smmi => Bounded(d, what, v)
  PROVE  Whole(SetSpan(s, d, what, v))
<1> DEFINE t == SetSpan(s, d, what, v)
           x == Respan(s.range[d], what, v)
<1>1. DOMAIN s = FieldNames /\ RangesKept(s.range)
  BY DEF Whole, Formed
<1>2. /\ Only(s, t, {"range"}) /\ DOMAIN t.range = Dims /\ IsFcn(t.range)
      /\ \A e \in Dims : e = d \/ t.range[e] = s.range[e]
      /\ d \in Dims => t.range[d] = x
  <2>1. DOMAIN s.range = Dims
    BY <1>1 DEF RangesKept
  <2>2. /\ Only(s, t, {"range"}) /\ DOMAIN t.range = DOMAIN s.range /\ IsFcn(t.range)
        /\ \A e \in DOMAIN s.range : e = d \/ t.range[e] = s.range[e]
        /\ d \in DOMAIN s.range => t.range[d] = x
    BY <1>1, SpanOnly
  <2> HIDE DEF t, x
  <2> QED  BY <2>1, <2>2
<1> HIDE DEF t
<1>3. d \in Dims => IsSpan(x) /\ \A w \in Smmi : Bounded(d, w, x[w])
  <2> SUFFICES ASSUME d \in Dims
               PROVE  IsSpan(x) /\ \A w \in Smmi : Bounded(d, w, x[w])
    OBVIOUS
  <2>1. IsSpan(s.range[d]) /\ \A w \in Smmi : Bounded(d, w, s.range[d][w])
    BY <1>1 DEF RangesKept
  <2>2. DOMAIN s.range[d] = Smmi
    BY <2>1 DEF IsSpan
  <2>3. \A w \in Smmi : x[w] = IF w = what THEN v ELSE s.range[d][w]
    BY <2>2 DEF Respan
  <2>4. IsSpan(x)
    BY <2>2 DEF IsSpan, Respan
  <2> HIDE DEF x
  <2> QED  BY <2>1, <2>3, <2>4
<1> HIDE DEF x
<1>4. RangesKept(t.range)
  BY <1>1, <1>2, <1>3 DEF RangesKept
<1>5. Whole(t)
  BY <1>2, <1>4, RangeWhole
<1> QED  BY <1>5 DEF t

LEMMA SlotWhole ==
  ASSUME NEW s, Whole(s), NEW k, NEW p, k \in Slots => Packet(p),
         k # Single, k \in Slots /\ k < SeqSlots => SeqWhole(p)
  PROVE  Whole(Put(s, k, p))
<1>1. /\ Only(s, Put(s, k, p), {"pkts"}) /\ Formed(Put(s, k, p))
      /\ \A j \in Slots : j = k \/ Put(s, k, p).pkts[j] = s.pkts[j]
      /\ k \in Slots => Put(s, k, p).pkts[k] = p
  BY PutAny DEF Whole
<1> DEFINE t == Put(s, k, p)
<1> HIDE DEF t
<1>2. /\ Only(s, t, {"pkts"}) /\ Formed(t)
      /\ \A j \in Slots : j = k \/ t.pkts[j] = s.pkts[j]
      /\ k \in Slots => t.pkts[k] = p
  BY <1>1 DEF t
<1>3. Whole(t)
  BY <1>2, PktsWhole
<1> QED  BY <1>3 DEF t

LEMMA RangedPlace ==
  /\ Ranged \in Slots /\ Ranged # Single /\ ~(Ranged < SeqSlots)
  /\ Ping \in Slots /\ Ping # Single /\ ~(Ping < SeqSlots)
BY SettingsAssumption DEF Slots, Ranged, Ping, Single

(* A field of the RANGE packet.                                            *)
LEMMA RangedFieldWhole ==
  ASSUME NEW s, Whole(s), NEW f, NEW v
  PROVE  Whole([s EXCEPT !.pkts[Ranged][f] = v])
<1> DEFINE p == [s.pkts[Ranged] EXCEPT ![f] = v]
<1>1. [s EXCEPT !.pkts[Ranged][f] = v] = Put(s, Ranged, p)
  BY DEF Put
<1>2. Packet(p)
  BY RangedPlace DEF Whole, Formed, Packet, IsFcn
<1> HIDE DEF p
<1>3. Whole(Put(s, Ranged, p))
  BY <1>2, RangedPlace, SlotWhole
<1> QED  BY <1>1, <1>3

Loosely == Dims \ (Ports \cup {"vlan", "cos", "tos"})
LEMMA LooselyBounded ==
  ASSUME NEW d \in Loosely, NEW what, NEW v PROVE Bounded(d, what, v)
BY DEF Loosely, Bounded
LEMMA Loose5 ==
  {"dst mac", "src mac", "dst ip", "src ip", "size", "teid"} \subseteq Loosely
BY Zenon DEF Loosely, Dims, Ports

LEMMA LooseRangesWhole ==
  ASSUME NEW s, Whole(s), NEW d \in {"dst mac", "src mac", "dst ip", "src ip"},
         NEW what, NEW v
  PROVE  /\ Whole(RangeMac(s, d, what, v)) /\ Whole(RangeIp(s, d, what, v))
         /\ Whole(RangeSize(s, what, v)) /\ Whole(RangeTeid(s, what, v))
<1>1. \A e \in Loosely : \A x : Whole(SetSpan(s, e, what, x))
  BY SpanWhole, LooselyBounded
<1>2. d \in Loosely /\ "size" \in Loosely /\ "teid" \in Loosely
  BY Loose5, Zenon
<1>3. Whole(RangeMac(s, d, what, v))
  <2> DEFINE t == SetSpan(s, d, what, v)
             f == IF d = "dst mac" THEN "dstMac" ELSE "srcMac"
  <2>1. Whole(t)
    BY <1>1, <1>2
  <2> HIDE DEF t, f
  <2>2. Whole([t EXCEPT !.pkts[Ranged][f] = v])
    BY <2>1, RangedFieldWhole
  <2> QED  BY <2>1, <2>2 DEF RangeMac, t, f
<1>4. Whole(RangeTeid(s, what, v))
  <2>1. \A x : Whole(SetSpan(s, "teid", what, x))
    BY <1>1, <1>2
  <2> DEFINE t == SetSpan(s, "teid", what, v)
  <2>2. Whole(t)
    BY <2>1
  <2> HIDE DEF t
  <2>3. Whole([t EXCEPT !.pkts[Ranged]["teid"] = v])
    BY <2>2, RangedFieldWhole
  <2>4. RangeTeid(s, what, v) \in {s, [t EXCEPT !.pkts[Ranged]["teid"] = v], t}
    <3>1. what = "start" => what # "inc"
      OBVIOUS
    <3> QED  BY <3>1 DEF RangeTeid, t
  <2> QED  BY <2>2, <2>3, <2>4
<1> QED  BY <1>1, <1>2, <1>3, <1>4 DEF RangeIp, RangeSize

LEMMA NumberBounds ==
  ASSUME NEW what, NEW n \in Nat
  PROVE  /\ \A d \in Ports : Bounded(d, what, CapInc(what, n % 2^16, 64))
         /\ Bounded("vlan", what, IF what = "inc" THEN Min({n, 64})
                                  ELSE IF n \in VlanIds THEN n ELSE 1)
         /\ Bounded("tos", what, n % 2^8)
         /\ Bounded("cos", what, CapInc(what, n % 2^8, 7))
<1>1. n % 2^16 \in Word /\ n % 2^8 \in Byte
  BY WordKept, ByteKept DEF W16
<1>2. \A m, c \in Nat : Min({m, c}) \in 0..c
  <2> SUFFICES ASSUME NEW m \in Nat, NEW c \in Nat PROVE Min({m, c}) \in 0..c
    OBVIOUS
  <2>1. Min({m, c}) = IF m <= c THEN m ELSE c
    BY MinOfTwo
  <2> HIDE DEF Min
  <2> QED  BY <2>1
<1>3. n % 2^16 \in Nat /\ n % 2^8 \in Nat
  BY <1>1 DEF Word, Byte
<1> DEFINE x == n % 2^16
           y == n % 2^8
<1> HIDE DEF x, y
<1>4. /\ x \in Word /\ x \in Nat /\ y \in Byte /\ y \in Nat
      /\ Min({x, 64}) \in 0..64 /\ Min({y, 7}) \in 0..7 /\ Min({n, 64}) \in 0..64
  BY <1>1, <1>2, <1>3 DEF x, y
<1>5. ASSUME NEW d \in Ports PROVE Bounded(d, what, CapInc(what, x, 64))
  <2>1. d # "vlan" /\ d # "cos" /\ d # "tos"
    BY Zenon DEF Ports
  <2> QED  BY <1>4, <2>1 DEF Bounded, CapInc
<1>6. "vlan" \notin Ports /\ "cos" \notin Ports /\ "tos" \notin Ports
  BY Zenon DEF Ports
<1>7. Bounded("vlan", what, IF what = "inc" THEN Min({n, 64})
                            ELSE IF n \in VlanIds THEN n ELSE 1)
  BY <1>4, <1>6 DEF Bounded, VlanIds
<1>8. Bounded("tos", what, y)
  BY <1>4, <1>6 DEF Bounded
<1>9. Bounded("cos", what, CapInc(what, y, 7))
  BY <1>4, <1>6 DEF Bounded, CapInc
<1> QED  BY <1>5, <1>7, <1>8, <1>9 DEF x, y

LEMMA NumberRangesWhole ==
  ASSUME NEW s, Whole(s), NEW what, NEW n \in Nat
  PROVE  /\ \A d \in Ports : Whole(RangePort(s, d, what, n))
         /\ Whole(RangeVlan(s, what, n)) /\ Whole(RangeTos(s, what, n))
         /\ Whole(RangeCos(s, what, n))
BY NumberBounds, SpanWhole DEF RangePort, RangeVlan, RangeTos, RangeCos

LEMMA RangeOthersWhole ==
  ASSUME NEW s, Whole(s), NEW v, NEW w
  PROVE  /\ v \in {"tcp", "udp", "icmp"} => Whole(RangeProto(s, v))
         /\ Whole(RangeQinq(s, v, w))
<1>1. ASSUME v \in {"tcp", "udp", "icmp"} PROVE Whole(RangeProto(s, v))
  <2> DEFINE t == RangeProto(s, v)
  <2>1. /\ Only(s, t, {"rangeProto", "pkts"}) /\ t.rangeProto = v
        /\ Table(t.pkts)
        /\ \A k \in Slots : k = Ranged \/ t.pkts[k] = s.pkts[k]
        /\ Packet(t.pkts[Ranged])
    BY RangeProtoOnly DEF Whole
  <2> HIDE DEF t
  <2>2. /\ t.flags = s.flags /\ t.macFromArp = s.macFromArp
        /\ t.range = s.range /\ DOMAIN t = FieldNames
    BY <2>1 DEF Only, FieldNames
  <2>3. Formed(t)
    BY <2>1, <2>2, RangedPlace DEF Whole, Formed
  <2>4. /\ t.pkts[Single] = s.pkts[Single]
        /\ \A k \in Slots : k < SeqSlots => t.pkts[k] = s.pkts[k]
    BY <2>1, RangedPlace, SlotFacts
  <2>5. Whole(t)
    BY <1>1, <2>1, <2>2, <2>3, <2>4 DEF Whole
  <2> QED  BY <2>5 DEF t
<1>2. RangeQinq(s, v, w) = [s EXCEPT !.pkts[Ranged]["qinq"] = <<v, w>>]
  BY DEF RangeQinq
<1> QED  BY <1>1, <1>2, RangedFieldWhole

LEMMA SeqWholeStep ==
  ASSUME NEW s, Whole(s), NEW k, ~(k >= SeqSlots), NEW q, q.size \in Nat
  PROVE  Whole(SetSeq(s, k, q))
<1> DEFINE p == s.pkts[k]
           z == (q.size - Fcs) % 2^16
           type == IF q.type = "ipv6" /\ q.proto /= "icmp" THEN "ipv6" ELSE "ipv4"
           r == [p EXCEPT !.dstMac = q.dstMac, !.srcMac = q.srcMac, !.mask = q.mask,
            !.srcIp = Stored(q.type, q.srcIp), !.dstIp = Stored(q.type, q.dstIp),
            !.sport = q.sport, !.dport = q.dport, !.proto = q.proto,
            !.ethType = type, !.size = z, !.vlanid = q.vlanid,
            !.teid = q.teid]
<1>1. SetSeq(s, k, q) = Put(s, k, r)
  BY DEF SetSeq, SeqPkt
<1>2. z \in Word
  <2>1. q.size - Fcs \in Int
    BY DEF Fcs
  <2> QED  BY <2>1, WordKept DEF W16
<1>3. type \in {"ipv4", "ipv6"} /\ (q.proto = "icmp" => type = "ipv4")
  OBVIOUS
<1> HIDE DEF z, type
<1>4. ASSUME Packet(p)
      PROVE  /\ Packet(r) /\ r.proto = q.proto /\ r.ethType = type
             /\ r.size = z /\ r.qinq = p.qinq /\ r.mpls = p.mpls /\ r.greKey = p.greKey
  BY <1>4 DEF PktFields, Packet, IsFcn
<1> HIDE DEF r
<1>5. k \in Slots => Packet(p) /\ (k < SeqSlots => SeqWhole(p))
  BY DEF Whole, Formed
<1>6. k \in Slots /\ k < SeqSlots => SeqWhole(r)
  BY <1>2, <1>3, <1>4, <1>5 DEF SeqWhole
<1>7. k # Single
  BY SettingsAssumption DEF Single
<1> HIDE DEF p
<1>8. Whole(Put(s, k, r))
  BY <1>4, <1>5, <1>6, <1>7, SlotWhole
<1> QED  BY <1>1, <1>8

LEMMA CosTosWhole ==
  ASSUME NEW s, Whole(s), NEW k, ~(k >= SeqSlots), NEW cos, NEW tos
  PROVE  Whole(SetSeqCosTos(s, k, cos, tos))
<1> DEFINE p == s.pkts[k]
           r == [p EXCEPT !.cos = cos, !.tos = tos]
<1>1. SetSeqCosTos(s, k, cos, tos) = Put(s, k, r)
  BY DEF SetSeqCosTos
<1>2. ASSUME Packet(p)
      PROVE  /\ Packet(r) /\ r.proto = p.proto /\ r.ethType = p.ethType
             /\ r.size = p.size /\ r.qinq = p.qinq /\ r.mpls = p.mpls
             /\ r.greKey = p.greKey
  BY <1>2 DEF PktFields, Packet, IsFcn
<1> HIDE DEF r
<1>3. k \in Slots => Packet(p) /\ (k < SeqSlots => SeqWhole(p))
  BY DEF Whole, Formed
<1>4. k \in Slots /\ k < SeqSlots => SeqWhole(r)
  BY <1>2, <1>3 DEF SeqWhole
<1>5. k # Single
  BY SettingsAssumption DEF Single
<1> HIDE DEF p
<1>6. Whole(Put(s, k, r))
  BY <1>2, <1>3, <1>4, <1>5, SlotWhole
<1> QED  BY <1>1, <1>6

LEMMA RequestWhole ==
  ASSUME NEW s, Whole(s), NEW g, NEW idx, NEW mask
  PROVE  Whole(Ping4(s)) /\ Whole(SendArp(s, g)) /\ Whole(Rnd(s, idx, mask))
<1>1. Whole(Ping4(s))
  <2> DEFINE p == [s.pkts[Single] EXCEPT !.proto = "icmp"]
  <2>1. Packet(p)
    BY SlotFacts DEF Whole, Formed, Packet, IsFcn
  <2> HIDE DEF p
  <2>2. Whole(Put(s, Ping, p))
    BY <2>1, RangedPlace, SlotWhole
  <2>3. Free({"SEND_PING4_REQUEST"})
    BY DEF Free
  <2>4. Whole(SetFlags(Put(s, Ping, p), {"SEND_PING4_REQUEST"}))
    BY <2>2, <2>3, SwitchWhole
  <2> QED  BY <2>4 DEF Ping4, p
<1>2. Whole(SendArp(s, g))
  <2>1. Free({"SEND_GRATUITOUS_ARP"}) /\ Free({"SEND_ARP_REQUEST"})
    BY DEF Free
  <2> QED  BY <2>1, SwitchWhole DEF SendArp
<1>3. Whole(Rnd(s, idx, mask))
  <2> DEFINE R == IF mask = "off" THEN s.rnd \ {idx} ELSE s.rnd \cup {idx}
             t == [s EXCEPT !.rnd = R]
  <2>1. Free({"SEND_RANDOM_PKTS"})
    BY DEF Free
  <2>2. Rnd(s, idx, mask) = Switch(t, t.rnd /= {}, {"SEND_RANDOM_PKTS"})
    BY DEF Rnd
  <2> HIDE DEF R
  <2>3. Only(s, t, {"rnd"})
    BY DEF Only, Whole, Formed, FieldNames
  <2>4. {"rnd"} \cap {"macFromArp", "flags", "rangeProto", "range", "pkts"} = {}
    OBVIOUS
  <2> HIDE DEF t
  <2>5. Whole(t)
    BY <2>3, <2>4, PlainWhole
  <2> QED  BY <2>1, <2>2, <2>5, SwitchWhole
<1> QED  BY <1>1, <1>2, <1>3

(* The first settings and those of a reset.                                *)
LEMMA DefaultPktWhole ==
  ASSUME NEW p, Packet(p), NEW m
  PROVE  /\ Packet(DefaultPkt(p, m))
         /\ IsPair(p.qinq) => SingleWhole(DefaultPkt(p, m))
         /\ p.qinq = ZeroPkt.qinq /\ p.mpls = ZeroPkt.mpls /\ p.greKey = ZeroPkt.greKey
              => SeqWhole(DefaultPkt(p, m))
         /\ DefaultPkt(p, m).vlanid = 1 /\ DefaultPkt(p, m).cos = 0
         /\ DefaultPkt(p, m).tos = 0
<1> DEFINE r == DefaultPkt(p, m)
<1>1. /\ Packet(r) /\ r.qinq = p.qinq /\ r.mpls = p.mpls
      /\ r.greKey = p.greKey /\ r.ethType = "ipv4" /\ r.size = MinSize
      /\ r.sport = 1234 /\ r.dport = 5678 /\ r.vlanid = 1 /\ r.cos = 0 /\ r.tos = 0
  <2>1. Packet(r)
    <3> DEFINE size == MinSize  sport == 1234  dport == 5678  proto == "tcp"
               type == "ipv4"  id == 1  none == 0  mask == 24
               t == [p EXCEPT !.size = size, !.sport = sport, !.dport = dport,
                       !.proto = proto, !.ethType = type, !.vlanid = id,
                       !.cos = none, !.tos = none, !.mask = mask,
                       !.srcIp = SrcIp, !.dstIp = DstIp, !.dstMac = m]
    <3>1. r = t
      BY DEF DefaultPkt
    <3> HIDE DEF size, sport, dport, proto, type, id, none, mask
    <3>2. Packet(t)
      BY DEF PktFields, Packet, IsFcn
    <3> HIDE DEF r, t
    <3> QED  BY <3>1, <3>2
  <2>2. /\ "qinq" \in DOMAIN p /\ "mpls" \in DOMAIN p /\ "greKey" \in DOMAIN p
        /\ "ethType" \in DOMAIN p /\ "size" \in DOMAIN p /\ "sport" \in DOMAIN p
        /\ "dport" \in DOMAIN p /\ "vlanid" \in DOMAIN p /\ "cos" \in DOMAIN p
        /\ "tos" \in DOMAIN p
    BY DEF PktFields, Packet
  <2>3. r.qinq = p.qinq /\ r.mpls = p.mpls /\ r.greKey = p.greKey
    BY <2>2 DEF DefaultPkt
  <2>4. r.ethType = "ipv4" /\ r.size = MinSize
    BY <2>2 DEF DefaultPkt
  <2>5. r.sport = 1234 /\ r.dport = 5678
    BY <2>2 DEF DefaultPkt
  <2>6. r.vlanid = 1 /\ r.cos = 0 /\ r.tos = 0
    BY <2>2 DEF DefaultPkt
  <2> QED  BY <2>1, <2>3, <2>4, <2>5, <2>6
<1> HIDE DEF r
<1>2. 1234 \in Word /\ 5678 \in Word /\ MinSize \in Word
  BY DEF Word, W16, MinSize
<1>3. IsPair(p.qinq) => SingleWhole(r)
  BY <1>1, <1>2 DEF SingleWhole
<1>4. p.qinq = ZeroPkt.qinq /\ p.mpls = ZeroPkt.mpls /\ p.greKey = ZeroPkt.greKey
        => SeqWhole(r)
  BY <1>1, <1>2 DEF SeqWhole
<1>5. r = DefaultPkt(p, m)
  BY DEF r
<1> QED  BY <1>1, <1>3, <1>4, <1>5

(* The same without what ranges hold: a port before its first set-up.      *)
Almost(s) ==
  /\ Formed(s) /\ s.macFromArp \in BOOLEAN /\ FlagsKept(s.flags)
  /\ s.rangeProto \in {"tcp", "udp", "icmp"}
  /\ DOMAIN s.range = Dims /\ IsFcn(s.range) /\ \A d \in Dims : IsSpan(s.range[d])
  /\ SingleWhole(s.pkts[Single])
  /\ \A k \in Slots : k < SeqSlots => SeqWhole(s.pkts[k])

LEMMA WholeAlmost == ASSUME NEW s, Whole(s) PROVE Almost(s)
BY DEF Whole, Almost, RangesKept

LEMMA PortDefaultsAlmost ==
  ASSUME NEW s, Almost(s)
  PROVE  /\ Almost(PortDefaults(s)) /\ PortDefaults(s).pkts[Single].vlanid = 1
         /\ PortDefaults(s).pkts[Single].cos = 0 /\ PortDefaults(s).pkts[Single].tos = 0
<1> DEFINE pkts == [k \in Slots |-> DefaultPkt(s.pkts[k], PeerMac)]
           t == [s EXCEPT !.pkts = pkts,
                          !.count = 0, !.rate = Default.rate, !.burst = MaxBurst,
                          !.seqCnt = 0, !.prime = 1]
<1>1. PortDefaults(s) = Paced(t)
  BY DEF PortDefaults
<1>2. /\ Table(pkts)
      /\ \A k \in Slots : pkts[k] = DefaultPkt(s.pkts[k], PeerMac)
  BY DEF Table, IsFcn
<1> HIDE DEF pkts
<1>3. /\ Only(s, t, {"pkts", "count", "rate", "burst", "seqCnt", "prime"})
      /\ t.pkts = pkts
  BY DEF Only, Almost, Formed, FieldNames
<1> HIDE DEF t
<1>4. /\ t.macFromArp = s.macFromArp /\ t.flags = s.flags
      /\ t.rangeProto = s.rangeProto /\ t.range = s.range /\ DOMAIN t = FieldNames
  BY <1>3 DEF Only, FieldNames
<1>5. Formed(t)
  BY <1>2, <1>3, <1>4, DefaultPktWhole DEF Almost, Formed
<1>6. /\ SingleWhole(t.pkts[Single]) /\ t.pkts[Single].vlanid = 1
      /\ t.pkts[Single].cos = 0 /\ t.pkts[Single].tos = 0
  <2>1. IsPair(s.pkts[Single].qinq)
    BY DEF Almost, SingleWhole
  <2> QED  BY <1>2, <1>3, <2>1, SlotFacts, DefaultPktWhole DEF Almost, Formed
<1>7. ASSUME NEW k \in Slots, k < SeqSlots PROVE SeqWhole(t.pkts[k])
  <2>1. SeqWhole(s.pkts[k]) /\ Packet(s.pkts[k])
    BY <1>7 DEF Almost, Formed
  <2>2. SeqWhole(DefaultPkt(s.pkts[k], PeerMac))
    BY <2>1, DefaultPktWhole DEF SeqWhole
  <2> QED  BY <1>2, <1>3, <2>2
<1>8. Almost(t)
  BY <1>4, <1>5, <1>6, <1>7 DEF Almost
<1>9. Only(t, Paced(t), {})
  BY <1>4, PacedOnly
<1> DEFINE u == Paced(t)
<1> HIDE DEF u
<1>10. /\ u.macFromArp = t.macFromArp /\ u.flags = t.flags
       /\ u.rangeProto = t.rangeProto /\ u.range = t.range /\ u.pkts = t.pkts
       /\ DOMAIN u = FieldNames
  BY <1>9 DEF Only, FieldNames, u
<1>11. Almost(u)
  BY <1>8, <1>10 DEF Almost, Formed
<1> QED  BY <1>1, <1>6, <1>10, <1>11 DEF u

LEMMA SpanShape ==
  ASSUME NEW start, NEW min, NEW max, NEW inc
  PROVE  LET x == Span(start, min, max, inc) IN
         /\ IsSpan(x) /\ x["start"] = start /\ x["min"] = min /\ x["max"] = max
         /\ x["inc"] = inc
BY DEF Span, IsSpan, Smmi

LEMMA FirstSpans ==
  ASSUME NEW s
  PROVE  /\ \A d \in Ports : FirstSpan(s, d) = Span(0, 0, 254, 1)
         /\ FirstSpan(s, "vlan") = Span(s.pkts[Single].vlanid, 1, 4095, 0)
         /\ FirstSpan(s, "cos") = Span(s.pkts[Single].cos, 0, 7, 0)
         /\ FirstSpan(s, "tos") = Span(s.pkts[Single].tos, 0, 255, 0)
         /\ \A d \in Loosely : IsSpan(s.range[d]) => IsSpan(FirstSpan(s, d))
<1> DEFINE IpSpan(ip, inc) == Span(ip, ip, <<ip[1], ip[2], ip[3], 254>>, inc)
<1>1. FirstSpan(s, "dst mac") = Span(s.pkts[Single].dstMac, 0, 0, 0)
  BY DEF FirstSpan
<1>2. FirstSpan(s, "src mac") = Span(s.pkts[Single].srcMac, 0, 0, 0)
  BY DEF FirstSpan
<1>3. FirstSpan(s, "size") = Span(MinSize, MinSize, MaxSize, 0)
  BY DEF FirstSpan
<1>4. FirstSpan(s, "dst port") = Span(0, 0, 254, 1)
  BY DEF FirstSpan
<1>5. FirstSpan(s, "src port") = Span(0, 0, 254, 1)
  BY DEF FirstSpan
<1>6. FirstSpan(s, "vlan") = Span(s.pkts[Single].vlanid, 1, 4095, 0)
  BY DEF FirstSpan
<1>7. FirstSpan(s, "cos") = Span(s.pkts[Single].cos, 0, 7, 0)
  BY DEF FirstSpan
<1>8. FirstSpan(s, "tos") = Span(s.pkts[Single].tos, 0, 255, 0)
  BY DEF FirstSpan
<1>9. FirstSpan(s, "teid") = s.range["teid"]
  BY DEF FirstSpan
<1>10. FirstSpan(s, "dst ip") = IpSpan(DstIp, <<0, 0, 0, 1>>)
  BY DEF FirstSpan
<1>11. FirstSpan(s, "src ip") = IpSpan(SrcIp, Default.ip)
  BY DEF FirstSpan
<1>12. \A start, min, max, inc : IsSpan(Span(start, min, max, inc))
  BY SpanShape
<1>13. \A d \in Ports : FirstSpan(s, d) = Span(0, 0, 254, 1)
  BY <1>4, <1>5, Zenon DEF Ports
<1>14. /\ IsSpan(FirstSpan(s, "dst ip")) /\ IsSpan(FirstSpan(s, "src ip"))
       /\ IsSpan(FirstSpan(s, "dst mac")) /\ IsSpan(FirstSpan(s, "src mac"))
       /\ IsSpan(FirstSpan(s, "size"))
  <2>1. IsSpan(FirstSpan(s, "dst ip")) /\ IsSpan(FirstSpan(s, "src ip"))
    BY <1>10, <1>11, <1>12
  <2>2. IsSpan(FirstSpan(s, "dst mac")) /\ IsSpan(FirstSpan(s, "src mac"))
    BY <1>1, <1>2, <1>12
  <2>3. IsSpan(FirstSpan(s, "size"))
    BY <1>3, <1>12
  <2> QED  BY <2>1, <2>2, <2>3, Zenon
<1>15. \A d \in Loosely : d \in {"dst ip", "src ip", "dst mac", "src mac", "size", "teid"}
  BY Zenon DEF Loosely, Ports, Dims
<1>16. \A d \in Loosely : IsSpan(s.range[d]) => IsSpan(FirstSpan(s, d))
  BY <1>9, <1>14, <1>15, Zenon
<1> QED  BY <1>6, <1>7, <1>8, <1>13, <1>16

LEMMA FirstSpanWhole ==
  ASSUME NEW s, NEW d \in Dims, IsSpan(s.range[d]), s.pkts[Single].vlanid = 1,
         s.pkts[Single].cos = 0, s.pkts[Single].tos = 0
  PROVE  IsSpan(FirstSpan(s, d)) /\ \A what \in Smmi : Bounded(d, what, FirstSpan(s, d)[what])
<1> DEFINE x == FirstSpan(s, d)
<1>1. \A start, min, max, inc :
        LET y == Span(start, min, max, inc) IN
        /\ IsSpan(y) /\ y["start"] = start /\ y["min"] = min /\ y["max"] = max
        /\ y["inc"] = inc
  BY SpanShape
<1>3. CASE d \in Loosely
  <2>1. \A what, v : Bounded(d, what, v)
    BY <1>3, LooselyBounded
  <2>3. IsSpan(x)
    BY <1>3, FirstSpans
  <2> QED  BY <2>1, <2>3
<1>4. ASSUME d \in Ports PROVE IsSpan(x) /\ \A what \in Smmi : Bounded(d, what, x[what])
  <2>1. x = Span(0, 0, 254, 1)
    BY <1>4, FirstSpans
  <2>2. /\ IsSpan(x) /\ x["start"] = 0 /\ x["min"] = 0 /\ x["max"] = 254 /\ x["inc"] = 1
    BY <1>1, <2>1
  <2>3. 0 \in Word /\ 254 \in Word
    BY DEF Word, W16
  <2>4. d \notin {"vlan", "cos", "tos"}
    BY <1>4, Zenon DEF Ports
  <2> HIDE DEF x
  <2> QED  BY <2>2, <2>3, <2>4 DEF Bounded, Smmi
<1>5. ASSUME d = "vlan" PROVE IsSpan(x) /\ \A what \in Smmi : Bounded(d, what, x[what])
  <2>1. x = Span(1, 1, 4095, 0)
    BY <1>5, FirstSpans
  <2>2. /\ IsSpan(x) /\ x["start"] = 1 /\ x["min"] = 1 /\ x["max"] = 4095 /\ x["inc"] = 0
    BY <1>1, <2>1
  <2>3. d \notin Ports
    BY <1>5 DEF Ports
  <2> HIDE DEF x
  <2> QED  BY <1>5, <2>2, <2>3 DEF Bounded, Smmi, VlanIds
<1>6. ASSUME d = "cos" PROVE IsSpan(x) /\ \A what \in Smmi : Bounded(d, what, x[what])
  <2>1. x = Span(0, 0, 7, 0)
    BY <1>6, FirstSpans
  <2>2. /\ IsSpan(x) /\ x["start"] = 0 /\ x["min"] = 0 /\ x["max"] = 7 /\ x["inc"] = 0
    BY <1>1, <2>1
  <2>3. d \notin Ports
    BY <1>6 DEF Ports
  <2> HIDE DEF x
  <2> QED  BY <1>6, <2>2, <2>3 DEF Bounded, Smmi, Byte
<1>7. ASSUME d = "tos" PROVE IsSpan(x) /\ \A what \in Smmi : Bounded(d, what, x[what])
  <2>1. x = Span(0, 0, 255, 0)
    BY <1>7, FirstSpans
  <2>2. /\ IsSpan(x) /\ x["start"] = 0 /\ x["min"] = 0 /\ x["max"] = 255 /\ x["inc"] = 0
    BY <1>1, <2>1
  <2>3. d \notin Ports
    BY <1>7 DEF Ports
  <2> HIDE DEF x
  <2> QED  BY <1>7, <2>2, <2>3 DEF Bounded, Smmi, Byte
<1>8. d \in Loosely \/ d \in Ports \/ d = "vlan" \/ d = "cos" \/ d = "tos"
  BY DEF Loosely
<1> QED  BY <1>3, <1>4, <1>5, <1>6, <1>7, <1>8

LEMMA RangeSetupWhole ==
  ASSUME NEW s, Almost(s), s.pkts[Single].vlanid = 1,
         s.pkts[Single].cos = 0, s.pkts[Single].tos = 0
  PROVE  Whole(RangeSetup(s))
<1> DEFINE r == [d \in Dims |-> FirstSpan(s, d)]
           t == [s EXCEPT !.range = r, !.rangeProto = "tcp"]
           u == [t EXCEPT !.pkts[Ranged]["size"] = MinSize]
<1>1. RangeSetup(s) = u
  BY DEF RangeSetup
<1>2. RangesKept(r)
  <2>1. IsFcn(r)
    BY DEF IsFcn
  <2> QED  BY <2>1, FirstSpanWhole DEF RangesKept, Almost
<1> HIDE DEF r
<1>3. /\ t.range = r /\ t.rangeProto = "tcp" /\ t.macFromArp = s.macFromArp
      /\ t.flags = s.flags /\ t.pkts = s.pkts /\ DOMAIN t = FieldNames
  BY DEF Almost, Formed, FieldNames
<1> HIDE DEF t
<1>4. Whole(t)
  BY <1>2, <1>3 DEF Whole, Almost, Formed
<1>5. Whole(u)
  BY <1>4, RangedFieldWhole
<1> QED  BY <1>1, <1>5

LEMMA ResetWhole == ASSUME NEW s, Whole(s) PROVE Whole(Reset(s))
<1> DEFINE a == [s EXCEPT !.macFromArp = FALSE]
           b == PortDefaults(a)
           t == RangeSetup(b)
           F == {"SEND_RANGE_PKTS", "SEND_SEQ_PKTS"}
           u == ClrFlags(t, F)
           none == {}
           v == [u EXCEPT !.rnd = none, !.seqCnt = 0]
<1>1. Whole(a)
  <2>1. a = EnableMacFromArp(s, FALSE)
    BY DEF EnableMacFromArp
  <2> QED  BY <2>1, MacFromArpWhole
<1> HIDE DEF a
<1>2. Whole(t)
  BY <1>1, WholeAlmost, PortDefaultsAlmost, RangeSetupWhole
<1>3. Reset(s) = Paced(v)
  BY DEF Reset, a, none
<1> HIDE DEF t
<1>4. Whole(u)
  BY <1>2, SwitchWhole DEF Free
<1> HIDE DEF u, none
<1>5. Only(u, v, {"rnd", "seqCnt"})
  BY <1>4 DEF Only, Whole, Formed, FieldNames
<1>6. /\ {"rnd", "seqCnt"} \cap {"macFromArp", "flags", "rangeProto", "range", "pkts"} = {}
      /\ {} \cap {"macFromArp", "flags", "rangeProto", "range", "pkts"} = {}
  OBVIOUS
<1> HIDE DEF v
<1>7. Whole(v)
  BY <1>4, <1>5, <1>6, PlainWhole
<1>8. Only(v, Paced(v), {})
  BY <1>7, PacedOnly DEF Whole, Formed
<1> QED  BY <1>3, <1>6, <1>7, <1>8, PlainWhole

LEMMA FreshWhole == Whole(Fresh)
<1> DEFINE zero == [ZeroPkt EXCEPT !.srcMac = SrcMac]
           none == Span(0, 0, 0, 0)
           pkts == [k \in Slots |-> IF k <= Single THEN zero ELSE ZeroPkt]
           range == [d \in Dims |-> none]
           z == [flags |-> {}, macFromArp |-> FALSE, count |-> 0, rate |-> 0,
                 pps |-> 0, cycles |-> 0, burst |-> 0, prime |-> 0,
                 seqCnt |-> 0, rangeProto |-> "tcp", range |-> range, jitter |-> 50,
                 fill |-> "abc", user |-> "0123456789abcdef", rnd |-> {},
                 pkts |-> pkts]
<1>1. Fresh = RangeSetup(PortDefaults(z))
  BY DEF Fresh
<1>2. \A p \in {ZeroPkt, zero} :
        Packet(p) /\ SingleWhole(p) /\ SeqWhole(p)
  <2>1. 0 \in Word
    BY DEF Word, W16
  <2>2. Packet(ZeroPkt)
    BY DEF ZeroPkt, PktFields, Packet, IsFcn
  <2>3. SingleWhole(ZeroPkt) /\ SeqWhole(ZeroPkt)
    BY <2>1 DEF ZeroPkt, SingleWhole, SeqWhole, IsPair
  <2>4. /\ Packet(zero) /\ zero.ethType = ZeroPkt.ethType
        /\ zero.proto = ZeroPkt.proto /\ zero.size = ZeroPkt.size
        /\ zero.qinq = ZeroPkt.qinq /\ zero.mpls = ZeroPkt.mpls
        /\ zero.greKey = ZeroPkt.greKey /\ zero.sport = ZeroPkt.sport
        /\ zero.dport = ZeroPkt.dport
    BY <2>2 DEF PktFields, Packet, IsFcn
  <2> HIDE DEF zero
  <2>5. SingleWhole(zero) /\ SeqWhole(zero)
    BY <2>3, <2>4 DEF SingleWhole, SeqWhole
  <2> QED  BY <2>2, <2>3, <2>4, <2>5
<1> HIDE DEF zero
<1>3. /\ Table(pkts)
      /\ \A k \in Slots : Packet(pkts[k]) /\ SingleWhole(pkts[k])
                                                   /\ SeqWhole(pkts[k])
  <2>1. Table(pkts)
    BY DEF Table, IsFcn
  <2> QED  BY <1>2, <2>1
<1> HIDE DEF pkts
<1>4. DOMAIN range = Dims /\ IsFcn(range) /\ \A d \in Dims : IsSpan(range[d])
  <2>1. IsFcn(range)
    BY DEF IsFcn
  <2> QED  BY <2>1, SpanShape
<1> HIDE DEF range
<1>5. /\ DOMAIN z = FieldNames /\ z.pkts = pkts /\ z.range = range
      /\ z.macFromArp = FALSE /\ z.flags = {} /\ z.rangeProto = "tcp"
  BY DEF FieldNames
<1> HIDE DEF z
<1>6. FlagsKept({})
  BY DEF FlagsKept
<1>7. Almost(z)
  BY <1>3, <1>4, <1>5, <1>6, SlotFacts DEF Almost, Formed
<1> QED  BY <1>1, <1>7, PortDefaultsAlmost, RangeSetupWhole
-----------------------------------------------------------------------------
(* The command line keeps settings whole.                                  *)
LEMMA SetCmdWhole ==
  ASSUME NEW s, Whole(s), NEW what, NEW v, what \in {"sport", "dport"} => v \in Nat
  PROVE  Whole(SetCmd(s, what, v))
<1>1. /\ Whole(SetTxCount(s, v)) /\ Whole(SetTxRate(s, v)) /\ Whole(SetPps(s, v))
      /\ Whole(SetTxBurst(s, v)) /\ Whole(SetTxCycles(s, v)) /\ Whole(SetPrime(s, v))
      /\ Whole(SetJitter(s, v)) /\ Whole(SetPattern(s, v))
      /\ \A x : Whole(SetUserPattern(s, x))
  BY CountsWhole
<1>2. \A x, w : /\ Whole(SetVlanId(s, v)) /\ Whole(SetCos(s, v)) /\ Whole(SetTos(s, v))
                /\ Whole(SetDstMac(s, v)) /\ Whole(SetSrcMac(s, v))
                /\ Whole(SetDstIp(s, v)) /\ Whole(SetSrcIp(s, x, w))
                /\ Whole(SetPktSize(s, x)) /\ Whole(SetQinq(s, x, w))
  BY SingleSettersWhole
<1>3. /\ v \in Nat => Whole(SetPort(s, "sport", v)) /\ Whole(SetPort(s, "dport", v))
      /\ Whole(SetProto(s, v)) /\ Whole(SetPktType(s, v))
  BY HeaderWhole
<1>4. Whole(SetSeqCnt(s, v))
  BY EnablesWhole
<1>5. what \in {"sport", "dport"} => Whole(SetPort(s, what, v))
  BY <1>3
<1> QED  BY <1>1, <1>2, <1>3, <1>4, <1>5 DEF SetCmd

LEMMA RangeDimWhole ==
  ASSUME NEW s, Whole(s), NEW d, NEW what, NEW v,
         d \in Ports \cup {"vlan", "cos", "tos"} => v \in Nat
  PROVE  Whole(RangeDim(s, d, what, v))
<1>1. \A e \in {"dst mac", "src mac", "dst ip", "src ip"} :
        Whole(RangeMac(s, e, what, v)) /\ Whole(RangeIp(s, e, what, v))
  BY LooseRangesWhole
<1>2. Whole(RangeSize(s, what, ValidSize(s, v)))
  BY LooseRangesWhole
<1>3. v \in Nat => /\ \A e \in Ports : Whole(RangePort(s, e, what, v))
                   /\ Whole(RangeVlan(s, what, v)) /\ Whole(RangeTos(s, what, v))
                   /\ Whole(RangeCos(s, what, v))
  BY NumberRangesWhole
<1> QED  BY <1>1, <1>2, <1>3 DEF RangeDim, Ports

LEMMA RangeAllWhole ==
  ASSUME NEW s, Whole(s), NEW d, NEW v,
         d \in Ports \cup {"vlan", "cos", "tos"} => \A n \in 1..4 : v[n] \in Nat
  PROVE  Whole(RangeAll(s, d, v))
<1> DEFINE a == RangeDim(s, d, "start", v[1])
           b == RangeDim(a, d, "min", v[2])
           c == RangeDim(b, d, "max", v[3])
           e == RangeDim(c, d, "inc", v[4])
           D == Ports \cup {"vlan", "cos", "tos"}
<1>1. d \in D => v[1] \in Nat /\ v[2] \in Nat /\ v[3] \in Nat /\ v[4] \in Nat
  OBVIOUS
<1> HIDE DEF D
<1>2. \A t, what, x : Whole(t) /\ (d \in D => x \in Nat) => Whole(RangeDim(t, d, what, x))
  BY RangeDimWhole DEF D
<1>3. Whole(a)
  BY <1>1, <1>2
<1> HIDE DEF a
<1>4. Whole(b)
  BY <1>1, <1>2, <1>3
<1> HIDE DEF b
<1>5. Whole(c)
  BY <1>1, <1>2, <1>4
<1> HIDE DEF c
<1>6. Whole(e)
  BY <1>1, <1>2, <1>5
<1> QED  BY <1>6 DEF RangeAll, a, b, c

LEMMA RangeOtherWhole ==
  ASSUME NEW s, Whole(s), NEW what, NEW v PROVE Whole(RangeOther(s, what, v))
<1>1. Whole(SetMpls(s, v)) /\ Whole(SetGreKey(s, v))
  BY SingleSettersWhole
<1>2. v \in {"tcp", "udp"} => Whole(RangeProto(s, v))
  BY RangeOthersWhole
<1>3. Whole(RangeQinq(s, v[1], v[2]))
  BY RangeOthersWhole
<1> QED  BY <1>1, <1>2, <1>3, Zenon DEF RangeOther

LEMMA LooseWhole ==
  ASSUME NEW s, Whole(s), NEW on
  PROVE  /\ Whole(Switch(s, on, {"PROCESS_INPUT_PKTS"}))
         /\ Whole(Switch(s, on, {"SEND_RANDOM_PKTS"}))
         /\ Whole(Switch(s, on, {"SEND_LATENCY_PKTS"}))
         /\ Whole(Switch(s, on, {"ICMP_ECHO_ENABLE_FLAG"}))
         /\ Whole(Switch(s, on, {"CAPTURE_PKTS"}))
         /\ Whole(Switch(s, on, {"BONDING_TX_PACKETS"}))
         /\ Whole(Switch(s, on, {"SEND_SHORT_PACKETS"}))
         /\ Whole(EnableTap(s, on, "PROCESS_RX_TAP_PKTS"))
         /\ Whole(EnableTap(s, on, "PROCESS_TX_TAP_PKTS"))
<1>1. /\ Free({"PROCESS_INPUT_PKTS"}) /\ Free({"SEND_RANDOM_PKTS"})
      /\ Free({"SEND_LATENCY_PKTS"}) /\ Free({"ICMP_ECHO_ENABLE_FLAG"})
      /\ Free({"CAPTURE_PKTS"}) /\ Free({"BONDING_TX_PACKETS"})
      /\ Free({"SEND_SHORT_PACKETS"})
  BY DEF Free
<1>2. \A F : Free(F) => Whole(Switch(s, on, F))
  BY SwitchWhole
<1>3. /\ Whole(EnableTap(s, on, "PROCESS_RX_TAP_PKTS"))
      /\ Whole(EnableTap(s, on, "PROCESS_TX_TAP_PKTS"))
  BY TapWhole
<1> QED  BY <1>1, <1>2, <1>3

LEMMA EnableWhole ==
  ASSUME NEW s, Whole(s), NEW what, NEW on \in BOOLEAN PROVE Whole(Enable(s, what, on))
<1>1. Whole(EnableMacFromArp(s, on))
  BY MacFromArpWhole
<1>2. /\ Whole(EnableGarp(s, on)) /\ Whole(EnableVlan(s, on)) /\ Whole(EnableMpls(s, on))
      /\ Whole(EnableQinq(s, on)) /\ Whole(EnableGre(s, on))
      /\ Whole(EnableGreEth(s, on)) /\ Whole(EnableRange(s, on))
      /\ Whole(EnablePcap(s, on))
  BY EnablesWhole
<1> QED  BY <1>1, <1>2, LooseWhole DEF Enable

LEMMA RunWhole ==
  ASSUME NEW s, Whole(s), NEW line, Numeric(line), Typed(line)
  PROVE  Whole(Run(s, line))
<1>1. line[1] = "set" => Whole(SetCmd(s, line[2], line[3]))
  BY SetCmdWhole DEF Typed
<1>2. line[1] = "range" /\ Len(line) = 4 => Whole(RangeDim(s, line[2], line[3], line[4]))
  <2>1. line[1] = "range" /\ Len(line) = 4 /\ line[2] \in Ports \cup {"vlan", "cos", "tos"}
          => line[4] \in Nat
    BY Zenon DEF Typed, Ports
  <2> QED  BY <2>1, RangeDimWhole
<1>3. line[1] = "range" /\ Len(line) = 3 => Whole(RangeAll(s, line[2], line[3]))
  <2>1. 3 # 4
    OBVIOUS
  <2>2. line[1] = "range" /\ Len(line) = 3 /\ line[2] \in Ports \cup {"vlan", "cos", "tos"}
          => \A n \in 1..4 : line[3][n] \in Nat
    BY <2>1, Zenon DEF Typed, Ports
  <2> QED  BY <2>2, RangeAllWhole
<1>4. Whole(RangeOther(s, line[2], line[3]))
  BY RangeOtherWhole
<1>5. line[1] = "seq" => Whole(SeqCmd(s, line[2], line[3]))
  BY SeqWholeStep DEF SeqCmd, Numeric
<1>6. Whole(SeqCosTos(s, line[2], line[3], line[4]))
  BY CosTosWhole DEF SeqCosTos
<1>7. Whole(Enable(s, line[2], line[1] = "enable"))
  BY EnableWhole
<1>8. Whole(Misc(s, line[2]))
  BY RequestWhole, ResetWhole DEF Misc
<1> QED  BY <1>1, <1>2, <1>3, <1>4, <1>5, <1>6, <1>7, <1>8 DEF Run
-----------------------------------------------------------------------------
(* And so does the Lua library.                                            *)
LEMMA LuaEnableWhole ==
  ASSUME NEW s, Whole(s), NEW f \in Switches, NEW on \in BOOLEAN
  PROVE  Whole(EnableCall(s, f, on))
<1>1. Whole(EnableMacFromArp(s, on))
  BY MacFromArpWhole
<1>2. /\ Whole(EnableGarp(s, on)) /\ Whole(EnableVlan(s, on)) /\ Whole(EnableMpls(s, on))
      /\ Whole(EnableQinq(s, on)) /\ Whole(EnableGre(s, on))
      /\ Whole(EnableGreEth(s, on)) /\ Whole(EnableRange(s, on))
      /\ Whole(EnablePcap(s, on))
  BY EnablesWhole
<1>3. f \in TagSwitches => Whole(TagSwitch(s, f, on))
  BY <1>2 DEF TagSwitch, TagSwitches
<1>4. f \in ModeSwitches => Whole(ModeSwitch(s, f, on))
  BY LooseWhole DEF ModeSwitch, ModeSwitches
<1>5. f \in TapSwitches => Whole(TapSwitch(s, f, on))
  BY <1>2, LooseWhole DEF TapSwitch, TapSwitches
<1> QED  BY <1>1, <1>2, <1>3, <1>4, <1>5, LooseWhole DEF EnableCall, Switches

LEMMA LuaSetWhole ==
  ASSUME NEW s, Whole(s), NEW what \in SetWords, NEW v,
         what \in {"sport", "dport"} => v \in Nat
  PROVE  Whole(SetValue(s, what, v))
<1>1. /\ Whole(SetTxCount(s, v)) /\ Whole(SetTxRate(s, v))
      /\ Whole(SetTxBurst(s, v)) /\ Whole(SetTxCycles(s, v)) /\ Whole(SetPrime(s, v))
  BY CountsWhole
<1>2. Whole(SetPktSize(s, v)) /\ Whole(SetSeqCnt(s, v))
  BY SingleSettersWhole, EnablesWhole
<1>3. what \in {"sport", "dport"} => Whole(SetPort(s, what, v))
  BY HeaderWhole
<1> QED  BY <1>1, <1>2, <1>3 DEF SetValue, SetWords

LEMMA LuaSingleWhole ==
  ASSUME NEW s, Whole(s), NEW call, Accepts(call), Typed(call),
         call[1] \in SingleFunctions
  PROVE  Whole(SingleCall(s, call))
<1>1. \A x, w : /\ Whole(SetVlanId(s, x)) /\ Whole(SetCos(s, x)) /\ Whole(SetTos(s, x))
                /\ Whole(SetMpls(s, x)) /\ Whole(SetGreKey(s, x))
                /\ Whole(SetDstMac(s, x)) /\ Whole(SetDstIp(s, x))
                /\ Whole(SetSrcIp(s, x, w)) /\ Whole(SetQinq(s, x, w))
  BY SingleSettersWhole
<1>2. \A x : /\ Whole(SetProto(s, x)) /\ Whole(SetPktType(s, x))
             /\ Whole(SetJitter(s, x)) /\ Whole(SetPattern(s, x))
             /\ Whole(SetUserPattern(s, x))
  BY HeaderWhole, CountsWhole
<1>3. call[1] = "set" => Whole(SetValue(s, call[2], call[3]))
  BY LuaSetWhole DEF Accepts, Typed
<1> QED
  BY <1>1, <1>2, <1>3
     DEF SingleCall, SingleFunctions, HeaderCall, HeaderNames, LabelCall,
         LabelNames, FillCall, FillNames

LEMMA LuaRangeWhole ==
  ASSUME NEW s, Whole(s), NEW call, Typed(call), call[1] \in Ranges
  PROVE  Whole(RangeCall(s, call))
<1>1. \A what, v : \A d \in {"dst mac", "src mac", "dst ip", "src ip"} :
        Whole(RangeMac(s, d, what, v)) /\ Whole(RangeIp(s, d, what, v))
  BY LooseRangesWhole
<1>2. Whole(RangeSize(s, call[2], call[3])) /\ Whole(RangeTeid(s, call[2], call[3]))
  BY LooseRangesWhole
<1>3. call[1] \in {"src_port", "dst_port", "vlan_id"} =>
        /\ \A d \in Ports : Whole(RangePort(s, d, call[2], call[3]))
        /\ Whole(RangeVlan(s, call[2], call[3]))
  BY NumberRangesWhole DEF Typed
<1>4. call[1] \in AddressRanges => Whole(AddressRange(s, call[1], call[2], call[3]))
  BY <1>1, Zenon DEF AddressRange, AddressRanges
<1>5. call[1] \in NumberRanges => Whole(NumberRange(s, call[1], call[2], call[3]))
  BY <1>2, <1>3, Zenon DEF NumberRange, NumberRanges, Ports
<1> QED  BY <1>2, <1>4, <1>5 DEF RangeCall, Ranges

LEMMA CallWhole ==
  ASSUME NEW s, Whole(s), NEW call, Accepts(call), Numeric(call), Typed(call)
  PROVE  Whole(Call(s, call))
<1>1. call[1] \in Switches => Whole(EnableCall(s, call[1], On(call[2])))
  BY LuaEnableWhole DEF On
<1>2. call[1] \in Ranges => Whole(RangeCall(s, call))
  BY LuaRangeWhole
<1>3. call[1] \in DOMAIN Arity
  <2>1. ~(\E n : n \in SeqArity)
    BY DEF SeqArity
  <2>2. call[1] = "seq" => Len(call) - 1 \in SeqArity
    BY DEF Accepts
  <2>3. call[1] \in DOMAIN Arity \cup {"seq"}
    BY DEF Accepts
  <2> QED  BY <2>1, <2>2, <2>3
<1>4. call[1] \in Switches \cup Ranges \cup SingleFunctions
        \cup {"ip_proto", "seqTable", "compile", "rnd", "ping4", "send_arp", "reset"}
  BY <1>3 DEF Arity, Switches, TagSwitches, ModeSwitches, TapSwitches, Ranges,
              AddressRanges, NumberRanges, SingleFunctions
<1>5. call[1] \in SingleFunctions => Whole(SingleCall(s, call))
  BY LuaSingleWhole
<1>6. call[1] \in {"seqTable", "compile"} => Whole(SeqTable(s, call[2], call[3]))
  BY SeqWholeStep, CosTosWhole DEF SeqTable, Numeric
<1>7. call[1] = "ip_proto" => Whole(RangeProto(s, call[2]))
  BY RangeOthersWhole DEF Typed
<1>8. /\ Whole(Rnd(s, call[2], call[4])) /\ Whole(Ping4(s))
      /\ Whole(SendArp(s, call[2] = "g")) /\ Whole(Reset(s))
  BY RequestWhole, ResetWhole
<1> QED  BY <1>1, <1>2, <1>4, <1>5, <1>6, <1>7, <1>8 DEF Call

-----------------------------------------------------------------------------
(* Reading a file: one line or call after the other.                       *)
IsSeq(a) == \E S : a \in Seq(S)
Step(kind, s, line) == IF kind = "lua" THEN Call(s, line) ELSE Run(s, line)

(* The first n lines take the settings t to u; all of them do.             *)
Traced(kind, lines, n, f) == \A i \in 1..n : f[i] = Step(kind, f[i - 1], lines[i])
ReadUpTo(kind, lines, n, t, u) == \E f : f[0] = t /\ f[n] = u /\ Traced(kind, lines, n, f)
Reads(kind, lines, t, u) == ReadUpTo(kind, lines, Len(lines), t, u)

LEMMA ReadNothing ==
  ASSUME NEW kind, NEW lines, NEW t PROVE ReadUpTo(kind, lines, 0, t, t)
<1> DEFINE f == [i \in {0} |-> t]
<1>1. f[0] = t /\ Traced(kind, lines, 0, f)
  BY DEF Traced
<1> HIDE DEF f
<1> QED  BY <1>1 DEF ReadUpTo

LEMMA ReadMore ==
  ASSUME NEW kind, NEW lines, NEW n \in Nat, NEW t, NEW u, ReadUpTo(kind, lines, n, t, u)
  PROVE  ReadUpTo(kind, lines, n + 1, t, Step(kind, u, lines[n + 1]))
<1>1. PICK f : f[0] = t /\ f[n] = u /\ Traced(kind, lines, n, f)
  BY DEF ReadUpTo
<1> DEFINE v == Step(kind, u, lines[n + 1])
           g == [i \in 0..(n + 1) |-> IF i = n + 1 THEN v ELSE f[i]]
<1>2. /\ \A i \in 0..n : g[i] = f[i]
      /\ g[n + 1] = v
  OBVIOUS
<1> HIDE DEF g
<1>3. g[0] = t
  BY <1>1, <1>2
<1>4. ASSUME NEW i \in 1..(n + 1) PROVE g[i] = Step(kind, g[i - 1], lines[i])
  <2>1. CASE i = n + 1
    <3>1. i - 1 = n
      BY <2>1
    <3>2. g[i - 1] = u
      BY <1>1, <1>2, <3>1
    <3> QED  BY <1>2, <2>1, <3>2
  <2>2. CASE i # n + 1
    <3>1. i \in 1..n /\ i \in 0..n /\ i - 1 \in 0..n
      BY <2>2
    <3>2. f[i] = Step(kind, f[i - 1], lines[i])
      BY <1>1, <3>1 DEF Traced
    <3> QED  BY <1>2, <3>1, <3>2
  <2> QED  BY <2>1, <2>2
<1>5. Traced(kind, lines, n + 1, g)
  BY <1>4 DEF Traced
<1> QED  BY <1>2, <1>3, <1>5 DEF ReadUpTo

LEMMA Joined ==
  ASSUME NEW a, NEW b, IsSeq(a), IsSeq(b)
  PROVE  /\ IsSeq(a \o b) /\ Len(a) \in Nat /\ Len(b) \in Nat
         /\ Len(a \o b) = Len(a) + Len(b)
         /\ \A i \in 1..Len(a) : (a \o b)[i] = a[i]
         /\ \A i \in 1..Len(b) : (a \o b)[Len(a) + i] = b[i]
<1>1. PICK S : a \in Seq(S)
  BY DEF IsSeq
<1>2. PICK T : b \in Seq(T)
  BY DEF IsSeq
<1> DEFINE U == S \cup T
<1>3. a \in Seq(U) /\ b \in Seq(U)
  BY <1>1, <1>2
<1> HIDE DEF U
<1>4. a \o b \in Seq(U) /\ Len(a) \in Nat /\ Len(b) \in Nat
  BY <1>3
<1>5. /\ Len(a \o b) = Len(a) + Len(b)
      /\ \A i \in 1..Len(a) : (a \o b)[i] = a[i]
      /\ \A i \in 1..Len(b) : (a \o b)[Len(a) + i] = b[i]
  BY <1>3
<1> QED  BY <1>4, <1>5 DEF IsSeq

LEMMA ReadJoined ==
  ASSUME NEW kind, NEW a, NEW b, IsSeq(a), IsSeq(b), NEW t, NEW u,
         Reads(kind, a \o b, t, u)
  PROVE  \E v : Reads(kind, a, t, v) /\ Reads(kind, b, v, u)
<1> DEFINE m == Len(a)
           n == Len(b)
           c == a \o b
<1>1. /\ m \in Nat /\ n \in Nat /\ Len(c) = m + n
      /\ \A i \in 1..m : c[i] = a[i]
      /\ \A i \in 1..n : c[m + i] = b[i]
  BY Joined
<1>2. PICK f : f[0] = t /\ f[Len(c)] = u /\ Traced(kind, c, Len(c), f)
  BY DEF Reads, ReadUpTo
<1> HIDE DEF m, n, c
<1>3. \A i \in 1..(m + n) : f[i] = Step(kind, f[i - 1], c[i])
  BY <1>1, <1>2 DEF Traced
<1>4. Traced(kind, a, m, f)
  <2> SUFFICES ASSUME NEW i \in 1..m PROVE f[i] = Step(kind, f[i - 1], a[i])
    BY DEF Traced
  <2>1. i \in 1..(m + n)
    BY <1>1
  <2> QED  BY <1>1, <1>3, <2>1
<1> DEFINE g == [i \in 0..n |-> f[m + i]]
<1>5. \A i \in 0..n : g[i] = f[m + i]
  OBVIOUS
<1> HIDE DEF g
<1>6. Traced(kind, b, n, g)
  <2> SUFFICES ASSUME NEW i \in 1..n PROVE g[i] = Step(kind, g[i - 1], b[i])
    BY DEF Traced
  <2>1. m + i \in 1..(m + n) /\ i \in 0..n /\ i - 1 \in 0..n /\ (m + i) - 1 = m + (i - 1)
    BY <1>1
  <2>2. f[m + i] = Step(kind, f[m + (i - 1)], c[m + i])
    BY <1>3, <2>1
  <2> QED  BY <1>1, <1>5, <2>1, <2>2
<1>7. g[0] = f[m] /\ g[n] = u
  BY <1>1, <1>2, <1>5
<1>8. Reads(kind, a, t, f[m])
  BY <1>2, <1>4 DEF Reads, ReadUpTo, m
<1>9. Reads(kind, b, f[m], u)
  BY <1>6, <1>7 DEF Reads, ReadUpTo, n
<1> QED  BY <1>8, <1>9

LEMMA ReadNone ==
  ASSUME NEW kind, NEW t, NEW u, Reads(kind, <<>>, t, u) PROVE u = t
BY DEF Reads, ReadUpTo

LEMMA ReadOne ==
  ASSUME NEW kind, NEW a, NEW t, NEW u, Reads(kind, <<a>>, t, u)
  PROVE  u = Step(kind, t, a)
<1>1. PICK f : f[0] = t /\ f[1] = u /\ Traced(kind, <<a>>, 1, f)
  BY DEF Reads, ReadUpTo
<1>2. f[1] = Step(kind, f[0], a)
  BY <1>1 DEF Traced
<1> QED  BY <1>1, <1>2

LEMMA ReadFifteen ==
  ASSUME NEW kind, NEW t, NEW u,
         NEW a, NEW b, NEW c, NEW d, NEW e, NEW f, NEW g, NEW h,
         NEW i, NEW j, NEW k, NEW l, NEW m, NEW n, NEW o,
         Reads(kind, <<a, b, c, d, e, f, g, h, i, j, k, l, m, n, o>>, t, u)
  PROVE  \E s : /\ s[0] = t /\ s[15] = u
                /\ s[1] = Step(kind, s[0], a) /\ s[2] = Step(kind, s[1], b)
                /\ s[3] = Step(kind, s[2], c) /\ s[4] = Step(kind, s[3], d)
                /\ s[5] = Step(kind, s[4], e) /\ s[6] = Step(kind, s[5], f)
                /\ s[7] = Step(kind, s[6], g) /\ s[8] = Step(kind, s[7], h)
                /\ s[9] = Step(kind, s[8], i) /\ s[10] = Step(kind, s[9], j)
                /\ s[11] = Step(kind, s[10], k) /\ s[12] = Step(kind, s[11], l)
                /\ s[13] = Step(kind, s[12], m) /\ s[14] = Step(kind, s[13], n)
                /\ s[15] = Step(kind, s[14], o)
<1>1. PICK s : s[0] = t /\ s[15] = u /\ Traced(kind, <<a, b, c, d, e, f, g, h, i, j, k, l, m, n, o>>, 15, s)
  BY DEF Reads, ReadUpTo
<1>2. /\ s[1] = Step(kind, s[0], a)
      /\ s[2] = Step(kind, s[1], b)
      /\ s[3] = Step(kind, s[2], c)
      /\ s[4] = Step(kind, s[3], d)
  BY <1>1 DEF Traced
<1>3. /\ s[5] = Step(kind, s[4], e)
      /\ s[6] = Step(kind, s[5], f)
      /\ s[7] = Step(kind, s[6], g)
      /\ s[8] = Step(kind, s[7], h)
  BY <1>1 DEF Traced
<1>4. /\ s[9] = Step(kind, s[8], i)
      /\ s[10] = Step(kind, s[9], j)
      /\ s[11] = Step(kind, s[10], k)
      /\ s[12] = Step(kind, s[11], l)
  BY <1>1 DEF Traced
<1>5. /\ s[13] = Step(kind, s[12], m)
      /\ s[14] = Step(kind, s[13], n)
      /\ s[15] = Step(kind, s[14], o)
  BY <1>1 DEF Traced
<1> QED  BY <1>1, <1>2, <1>3, <1>4, <1>5

LEMMA ReadSixteen ==
  ASSUME NEW kind, NEW t, NEW u,
         NEW a, NEW b, NEW c, NEW d, NEW e, NEW f, NEW g, NEW h,
         NEW i, NEW j, NEW k, NEW l, NEW m, NEW n, NEW o, NEW p,
         Reads(kind, <<a, b, c, d, e, f, g, h, i, j, k, l, m, n, o, p>>, t, u)
  PROVE  \E s : /\ s[0] = t /\ s[16] = u
                /\ s[1] = Step(kind, s[0], a) /\ s[2] = Step(kind, s[1], b)
                /\ s[3] = Step(kind, s[2], c) /\ s[4] = Step(kind, s[3], d)
                /\ s[5] = Step(kind, s[4], e) /\ s[6] = Step(kind, s[5], f)
                /\ s[7] = Step(kind, s[6], g) /\ s[8] = Step(kind, s[7], h)
                /\ s[9] = Step(kind, s[8], i) /\ s[10] = Step(kind, s[9], j)
                /\ s[11] = Step(kind, s[10], k) /\ s[12] = Step(kind, s[11], l)
                /\ s[13] = Step(kind, s[12], m) /\ s[14] = Step(kind, s[13], n)
                /\ s[15] = Step(kind, s[14], o) /\ s[16] = Step(kind, s[15], p)
<1>1. PICK s : s[0] = t /\ s[16] = u /\ Traced(kind, <<a, b, c, d, e, f, g, h, i, j, k, l, m, n, o, p>>, 16, s)
  BY DEF Reads, ReadUpTo
<1>2. /\ s[1] = Step(kind, s[0], a)
      /\ s[2] = Step(kind, s[1], b)
      /\ s[3] = Step(kind, s[2], c)
      /\ s[4] = Step(kind, s[3], d)
  BY <1>1 DEF Traced
<1>3. /\ s[5] = Step(kind, s[4], e)
      /\ s[6] = Step(kind, s[5], f)
      /\ s[7] = Step(kind, s[6], g)
      /\ s[8] = Step(kind, s[7], h)
  BY <1>1 DEF Traced
<1>4. /\ s[9] = Step(kind, s[8], i)
      /\ s[10] = Step(kind, s[9], j)
      /\ s[11] = Step(kind, s[10], k)
      /\ s[12] = Step(kind, s[11], l)
  BY <1>1 DEF Traced
<1>5. /\ s[13] = Step(kind, s[12], m)
      /\ s[14] = Step(kind, s[13], n)
      /\ s[15] = Step(kind, s[14], o)
      /\ s[16] = Step(kind, s[15], p)
  BY <1>1 DEF Traced
<1> QED  BY <1>1, <1>2, <1>3, <1>4, <1>5

LEMMA ReadSeventeen ==
  ASSUME NEW kind, NEW t, NEW u,
         NEW a, NEW b, NEW c, NEW d, NEW e, NEW f, NEW g, NEW h,
         NEW i, NEW j, NEW k, NEW l, NEW m, NEW n, NEW o, NEW p, NEW q,
         Reads(kind, <<a, b, c, d, e, f, g, h, i, j, k, l, m, n, o, p, q>>, t, u)
  PROVE  \E s : /\ s[0] = t /\ s[17] = u
                /\ s[1] = Step(kind, s[0], a) /\ s[2] = Step(kind, s[1], b)
                /\ s[3] = Step(kind, s[2], c) /\ s[4] = Step(kind, s[3], d)
                /\ s[5] = Step(kind, s[4], e) /\ s[6] = Step(kind, s[5], f)
                /\ s[7] = Step(kind, s[6], g) /\ s[8] = Step(kind, s[7], h)
                /\ s[9] = Step(kind, s[8], i) /\ s[10] = Step(kind, s[9], j)
                /\ s[11] = Step(kind, s[10], k) /\ s[12] = Step(kind, s[11], l)
                /\ s[13] = Step(kind, s[12], m) /\ s[14] = Step(kind, s[13], n)
                /\ s[15] = Step(kind, s[14], o) /\ s[16] = Step(kind, s[15], p)
                /\ s[17] = Step(kind, s[16], q)
<1>1. PICK s : s[0] = t /\ s[17] = u /\ Traced(kind, <<a, b, c, d, e, f, g, h, i, j, k, l, m, n, o, p, q>>, 17, s)
  BY DEF Reads, ReadUpTo
<1>2. /\ s[1] = Step(kind, s[0], a)
      /\ s[2] = Step(kind, s[1], b)
      /\ s[3] = Step(kind, s[2], c)
      /\ s[4] = Step(kind, s[3], d)
  BY <1>1 DEF Traced
<1>3. /\ s[5] = Step(kind, s[4], e)
      /\ s[6] = Step(kind, s[5], f)
      /\ s[7] = Step(kind, s[6], g)
      /\ s[8] = Step(kind, s[7], h)
  BY <1>1 DEF Traced
<1>4. /\ s[9] = Step(kind, s[8], i)
      /\ s[10] = Step(kind, s[9], j)
      /\ s[11] = Step(kind, s[10], k)
      /\ s[12] = Step(kind, s[11], l)
  BY <1>1 DEF Traced
<1>5. /\ s[13] = Step(kind, s[12], m)
      /\ s[14] = Step(kind, s[13], n)
      /\ s[15] = Step(kind, s[14], o)
      /\ s[16] = Step(kind, s[15], p)
  BY <1>1 DEF Traced
<1>6. s[17] = Step(kind, s[16], q)
  BY <1>1 DEF Traced
<1> QED  BY <1>1, <1>2, <1>3, <1>4, <1>5, <1>6

-----------------------------------------------------------------------------
(* How far a file has been read, up to its ranges.  R is what the file     *)
(* brings back, D the fields of the settings and P those of the SINGLE     *)
(* packet that have come back; its size z and its type e, which lines read *)
(* later still change, and the flags F stand apart.                        *)
Tops == {"macFromArp", "count", "rate", "burst", "prime", "seqCnt", "rangeProto",
         "jitter", "fill", "user", "rnd"}
Rest == PktFields \ {"size", "ethType"}

Sofar(t, R, D, P, F, z, e) ==
  /\ Formed(t) /\ t.range = Fresh.range /\ t.flags = F
  /\ \A g \in Tops : t[g] = IF g \in D THEN R[g] ELSE Fresh[g]
  /\ \A k \in Slots : k = Single \/ t.pkts[k] = Fresh.pkts[k]
  /\ \A y \in Rest :
       t.pkts[Single][y] = IF y \in P THEN R.pkts[Single][y]
                                      ELSE Fresh.pkts[Single][y]
  /\ t.pkts[Single].size = z /\ t.pkts[Single].ethType = e

LEMMA TopSofar ==
  ASSUME NEW t, NEW u, NEW R, NEW D, NEW P, NEW F, NEW z, NEW e,
         Sofar(t, R, D, P, F, z, e), NEW X \in SUBSET Tops,
         Only(t, u, X), \A x \in X : u[x] = R[x]
  PROVE  Sofar(u, R, D \cup X, P, F, z, e)
<1>1. "range" \notin Tops /\ "flags" \notin Tops /\ "pkts" \notin Tops
      /\ "pps" \notin Tops /\ "cycles" \notin Tops /\ Tops \subseteq FieldNames
  BY DEF Tops, FieldNames
<1>2. u.range = t.range /\ u.flags = t.flags /\ u.pkts = t.pkts /\ DOMAIN u = FieldNames
  BY <1>1 DEF Only, FieldNames
<1>3. \A g \in Tops : g \in X \/ u[g] = t[g]
  BY <1>1 DEF Only
<1>4. \A g \in Tops : u[g] = IF g \in D \cup X THEN R[g] ELSE Fresh[g]
  BY <1>3 DEF Sofar
<1> QED  BY <1>2, <1>4 DEF Sofar, Formed

LEMMA PktSofar ==
  ASSUME NEW t, NEW u, NEW R, NEW D, NEW P, NEW F, NEW z, NEW e,
         Sofar(t, R, D, P, F, z, e), NEW Y \in SUBSET PktFields,
         OnSlot(t, u, Single, Y),
         \A y \in Y : y \notin Rest \/ u.pkts[Single][y] = R.pkts[Single][y]
  PROVE  /\ Sofar(u, R, D, P \cup Y, F, u.pkts[Single].size, u.pkts[Single].ethType)
         /\ "size" \notin Y => u.pkts[Single].size = z
         /\ "ethType" \notin Y => u.pkts[Single].ethType = e
<1>1. Tops \subseteq FieldNames \ {"pkts", "pps", "cycles"} /\ "range" \in FieldNames
      /\ "flags" \in FieldNames /\ "range" \notin {"pkts"} \cup {"pps", "cycles"}
      /\ "flags" \notin {"pkts"} \cup {"pps", "cycles"} /\ Rest \subseteq PktFields
      /\ "size" \in PktFields /\ "ethType" \in PktFields
  BY DEF Tops, FieldNames, Rest, PktFields
<1>2. Single \in Slots /\ Table(t.pkts) /\ Formed(t)
  BY SlotFacts DEF Sofar, Formed
<1>3. Formed(u)
  BY <1>2, SlotFormed
<1>4. u.range = t.range /\ u.flags = t.flags /\ \A g \in Tops : u[g] = t[g]
  BY <1>1 DEF OnSlot, Only
<1>5. \A k \in Slots : k = Single \/ u.pkts[k] = Fresh.pkts[k]
  BY <1>2 DEF OnSlot, Sofar, Table
<1>6. \A y \in PktFields : y \in Y \/ u.pkts[Single][y] = t.pkts[Single][y]
  BY DEF OnSlot
<1>7. \A y \in Rest :
       u.pkts[Single][y] = IF y \in P \cup Y THEN R.pkts[Single][y]
                                             ELSE Fresh.pkts[Single][y]
  BY <1>1, <1>6 DEF Sofar
<1>8. /\ "size" \notin Y => u.pkts[Single].size = z
      /\ "ethType" \notin Y => u.pkts[Single].ethType = e
  BY <1>1, <1>6 DEF Sofar
<1> QED  BY <1>3, <1>4, <1>5, <1>7, <1>8 DEF Sofar

LEMMA FlagSofar ==
  ASSUME NEW t, NEW u, NEW R, NEW D, NEW P, NEW F, NEW z, NEW e,
         Sofar(t, R, D, P, F, z, e), Only(t, u, {"flags"})
  PROVE  Sofar(u, R, D, P, u.flags, z, e)
<1>1. Tops \subseteq FieldNames \ {"flags", "pps", "cycles"}
  BY DEF Tops, FieldNames
<1>2. u.range = t.range /\ u.pkts = t.pkts /\ DOMAIN u = FieldNames
      /\ \A g \in Tops : u[g] = t[g]
  BY <1>1 DEF Only, FieldNames
<1> QED  BY <1>2 DEF Sofar, Formed

(* One field, of a packet that is not its size or its type.                *)
LEMMA OneSofar ==
  ASSUME NEW t, NEW u, NEW R, NEW D, NEW P, NEW F, NEW z, NEW e,
         Sofar(t, R, D, P, F, z, e), NEW Y \in SUBSET Rest,
         OnSlot(t, u, Single, Y), \A y \in Y : u.pkts[Single][y] = R.pkts[Single][y]
  PROVE  Sofar(u, R, D, P \cup Y, F, z, e)
<1>1. Y \in SUBSET PktFields /\ "size" \notin Y /\ "ethType" \notin Y
  BY DEF Rest
<1> QED  BY <1>1, PktSofar

(* The settings of a port that has just been started.                      *)
LEMMA DefaultPktFacts ==
  ASSUME NEW p, Packet(p), NEW m
  PROVE  /\ Packet(DefaultPkt(p, m))
         /\ DefaultPkt(p, m).ethType = "ipv4" /\ DefaultPkt(p, m).proto = "tcp"
<1>1. Packet(DefaultPkt(p, m))
  BY DefaultPktWhole
<1>2. "ethType" \in DOMAIN p /\ "proto" \in DOMAIN p
  BY DEF PktFields, Packet
<1> QED  BY <1>1, <1>2 DEF DefaultPkt

LEMMA FreshFacts ==
  /\ Fresh.flags = {} /\ Fresh.seqCnt = 0 /\ Fresh.rangeProto = "tcp"
  /\ \A k \in {Single, Ranged} :
       Fresh.pkts[k].ethType = "ipv4" /\ Fresh.pkts[k].proto = "tcp"
<1> DEFINE zero == [ZeroPkt EXCEPT !.srcMac = SrcMac]
           none == Span(0, 0, 0, 0)
           pkts == [k \in Slots |-> IF k <= Single THEN zero ELSE ZeroPkt]
           range == [d \in Dims |-> none]
           z == [flags |-> {}, macFromArp |-> FALSE, count |-> 0, rate |-> 0,
                 pps |-> 0, cycles |-> 0, burst |-> 0, prime |-> 0,
                 seqCnt |-> 0, rangeProto |-> "tcp", range |-> range, jitter |-> 50,
                 fill |-> "abc", user |-> "0123456789abcdef", rnd |-> {},
                 pkts |-> pkts]
           first == [k \in Slots |-> DefaultPkt(z.pkts[k], PeerMac)]
           t == [z EXCEPT !.pkts = first,
                          !.count = 0, !.rate = Default.rate, !.burst = MaxBurst,
                          !.seqCnt = 0, !.prime = 1]
           u == PortDefaults(z)
           spans == [d \in Dims |-> FirstSpan(u, d)]
<1>1. Fresh = RangeSetup(u)
  BY DEF Fresh
<1>2. \A p \in {ZeroPkt, zero} : Packet(p)
  BY DEF ZeroPkt, PktFields, Packet, IsFcn
<1> HIDE DEF zero
<1>3. \A k \in Slots : Packet(pkts[k])
  BY <1>2
<1> HIDE DEF pkts, range
<1>4. /\ DOMAIN z = FieldNames /\ z.pkts = pkts /\ z.flags = {}
  BY DEF FieldNames
<1>5. u = Paced(t)
  BY DEF PortDefaults
<1> HIDE DEF z
<1>6. /\ Table(first)
      /\ \A k \in Slots : /\ Packet(first[k])
                          /\ first[k].ethType = "ipv4" /\ first[k].proto = "tcp"
  <2>1. Table(first)
    BY DEF Table, IsFcn
  <2> QED  BY <1>3, <1>4, <2>1, DefaultPktFacts
<1> HIDE DEF first
<1>7. DOMAIN t = FieldNames /\ t.pkts = first /\ t.flags = {} /\ t.seqCnt = 0
  BY <1>4 DEF FieldNames
<1> HIDE DEF t, u
<1>8. DOMAIN u = FieldNames /\ u.pkts = first /\ u.flags = {} /\ u.seqCnt = 0
  <2>1. Only(t, Paced(t), {})
    BY <1>7, PacedOnly
  <2> QED  BY <1>5, <1>7, <2>1 DEF Only, FieldNames
<1> DEFINE p == [first[Ranged] EXCEPT !.size = MinSize]
           last == [first EXCEPT ![Ranged] = p]
           v == [u EXCEPT !.range = spans, !.rangeProto = "tcp", !.pkts = last]
<1>9. Fresh = v
  BY <1>1, <1>8 DEF RangeSetup
<1> HIDE DEF spans
<1>10. p.ethType = "ipv4" /\ p.proto = "tcp"
  BY <1>6, SlotFacts DEF PktFields
<1> HIDE DEF p
<1>11. \A k \in {Single, Ranged} : last[k].ethType = "ipv4" /\ last[k].proto = "tcp"
  BY <1>6, <1>10, SlotFacts
<1> HIDE DEF last
<1>12. v.flags = {} /\ v.seqCnt = 0 /\ v.rangeProto = "tcp" /\ v.pkts = last
  BY <1>8 DEF FieldNames
<1> QED  BY <1>9, <1>11, <1>12

LEMMA FreshSofar ==
  ASSUME NEW R
  PROVE  Sofar(Fresh, R, {}, {}, {}, Fresh.pkts[Single].size, Fresh.pkts[Single].ethType)
<1>1. Formed(Fresh)
  BY FreshWhole DEF Whole
<1> QED  BY <1>1, FreshFacts DEF Sofar

-----------------------------------------------------------------------------
(* What the lines of a command file run.                                   *)
LEMMA SetLines ==
  ASSUME NEW t, NEW v
  PROVE  /\ Run(t, <<"set", "count", v>>) = SetTxCount(t, v)
         /\ Run(t, <<"set", "size", v>>) = SetPktSize(t, ValidSize(t, v))
         /\ Run(t, <<"set", "rate", v>>) = SetTxRate(t, v)
         /\ Run(t, <<"set", "pps", v>>) = SetPps(t, v)
         /\ Run(t, <<"set", "burst", v>>) = SetTxBurst(t, v)
         /\ Run(t, <<"set", "prime", v>>) = SetPrime(t, v)
         /\ Run(t, <<"set", "sport", v>>) = SetPort(t, "sport", v)
         /\ Run(t, <<"set", "dport", v>>) = SetPort(t, "dport", v)
         /\ Run(t, <<"set", "seq_cnt", v>>) = SetSeqCnt(t, v)
<1>0. \A what : Run(t, <<"set", what, v>>) = SetCmd(t, what, v)
  BY DEF Run
<1>1. SetCmd(t, "count", v) = SetTxCount(t, v)
  BY DEF SetCmd
<1>2. SetCmd(t, "size", v) = SetPktSize(t, ValidSize(t, v))
  BY DEF SetCmd
<1>3. SetCmd(t, "rate", v) = SetTxRate(t, v)
  BY DEF SetCmd
<1>4. SetCmd(t, "pps", v) = SetPps(t, v)
  BY DEF SetCmd
<1>5. SetCmd(t, "burst", v) = SetTxBurst(t, v)
  BY DEF SetCmd
<1>6. SetCmd(t, "prime", v) = SetPrime(t, v)
  BY DEF SetCmd
<1>7. SetCmd(t, "sport", v) = SetPort(t, "sport", v)
  BY DEF SetCmd
<1>8. SetCmd(t, "dport", v) = SetPort(t, "dport", v)
  BY DEF SetCmd
<1>9. SetCmd(t, "seq_cnt", v) = SetSeqCnt(t, v)
  BY DEF SetCmd
<1> QED  BY <1>0, <1>1, <1>2, <1>3, <1>4, <1>5, <1>6, <1>7, <1>8, <1>9

LEMMA PacketLines ==
  ASSUME NEW t, NEW v
  PROVE  /\ Run(t, <<"set", "proto", v>>) = SetProto(t, v)
         /\ Run(t, <<"set", "dst ip", v>>) = SetDstIp(t, v)
         /\ Run(t, <<"set", "dst mac", v>>) = SetDstMac(t, v)
         /\ Run(t, <<"set", "src mac", v>>) = SetSrcMac(t, v)
         /\ Run(t, <<"set", "vlanid", v>>) = t
         /\ Run(t, <<"set", "mpls_entry", v>>) = t
         /\ Run(t, <<"set", "gre_key", v>>) = t
         /\ Run(t, <<"set", "pattern", v>>) = SetPattern(t, v)
         /\ Run(t, <<"set", "user pattern", v>>) = SetUserPattern(t, "pattern")
         /\ Run(t, <<"set", "jitter", v>>) = SetJitter(t, v)
<1>0. \A what, x : Run(t, <<"set", what, x>>) = SetCmd(t, what, x)
  BY DEF Run
<1>2. SetCmd(t, "proto", v) = SetProto(t, v)
  BY DEF SetCmd
<1>3. SetCmd(t, "dst ip", v) = SetDstIp(t, v)
  BY DEF SetCmd
<1>5. SetCmd(t, "dst mac", v) = SetDstMac(t, v)
  BY DEF SetCmd
<1>6. SetCmd(t, "src mac", v) = SetSrcMac(t, v)
  BY DEF SetCmd
<1>7. SetCmd(t, "vlanid", v) = t
  BY DEF SetCmd
<1>8. SetCmd(t, "mpls_entry", v) = t
  BY DEF SetCmd
<1>9. SetCmd(t, "gre_key", v) = t
  BY DEF SetCmd
<1>11. SetCmd(t, "pattern", v) = SetPattern(t, v)
  BY DEF SetCmd
<1>12. SetCmd(t, "user pattern", v) = SetUserPattern(t, "pattern")
  BY DEF SetCmd
<1>13. SetCmd(t, "jitter", v) = SetJitter(t, v)
  BY DEF SetCmd
<1> QED
  BY <1>0, <1>2, <1>3, <1>5, <1>6, <1>7, <1>8, <1>9, <1>11, <1>12, <1>13, Zenon

LEMMA TypeLine ==
  ASSUME NEW t, NEW v, v \in {"arp", "ipv4", "ipv6"}
  PROVE  Run(t, <<"set", "type", v>>) = SetPktType(t, v)
<1>1. \A what, x : Run(t, <<"set", what, x>>) = SetCmd(t, what, x)
  BY DEF Run
<1>2. SetCmd(t, "type", v) = SetPktType(t, v)
  BY DEF SetCmd
<1> QED  BY <1>1, <1>2, Zenon

LEMMA PairLines ==
  ASSUME NEW t, NEW v, NEW w
  PROVE  /\ Run(t, <<"set", "src ip", <<v, w>>>>) = SetSrcIp(t, v, w)
         /\ Run(t, <<"set", "qinqids", <<v, w>>>>) = SetQinq(t, v, w)
<1>0. \A what, x : Run(t, <<"set", what, x>>) = SetCmd(t, what, x)
  BY DEF Run
<1>4. SetCmd(t, "src ip", <<v, w>>) = SetSrcIp(t, v, w)
  <2>1. \A x : SetCmd(t, "src ip", x) = SetSrcIp(t, x[1], x[2])
    BY DEF SetCmd
  <2> DEFINE x == <<v, w>>
  <2>2. x[1] = v /\ x[2] = w
    OBVIOUS
  <2>3. SetCmd(t, "src ip", x) = SetSrcIp(t, x[1], x[2])
    BY <2>1
  <2> QED  BY <2>2, <2>3, Zenon
<1>10. SetCmd(t, "qinqids", <<v, w>>) = SetQinq(t, v, w)
  <2>1. \A x : SetCmd(t, "qinqids", x) = SetQinq(t, x[1], x[2])
    BY DEF SetCmd
  <2> QED  BY <2>1
<1> QED  BY <1>0, <1>4, <1>10, Zenon

(* A flag as a value, for the words enable and disable.                    *)
Has(s, f) == f \in s.flags

LEMMA SwitchLines ==
  ASSUME NEW t, NEW f, NEW s
  PROVE  /\ Run(t, <<EnDis(s, f), "mpls">>) = EnableMpls(t, Has(s, f))
         /\ Run(t, <<EnDis(s, f), "qinq">>) = EnableQinq(t, Has(s, f))
         /\ Run(t, <<EnDis(s, f), "gre">>) = EnableGre(t, Has(s, f))
         /\ Run(t, <<EnDis(s, f), "gre_eth">>) = EnableGreEth(t, Has(s, f))
         /\ Run(t, <<EnDis(s, f), "icmp">>) =
              Switch(t, Has(s, f), {"ICMP_ECHO_ENABLE_FLAG"})
         /\ Run(t, <<EnDis(s, f), "pcap">>) = EnablePcap(t, Has(s, f))
         /\ Run(t, <<EnDis(s, f), "range">>) = EnableRange(t, Has(s, f))
         /\ Run(t, <<EnDis(s, f), "latency">>) =
              Switch(t, Has(s, f), {"SEND_LATENCY_PKTS"})
         /\ Run(t, <<EnDis(s, f), "process">>) =
              Switch(t, Has(s, f), {"PROCESS_INPUT_PKTS"})
         /\ Run(t, <<EnDis(s, f), "capture">>) =
              Switch(t, Has(s, f), {"CAPTURE_PKTS"})
         /\ Run(t, <<EnDis(s, f), "rx_tap">>) =
              EnableTap(t, Has(s, f), "PROCESS_RX_TAP_PKTS")
         /\ Run(t, <<EnDis(s, f), "tx_tap">>) =
              EnableTap(t, Has(s, f), "PROCESS_TX_TAP_PKTS")
         /\ Run(t, <<EnDis(s, f), "vlan">>) = EnableVlan(t, Has(s, f))
<1> DEFINE word == EnDis(s, f)
           on == Has(s, f)
<1>1. word \in {"enable", "disable"} /\ (word = "enable") = on
  BY DEF EnDis, Has
<1> HIDE DEF word, on
<1>2. \A what : Run(t, <<word, what>>) = Enable(t, what, on)
  <2>1. \A what : Run(t, <<word, what>>) = Enable(t, what, word = "enable")
    BY <1>1 DEF Run
  <2> QED  BY <1>1, <2>1
<1>3. /\ Enable(t, "mpls", on) = EnableMpls(t, on)
      /\ Enable(t, "qinq", on) = EnableQinq(t, on)
      /\ Enable(t, "gre", on) = EnableGre(t, on)
      /\ Enable(t, "gre_eth", on) = EnableGreEth(t, on)
      /\ Enable(t, "vlan", on) = EnableVlan(t, on)
  BY DEF Enable
<1>4. /\ Enable(t, "pcap", on) = EnablePcap(t, on)
      /\ Enable(t, "range", on) = EnableRange(t, on)
      /\ Enable(t, "rx_tap", on) = EnableTap(t, on, "PROCESS_RX_TAP_PKTS")
      /\ Enable(t, "tx_tap", on) = EnableTap(t, on, "PROCESS_TX_TAP_PKTS")
  BY DEF Enable
<1>5. /\ Enable(t, "icmp", on) = Switch(t, on, {"ICMP_ECHO_ENABLE_FLAG"})
      /\ Enable(t, "latency", on) = Switch(t, on, {"SEND_LATENCY_PKTS"})
      /\ Enable(t, "process", on) = Switch(t, on, {"PROCESS_INPUT_PKTS"})
      /\ Enable(t, "capture", on) = Switch(t, on, {"CAPTURE_PKTS"})
  BY DEF Enable
<1> QED  BY <1>2, <1>3, <1>4, <1>5 DEF word, on

-----------------------------------------------------------------------------
(* The SINGLE packet comes back.                                           *)
LEMMA SizeRead ==
  ASSUME NEW t, t.flags = {}, NEW x \in 0..MaxSize
  PROVE  /\ Min({Max({ValidSize(t, x + Fcs) - Fcs, 0, Least(t)}), MaxSize})
              = Max({x, MinSize})
         /\ Min({Max({(x + Fcs) - Fcs, 0, Least(t)}), MaxSize}) = Max({x, MinSize})
         /\ Max({x, MinSize}) \in MinSize..MaxSize
<1>1. Fcs = 4 /\ MinSize = 60 /\ MaxSize = 1514 /\ Least(t) = 60
  BY DEF Fcs, MinSize, MaxSize, Least
<1> DEFINE m == IF x <= 60 THEN 60 ELSE x
<1>2. ValidSize(t, x + Fcs) = Min({Max({x + 4, 64}), 1518})
  BY <1>1 DEF ValidSize
<1>3. Max({x + 4, 64}) = m + 4 /\ Max({x, 60}) = m
  <2>1. Max({x + 4, 64}) = IF x + 4 >= 64 THEN x + 4 ELSE 64
    BY MaxOfTwo
  <2>2. Max({x, 60}) = IF x >= 60 THEN x ELSE 60
    BY MaxOfTwo
  <2> HIDE DEF Max
  <2> QED  BY <2>1, <2>2
<1>4. m \in 60..1514
  BY <1>1
<1>5. \A y \in {m, x} : Max({y, 0, 60}) = m
  <2>1. ASSUME NEW y \in {m, x} PROVE Max({y, 0, 60}) = m
    <3>0. y \in Int
      BY <1>1, <1>4
    <3>1. /\ Max({y, 0, 60}) \in {y, 0, 60}
          /\ \A w \in {y, 0, 60} : Max({y, 0, 60}) >= w
      BY <3>0, MaxOfThree
    <3> DEFINE r == Max({y, 0, 60})
    <3> HIDE DEF r
    <3>2. r \in {y, 0, 60} /\ r >= y /\ r >= 60
      BY <3>1 DEF r
    <3>3. r = m
      BY <1>4, <3>2
    <3> QED  BY <3>3 DEF r
  <2> QED  BY <2>1
<1> HIDE DEF m
<1>6. Min({m + 4, 1518}) = m + 4
  <2>1. Min({m + 4, 1518}) = IF m + 4 <= 1518 THEN m + 4 ELSE 1518
    BY <1>4, MinOfTwo
  <2> HIDE DEF Min
  <2> QED  BY <1>4, <2>1
<1>7. Min({m, 1514}) = m
  <2>1. Min({m, 1514}) = IF m <= 1514 THEN m ELSE 1514
    BY <1>4, MinOfTwo
  <2> HIDE DEF Min
  <2> QED  BY <1>4, <2>1
<1>8. (m + 4) - 4 = m /\ (x + 4) - 4 = x
  BY <1>1, <1>4
<1> HIDE DEF Min, Max
<1>9. ValidSize(t, x + Fcs) - Fcs = m /\ (x + Fcs) - Fcs = x
  BY <1>1, <1>2, <1>3, <1>6, <1>8
<1> QED  BY <1>1, <1>3, <1>4, <1>5, <1>7, <1>9

LEMMA WireOfSingle ==
  ASSUME NEW t, "SEND_PCAP_PKTS" \notin t.flags, t.seqCnt = 0
  PROVE  WireSize(t) = t.pkts[Single].size + Overhead
<1>1. ~(t.seqCnt > 0)
  OBVIOUS
<1> QED  BY <1>1 DEF WireSize

(* What comes back of the settings s either way.                           *)
Raised(z, type) ==
  z + (IF type = "ipv6" /\ z < MinV6Size THEN MinV6Size - MinSize ELSE 0)
Grown(p) == Raised(Max({p.size, MinSize}), p.ethType)
Typeset(p) == IF p.proto = "icmp" THEN "ipv4" ELSE p.ethType
Matches(s, R) ==
  /\ R.macFromArp = s.macFromArp /\ R.count = s.count /\ R.burst = s.burst
  /\ R.prime = s.prime /\ R.jitter = s.jitter /\ R.fill = s.fill
  /\ \A y \in {"sport", "dport", "proto", "dstIp", "srcIp", "mask", "dstMac"} :
       R.pkts[Single][y] = s.pkts[Single][y]

LEMMA SavedSingle ==
  ASSUME NEW s, Fit(s), Whole(s)
  PROVE  /\ s.pkts[Single].size \in 0..MaxSize
         /\ s.pkts[Single].sport % W16 = s.pkts[Single].sport
         /\ s.pkts[Single].dport % W16 = s.pkts[Single].dport
         /\ s.pkts[Single].ethType \in {"arp", "ipv4", "ipv6"}
         /\ s.pkts[Single].qinq = <<s.pkts[Single].qinq[1], s.pkts[Single].qinq[2]>>
         /\ Min({Max({s.burst, 1}), MaxBurst}) = s.burst
         /\ (IF s.prime = 0 THEN 1 ELSE Min({s.prime, MaxPrime})) = s.prime
         /\ s.rate \in Nat /\ s.pps \in Nat
<1>1. s.pkts[Single].size \in 0..MaxSize
  <2> DEFINE x == s.pkts[Single].size
  <2>1. PktFit(s.pkts[Single]) /\ x <= MaxSize
    BY SingleFacts DEF Fit
  <2>2. x \in Nat
    BY <2>1 DEF PktFit
  <2>3. MaxSize = 1514
    BY DEF MaxSize
  <2> HIDE DEF x
  <2>4. x \in 0..MaxSize
    BY <2>1, <2>2, <2>3
  <2> QED  BY <2>4 DEF x
<1>2. SingleWhole(s.pkts[Single])
  BY DEF Whole
<1>3. /\ s.pkts[Single].sport % W16 = s.pkts[Single].sport
      /\ s.pkts[Single].dport % W16 = s.pkts[Single].dport
  BY <1>2, WordKept DEF SingleWhole
<1>4. /\ s.pkts[Single].ethType \in {"arp", "ipv4", "ipv6"}
      /\ s.pkts[Single].qinq = <<s.pkts[Single].qinq[1], s.pkts[Single].qinq[2]>>
  BY <1>2 DEF SingleWhole, IsPair
<1>5. s.burst \in 1..64 /\ s.prime \in 1..4 /\ s.rate \in Nat /\ s.pps \in Nat
  BY DEF Fit, Counted, Timed, MaxBurst, MaxPrime
<1>6. ASSUME NEW b \in 1..64 PROVE Min({Max({b, 1}), MaxBurst}) = b
  <2>1. Max({b, 1}) = IF b >= 1 THEN b ELSE 1
    BY MaxOfTwo
  <2>2. Min({b, 64}) = IF b <= 64 THEN b ELSE 64
    BY MinOfTwo
  <2> HIDE DEF Min, Max
  <2> QED  BY <2>1, <2>2 DEF MaxBurst
<1>7. ASSUME NEW b \in 1..4 PROVE (IF b = 0 THEN 1 ELSE Min({b, MaxPrime})) = b
  <2>1. Min({b, 4}) = IF b <= 4 THEN b ELSE 4
    BY MinOfTwo
  <2> HIDE DEF Min
  <2> QED  BY <2>1 DEF MaxPrime
<1> HIDE DEF Min, Max
<1> QED  BY <1>1, <1>3, <1>4, <1>5, <1>6, <1>7

(* The three lines that set the pace: what counts is the second.           *)
LEMMA PaceLines ==
  ASSUME NEW t, DOMAIN t = FieldNames, NEW a, NEW b, NEW c
  PROVE  LET u == SetTxBurst(SetPps(SetTxRate(t, a), b), c) IN
         /\ Only(t, u, {"rate", "burst"}) /\ u.rate = b * WireSize(SetTxRate(t, a))
         /\ u.burst = Min({Max({c, 1}), MaxBurst})
<1> DEFINE v == SetTxRate(t, a)
           w == SetPps(v, b)
           u == SetTxBurst(w, c)
<1>1. Only(t, v, {"rate"})
  BY RateOnly
<1>2. DOMAIN v = FieldNames
  BY <1>1 DEF Only
<1>3. Only(v, w, {"rate", "burst"}) /\ w.rate = b * WireSize(v)
  <2> HIDE DEF v
  <2> QED  BY <1>2, CountsOnly
<1>4. DOMAIN w = FieldNames
  BY <1>3 DEF Only
<1>5. Only(w, u, {"burst"}) /\ u.burst = Min({Max({c, 1}), MaxBurst})
  <2> HIDE DEF w
  <2> QED  BY <1>4, CountsOnly
<1> HIDE DEF u, v, w
<1>6. Only(t, u, {"rate", "burst"})
  BY <1>1, <1>3, <1>5 DEF Only
<1>7. u.rate = w.rate
  BY <1>5 DEF Only, FieldNames
<1> QED  BY <1>3, <1>5, <1>6, <1>7 DEF u, v, w

LEMMA MacLine ==
  ASSUME NEW t, NEW on \in BOOLEAN
  PROVE  Run(t, <<IF on THEN "enable" ELSE "disable", "mac_from_arp">>)
           = EnableMacFromArp(t, on)
<1> DEFINE word == IF on THEN "enable" ELSE "disable"
<1>1. word \in {"enable", "disable"} /\ (word = "enable") = on
  OBVIOUS
<1> HIDE DEF word
<1>2. \A what : Run(t, <<word, what>>) = Enable(t, what, on)
  <2>1. \A what : Run(t, <<word, what>>) = Enable(t, what, word = "enable")
    BY <1>1 DEF Run
  <2> QED  BY <1>1, <2>1
<1>3. Enable(t, "mac_from_arp", on) = EnableMacFromArp(t, on)
  BY DEF Enable
<1> QED  BY <1>2, <1>3 DEF word

(* One field more has come back.                                           *)
LEMMA TopStep ==
  ASSUME NEW t, NEW u, NEW R, NEW D, NEW P, NEW F, NEW z, NEW e,
         Sofar(t, R, D, P, F, z, e), NEW g \in Tops, Only(t, u, {g}), u[g] = R[g]
  PROVE  Sofar(u, R, D \cup {g}, P, F, z, e)
<1>1. {g} \in SUBSET Tops /\ \A x \in {g} : u[x] = R[x]
  OBVIOUS
<1> QED  BY <1>1, TopSofar

LEMMA PktStep ==
  ASSUME NEW t, NEW u, NEW R, NEW D, NEW P, NEW F, NEW z, NEW e,
         Sofar(t, R, D, P, F, z, e), NEW y \in Rest, OnSlot(t, u, Single, {y}),
         u.pkts[Single][y] = R.pkts[Single][y]
  PROVE  Sofar(u, R, D, P \cup {y}, F, z, e)
<1>1. {y} \in SUBSET Rest /\ \A x \in {y} : u.pkts[Single][x] = R.pkts[Single][x]
  OBVIOUS
<1> QED  BY <1>1, OneSofar

LEMMA SofarFormed ==
  ASSUME NEW t, NEW R, NEW D, NEW P, NEW F, NEW z, NEW e, Sofar(t, R, D, P, F, z, e)
  PROVE  /\ Formed(t) /\ DOMAIN t = FieldNames /\ t.flags = F
         /\ t.pkts[Single].size = z /\ t.pkts[Single].ethType = e
BY DEF Sofar, Formed

(* What each setter brings back.                                           *)
LEMMA FillsSofar ==
  ASSUME NEW t, NEW R, NEW D, NEW P, NEW F, NEW z, NEW e, Sofar(t, R, D, P, F, z, e)
  PROVE  /\ Sofar(EnableMacFromArp(t, R.macFromArp), R, D \cup {"macFromArp"}, P, F, z, e)
         /\ Sofar(SetPattern(t, R.fill), R, D \cup {"fill"}, P, F, z, e)
         /\ Sofar(SetJitter(t, R.jitter), R, D \cup {"jitter"}, P, F, z, e)
         /\ R.fill = "user" =>
              Sofar(SetUserPattern(t, R.user), R, D \cup {"user", "fill"}, P, F, z, e)
<1>0. DOMAIN t = FieldNames
  BY SofarFormed
<1>1. "macFromArp" \in Tops /\ "fill" \in Tops /\ "jitter" \in Tops /\ "user" \in Tops
  BY DEF Tops
<1>2. Sofar(EnableMacFromArp(t, R.macFromArp), R, D \cup {"macFromArp"}, P, F, z, e)
  BY <1>0, <1>1, FillOnly, TopStep
<1>3. Sofar(SetPattern(t, R.fill), R, D \cup {"fill"}, P, F, z, e)
  BY <1>0, <1>1, FillOnly, TopStep
<1>4. Sofar(SetJitter(t, R.jitter), R, D \cup {"jitter"}, P, F, z, e)
  BY <1>0, <1>1, FillOnly, TopStep
<1>5. ASSUME R.fill = "user"
      PROVE  Sofar(SetUserPattern(t, R.user), R, D \cup {"user", "fill"}, P, F, z, e)
  <2> DEFINE u == SetUserPattern(t, R.user)
             X == {"user", "fill"}
  <2>1. Only(t, u, X) /\ u.user = R.user /\ u.fill = R.fill
    BY <1>0, <1>5, FillOnly
  <2> HIDE DEF u
  <2>2. X \in SUBSET Tops /\ \A x \in X : u[x] = R[x]
    BY <1>1, <2>1
  <2> HIDE DEF X
  <2>3. Sofar(u, R, D \cup X, P, F, z, e)
    BY <2>1, <2>2, TopSofar
  <2> QED  BY <2>3 DEF u, X
<1> QED  BY <1>2, <1>3, <1>4, <1>5

LEMMA CountsSofar ==
  ASSUME NEW t, NEW R, NEW D, NEW P, NEW F, NEW z, NEW e, Sofar(t, R, D, P, F, z, e)
  PROVE  /\ Sofar(SetTxCount(t, R.count), R, D \cup {"count"}, P, F, z, e)
         /\ (IF R.prime = 0 THEN 1 ELSE Min({R.prime, MaxPrime})) = R.prime
              => Sofar(SetPrime(t, R.prime), R, D \cup {"prime"}, P, F, z, e)
         /\ Min({Max({R.burst, 1}), MaxBurst}) = R.burst
              => Sofar(SetTxBurst(t, R.burst), R, D \cup {"burst"}, P, F, z, e)
         /\ \A v : (IF v = 0 THEN LeastRate ELSE Min({v, Link})) = R.rate
              => Sofar(SetTxRate(t, v), R, D \cup {"rate"}, P, F, z, e)
<1>0. DOMAIN t = FieldNames
  BY SofarFormed
<1>1. "count" \in Tops /\ "prime" \in Tops /\ "burst" \in Tops /\ "rate" \in Tops
  BY DEF Tops
<1>2. Sofar(SetTxCount(t, R.count), R, D \cup {"count"}, P, F, z, e)
  <2> DEFINE u == SetTxCount(t, R.count)
  <2>1. Only(t, u, {"count"}) /\ u.count = R.count
    BY <1>0, CountsOnly
  <2> HIDE DEF u
  <2>2. Sofar(u, R, D \cup {"count"}, P, F, z, e)
    BY <1>1, <2>1, TopStep
  <2> QED  BY <2>2 DEF u
<1>3. ASSUME (IF R.prime = 0 THEN 1 ELSE Min({R.prime, MaxPrime})) = R.prime
      PROVE  Sofar(SetPrime(t, R.prime), R, D \cup {"prime"}, P, F, z, e)
  <2> DEFINE u == SetPrime(t, R.prime)
  <2>1. Only(t, u, {"prime"}) /\ u.prime = R.prime
    BY <1>0, <1>3, CountsOnly
  <2> HIDE DEF u
  <2>2. Sofar(u, R, D \cup {"prime"}, P, F, z, e)
    BY <1>1, <2>1, TopStep
  <2> QED  BY <2>2 DEF u
<1>4. ASSUME Min({Max({R.burst, 1}), MaxBurst}) = R.burst
      PROVE  Sofar(SetTxBurst(t, R.burst), R, D \cup {"burst"}, P, F, z, e)
  <2> DEFINE u == SetTxBurst(t, R.burst)
  <2>1. Only(t, u, {"burst"}) /\ u.burst = R.burst
    BY <1>0, <1>4, CountsOnly
  <2> HIDE DEF u
  <2>2. Sofar(u, R, D \cup {"burst"}, P, F, z, e)
    BY <1>1, <2>1, TopStep
  <2> QED  BY <2>2 DEF u
<1>5. ASSUME NEW v, (IF v = 0 THEN LeastRate ELSE Min({v, Link})) = R.rate
      PROVE  Sofar(SetTxRate(t, v), R, D \cup {"rate"}, P, F, z, e)
  <2> DEFINE u == SetTxRate(t, v)
  <2>1. Only(t, u, {"rate"}) /\ u.rate = R.rate
    BY <1>0, <1>5, RateOnly
  <2> HIDE DEF u
  <2>2. Sofar(u, R, D \cup {"rate"}, P, F, z, e)
    BY <1>1, <2>1, TopStep
  <2> QED  BY <2>2 DEF u
<1> QED  BY <1>2, <1>3, <1>4, <1>5

(* The three lines of the pace.                                            *)
LEMMA PaceSofar ==
  ASSUME NEW t, NEW R, NEW D, NEW P, NEW z, NEW e, Sofar(t, R, D, P, {}, z, e),
         "seqCnt" \notin D, NEW a, NEW b, R.rate = b * (z + Overhead),
         Min({Max({R.burst, 1}), MaxBurst}) = R.burst
  PROVE  Sofar(SetTxBurst(SetPps(SetTxRate(t, a), b), R.burst), R,
               D \cup {"rate", "burst"}, P, {}, z, e)
<1>0. DOMAIN t = FieldNames /\ t.flags = {} /\ t.pkts[Single].size = z
  BY SofarFormed
<1>1. t.seqCnt = 0
  BY FreshFacts DEF Sofar, Tops
<1> DEFINE y == SetTxRate(t, a)
           u == SetTxBurst(SetPps(y, b), R.burst)
           X == {"rate", "burst"}
<1>2. Only(t, y, {"rate"})
  BY <1>0, RateOnly
<1>3. Only(t, u, X) /\ u.rate = b * WireSize(y)
      /\ u.burst = Min({Max({R.burst, 1}), MaxBurst})
  BY <1>0, PaceLines
<1> HIDE DEF y, u
<1>4. y.flags = {} /\ y.seqCnt = 0 /\ y.pkts = t.pkts
  BY <1>0, <1>1, <1>2 DEF Only, FieldNames
<1>5. WireSize(y) = z + Overhead
  <2>1. "SEND_PCAP_PKTS" \notin y.flags
    BY <1>4
  <2> QED  BY <1>0, <1>4, <2>1, WireOfSingle
<1>6. X \in SUBSET Tops /\ \A x \in X : u[x] = R[x]
  <2>1. u.rate = R.rate /\ u.burst = R.burst
    BY <1>3, <1>5
  <2>2. X \in SUBSET Tops
    BY DEF Tops
  <2> QED  BY <2>1, <2>2
<1> HIDE DEF X
<1>7. Sofar(u, R, D \cup X, P, {}, z, e)
  BY <1>3, <1>6, TopSofar
<1> QED  BY <1>7 DEF u, y, X

LEMMA PortsSofar ==
  ASSUME NEW t, NEW R, NEW D, NEW P, NEW F, NEW z, NEW e, Sofar(t, R, D, P, F, z, e),
         NEW f, f \in {"sport", "dport"}, R.pkts[Single][f] % W16 = R.pkts[Single][f]
  PROVE  Sofar(SetPort(t, f, R.pkts[Single][f]), R, D, P \cup {f}, F, z, e)
<1>0. Formed(t) /\ f \in Rest
  BY SofarFormed DEF Rest, PktFields
<1> DEFINE u == SetPort(t, f, R.pkts[Single][f])
<1>1. OnSlot(t, u, Single, {f}) /\ u.pkts[Single][f] = R.pkts[Single][f]
  BY <1>0, PortOnly
<1> HIDE DEF u
<1>2. Sofar(u, R, D, P \cup {f}, F, z, e)
  BY <1>0, <1>1, PktStep
<1> QED  BY <1>2 DEF u

LEMMA AddressSofar ==
  ASSUME NEW t, NEW R, NEW D, NEW P, NEW F, NEW z, NEW e, Sofar(t, R, D, P, F, z, e)
  PROVE  /\ Sofar(SetDstMac(t, R.pkts[Single].dstMac), R, D, P \cup {"dstMac"}, F, z, e)
         /\ Sofar(SetSrcMac(t, R.pkts[Single].srcMac), R, D, P \cup {"srcMac"}, F, z, e)
         /\ Sofar(SetDstIp(t, R.pkts[Single].dstIp), R, D, P \cup {"dstIp"}, F, z, e)
         /\ Sofar(SetSrcIp(t, R.pkts[Single].srcIp, R.pkts[Single].mask), R, D,
                  P \cup {"srcIp", "mask"}, F, z, e)
<1>0. Formed(t) /\ "dstMac" \in Rest /\ "srcMac" \in Rest /\ "dstIp" \in Rest
  BY SofarFormed DEF Rest, PktFields
<1>1. Sofar(SetDstMac(t, R.pkts[Single].dstMac), R, D, P \cup {"dstMac"}, F, z, e)
  <2> DEFINE v == R.pkts[Single].dstMac
             u == SetDstMac(t, v)
  <2>0. u = Field(t, "dstMac", v)
    BY DEF SetDstMac, Field
  <2> HIDE DEF u
  <2>1. OnSlot(t, u, Single, {"dstMac"}) /\ u.pkts[Single].dstMac = v
    BY <1>0, <2>0, FieldOnly DEF Rest
  <2> HIDE DEF u
  <2>2. Sofar(u, R, D, P \cup {"dstMac"}, F, z, e)
    BY <1>0, <2>1, PktStep
  <2> QED  BY <2>2 DEF u
<1>2. Sofar(SetSrcMac(t, R.pkts[Single].srcMac), R, D, P \cup {"srcMac"}, F, z, e)
  <2> DEFINE v == R.pkts[Single].srcMac
             u == SetSrcMac(t, v)
  <2>0. u = Field(t, "srcMac", v)
    BY DEF SetSrcMac, Field
  <2> HIDE DEF u
  <2>1. OnSlot(t, u, Single, {"srcMac"}) /\ u.pkts[Single].srcMac = v
    BY <1>0, <2>0, FieldOnly DEF Rest
  <2> HIDE DEF u
  <2>2. Sofar(u, R, D, P \cup {"srcMac"}, F, z, e)
    BY <1>0, <2>1, PktStep
  <2> QED  BY <2>2 DEF u
<1>3. Sofar(SetDstIp(t, R.pkts[Single].dstIp), R, D, P \cup {"dstIp"}, F, z, e)
  <2> DEFINE v == R.pkts[Single].dstIp
             u == SetDstIp(t, v)
  <2>0. u = Field(t, "dstIp", v)
    BY DEF SetDstIp, Field
  <2> HIDE DEF u
  <2>1. OnSlot(t, u, Single, {"dstIp"}) /\ u.pkts[Single].dstIp = v
    BY <1>0, <2>0, FieldOnly DEF Rest
  <2> HIDE DEF u
  <2>2. Sofar(u, R, D, P \cup {"dstIp"}, F, z, e)
    BY <1>0, <2>1, PktStep
  <2> QED  BY <2>2 DEF u
<1>4. Sofar(SetSrcIp(t, R.pkts[Single].srcIp, R.pkts[Single].mask), R, D,
            P \cup {"srcIp", "mask"}, F, z, e)
  <2> DEFINE v == R.pkts[Single].srcIp
             w == R.pkts[Single].mask
             u == SetSrcIp(t, v, w)
             Y == {"srcIp", "mask"}
  <2>1. OnSlot(t, u, Single, Y) /\ u.pkts[Single].srcIp = v /\ u.pkts[Single].mask = w
    BY <1>0, HeaderOnly
  <2> HIDE DEF u
  <2>2. Y \in SUBSET Rest /\ \A y \in Y : u.pkts[Single][y] = R.pkts[Single][y]
    BY <2>1 DEF Rest, PktFields
  <2> HIDE DEF Y
  <2>3. Sofar(u, R, D, P \cup Y, F, z, e)
    BY <2>1, <2>2, OneSofar
  <2> QED  BY <2>3 DEF u, Y
<1> QED  BY <1>1, <1>2, <1>3, <1>4

LEMMA LabelsSofar ==
  ASSUME NEW t, NEW R, NEW D, NEW P, NEW F, NEW z, NEW e, Sofar(t, R, D, P, F, z, e)
  PROVE  /\ Sofar(SetVlanId(t, R.pkts[Single].vlanid), R, D, P \cup {"vlanid"}, F, z, e)
         /\ Sofar(SetMpls(t, R.pkts[Single].mpls), R, D, P \cup {"mpls"}, F, z, e)
         /\ Sofar(SetGreKey(t, R.pkts[Single].greKey), R, D, P \cup {"greKey"}, F, z, e)
         /\ \A v, w : <<v, w>> = R.pkts[Single].qinq =>
              Sofar(SetQinq(t, v, w), R, D, P \cup {"qinq"}, F, z, e)
<1>0. Formed(t) /\ "vlanid" \in Rest /\ "mpls" \in Rest /\ "greKey" \in Rest
      /\ "qinq" \in Rest
  BY SofarFormed DEF Rest, PktFields
<1>1. Sofar(SetVlanId(t, R.pkts[Single].vlanid), R, D, P \cup {"vlanid"}, F, z, e)
  <2> DEFINE v == R.pkts[Single].vlanid
             u == SetVlanId(t, v)
  <2>0. u = Field(t, "vlanid", v)
    BY DEF SetVlanId, Field
  <2> HIDE DEF u
  <2>1. OnSlot(t, u, Single, {"vlanid"}) /\ u.pkts[Single].vlanid = v
    BY <1>0, <2>0, FieldOnly DEF Rest
  <2> HIDE DEF u
  <2>2. Sofar(u, R, D, P \cup {"vlanid"}, F, z, e)
    BY <1>0, <2>1, PktStep
  <2> QED  BY <2>2 DEF u
<1>2. Sofar(SetMpls(t, R.pkts[Single].mpls), R, D, P \cup {"mpls"}, F, z, e)
  <2> DEFINE v == R.pkts[Single].mpls
             u == SetMpls(t, v)
  <2>0. u = Field(t, "mpls", v)
    BY DEF SetMpls, Field
  <2> HIDE DEF u
  <2>1. OnSlot(t, u, Single, {"mpls"}) /\ u.pkts[Single].mpls = v
    BY <1>0, <2>0, FieldOnly DEF Rest
  <2> HIDE DEF u
  <2>2. Sofar(u, R, D, P \cup {"mpls"}, F, z, e)
    BY <1>0, <2>1, PktStep
  <2> QED  BY <2>2 DEF u
<1>3. Sofar(SetGreKey(t, R.pkts[Single].greKey), R, D, P \cup {"greKey"}, F, z, e)
  <2> DEFINE v == R.pkts[Single].greKey
             u == SetGreKey(t, v)
  <2>0. u = Field(t, "greKey", v)
    BY DEF SetGreKey, Field
  <2> HIDE DEF u
  <2>1. OnSlot(t, u, Single, {"greKey"}) /\ u.pkts[Single].greKey = v
    BY <1>0, <2>0, FieldOnly DEF Rest
  <2> HIDE DEF u
  <2>2. Sofar(u, R, D, P \cup {"greKey"}, F, z, e)
    BY <1>0, <2>1, PktStep
  <2> QED  BY <2>2 DEF u
<1>4. ASSUME NEW v, NEW w, <<v, w>> = R.pkts[Single].qinq
      PROVE  Sofar(SetQinq(t, v, w), R, D, P \cup {"qinq"}, F, z, e)
  <2> DEFINE u == SetQinq(t, v, w)
  <2>1. OnSlot(t, u, Single, {"qinq"}) /\ u.pkts[Single].qinq = R.pkts[Single].qinq
    BY <1>0, <1>4, SingleOnly
  <2> HIDE DEF u
  <2>2. Sofar(u, R, D, P \cup {"qinq"}, F, z, e)
    BY <1>0, <2>1, PktStep
  <2> QED  BY <2>2 DEF u
<1> QED  BY <1>1, <1>2, <1>3, <1>4

(* The size, the type and the protocol.                                    *)
LEMMA SizeSofar ==
  ASSUME NEW t, NEW R, NEW D, NEW P, NEW F, F = {}, NEW z, Sofar(t, R, D, P, F, z, "ipv4"),
         NEW x, x \in 0..MaxSize, NEW v, v \in {x + Fcs, ValidSize(t, x + Fcs)}
  PROVE  Sofar(SetPktSize(t, v), R, D, P \cup {"size"}, F, Max({x, MinSize}), "ipv4")
<1> DEFINE u == SetPktSize(t, v)
           wide == Max({x, MinSize})
<1>1. Formed(t) /\ t.flags = {} /\ t.pkts[Single].ethType = "ipv4"
  BY SofarFormed
<1>2. OnSlot(t, u, Single, {"size"})
      /\ u.pkts[Single].size
           = Sized(t.pkts[Single].ethType, Min({Max({v - Fcs, 0, Least(t)}), MaxSize}))
  BY <1>1, SizeOnly
<1>3. Min({Max({v - Fcs, 0, Least(t)}), MaxSize}) = wide
  BY <1>1, SizeRead
<1> HIDE DEF u, wide
<1>4. u.pkts[Single].size = wide
  BY <1>1, <1>2, <1>3 DEF Sized
<1> DEFINE Y == {"size"}
<1>5. Y \in SUBSET PktFields /\ (\A y \in Y : y \notin Rest) /\ "ethType" \notin Y
  BY DEF Rest, PktFields
<1> HIDE DEF Y
<1>6. OnSlot(t, u, Single, Y)
  BY <1>2 DEF Y
<1>7. \A y \in Y : y \notin Rest \/ u.pkts[Single][y] = R.pkts[Single][y]
  BY <1>5
<1>8. Sofar(t, R, D, P, F, z, "ipv4")
  OBVIOUS
<1>9. Sofar(u, R, D, P \cup Y, F, u.pkts[Single].size, u.pkts[Single].ethType)
  BY <1>5, <1>6, <1>7, <1>8, PktSofar
<1>10. u.pkts[Single].ethType = "ipv4"
  BY <1>1, <1>2 DEF OnSlot, PktFields
<1> QED  BY <1>4, <1>9, <1>10 DEF u, Y, wide

LEMMA TypeSofar ==
  ASSUME NEW t, NEW R, NEW D, NEW P, NEW F, NEW z, z \in Nat,
         Sofar(t, R, D, P, F, z, "ipv4"), NEW type, type \in {"arp", "ipv4", "ipv6"}
  PROVE  Sofar(SetPktType(t, type), R, D, P \cup {"size", "ethType"}, F, Raised(z, type), type)
<1> DEFINE u == SetPktType(t, type)
           Y == {"size", "ethType"}
<1>1. Formed(t) /\ t.pkts[Single].ethType = "ipv4" /\ t.pkts[Single].size = z
  BY SofarFormed
<1>2. OnSlot(t, u, Single, Y) /\ u.pkts[Single].ethType = Kind(type)
      /\ u.pkts[Single].size = Resized(t.pkts[Single], Kind(type))
  BY <1>1, TypeOnly
<1>3. Kind(type) = type
  BY DEF Kind
<1>4. Resized(t.pkts[Single], type) = Raised(z, type)
  BY <1>1 DEF Resized, Raised
<1> HIDE DEF u
<1>5. Y \in SUBSET PktFields /\ \A y \in Y : y \notin Rest
  BY DEF Rest, PktFields
<1> HIDE DEF Y
<1>6. Sofar(u, R, D, P \cup Y, F, u.pkts[Single].size, u.pkts[Single].ethType)
  BY <1>2, <1>5, PktSofar
<1> QED  BY <1>2, <1>3, <1>4, <1>6 DEF u, Y

LEMMA ProtoSofar ==
  ASSUME NEW t, NEW R, NEW D, NEW P, NEW F, NEW z, NEW e, Sofar(t, R, D, P, F, z, e)
  PROVE  Sofar(SetProto(t, R.pkts[Single].proto), R, D, P \cup {"proto", "ethType"}, F, z,
               IF R.pkts[Single].proto = "icmp" THEN "ipv4" ELSE e)
<1> DEFINE v == R.pkts[Single].proto
           u == SetProto(t, v)
           Y == {"proto", "ethType"}
<1>1. Formed(t) /\ t.pkts[Single].ethType = e
  BY SofarFormed
<1>2. OnSlot(t, u, Single, Y) /\ u.pkts[Single].proto = v
      /\ u.pkts[Single].ethType = IF v = "icmp" THEN "ipv4" ELSE e
  BY <1>1, HeaderOnly
<1> HIDE DEF u
<1>3. Y \in SUBSET PktFields /\ "size" \notin Y
      /\ \A y \in Y : y \notin Rest \/ u.pkts[Single][y] = R.pkts[Single][y]
  BY <1>2 DEF Rest, PktFields
<1> HIDE DEF Y
<1>4. Sofar(u, R, D, P \cup Y, F, u.pkts[Single].size, u.pkts[Single].ethType)
      /\ u.pkts[Single].size = z
  BY <1>2, <1>3, PktSofar
<1> QED  BY <1>2, <1>4 DEF u, Y

-----------------------------------------------------------------------------
(* The lines of SingleLines, one after the other.                          *)
LEMMA SingleRead ==
  ASSUME NEW s, Fit(s), Whole(s), NEW R, Matches(s, R),
         R.pkts[Single].srcMac = s.pkts[Single].srcMac,
         R.user = IF s.fill = "user" THEN "pattern" ELSE Fresh.user,
         R.rate = s.pps * (Max({s.pkts[Single].size, MinSize}) + Overhead),
         NEW u, Reads("cmd", SingleLines(s), Fresh, u)
  PROVE  Sofar(u, R, {"macFromArp", "count", "rate", "burst", "prime", "fill", "user",
                      "jitter"},
               {"sport", "dport", "size", "ethType", "proto", "dstIp", "srcIp", "mask",
                "dstMac", "srcMac"},
               {}, Grown(s.pkts[Single]), Typeset(s.pkts[Single]))
<1> DEFINE p == s.pkts[Single]
           a == <<IF s.macFromArp THEN "enable" ELSE "disable", "mac_from_arp">>
           b == <<"set", "count", s.count>>
           c == <<"set", "size", p.size + Fcs>>
           d == <<"set", "rate", s.rate>>
           e == <<"set", "pps", s.pps>>
           f == <<"set", "burst", s.burst>>
           g == <<"set", "sport", p.sport>>
           h == <<"set", "dport", p.dport>>
           i == <<"set", "prime", s.prime>>
           j == <<"set", "type", p.ethType>>
           k == <<"set", "proto", p.proto>>
           l == <<"set", "dst ip", p.dstIp>>
           m == <<"set", "src ip", <<p.srcIp, p.mask>>>>
           n == <<"set", "dst mac", p.dstMac>>
           o == <<"set", "src mac", p.srcMac>>
           q == <<"set", "vlanid", p.vlanid>>
           r == <<"set", "pattern", s.fill>>
           long == <<a, b, c, d, e, f, g, h, i, j, k, l, m, n, o, q, r>>
           own == <<"set", "user pattern", s.user>>
           user == IF s.fill = "user" THEN <<own>> ELSE <<>>
           last == << <<"set", "jitter", s.jitter>> >>
<1> DEFINE pkt == R.pkts[Single]
<1>0. /\ R.macFromArp = s.macFromArp /\ R.count = s.count /\ R.burst = s.burst
      /\ R.prime = s.prime /\ R.jitter = s.jitter /\ R.fill = s.fill
      /\ pkt.sport = p.sport /\ pkt.dport = p.dport /\ pkt.proto = p.proto
      /\ pkt.dstIp = p.dstIp /\ pkt.srcIp = p.srcIp /\ pkt.mask = p.mask
      /\ pkt.dstMac = p.dstMac /\ pkt.srcMac = p.srcMac
  BY DEF Matches
<1>1. SingleLines(s) = (long \o user) \o last
  BY DEF SingleLines
<1> HIDE DEF a, b, c, d, e, f, g, h, i, j, k, l, m, n, o, q, r, own
<1>2. IsSeq(long) /\ IsSeq(user) /\ IsSeq(last)
  <2> DEFINE S == {a, b, c, d, e, f, g, h, i, j, k, l, m, n, o, q, r}
  <2>1. long \in Seq(S)
    OBVIOUS
  <2> DEFINE T == {own}
  <2>2. user \in Seq(T)
    <3>1. <<own>> \in Seq(T) /\ <<>> \in Seq(T)
      OBVIOUS
    <3> QED  BY <3>1
  <2> DEFINE V == {<<"set", "jitter", s.jitter>>}
  <2>3. last \in Seq(V)
    OBVIOUS
  <2> HIDE DEF S, T, V, long, user, last
  <2> QED  BY <2>1, <2>2, <2>3 DEF IsSeq
<1> HIDE DEF user, last
<1>3. PICK v : Reads("cmd", long \o user, Fresh, v) /\ Reads("cmd", last, v, u)
  BY <1>1, <1>2, Joined, ReadJoined
<1>4. PICK w : Reads("cmd", long, Fresh, w) /\ Reads("cmd", user, w, v)
  BY <1>2, <1>3, ReadJoined
<1>5. PICK x : /\ x[0] = Fresh /\ x[17] = w
               /\ x[1] = Run(x[0], a) /\ x[2] = Run(x[1], b) /\ x[3] = Run(x[2], c)
               /\ x[4] = Run(x[3], d) /\ x[5] = Run(x[4], e) /\ x[6] = Run(x[5], f)
               /\ x[7] = Run(x[6], g) /\ x[8] = Run(x[7], h) /\ x[9] = Run(x[8], i)
               /\ x[10] = Run(x[9], j) /\ x[11] = Run(x[10], k) /\ x[12] = Run(x[11], l)
               /\ x[13] = Run(x[12], m) /\ x[14] = Run(x[13], n) /\ x[15] = Run(x[14], o)
               /\ x[16] = Run(x[15], q) /\ x[17] = Run(x[16], r)
  <2>1. \A y, z : Step("cmd", y, z) = Run(y, z)
    BY DEF Step
  <2>2. PICK x : /\ x[0] = Fresh /\ x[17] = w
                /\ x[1] = Step("cmd", x[0], a) /\ x[2] = Step("cmd", x[1], b)
                /\ x[3] = Step("cmd", x[2], c) /\ x[4] = Step("cmd", x[3], d)
                /\ x[5] = Step("cmd", x[4], e) /\ x[6] = Step("cmd", x[5], f)
                /\ x[7] = Step("cmd", x[6], g) /\ x[8] = Step("cmd", x[7], h)
                /\ x[9] = Step("cmd", x[8], i) /\ x[10] = Step("cmd", x[9], j)
                /\ x[11] = Step("cmd", x[10], k) /\ x[12] = Step("cmd", x[11], l)
                /\ x[13] = Step("cmd", x[12], m) /\ x[14] = Step("cmd", x[13], n)
                /\ x[15] = Step("cmd", x[14], o) /\ x[16] = Step("cmd", x[15], q)
                /\ x[17] = Step("cmd", x[16], r)
    BY <1>4, ReadSeventeen
  <2> QED  BY <2>1, <2>2
<1> DEFINE wide == Max({p.size, MinSize})
           grown == Raised(wide, p.ethType)
           typeset == IF pkt.proto = "icmp" THEN "ipv4" ELSE p.ethType
           z0 == Fresh.pkts[Single].size
<1>6. /\ p.size \in 0..MaxSize /\ pkt.sport % W16 = pkt.sport /\ pkt.dport % W16 = pkt.dport
      /\ p.ethType \in {"arp", "ipv4", "ipv6"}
      /\ Min({Max({R.burst, 1}), MaxBurst}) = R.burst
      /\ (IF R.prime = 0 THEN 1 ELSE Min({R.prime, MaxPrime})) = R.prime
  BY SavedSingle, <1>0
<1>7. s.macFromArp \in BOOLEAN
  BY DEF Whole
<1>8. wide \in Nat
  <2>1. Max({p.size, MinSize}) \in MinSize..MaxSize
    <3>1. Fresh.flags = {}
      BY FreshFacts
    <3> QED  BY <1>6, <3>1, SizeRead
  <2>2. MinSize = 60 /\ MaxSize = 1514
    BY DEF MinSize, MaxSize
  <2> HIDE DEF p
  <2> DEFINE q0 == Max({p.size, MinSize})
  <2> HIDE DEF q0
  <2>3. q0 \in MinSize..MaxSize
    BY <2>1 DEF q0
  <2>4. q0 \in Nat
    BY <2>2, <2>3
  <2> QED  BY <2>4 DEF q0
<1>9. grown = Grown(p) /\ typeset = Typeset(p)
  BY <1>0 DEF Grown, Typeset
<1> HIDE DEF pkt, wide, z0, grown, typeset
<1>10. x[1] = EnableMacFromArp(x[0], R.macFromArp)
  <2>1. x[1] = Run(x[0], a)
    BY <1>5
  <2>2. Run(x[0], a) = EnableMacFromArp(x[0], s.macFromArp)
    BY MacLine, <1>0, <1>7 DEF a
  <2> QED  BY <1>0, <2>1, <2>2
<1>11. x[2] = SetTxCount(x[1], R.count)
  <2>1. x[2] = Run(x[1], b)
    BY <1>5
  <2>2. Run(x[1], b) = SetTxCount(x[1], s.count)
    BY SetLines DEF b
  <2> QED  BY <1>0, <2>1, <2>2
<1>12. x[3] = SetPktSize(x[2], ValidSize(x[2], p.size + Fcs))
  <2>1. x[3] = Run(x[2], c)
    BY <1>5
  <2>2. Run(x[2], c) = SetPktSize(x[2], ValidSize(x[2], p.size + Fcs))
    BY SetLines DEF c
  <2> QED  BY <1>0, <2>1, <2>2
<1>13. x[4] = SetTxRate(x[3], s.rate)
  <2>1. x[4] = Run(x[3], d)
    BY <1>5
  <2>2. Run(x[3], d) = SetTxRate(x[3], s.rate)
    BY SetLines DEF d
  <2> QED  BY <1>0, <2>1, <2>2
<1>14. x[5] = SetPps(x[4], s.pps)
  <2>1. x[5] = Run(x[4], e)
    BY <1>5
  <2>2. Run(x[4], e) = SetPps(x[4], s.pps)
    BY SetLines DEF e
  <2> QED  BY <1>0, <2>1, <2>2
<1>15. x[6] = SetTxBurst(x[5], R.burst)
  <2>1. x[6] = Run(x[5], f)
    BY <1>5
  <2>2. Run(x[5], f) = SetTxBurst(x[5], s.burst)
    BY SetLines DEF f
  <2> QED  BY <1>0, <2>1, <2>2
<1>16. x[7] = SetPort(x[6], "sport", pkt.sport)
  <2>1. x[7] = Run(x[6], g)
    BY <1>5
  <2>2. Run(x[6], g) = SetPort(x[6], "sport", p.sport)
    BY SetLines DEF g
  <2> QED  BY <1>0, <2>1, <2>2
<1>17. x[8] = SetPort(x[7], "dport", pkt.dport)
  <2>1. x[8] = Run(x[7], h)
    BY <1>5
  <2>2. Run(x[7], h) = SetPort(x[7], "dport", p.dport)
    BY SetLines DEF h
  <2> QED  BY <1>0, <2>1, <2>2
<1>18. x[9] = SetPrime(x[8], R.prime)
  <2>1. x[9] = Run(x[8], i)
    BY <1>5
  <2>2. Run(x[8], i) = SetPrime(x[8], s.prime)
    BY SetLines DEF i
  <2> QED  BY <1>0, <2>1, <2>2
<1>19. x[10] = SetPktType(x[9], p.ethType)
  <2>1. x[10] = Run(x[9], j)
    BY <1>5
  <2>2. Run(x[9], j) = SetPktType(x[9], p.ethType)
    BY TypeLine, <1>6 DEF j
  <2> QED  BY <1>6, <2>1, <2>2
<1>20. x[11] = SetProto(x[10], pkt.proto)
  <2>1. x[11] = Run(x[10], k)
    BY <1>5
  <2>2. Run(x[10], k) = SetProto(x[10], p.proto)
    BY PacketLines DEF k
  <2> QED  BY <1>0, <2>1, <2>2
<1>21. x[12] = SetDstIp(x[11], pkt.dstIp)
  <2>1. x[12] = Run(x[11], l)
    BY <1>5
  <2>2. Run(x[11], l) = SetDstIp(x[11], p.dstIp)
    BY PacketLines DEF l
  <2> QED  BY <1>0, <2>1, <2>2
<1>22. x[13] = SetSrcIp(x[12], pkt.srcIp, pkt.mask)
  <2>1. x[13] = Run(x[12], m)
    BY <1>5
  <2>2. Run(x[12], m) = SetSrcIp(x[12], p.srcIp, p.mask)
    BY PairLines DEF m
  <2> QED  BY <1>0, <2>1, <2>2
<1>23. x[14] = SetDstMac(x[13], pkt.dstMac)
  <2>1. x[14] = Run(x[13], n)
    BY <1>5
  <2>2. Run(x[13], n) = SetDstMac(x[13], p.dstMac)
    BY PacketLines DEF n
  <2> QED  BY <1>0, <2>1, <2>2
<1>24. x[15] = SetSrcMac(x[14], pkt.srcMac)
  <2>1. x[15] = Run(x[14], o)
    BY <1>5
  <2>2. Run(x[14], o) = SetSrcMac(x[14], p.srcMac)
    BY PacketLines DEF o
  <2> QED  BY <1>0, <2>1, <2>2
<1>25. x[16] = x[15]
  <2>1. x[16] = Run(x[15], q)
    BY <1>5
  <2>2. Run(x[15], q) = x[15]
    BY PacketLines DEF q
  <2> QED  BY <1>0, <2>1, <2>2
<1>26. x[17] = SetPattern(x[16], R.fill)
  <2>1. x[17] = Run(x[16], r)
    BY <1>5
  <2>2. Run(x[16], r) = SetPattern(x[16], s.fill)
    BY PacketLines DEF r
  <2> QED  BY <1>0, <2>1, <2>2
<1> DEFINE none == {}
           D1 == none \cup {"macFromArp"}
           D2 == D1 \cup {"count"}
           D6 == D2 \cup {"rate", "burst"}
           D9 == D6 \cup {"prime"}
           D17 == D9 \cup {"fill"}
           P3 == none \cup {"size"}
           P7 == P3 \cup {"sport"}
           P8 == P7 \cup {"dport"}
           P10 == P8 \cup {"size", "ethType"}
           P11 == P10 \cup {"proto", "ethType"}
           P12 == P11 \cup {"dstIp"}
           P13 == P12 \cup {"srcIp", "mask"}
           P14 == P13 \cup {"dstMac"}
           P15 == P14 \cup {"srcMac"}
<1>27. Sofar(x[0], R, none, none, none, z0, "ipv4")
  BY <1>5, FreshSofar, FreshFacts DEF z0
<1> HIDE DEF none, D1, D2, D6, D9, D17, P3, P7, P8, P10, P11, P12, P13, P14, P15
<1>28. Sofar(x[1], R, D1, none, none, z0, "ipv4")
  <2>1. Sofar(EnableMacFromArp(x[0], R.macFromArp), R, none \cup {"macFromArp"}, none,
              none, z0, "ipv4")
    BY <1>27, FillsSofar
  <2> QED  BY <1>10, <2>1 DEF D1
<1>29. Sofar(x[2], R, D2, none, none, z0, "ipv4")
  <2>1. Sofar(SetTxCount(x[1], R.count), R, D1 \cup {"count"}, none,
              none, z0, "ipv4")
    BY <1>28, CountsSofar
  <2> QED  BY <1>11, <2>1 DEF D2
<1>30. Sofar(x[3], R, D2, P3, none, wide, "ipv4")
  <2>1. Sofar(SetPktSize(x[2], ValidSize(x[2], p.size + Fcs)), R, D2, none \cup {"size"},
              none, Max({p.size, MinSize}), "ipv4")
    BY <1>6, <1>29, SizeSofar DEF none
  <2> QED  BY <1>12, <2>1 DEF P3, wide
<1>31. Sofar(x[6], R, D6, P3, none, wide, "ipv4")
  <2>1. x[6] = SetTxBurst(SetPps(SetTxRate(x[3], s.rate), s.pps), R.burst)
    BY <1>13, <1>14, <1>15
  <2>2. "seqCnt" \notin D2 /\ R.rate = s.pps * (wide + Overhead)
    BY DEF wide, D2, D1, none
  <2>3. Sofar(SetTxBurst(SetPps(SetTxRate(x[3], s.rate), s.pps), R.burst), R,
              D2 \cup {"rate", "burst"}, P3, none, wide, "ipv4")
    BY <1>6, <1>30, <2>2, PaceSofar DEF none
  <2> QED  BY <2>1, <2>3 DEF D6
<1>32. Sofar(x[7], R, D6, P7, none, wide, "ipv4")
  <2>1. Sofar(SetPort(x[6], "sport", R.pkts[Single].sport), R, D6, P3 \cup {"sport"},
              none, wide, "ipv4")
    BY <1>6, <1>31, PortsSofar DEF pkt
  <2> QED  BY <1>16, <2>1 DEF P7, pkt
<1>33. Sofar(x[8], R, D6, P8, none, wide, "ipv4")
  <2>1. Sofar(SetPort(x[7], "dport", R.pkts[Single].dport), R, D6, P7 \cup {"dport"},
              none, wide, "ipv4")
    BY <1>6, <1>32, PortsSofar DEF pkt
  <2> QED  BY <1>17, <2>1 DEF P8, pkt
<1>34. Sofar(x[9], R, D9, P8, none, wide, "ipv4")
  <2>1. Sofar(SetPrime(x[8], R.prime), R, D6 \cup {"prime"}, P8,
              none, wide, "ipv4")
    BY <1>6, <1>33, CountsSofar
  <2> QED  BY <1>18, <2>1 DEF D9
<1>35. Sofar(x[10], R, D9, P10, none, grown, p.ethType)
  <2> DEFINE type == p.ethType
             Q == P8 \cup {"size", "ethType"}
  <2>1. type \in {"arp", "ipv4", "ipv6"}
    BY <1>6
  <2>2. x[10] = SetPktType(x[9], type)
    BY <1>19
  <2> HIDE DEF type
  <2>3. Sofar(SetPktType(x[9], type), R, D9, Q, none, Raised(wide, type), type)
    BY <1>8, <1>34, <2>1, TypeSofar
  <2> QED  BY <2>2, <2>3 DEF P10, grown, type
<1>36. Sofar(x[11], R, D9, P11, none, grown, typeset)
  <2>1. Sofar(SetProto(x[10], R.pkts[Single].proto), R, D9, P10 \cup {"proto", "ethType"},
              none, grown, IF R.pkts[Single].proto = "icmp" THEN "ipv4" ELSE p.ethType)
    BY <1>35, ProtoSofar
  <2> QED  BY <1>20, <2>1 DEF P11, typeset, pkt
<1>37. Sofar(x[12], R, D9, P12, none, grown, typeset)
  <2>1. Sofar(SetDstIp(x[11], R.pkts[Single].dstIp), R, D9, P11 \cup {"dstIp"},
              none, grown, typeset)
    BY <1>36, AddressSofar
  <2> QED  BY <1>21, <2>1 DEF P12, pkt
<1>38. Sofar(x[13], R, D9, P13, none, grown, typeset)
  <2>1. Sofar(SetSrcIp(x[12], R.pkts[Single].srcIp, R.pkts[Single].mask), R, D9, P12 \cup {"srcIp", "mask"},
              none, grown, typeset)
    BY <1>37, AddressSofar
  <2> QED  BY <1>22, <2>1 DEF P13, pkt
<1>39. Sofar(x[14], R, D9, P14, none, grown, typeset)
  <2>1. Sofar(SetDstMac(x[13], R.pkts[Single].dstMac), R, D9, P13 \cup {"dstMac"},
              none, grown, typeset)
    BY <1>38, AddressSofar
  <2> QED  BY <1>23, <2>1 DEF P14, pkt
<1>40. Sofar(x[15], R, D9, P15, none, grown, typeset)
  <2>1. Sofar(SetSrcMac(x[14], R.pkts[Single].srcMac), R, D9, P14 \cup {"srcMac"},
              none, grown, typeset)
    BY <1>39, AddressSofar
  <2> QED  BY <1>24, <2>1 DEF P15, pkt
<1>41. Sofar(x[16], R, D9, P15, none, grown, typeset)
  BY <1>25, <1>40
<1>42. Sofar(x[17], R, D17, P15, none, grown, typeset)
  <2>1. Sofar(SetPattern(x[16], R.fill), R, D9 \cup {"fill"}, P15,
              none, grown, typeset)
    BY <1>41, FillsSofar
  <2> QED  BY <1>26, <2>1 DEF D17
<1> DEFINE D18 == D17 \cup {"user", "fill"}
<1> HIDE DEF D18
<1>43. Sofar(v, R, D18, P15, none, grown, typeset)
  <2>1. Sofar(w, R, D17, P15, none, grown, typeset)
    BY <1>5, <1>42
  <2>2. CASE s.fill = "user"
    <3>1. v = Step("cmd", w, own)
      BY <1>4, <2>2, ReadOne DEF user
    <3>2. v = Run(w, own)
      BY <3>1 DEF Step
    <3>3. Run(w, own) = SetUserPattern(w, "pattern")
      BY PacketLines DEF own
    <3>4. R.user = "pattern" /\ R.fill = "user"
      BY <1>0, <2>2
    <3>5. Sofar(SetUserPattern(w, R.user), R, D17 \cup {"user", "fill"}, P15, none,
                grown, typeset)
      BY <2>1, <3>4, FillsSofar
    <3> QED  BY <3>2, <3>3, <3>4, <3>5 DEF D18
  <2>3. CASE s.fill # "user"
    <3>1. v = w
      BY <1>4, <2>3, ReadNone DEF user
    <3>2. R.user = Fresh.user
      BY <2>3
    <3>3. w.user = Fresh.user /\ w.fill = R.fill /\ DOMAIN w = FieldNames
      <4>1. "user" \notin D17 /\ "fill" \in D17 /\ "user" \in Tops /\ "fill" \in Tops
        BY DEF D17, D9, D6, D2, D1, none, Tops
      <4> QED  BY <2>1, <4>1 DEF Sofar, Formed
    <3> DEFINE X == {"user", "fill"}
    <3>4. Only(w, w, X)
      BY <3>3 DEF Only
    <3>5. X \in SUBSET Tops /\ \A g0 \in X : w[g0] = R[g0]
      BY <3>2, <3>3 DEF Tops
    <3> HIDE DEF X
    <3>6. Sofar(w, R, D17 \cup X, P15, none, grown, typeset)
      BY <2>1, <3>4, <3>5, TopSofar
    <3> QED  BY <3>1, <3>6 DEF X, D18
  <2> QED  BY <2>2, <2>3
<1>44. Sofar(u, R, D18 \cup {"jitter"}, P15, none, grown, typeset)
  <2> DEFINE jline == <<"set", "jitter", s.jitter>>
  <2>1. u = Step("cmd", v, jline)
    <3> HIDE DEF jline
    <3>1. last = <<jline>>
      BY DEF last, jline
    <3> QED  BY <1>3, <3>1, ReadOne
  <2>2. Run(v, jline) = SetJitter(v, s.jitter)
    BY PacketLines
  <2>3. u = SetJitter(v, R.jitter)
    BY <1>0, <2>1, <2>2 DEF Step
  <2>4. Sofar(SetJitter(v, R.jitter), R, D18 \cup {"jitter"}, P15, none, grown, typeset)
    BY <1>43, FillsSofar
  <2> QED  BY <2>3, <2>4
<1>45. /\ D18 \cup {"jitter"} = {"macFromArp", "count", "rate", "burst", "prime", "fill",
                                "user", "jitter"}
       /\ P15 = {"sport", "dport", "size", "ethType", "proto", "dstIp", "srcIp", "mask",
                 "dstMac", "srcMac"}
  BY DEF D18, D17, D9, D6, D2, D1, P15, P14, P13, P12, P11, P10, P8, P7, P3, none
<1> QED  BY <1>9, <1>44, <1>45 DEF none

-----------------------------------------------------------------------------
(* The flags that are saved come back one by one.                          *)
LEMMA Back ==
  ASSUME NEW G, NEW f, NEW S
  PROVE  /\ Switched(G \cap S, f \in G, {f}) = G \cap (S \cup {f})
         /\ \A group : f \in group /\ (\A a, b \in group : a \in G /\ b \in G => a = b)
              => Chosen(G \cap S, f \in G, f, group) = G \cap (S \cup {f})
BY DEF Switched, Chosen

LEMMA SwitchSofar ==
  ASSUME NEW s, Exclusive(s), FlagsKept(s.flags), NEW S,
         NEW t, NEW R, NEW D, NEW P, NEW z, NEW e, Sofar(t, R, D, P, s.flags \cap S, z, e), NEW f
  PROVE  Sofar(Switch(t, Has(s, f), {f}), R, D, P, s.flags \cap (S \cup {f}), z, e)
<1> DEFINE u == Switch(t, Has(s, f), {f})
           F == s.flags \cap S
<1>1. DOMAIN t = FieldNames /\ t.flags = F
  BY SofarFormed
<1>2. Only(t, u, {"flags"}) /\ u.flags = Switched(F, Has(s, f), {f})
  BY <1>1, SwitchOnly
<1>3. u.flags = s.flags \cap (S \cup {f})
  BY <1>2, Back DEF Has
<1> HIDE DEF u, F
<1>4. Sofar(u, R, D, P, u.flags, z, e)
  BY <1>2, FlagSofar DEF F
<1> QED  BY <1>3, <1>4 DEF u

LEMMA OneOfSofar ==
  ASSUME NEW s, Exclusive(s), FlagsKept(s.flags), NEW S,
         NEW t, NEW R, NEW D, NEW P, NEW z, NEW e, Sofar(t, R, D, P, s.flags \cap S, z, e),
         NEW group \in {ModeFlags, TagFlags, GreFlags}, NEW f \in group
  PROVE  Sofar(OneOf(t, Has(s, f), f, group), R, D, P, s.flags \cap (S \cup {f}), z, e)
<1> DEFINE u == OneOf(t, Has(s, f), f, group)
           F == s.flags \cap S
<1>1. DOMAIN t = FieldNames /\ t.flags = F
  BY SofarFormed
<1>2. Only(t, u, {"flags"}) /\ u.flags = Chosen(F, Has(s, f), f, group)
  BY <1>1, OneOfOnly
<1>3. \A a, b \in group : a \in s.flags /\ b \in s.flags => a = b
  BY DEF Exclusive, AtMostOne
<1>4. u.flags = s.flags \cap (S \cup {f})
  BY <1>2, <1>3, Back DEF Has
<1> HIDE DEF u, F
<1>5. Sofar(u, R, D, P, u.flags, z, e)
  BY <1>2, FlagSofar DEF F
<1> QED  BY <1>4, <1>5 DEF u

LEMMA TagsSofar ==
  ASSUME NEW s, Exclusive(s), FlagsKept(s.flags), NEW S,
         NEW t, NEW R, NEW D, NEW P, NEW z, NEW e, Sofar(t, R, D, P, s.flags \cap S, z, e)
  PROVE  /\ Sofar(EnableMpls(t, Has(s, "SEND_MPLS_LABEL")), R, D, P,
                  s.flags \cap (S \cup {"SEND_MPLS_LABEL"}), z, e)
         /\ Sofar(EnableQinq(t, Has(s, "SEND_Q_IN_Q_IDS")), R, D, P,
                  s.flags \cap (S \cup {"SEND_Q_IN_Q_IDS"}), z, e)
         /\ Sofar(EnableVlan(t, Has(s, "SEND_VLAN_ID")), R, D, P,
                  s.flags \cap (S \cup {"SEND_VLAN_ID"}), z, e)
         /\ Sofar(EnableGre(t, Has(s, "SEND_GRE_IPv4_HEADER")), R, D, P,
                  s.flags \cap (S \cup {"SEND_GRE_IPv4_HEADER"}), z, e)
         /\ Sofar(EnableGreEth(t, Has(s, "SEND_GRE_ETHER_HEADER")), R, D, P,
                  s.flags \cap (S \cup {"SEND_GRE_ETHER_HEADER"}), z, e)
<1>1. Sofar(EnableMpls(t, Has(s, "SEND_MPLS_LABEL")), R, D, P, s.flags \cap (S \cup {"SEND_MPLS_LABEL"}),
          z, e)
  <2> DEFINE f == "SEND_MPLS_LABEL"
  <2>1. f \in TagFlags /\ TagFlags \in {ModeFlags, TagFlags, GreFlags}
    BY DEF TagFlags
  <2>2. EnableMpls(t, Has(s, f)) = OneOf(t, Has(s, f), f, TagFlags)
    BY DEF EnableMpls
  <2> HIDE DEF f
  <2>3. Sofar(OneOf(t, Has(s, f), f, TagFlags), R, D, P, s.flags \cap (S \cup {f}),
              z, e)
    BY <2>1, OneOfSofar
  <2> QED  BY <2>2, <2>3 DEF f
<1>2. Sofar(EnableQinq(t, Has(s, "SEND_Q_IN_Q_IDS")), R, D, P, s.flags \cap (S \cup {"SEND_Q_IN_Q_IDS"}),
          z, e)
  <2> DEFINE f == "SEND_Q_IN_Q_IDS"
  <2>1. f \in TagFlags /\ TagFlags \in {ModeFlags, TagFlags, GreFlags}
    BY DEF TagFlags
  <2>2. EnableQinq(t, Has(s, f)) = OneOf(t, Has(s, f), f, TagFlags)
    BY DEF EnableQinq
  <2> HIDE DEF f
  <2>3. Sofar(OneOf(t, Has(s, f), f, TagFlags), R, D, P, s.flags \cap (S \cup {f}),
              z, e)
    BY <2>1, OneOfSofar
  <2> QED  BY <2>2, <2>3 DEF f
<1>3. Sofar(EnableVlan(t, Has(s, "SEND_VLAN_ID")), R, D, P, s.flags \cap (S \cup {"SEND_VLAN_ID"}),
          z, e)
  <2> DEFINE f == "SEND_VLAN_ID"
  <2>1. f \in TagFlags /\ TagFlags \in {ModeFlags, TagFlags, GreFlags}
    BY DEF TagFlags
  <2>2. EnableVlan(t, Has(s, f)) = OneOf(t, Has(s, f), f, TagFlags)
    BY DEF EnableVlan
  <2> HIDE DEF f
  <2>3. Sofar(OneOf(t, Has(s, f), f, TagFlags), R, D, P, s.flags \cap (S \cup {f}),
              z, e)
    BY <2>1, OneOfSofar
  <2> QED  BY <2>2, <2>3 DEF f
<1>4. Sofar(EnableGre(t, Has(s, "SEND_GRE_IPv4_HEADER")), R, D, P, s.flags \cap (S \cup {"SEND_GRE_IPv4_HEADER"}),
          z, e)
  <2> DEFINE f == "SEND_GRE_IPv4_HEADER"
  <2>1. f \in GreFlags /\ GreFlags \in {ModeFlags, TagFlags, GreFlags}
    BY DEF GreFlags
  <2>2. EnableGre(t, Has(s, f)) = OneOf(t, Has(s, f), f, GreFlags)
    BY DEF EnableGre
  <2> HIDE DEF f
  <2>3. Sofar(OneOf(t, Has(s, f), f, GreFlags), R, D, P, s.flags \cap (S \cup {f}),
              z, e)
    BY <2>1, OneOfSofar
  <2> QED  BY <2>2, <2>3 DEF f
<1>5. Sofar(EnableGreEth(t, Has(s, "SEND_GRE_ETHER_HEADER")), R, D, P, s.flags \cap (S \cup {"SEND_GRE_ETHER_HEADER"}),
          z, e)
  <2> DEFINE f == "SEND_GRE_ETHER_HEADER"
  <2>1. f \in GreFlags /\ GreFlags \in {ModeFlags, TagFlags, GreFlags}
    BY DEF GreFlags
  <2>2. EnableGreEth(t, Has(s, f)) = OneOf(t, Has(s, f), f, GreFlags)
    BY DEF EnableGreEth
  <2> HIDE DEF f
  <2>3. Sofar(OneOf(t, Has(s, f), f, GreFlags), R, D, P, s.flags \cap (S \cup {f}),
              z, e)
    BY <2>1, OneOfSofar
  <2> QED  BY <2>2, <2>3 DEF f
<1> QED  BY <1>1, <1>2, <1>3, <1>4, <1>5

LEMMA ModesSofar ==
  ASSUME NEW s, Exclusive(s), FlagsKept(s.flags), NEW S,
         NEW t, NEW R, NEW D, NEW P, NEW z, NEW e, Sofar(t, R, D, P, s.flags \cap S, z, e)
  PROVE  /\ Sofar(EnableRange(t, Has(s, "SEND_RANGE_PKTS")), R, D, P,
                  s.flags \cap (S \cup {"SEND_RANGE_PKTS"}), z, e)
         /\ Sofar(EnablePcap(t, Has(s, "SEND_PCAP_PKTS")), R, D, P,
                  s.flags \cap (S \cup {"SEND_PCAP_PKTS"}), z, e)
<1> DEFINE F == s.flags \cap S
<1>0. DOMAIN t = FieldNames /\ t.flags = F
  BY SofarFormed
<1>1. \A a, b \in ModeFlags : a \in s.flags /\ b \in s.flags => a = b
  BY DEF Exclusive, AtMostOne
<1>2. Sofar(EnableRange(t, Has(s, "SEND_RANGE_PKTS")), R, D, P, s.flags \cap (S \cup {"SEND_RANGE_PKTS"}),
          z, e)
  <2> DEFINE f == "SEND_RANGE_PKTS"
             u == EnableRange(t, Has(s, f))
  <2>1. f \in ModeFlags
    BY DEF ModeFlags
  <2>2. Only(t, u, {"flags"})
    BY <1>0, ModeOnly
  <2>3. u.flags = Chosen(F, Has(s, f), f, ModeFlags)
    BY <1>0, ModeOnly
  <2> HIDE DEF f
  <2>4. u.flags = s.flags \cap (S \cup {f})
    BY <1>1, <2>1, <2>3, Back DEF Has
  <2> HIDE DEF u, F
  <2>5. Sofar(u, R, D, P, u.flags, z, e)
    BY <2>2, FlagSofar DEF F
  <2> QED  BY <2>4, <2>5 DEF u, f
<1>3. Sofar(EnablePcap(t, Has(s, "SEND_PCAP_PKTS")), R, D, P, s.flags \cap (S \cup {"SEND_PCAP_PKTS"}),
          z, e)
  <2> DEFINE f == "SEND_PCAP_PKTS"
             u == EnablePcap(t, Has(s, f))
  <2>1. f \in ModeFlags
    BY DEF ModeFlags
  <2>2. Only(t, u, {"flags"})
    BY <1>0, ModeOnly
  <2>3. /\ PcapSize # 0 => u.flags = Chosen(F, Has(s, f), f, ModeFlags)
        /\ PcapSize = 0 => u.flags = F /\ f \notin s.flags
    BY <1>0, ModeOnly DEF FlagsKept
  <2> HIDE DEF f
  <2>4. u.flags = s.flags \cap (S \cup {f})
    <3>1. CASE PcapSize # 0
      BY <1>1, <2>1, <2>3, <3>1, Back DEF Has
    <3>2. CASE PcapSize = 0
      BY <2>3, <3>2
    <3> QED  BY <3>1, <3>2
  <2> HIDE DEF u, F
  <2>5. Sofar(u, R, D, P, u.flags, z, e)
    BY <2>2, FlagSofar DEF F
  <2> QED  BY <2>4, <2>5 DEF u, f
<1> QED  BY <1>2, <1>3

LEMMA TapSofar ==
  ASSUME NEW s, Exclusive(s), FlagsKept(s.flags), NEW S,
         NEW t, NEW R, NEW D, NEW P, NEW z, NEW e, Sofar(t, R, D, P, s.flags \cap S, z, e),
         NEW f \in {"PROCESS_RX_TAP_PKTS", "PROCESS_TX_TAP_PKTS"}
  PROVE  Sofar(EnableTap(t, Has(s, f), f), R, D, P, s.flags \cap (S \cup {f}), z, e)
<1>1. Has(s, f) => TapOpens
  BY DEF FlagsKept, Has
<1>2. EnableTap(t, Has(s, f), f) = Switch(t, Has(s, f), {f})
  BY <1>1 DEF EnableTap
<1>3. Sofar(Switch(t, Has(s, f), {f}), R, D, P, s.flags \cap (S \cup {f}), z, e)
  BY SwitchSofar
<1> QED  BY <1>2, <1>3

(* The lines of FlagLines.                                                 *)
LEMMA FlagsRead ==
  ASSUME NEW s, Exclusive(s), FlagsKept(s.flags), IsPair(s.pkts[Single].qinq),
         NEW R, R.pkts[Single].qinq = s.pkts[Single].qinq,
         NEW t, NEW D, NEW P, NEW z, NEW e, Sofar(t, R, D, P, {}, z, e),
         NEW u, Reads("cmd", FlagLines(s), t, u)
  PROVE  Sofar(u, R, D, P \cup {"qinq"}, s.flags \cap SavedFlags, z, e)
<1> DEFINE q == s.pkts[Single].qinq
           l1 == <<EnDis(s, "SEND_MPLS_LABEL"), "mpls">>
           l2 == <<"set", "mpls_entry", s.pkts[Single].mpls>>
           l3 == <<EnDis(s, "SEND_Q_IN_Q_IDS"), "qinq">>
           l4 == <<"set", "qinqids", q>>
           l5 == <<EnDis(s, "SEND_GRE_IPv4_HEADER"), "gre">>
           l6 == <<EnDis(s, "SEND_GRE_ETHER_HEADER"), "gre_eth">>
           l7 == <<"set", "gre_key", s.pkts[Single].greKey>>
           l8 == <<EnDis(s, "ICMP_ECHO_ENABLE_FLAG"), "icmp">>
           l9 == <<EnDis(s, "SEND_PCAP_PKTS"), "pcap">>
           l10 == <<EnDis(s, "SEND_RANGE_PKTS"), "range">>
           l11 == <<EnDis(s, "SEND_LATENCY_PKTS"), "latency">>
           l12 == <<EnDis(s, "PROCESS_INPUT_PKTS"), "process">>
           l13 == <<EnDis(s, "CAPTURE_PKTS"), "capture">>
           l14 == <<EnDis(s, "PROCESS_RX_TAP_PKTS"), "rx_tap">>
           l15 == <<EnDis(s, "PROCESS_TX_TAP_PKTS"), "tx_tap">>
           l16 == <<EnDis(s, "SEND_VLAN_ID"), "vlan">>
<1>1. FlagLines(s) = <<l1, l2, l3, l4, l5, l6, l7, l8, l9, l10, l11, l12, l13, l14,
                      l15, l16>>
  BY DEF FlagLines
<1> HIDE DEF l1, l2, l3, l4, l5, l6, l7, l8, l9, l10, l11, l12, l13, l14, l15, l16
<1>2. PICK x : /\ x[0] = t /\ x[16] = u
               /\ x[1] = Step("cmd", x[0], l1) /\ x[2] = Step("cmd", x[1], l2)
               /\ x[3] = Step("cmd", x[2], l3) /\ x[4] = Step("cmd", x[3], l4)
               /\ x[5] = Step("cmd", x[4], l5) /\ x[6] = Step("cmd", x[5], l6)
               /\ x[7] = Step("cmd", x[6], l7) /\ x[8] = Step("cmd", x[7], l8)
               /\ x[9] = Step("cmd", x[8], l9) /\ x[10] = Step("cmd", x[9], l10)
               /\ x[11] = Step("cmd", x[10], l11) /\ x[12] = Step("cmd", x[11], l12)
               /\ x[13] = Step("cmd", x[12], l13) /\ x[14] = Step("cmd", x[13], l14)
               /\ x[15] = Step("cmd", x[14], l15) /\ x[16] = Step("cmd", x[15], l16)
  BY <1>1, ReadSixteen
<1>3. \A y, line : Step("cmd", y, line) = Run(y, line)
  BY DEF Step
<1> DEFINE S0 == {}
           S1 == S0 \cup {"SEND_MPLS_LABEL"}
           S3 == S1 \cup {"SEND_Q_IN_Q_IDS"}
           S5 == S3 \cup {"SEND_GRE_IPv4_HEADER"}
           S6 == S5 \cup {"SEND_GRE_ETHER_HEADER"}
           S8 == S6 \cup {"ICMP_ECHO_ENABLE_FLAG"}
           S9 == S8 \cup {"SEND_PCAP_PKTS"}
           S10 == S9 \cup {"SEND_RANGE_PKTS"}
           S11 == S10 \cup {"SEND_LATENCY_PKTS"}
           S12 == S11 \cup {"PROCESS_INPUT_PKTS"}
           S13 == S12 \cup {"CAPTURE_PKTS"}
           S14 == S13 \cup {"PROCESS_RX_TAP_PKTS"}
           S15 == S14 \cup {"PROCESS_TX_TAP_PKTS"}
           S16 == S15 \cup {"SEND_VLAN_ID"}
           N(y, Q, S) == Sofar(y, R, D, Q, s.flags \cap S, z, e)
           Q4 == P \cup {"qinq"}
<1>4. N(x[0], P, S0)
  <2>1. s.flags \cap S0 = {}
    OBVIOUS
  <2>2. N(t, P, S0)
    BY <2>1
  <2>3. x[0] = t
    BY <1>2
  <2> QED  BY <2>2, <2>3
<1> HIDE DEF S0, S1, S3, S5, S6, S8, S9, S10, S11, S12, S13, S14, S15, S16, Q4
<1>5. N(x[1], P, S1)
  <2>1. x[1] = Run(x[0], l1)
    BY <1>2, <1>3
  <2>2. Run(x[0], l1) = EnableMpls(x[0], Has(s, "SEND_MPLS_LABEL"))
    BY SwitchLines DEF l1
  <2>3. N(EnableMpls(x[0], Has(s, "SEND_MPLS_LABEL")), P, S0 \cup {"SEND_MPLS_LABEL"})
    BY <1>4, TagsSofar
  <2> QED  BY <2>1, <2>2, <2>3 DEF S1
<1>6. N(x[2], P, S1)
  <2>1. x[2] = Run(x[1], l2)
    BY <1>2, <1>3
  <2>2. Run(x[1], l2) = x[1]
    BY PacketLines DEF l2
  <2> QED  BY <1>5, <2>1, <2>2
<1>7. N(x[3], P, S3)
  <2>1. x[3] = Run(x[2], l3)
    BY <1>2, <1>3
  <2>2. Run(x[2], l3) = EnableQinq(x[2], Has(s, "SEND_Q_IN_Q_IDS"))
    BY SwitchLines DEF l3
  <2>3. N(EnableQinq(x[2], Has(s, "SEND_Q_IN_Q_IDS")), P, S1 \cup {"SEND_Q_IN_Q_IDS"})
    BY <1>6, TagsSofar
  <2> QED  BY <2>1, <2>2, <2>3 DEF S3
<1>8. N(x[4], Q4, S3)
  <2>1. x[4] = Run(x[3], l4)
    BY <1>2, <1>3
  <2>2. q = <<q[1], q[2]>>
    BY DEF IsPair
  <2> DEFINE v == q[1]
             w == q[2]
  <2>3. l4 = <<"set", "qinqids", <<v, w>>>> /\ <<v, w>> = R.pkts[Single].qinq
    BY <2>2 DEF l4
  <2> HIDE DEF v, w
  <2>4. Run(x[3], <<"set", "qinqids", <<v, w>>>>) = SetQinq(x[3], v, w)
    BY PairLines
  <2>5. N(SetQinq(x[3], v, w), P \cup {"qinq"}, S3)
    BY <1>7, <2>3, LabelsSofar
  <2> QED  BY <2>1, <2>3, <2>4, <2>5 DEF Q4
<1>9. N(x[5], Q4, S5)
  <2>1. x[5] = Run(x[4], l5)
    BY <1>2, <1>3
  <2>2. Run(x[4], l5) = EnableGre(x[4], Has(s, "SEND_GRE_IPv4_HEADER"))
    BY SwitchLines DEF l5
  <2>3. N(EnableGre(x[4], Has(s, "SEND_GRE_IPv4_HEADER")), Q4, S3 \cup {"SEND_GRE_IPv4_HEADER"})
    BY <1>8, TagsSofar
  <2> QED  BY <2>1, <2>2, <2>3 DEF S5
<1>10. N(x[6], Q4, S6)
  <2>1. x[6] = Run(x[5], l6)
    BY <1>2, <1>3
  <2>2. Run(x[5], l6) = EnableGreEth(x[5], Has(s, "SEND_GRE_ETHER_HEADER"))
    BY SwitchLines DEF l6
  <2>3. N(EnableGreEth(x[5], Has(s, "SEND_GRE_ETHER_HEADER")), Q4, S5 \cup {"SEND_GRE_ETHER_HEADER"})
    BY <1>9, TagsSofar
  <2> QED  BY <2>1, <2>2, <2>3 DEF S6
<1>11. N(x[7], Q4, S6)
  <2>1. x[7] = Run(x[6], l7)
    BY <1>2, <1>3
  <2>2. Run(x[6], l7) = x[6]
    BY PacketLines DEF l7
  <2> QED  BY <1>10, <2>1, <2>2
<1>12. N(x[8], Q4, S8)
  <2>1. x[8] = Run(x[7], l8)
    BY <1>2, <1>3
  <2>2. Run(x[7], l8) = Switch(x[7], Has(s, "ICMP_ECHO_ENABLE_FLAG"), {"ICMP_ECHO_ENABLE_FLAG"})
    BY SwitchLines DEF l8
  <2>3. N(Switch(x[7], Has(s, "ICMP_ECHO_ENABLE_FLAG"), {"ICMP_ECHO_ENABLE_FLAG"}), Q4, S6 \cup {"ICMP_ECHO_ENABLE_FLAG"})
    BY <1>11, SwitchSofar
  <2> QED  BY <2>1, <2>2, <2>3 DEF S8
<1>13. N(x[9], Q4, S9)
  <2>1. x[9] = Run(x[8], l9)
    BY <1>2, <1>3
  <2>2. Run(x[8], l9) = EnablePcap(x[8], Has(s, "SEND_PCAP_PKTS"))
    BY SwitchLines DEF l9
  <2>3. N(EnablePcap(x[8], Has(s, "SEND_PCAP_PKTS")), Q4, S8 \cup {"SEND_PCAP_PKTS"})
    BY <1>12, ModesSofar
  <2> QED  BY <2>1, <2>2, <2>3 DEF S9
<1>14. N(x[10], Q4, S10)
  <2>1. x[10] = Run(x[9], l10)
    BY <1>2, <1>3
  <2>2. Run(x[9], l10) = EnableRange(x[9], Has(s, "SEND_RANGE_PKTS"))
    BY SwitchLines DEF l10
  <2>3. N(EnableRange(x[9], Has(s, "SEND_RANGE_PKTS")), Q4, S9 \cup {"SEND_RANGE_PKTS"})
    BY <1>13, ModesSofar
  <2> QED  BY <2>1, <2>2, <2>3 DEF S10
<1>15. N(x[11], Q4, S11)
  <2>1. x[11] = Run(x[10], l11)
    BY <1>2, <1>3
  <2>2. Run(x[10], l11) = Switch(x[10], Has(s, "SEND_LATENCY_PKTS"), {"SEND_LATENCY_PKTS"})
    BY SwitchLines DEF l11
  <2>3. N(Switch(x[10], Has(s, "SEND_LATENCY_PKTS"), {"SEND_LATENCY_PKTS"}), Q4, S10 \cup {"SEND_LATENCY_PKTS"})
    BY <1>14, SwitchSofar
  <2> QED  BY <2>1, <2>2, <2>3 DEF S11
<1>16. N(x[12], Q4, S12)
  <2>1. x[12] = Run(x[11], l12)
    BY <1>2, <1>3
  <2>2. Run(x[11], l12) = Switch(x[11], Has(s, "PROCESS_INPUT_PKTS"), {"PROCESS_INPUT_PKTS"})
    BY SwitchLines DEF l12
  <2>3. N(Switch(x[11], Has(s, "PROCESS_INPUT_PKTS"), {"PROCESS_INPUT_PKTS"}), Q4, S11 \cup {"PROCESS_INPUT_PKTS"})
    BY <1>15, SwitchSofar
  <2> QED  BY <2>1, <2>2, <2>3 DEF S12
<1>17. N(x[13], Q4, S13)
  <2>1. x[13] = Run(x[12], l13)
    BY <1>2, <1>3
  <2>2. Run(x[12], l13) = Switch(x[12], Has(s, "CAPTURE_PKTS"), {"CAPTURE_PKTS"})
    BY SwitchLines DEF l13
  <2>3. N(Switch(x[12], Has(s, "CAPTURE_PKTS"), {"CAPTURE_PKTS"}), Q4, S12 \cup {"CAPTURE_PKTS"})
    BY <1>16, SwitchSofar
  <2> QED  BY <2>1, <2>2, <2>3 DEF S13
<1>18. N(x[14], Q4, S14)
  <2>1. x[14] = Run(x[13], l14)
    BY <1>2, <1>3
  <2>2. Run(x[13], l14) = EnableTap(x[13], Has(s, "PROCESS_RX_TAP_PKTS"), "PROCESS_RX_TAP_PKTS")
    BY SwitchLines DEF l14
  <2>3. N(EnableTap(x[13], Has(s, "PROCESS_RX_TAP_PKTS"), "PROCESS_RX_TAP_PKTS"), Q4, S13 \cup {"PROCESS_RX_TAP_PKTS"})
    BY <1>17, TapSofar
  <2> QED  BY <2>1, <2>2, <2>3 DEF S14
<1>19. N(x[15], Q4, S15)
  <2>1. x[15] = Run(x[14], l15)
    BY <1>2, <1>3
  <2>2. Run(x[14], l15) = EnableTap(x[14], Has(s, "PROCESS_TX_TAP_PKTS"), "PROCESS_TX_TAP_PKTS")
    BY SwitchLines DEF l15
  <2>3. N(EnableTap(x[14], Has(s, "PROCESS_TX_TAP_PKTS"), "PROCESS_TX_TAP_PKTS"), Q4, S14 \cup {"PROCESS_TX_TAP_PKTS"})
    BY <1>18, TapSofar
  <2> QED  BY <2>1, <2>2, <2>3 DEF S15
<1>20. N(x[16], Q4, S16)
  <2>1. x[16] = Run(x[15], l16)
    BY <1>2, <1>3
  <2>2. Run(x[15], l16) = EnableVlan(x[15], Has(s, "SEND_VLAN_ID"))
    BY SwitchLines DEF l16
  <2>3. N(EnableVlan(x[15], Has(s, "SEND_VLAN_ID")), Q4, S15 \cup {"SEND_VLAN_ID"})
    BY <1>19, TagsSofar
  <2> QED  BY <2>1, <2>2, <2>3 DEF S16
<1>21. S16 = SavedFlags
  BY Zenon DEF S16, S15, S14, S13, S12, S11, S10, S9, S8, S6, S5, S3, S1, S0, SavedFlags, Flags, ModeFlags, TagFlags, GreFlags
<1>22. x[16] = u
  BY <1>2
<1> QED  BY <1>20, <1>21, <1>22 DEF Q4

-----------------------------------------------------------------------------
(* Reading the ranges: of the settings b, those of the ranges X have       *)
(* become R's, the protocol of the ranges rp and the packets q.            *)
Ranging(t, b, R, X, rp, q) ==
  /\ Only(b, t, {"range", "rangeProto", "pkts"})
  /\ DOMAIN t.range = Dims /\ IsFcn(t.range) /\ \A d \in Dims : IsSpan(t.range[d])
  /\ \A d \in Dims : t.range[d] = IF d \in X THEN R.range[d] ELSE b.range[d]
  /\ t.rangeProto = rp /\ t.pkts = q

LEMMA Respanned ==
  ASSUME NEW x, IsSpan(x), NEW y, IsSpan(y)
  PROVE  Respan(Respan(Respan(Respan(y, "start", x["start"]), "min", x["min"]),
                       "max", x["max"]), "inc", x["inc"]) = x
<1>1. y = [w \in Smmi |-> y[w]] /\ x = [w \in Smmi |-> x[w]]
  BY DEF IsSpan
<1> DEFINE a == Respan(y, "start", x["start"])
           b == Respan(a, "min", x["min"])
           c == Respan(b, "max", x["max"])
           d == Respan(c, "inc", x["inc"])
<1>2. a = [w \in Smmi |-> IF w = "start" THEN x["start"] ELSE y[w]]
  BY <1>1 DEF Respan
<1> HIDE DEF a
<1>3. b = [w \in Smmi |-> IF w = "min" THEN x["min"] ELSE a[w]]
  BY <1>2 DEF Respan
<1> HIDE DEF b
<1>4. c = [w \in Smmi |-> IF w = "max" THEN x["max"] ELSE b[w]]
  BY <1>3 DEF Respan
<1> HIDE DEF c
<1>5. d = [w \in Smmi |-> IF w = "inc" THEN x["inc"] ELSE c[w]]
  BY <1>4 DEF Respan
<1> HIDE DEF d
<1>6. \A w \in Smmi : d[w] = x[w]
  BY <1>2, <1>3, <1>4, <1>5 DEF Smmi
<1>7. d = x
  BY <1>1, <1>5, <1>6
<1> QED  BY <1>7 DEF a, b, c, d

(* The four lines of a range, each setting one of its values.              *)
LEMMA SpansRanging ==
  ASSUME NEW t, NEW b, NEW R, NEW X, NEW rp, NEW q, Ranging(t, b, R, X, rp, q),
         NEW d, d \in Dims, IsSpan(R.range[d])
  PROVE  Ranging(SetSpan(SetSpan(SetSpan(SetSpan(t, d, "start", R.range[d]["start"]),
                                         d, "min", R.range[d]["min"]),
                                 d, "max", R.range[d]["max"]),
                         d, "inc", R.range[d]["inc"]), b, R, X \cup {d}, rp, q)
<1> DEFINE x == R.range[d]
           N(u, y) ==
             /\ Only(t, u, {"range"})
             /\ DOMAIN u.range = Dims /\ IsFcn(u.range)
             /\ \A e \in Dims : e = d \/ u.range[e] = t.range[e]
             /\ u.range[d] = y
<1>1. N(t, t.range[d]) /\ IsSpan(t.range[d])
  BY DEF Ranging, Only
<1>2. ASSUME NEW u, NEW y, N(u, y), NEW what, NEW v
      PROVE  N(SetSpan(u, d, what, v), Respan(y, what, v))
  <2> DEFINE w == SetSpan(u, d, what, v)
  <2>1. DOMAIN u = FieldNames /\ DOMAIN u.range = Dims
    BY <1>2 DEF Only
  <2>2. /\ Only(u, w, {"range"}) /\ DOMAIN w.range = Dims /\ IsFcn(w.range)
        /\ \A e \in Dims : e = d \/ w.range[e] = u.range[e]
        /\ w.range[d] = Respan(u.range[d], what, v)
    BY <2>1, SpanOnly
  <2> HIDE DEF w
  <2>3. Only(t, w, {"range"})
    BY <1>2, <2>2 DEF Only
  <2> QED  BY <1>2, <2>2, <2>3 DEF w
<1> DEFINE t1 == SetSpan(t, d, "start", x["start"])
           t2 == SetSpan(t1, d, "min", x["min"])
           t3 == SetSpan(t2, d, "max", x["max"])
           t4 == SetSpan(t3, d, "inc", x["inc"])
           y1 == Respan(t.range[d], "start", x["start"])
           y2 == Respan(y1, "min", x["min"])
           y3 == Respan(y2, "max", x["max"])
           y4 == Respan(y3, "inc", x["inc"])
<1> HIDE DEF N
<1>3. N(t1, y1)
  BY <1>1, <1>2
<1>4. N(t2, y2)
  <2> HIDE DEF t1, y1
  <2> QED  BY <1>2, <1>3
<1>5. N(t3, y3)
  <2> HIDE DEF t2, y2
  <2> QED  BY <1>2, <1>4
<1>6. N(t4, y4)
  <2> HIDE DEF t3, y3
  <2> QED  BY <1>2, <1>5
<1>7. y4 = x
  BY <1>1, Respanned
<1> HIDE DEF y4, t4
<1>8. N(t4, x)
  BY <1>6, <1>7
<1>9. Ranging(t4, b, R, X \cup {d}, rp, q)
  <2> USE DEF N
  <2>1. t4.rangeProto = t.rangeProto /\ t4.pkts = t.pkts
    BY <1>8 DEF Only, FieldNames
  <2>2. Only(b, t4, {"range", "rangeProto", "pkts"})
    BY <1>8 DEF Only, Ranging
  <2> HIDE DEF x
  <2>3. \A e \in Dims : t4.range[e] = IF e \in X \cup {d} THEN R.range[e] ELSE b.range[e]
    BY <1>8 DEF Ranging, x
  <2>4. \A e \in Dims : IsSpan(t4.range[e])
    BY <1>8 DEF Ranging, x
  <2> QED  BY <1>8, <2>1, <2>2, <2>3, <2>4 DEF Ranging
<1> QED  BY <1>9 DEF t4

-----------------------------------------------------------------------------
(* Four lines.                                                             *)
LEMMA Quartet ==
  ASSUME NEW lines, DOMAIN lines = 1..4, lines = [n \in 1..4 |-> lines[n]]
  PROVE  IsSeq(lines) /\ Len(lines) = 4
<1> DEFINE S == {lines[n] : n \in 1..4}
<1>1. lines \in [1..4 -> S]
  OBVIOUS
<1> HIDE DEF S
<1>2. lines \in Seq(S)
  BY <1>1
<1>3. Len(lines) = 4
  BY <1>2
<1> QED  BY <1>2, <1>3 DEF IsSeq

LEMMA ReadFour ==
  ASSUME NEW kind, NEW lines, Len(lines) = 4, NEW t, NEW u, Reads(kind, lines, t, u)
  PROVE  u = Step(kind, Step(kind, Step(kind, Step(kind, t, lines[1]), lines[2]),
                             lines[3]), lines[4])
<1>1. PICK f : f[0] = t /\ f[4] = u /\ Traced(kind, lines, 4, f)
  BY DEF Reads, ReadUpTo
<1>2. /\ f[1] = Step(kind, f[0], lines[1]) /\ f[2] = Step(kind, f[1], lines[2])
      /\ f[3] = Step(kind, f[2], lines[3]) /\ f[4] = Step(kind, f[3], lines[4])
  BY <1>1 DEF Traced
<1> QED  BY <1>1, <1>2

LEMMA RangeQuartet ==
  ASSUME NEW s, NEW d, NEW word
  PROVE  /\ IsSeq(RangeLines(s, d, word)) /\ Len(RangeLines(s, d, word)) = 4
         /\ RangeLines(s, d, word)[1] = <<"range", word, "start", s.range[d]["start"]>>
         /\ RangeLines(s, d, word)[2] = <<"range", word, "min", s.range[d]["min"]>>
         /\ RangeLines(s, d, word)[3] = <<"range", word, "max", s.range[d]["max"]>>
         /\ RangeLines(s, d, word)[4] = <<"range", word, "inc", s.range[d]["inc"]>>
<1> DEFINE l == RangeLines(s, d, word)
<1>1. DOMAIN l = 1..4 /\ l = [n \in 1..4 |-> l[n]]
  BY DEF RangeLines
<1>2. \A n \in 1..4 : l[n] = <<"range", word, SmmiSeq[n], s.range[d][SmmiSeq[n]]>>
  BY DEF RangeLines
<1> HIDE DEF l
<1>3. IsSeq(l) /\ Len(l) = 4
  BY <1>1, Quartet
<1>4. SmmiSeq[1] = "start" /\ SmmiSeq[2] = "min" /\ SmmiSeq[3] = "max" /\ SmmiSeq[4] = "inc"
  BY DEF SmmiSeq
<1>5. /\ l[1] = <<"range", word, "start", s.range[d]["start"]>>
      /\ l[2] = <<"range", word, "min", s.range[d]["min"]>>
      /\ l[3] = <<"range", word, "max", s.range[d]["max"]>>
      /\ l[4] = <<"range", word, "inc", s.range[d]["inc"]>>
  BY <1>2, <1>4
<1> QED  BY <1>3, <1>5 DEF l

(* The line of a range that the command line knows, and of one it does     *)
(* not: nothing.                                                           *)
Strange == {"mac src", "mac dst", "sport", "dport"}

LEMMA RangeLine ==
  ASSUME NEW t, NEW what, NEW v
  PROVE  /\ \A d \in Dims : Run(t, <<"range", d, what, v>>) = RangeDim(t, d, what, v)
         /\ \A d \in Strange : Run(t, <<"range", d, what, v>>) = t
<1>1. ASSUME NEW d \in Dims PROVE Run(t, <<"range", d, what, v>>) = RangeDim(t, d, what, v)
  <2> DEFINE l == <<"range", d, what, v>>
  <2>1. l[1] = "range" /\ l[2] = d /\ l[3] = what /\ l[4] = v /\ Len(l) = 4
        /\ Len(l) # 3
    OBVIOUS
  <2> HIDE DEF l
  <2>2. l[2] \in Dims /\ l[1] # "set" /\ l[1] \notin {"enable", "disable"}
        /\ l[1] # "seq" /\ l[1] # "misc"
    BY <1>1, <2>1
  <2>3. l[1] # "seq cos"
    BY <2>1, Zenon
  <2>4. Run(t, l) = RangeDim(t, l[2], l[3], l[4])
    BY <2>1, <2>2, <2>3, Zenon DEF Run
  <2> QED  BY <2>1, <2>4 DEF l
<1>2. ASSUME NEW d \in Strange PROVE Run(t, <<"range", d, what, v>>) = t
  <2> DEFINE l == <<"range", d, what, v>>
  <2>1. l[1] = "range" /\ l[2] = d /\ l[3] = what /\ l[4] = v
    OBVIOUS
  <2> HIDE DEF l
  <2>2. d \notin Dims
    BY <1>2, Zenon DEF Dims, Strange
  <2>3. Run(t, l) = RangeOther(t, d, what)
    BY <2>1, <2>2 DEF Run
  <2>4. d # "proto" /\ d # "mpls entry" /\ d # "qinq index" /\ d # "gre key"
    BY <1>2, Zenon DEF Strange
  <2>5. RangeOther(t, d, what) = t
    BY <2>4 DEF RangeOther
  <2> QED  BY <2>3, <2>5 DEF l
<1> QED  BY <1>1, <1>2

LEMMA StrangeRead ==
  ASSUME NEW s, NEW d, NEW word, word \in Strange, NEW t, NEW u,
         Reads("cmd", RangeLines(s, d, word), t, u)
  PROVE  u = t
<1> DEFINE l == RangeLines(s, d, word)
           x == s.range[d]
<1>1. /\ Len(l) = 4
      /\ l[1] = <<"range", word, "start", x["start"]>>
      /\ l[2] = <<"range", word, "min", x["min"]>>
      /\ l[3] = <<"range", word, "max", x["max"]>>
      /\ l[4] = <<"range", word, "inc", x["inc"]>>
  BY RangeQuartet
<1> HIDE DEF l, x
<1>2. \A w : Step("cmd", w, l[1]) = w /\ Step("cmd", w, l[2]) = w
             /\ Step("cmd", w, l[3]) = w /\ Step("cmd", w, l[4]) = w
  <2>1. \A w, what, v : Run(w, <<"range", word, what, v>>) = w
    BY RangeLine
  <2> QED  BY <1>1, <2>1 DEF Step
<1>3. u = Step("cmd", Step("cmd", Step("cmd", Step("cmd", t, l[1]), l[2]), l[3]), l[4])
  BY <1>1, ReadFour DEF l
<1> QED  BY <1>2, <1>3

LEMMA RangeRead ==
  ASSUME NEW s, NEW R, NEW d, d \in Dims, IsSpan(R.range[d]), R.range[d] = s.range[d],
         \A w, what : what \in Smmi =>
           RangeDim(w, d, what, s.range[d][what]) = SetSpan(w, d, what, s.range[d][what]),
         NEW t, NEW u, Reads("cmd", RangeLines(s, d, d), t, u),
         NEW b, NEW X, NEW rp, NEW q, Ranging(t, b, R, X, rp, q)
  PROVE  Ranging(u, b, R, X \cup {d}, rp, q)
<1> DEFINE l == RangeLines(s, d, d)
           x == s.range[d]
<1>1. /\ Len(l) = 4
      /\ l[1] = <<"range", d, "start", x["start"]>>
      /\ l[2] = <<"range", d, "min", x["min"]>>
      /\ l[3] = <<"range", d, "max", x["max"]>>
      /\ l[4] = <<"range", d, "inc", x["inc"]>>
  BY RangeQuartet
<1> HIDE DEF l
<1>2. \A w : /\ Step("cmd", w, l[1]) = SetSpan(w, d, "start", x["start"])
             /\ Step("cmd", w, l[2]) = SetSpan(w, d, "min", x["min"])
             /\ Step("cmd", w, l[3]) = SetSpan(w, d, "max", x["max"])
             /\ Step("cmd", w, l[4]) = SetSpan(w, d, "inc", x["inc"])
  <2>1. \A w, what, v : Run(w, <<"range", d, what, v>>) = RangeDim(w, d, what, v)
    BY RangeLine
  <2>2. "start" \in Smmi /\ "min" \in Smmi /\ "max" \in Smmi /\ "inc" \in Smmi
    BY DEF Smmi
  <2> QED  BY <1>1, <2>1, <2>2 DEF Step
<1>3. u = Step("cmd", Step("cmd", Step("cmd", Step("cmd", t, l[1]), l[2]), l[3]), l[4])
  BY <1>1, ReadFour DEF l
<1>4. u = SetSpan(SetSpan(SetSpan(SetSpan(t, d, "start", x["start"]),
                                  d, "min", x["min"]),
                          d, "max", x["max"]), d, "inc", x["inc"])
  BY <1>2, <1>3
<1>5. R.range[d] = x
  OBVIOUS
<1> QED  BY <1>4, <1>5, SpansRanging

(* The values the ranges hold go through the command line unchanged.       *)
Copied == {"src ip", "dst ip", "vlan", "cos", "tos"}
LEMMA RangeDimSame ==
  ASSUME NEW d, d \in Copied,
         NEW w, NEW what, NEW v, Bounded(d, what, v)
  PROVE  RangeDim(w, d, what, v) = SetSpan(w, d, what, v)
<1>1. d \in {"dst ip", "src ip"} \/ d = "vlan" \/ d = "cos" \/ d = "tos"
  BY Zenon DEF Copied
<1>2. CASE d \in {"dst ip", "src ip"}
  <2>1. RangeDim(w, d, what, v) = RangeIp(w, d, what, v)
    <3>1. d \notin {"dst mac", "src mac"}
      BY <1>2, Zenon
    <3> QED  BY <1>2, <3>1, Zenon DEF RangeDim
  <2> QED  BY <2>1 DEF RangeIp
<1>3. CASE d = "vlan"
  <2>1. RangeDim(w, "vlan", what, v) = RangeVlan(w, what, v)
    BY Zenon DEF RangeDim
  <2>2. IF what = "inc" THEN v \in 0..64 ELSE v \in VlanIds
    BY <1>3 DEF Bounded
  <2>3. what = "inc" => Min({v, 64}) = v
    <3>1. ASSUME what = "inc" PROVE Min({v, 64}) = v
      <4>1. v \in 0..64
        BY <2>2, <3>1
      <4>2. Min({v, 64}) = IF v <= 64 THEN v ELSE 64
        BY <4>1, MinOfTwo
      <4> HIDE DEF Min
      <4> QED  BY <4>1, <4>2
    <3> QED  BY <3>1
  <2> HIDE DEF Min
  <2>4. RangeVlan(w, what, v) = SetSpan(w, "vlan", what, v)
    BY <2>2, <2>3 DEF RangeVlan
  <2> QED  BY <1>3, <2>1, <2>4
<1>4. CASE d = "cos"
  <2>1. RangeDim(w, "cos", what, v) = RangeCos(w, what, v)
    BY Zenon DEF RangeDim
  <2>2. IF what = "inc" THEN v \in 0..7 ELSE v \in Byte
    BY <1>4 DEF Bounded
  <2>3. v \in Byte
    BY <2>2 DEF Byte
  <2>4. v % 2^8 = v
    BY <2>3, ByteKept
  <2>5. what = "inc" => Min({v, 7}) = v
    <3>1. ASSUME what = "inc" PROVE Min({v, 7}) = v
      <4>1. v \in 0..7
        BY <2>2, <3>1
      <4>2. Min({v, 7}) = IF v <= 7 THEN v ELSE 7
        BY <4>1, MinOfTwo
      <4> HIDE DEF Min
      <4> QED  BY <4>1, <4>2
    <3> QED  BY <3>1
  <2> HIDE DEF Min
  <2>6. CapInc(what, v, 7) = v
    BY <2>5 DEF CapInc
  <2>7. RangeCos(w, what, v) = SetSpan(w, "cos", what, v)
    BY <2>4, <2>6 DEF RangeCos
  <2> QED  BY <1>4, <2>1, <2>7
<1>5. CASE d = "tos"
  <2>1. RangeDim(w, "tos", what, v) = RangeTos(w, what, v)
    BY Zenon DEF RangeDim
  <2>2. v % 2^8 = v
    BY <1>5, ByteKept DEF Bounded
  <2>3. RangeTos(w, what, v) = SetSpan(w, "tos", what, v)
    BY <2>2 DEF RangeTos
  <2> QED  BY <1>5, <2>1, <2>3
<1> QED  BY <1>1, <1>2, <1>3, <1>4, <1>5

LEMMA CopiedRead ==
  ASSUME NEW s, RangesKept(s.range), NEW R, NEW d, d \in Copied, R.range[d] = s.range[d],
         NEW t, NEW u, Reads("cmd", RangeLines(s, d, d), t, u),
         NEW b, NEW X, NEW rp, NEW q, Ranging(t, b, R, X, rp, q)
  PROVE  Ranging(u, b, R, X \cup {d}, rp, q)
<1>1. d \in Dims
  BY Zenon DEF Copied, Dims
<1>2. IsSpan(s.range[d]) /\ \A what \in Smmi : Bounded(d, what, s.range[d][what])
  BY <1>1 DEF RangesKept
<1>3. IsSpan(R.range[d])
  BY <1>2
<1>4. \A w, what : what \in Smmi =>
        RangeDim(w, d, what, s.range[d][what]) = SetSpan(w, d, what, s.range[d][what])
  BY <1>2, RangeDimSame
<1> QED  BY <1>1, <1>3, <1>4, RangeRead

(* The sizes: written with the FCS, and the increment not as it is read.   *)
SizeLines(s) == [n \in 1..4 |-> <<"range", "size", SmmiSeq[n], SizeText(s, SmmiSeq[n])>>]
LEMMA SizeQuartet ==
  ASSUME NEW s
  PROVE  /\ IsSeq(SizeLines(s)) /\ Len(SizeLines(s)) = 4
         /\ SizeLines(s)[1] = <<"range", "size", "start", s.range["size"]["start"] + Fcs>>
         /\ SizeLines(s)[2] = <<"range", "size", "min", s.range["size"]["min"] + Fcs>>
         /\ SizeLines(s)[3] = <<"range", "size", "max", s.range["size"]["max"] + Fcs>>
         /\ SizeLines(s)[4] = <<"range", "size", "inc", s.range["size"]["inc"] + 0>>
<1> DEFINE l == SizeLines(s)
<1>1. IsSeq(l) /\ Len(l) = 4
  BY Quartet DEF SizeLines
<1>2. /\ SmmiSeq[1] = "start" /\ SmmiSeq[2] = "min" /\ SmmiSeq[3] = "max"
      /\ SmmiSeq[4] = "inc"
  BY DEF SmmiSeq
<1>3. \A n \in 1..4 : l[n] = <<"range", "size", SmmiSeq[n], SizeText(s, SmmiSeq[n])>>
  BY DEF SizeLines
<1> HIDE DEF l
<1>4. /\ SizeText(s, "start") = s.range["size"]["start"] + Fcs
      /\ SizeText(s, "min") = s.range["size"]["min"] + Fcs
      /\ SizeText(s, "max") = s.range["size"]["max"] + Fcs
      /\ SizeText(s, "inc") = s.range["size"]["inc"] + 0
  BY DEF SizeText
<1>5. /\ l[1] = <<"range", "size", SmmiSeq[1], SizeText(s, SmmiSeq[1])>>
      /\ l[2] = <<"range", "size", SmmiSeq[2], SizeText(s, SmmiSeq[2])>>
      /\ l[3] = <<"range", "size", SmmiSeq[3], SizeText(s, SmmiSeq[3])>>
      /\ l[4] = <<"range", "size", SmmiSeq[4], SizeText(s, SmmiSeq[4])>>
  BY <1>3
<1> QED  BY <1>1, <1>2, <1>4, <1>5 DEF l

LEMMA SizeValue ==
  ASSUME NEW t, "SEND_SHORT_PACKETS" \notin t.flags, NEW x
  PROVE  /\ \A what \in {"start", "min", "max"} : x \in MinSize..MaxSize =>
              RangeDim(t, "size", what, x + Fcs) = SetSpan(t, "size", what, x)
         /\ x \in Nat =>
              RangeDim(t, "size", "inc", x + 0) = SetSpan(t, "size", "inc", MinSize + Fcs)
<1>1. MinSize = 60 /\ Fcs = 4 /\ MaxSize = 1514
  BY DEF MinSize, Fcs, MaxSize
<1>2. \A what, v : RangeDim(t, "size", what, v) = RangeSize(t, what, ValidSize(t, v))
  BY Zenon DEF RangeDim
<1>3. \A n \in Nat : ValidSize(t, n) = IF n < 64 THEN 64 ELSE IF n > 1518 THEN 1518 ELSE n
  <2>1. TAKE n \in Nat
  <2>2. ValidSize(t, n) = Min({Max({n, MinSize + Fcs}), MaxSize + Fcs})
    BY DEF ValidSize
  <2>3. Max({n, MinSize + Fcs}) = IF n >= MinSize + Fcs THEN n ELSE MinSize + Fcs
    BY <1>1, MaxOfTwo
  <2>4. Max({n, MinSize + Fcs}) \in Nat
    BY <1>1, <2>3
  <2>5. Min({Max({n, MinSize + Fcs}), MaxSize + Fcs})
          = IF Max({n, MinSize + Fcs}) <= MaxSize + Fcs
            THEN Max({n, MinSize + Fcs}) ELSE MaxSize + Fcs
    BY <1>1, <2>4, MinOfTwo
  <2> HIDE DEF Min, Max
  <2> QED  BY <1>1, <2>2, <2>3, <2>5
<1>4. ASSUME NEW what \in {"start", "min", "max"}, x \in MinSize..MaxSize
      PROVE  RangeDim(t, "size", what, x + Fcs) = SetSpan(t, "size", what, x)
  <2>1. ValidSize(t, x + Fcs) = x + Fcs
    BY <1>1, <1>3, <1>4
  <2>2. RangeSize(t, what, x + Fcs) = SetSpan(t, "size", what, x)
    <3> DEFINE n == x + Fcs
    <3>1. n \in Nat /\ ~(n < MinSize + Fcs) /\ ~(n > MaxSize + Fcs) /\ n - Fcs = x
      BY <1>1, <1>4
    <3> HIDE DEF n
    <3>2. what # "inc"
      BY <1>4
    <3>3. RangeSize(t, what, n) = SetSpan(t, "size", what, n - Fcs)
      BY <3>1, <3>2 DEF RangeSize
    <3> QED  BY <3>1, <3>3 DEF n
  <2> QED  BY <1>2, <2>1, <2>2
<1>5. ASSUME x \in Nat
      PROVE  RangeDim(t, "size", "inc", x + 0) = SetSpan(t, "size", "inc", MinSize + Fcs)
  <2> DEFINE n == ValidSize(t, x + 0)
  <2>1. n \in Nat /\ n >= MinSize + Fcs
    BY <1>1, <1>3, <1>5
  <2> HIDE DEF n
  <2>2. Min({n, MinSize + Fcs}) = MinSize + Fcs
    <3>1. Min({n, MinSize + Fcs}) = IF n <= MinSize + Fcs THEN n ELSE MinSize + Fcs
      BY <1>1, <2>1, MinOfTwo
    <3> HIDE DEF Min
    <3> QED  BY <1>1, <2>1, <3>1
  <2>3. RangeSize(t, "inc", n) = SetSpan(t, "size", "inc", MinSize + Fcs)
    BY <2>2 DEF RangeSize
  <2> QED  BY <1>2, <2>3 DEF n
<1> QED  BY <1>4, <1>5

LEMMA SizesRead ==
  ASSUME NEW s, SpansFit(s), NEW R, IsSpan(R.range["size"]),
         R.range["size"]["start"] = s.range["size"]["start"],
         R.range["size"]["min"] = s.range["size"]["min"],
         R.range["size"]["max"] = s.range["size"]["max"],
         R.range["size"]["inc"] = MinSize + Fcs,
         NEW t, "SEND_SHORT_PACKETS" \notin t.flags, NEW u, Reads("cmd", SizeLines(s), t, u),
         NEW b, NEW X, NEW rp, NEW q, Ranging(t, b, R, X, rp, q)
  PROVE  Ranging(u, b, R, X \cup {"size"}, rp, q)
<1> DEFINE l == SizeLines(s)
           x == s.range["size"]
           r == R.range["size"]
           t1 == SetSpan(t, "size", "start", r["start"])
           t2 == SetSpan(t1, "size", "min", r["min"])
           t3 == SetSpan(t2, "size", "max", r["max"])
           t4 == SetSpan(t3, "size", "inc", r["inc"])
<1>1. /\ Len(l) = 4
      /\ l[1] = <<"range", "size", "start", x["start"] + Fcs>>
      /\ l[2] = <<"range", "size", "min", x["min"] + Fcs>>
      /\ l[3] = <<"range", "size", "max", x["max"] + Fcs>>
      /\ l[4] = <<"range", "size", "inc", x["inc"] + 0>>
  BY SizeQuartet
<1>2. u = Step("cmd", Step("cmd", Step("cmd", Step("cmd", t, l[1]), l[2]), l[3]), l[4])
  BY <1>1, ReadFour
<1>3. /\ x["start"] \in MinSize..MaxSize /\ x["min"] \in MinSize..MaxSize
      /\ x["max"] \in MinSize..MaxSize /\ x["inc"] \in Nat
  BY DEF SpansFit, SizeSpan
<1> HIDE DEF l
<1>4. "size" \in Dims
  BY Zenon DEF Dims
<1>5. \A w, what, v : Step("cmd", w, <<"range", "size", what, v>>) = RangeDim(w, "size", what, v)
  BY <1>4, RangeLine DEF Step
<1>6. \A w, what, v : DOMAIN w = FieldNames =>
        DOMAIN SetSpan(w, "size", what, v) = FieldNames
        /\ SetSpan(w, "size", what, v).flags = w.flags
  <2>1. "flags" \in FieldNames /\ "flags" \notin {"range"} \cup {"pps", "cycles"}
    BY DEF FieldNames
  <2> QED  BY <2>1, SpanOnly DEF Only
<1>7. DOMAIN t = FieldNames
  BY DEF Ranging, Only
<1>8. /\ DOMAIN t1 = FieldNames /\ t1.flags = t.flags
      /\ DOMAIN t2 = FieldNames /\ t2.flags = t.flags
      /\ DOMAIN t3 = FieldNames /\ t3.flags = t.flags
  BY <1>6, <1>7
<1>9. Step("cmd", t, l[1]) = t1
  BY <1>1, <1>3, <1>5, SizeValue
<1> HIDE DEF t1
<1>10. Step("cmd", t1, l[2]) = t2
  BY <1>1, <1>3, <1>5, <1>8, SizeValue
<1> HIDE DEF t2
<1>11. Step("cmd", t2, l[3]) = t3
  BY <1>1, <1>3, <1>5, <1>8, SizeValue
<1> HIDE DEF t3
<1>12. Step("cmd", t3, l[4]) = t4
  BY <1>1, <1>3, <1>5, <1>8, SizeValue
<1>13. u = t4
  BY <1>2, <1>9, <1>10, <1>11, <1>12
<1> QED  BY <1>4, <1>13, SpansRanging DEF t1, t2, t3

(* The protocol of the ranges, of which the command line knows two.        *)
LEMMA ProtoLine ==
  ASSUME NEW t, NEW v
  PROVE  Run(t, <<"range", "proto", v>>) = IF v \in {"tcp", "udp"} THEN RangeProto(t, v) ELSE t
<1> DEFINE l == <<"range", "proto", v>>
<1>1. l[1] = "range" /\ l[2] = "proto" /\ l[3] = v
  OBVIOUS
<1> HIDE DEF l
<1>2. "proto" \notin Dims
  BY Zenon DEF Dims
<1>3. Run(t, l) = RangeOther(t, "proto", v)
  BY <1>1, <1>2 DEF Run
<1>4. RangeOther(t, "proto", v) = IF v \in {"tcp", "udp"} THEN RangeProto(t, v) ELSE t
  <2>1. CASE v \in {"tcp", "udp"}
    <3>1. RangeOther(t, "proto", v) = RangeProto(t, v)
      BY <2>1, Zenon DEF RangeOther
    <3> QED  BY <2>1, <3>1
  <2>2. CASE v \notin {"tcp", "udp"}
    <3>1. RangeOther(t, "proto", v) = t
      BY <2>2, Zenon DEF RangeOther
    <3> QED  BY <2>2, <3>1
  <2> QED  BY <2>1, <2>2
<1> QED  BY <1>3, <1>4 DEF l

(* The packets q with another protocol in the slot of the ranges.          *)
Proto(v) == IF v = "icmp" THEN "tcp" ELSE v
Reproto(q, v) ==
  [k \in Slots |-> IF k = Ranged THEN [q[k] EXCEPT !.proto = Proto(v)] ELSE q[k]]
LEMMA ProtoRead ==
  ASSUME NEW v, v \in {"tcp", "udp", "icmp"}, NEW b, Formed(b),
         b.pkts[Ranged].proto = "tcp", b.pkts[Ranged].ethType = "ipv4",
         NEW t, NEW R, NEW X, Ranging(t, b, R, X, "tcp", b.pkts),
         NEW u, Reads("cmd", << <<"range", "proto", v>> >>, t, u)
  PROVE  Ranging(u, b, R, X, Proto(v), Reproto(b.pkts, v))
<1> DEFINE p == b.pkts[Ranged]
<1>1. u = IF v \in {"tcp", "udp"} THEN RangeProto(t, v) ELSE t
  <2>1. u = Step("cmd", t, <<"range", "proto", v>>)
    BY ReadOne
  <2> QED  BY <2>1, ProtoLine DEF Step
<1>2. Packet(p) /\ Ranged \in Slots /\ p.proto = "tcp" /\ p.ethType = "ipv4"
  BY RangedPlace DEF Formed
<1>3. Formed(t) /\ t.pkts = b.pkts
  BY DEF Ranging, Only, Formed
<1>4. [p EXCEPT !.proto = "tcp"] = p
  BY <1>2 DEF Packet, IsFcn
<1>5. ASSUME v = "icmp" PROVE Reproto(b.pkts, v) = b.pkts
  <2>1. \A k \in Slots : (IF k = Ranged THEN [b.pkts[k] EXCEPT !.proto = Proto(v)]
                                       ELSE b.pkts[k]) = b.pkts[k]
    BY <1>4, <1>5 DEF Proto
  <2>2. Reproto(b.pkts, v) = [k \in Slots |-> b.pkts[k]]
    BY <2>1 DEF Reproto
  <2> QED  BY <2>2 DEF Formed, Table, IsFcn
<1>6. ASSUME v # "icmp" PROVE Ranging(RangeProto(t, v), b, R, X, Proto(v), Reproto(b.pkts, v))
  <2> DEFINE w == RangeProto(t, v)
  <2>1. /\ Only(t, w, {"rangeProto", "pkts"}) /\ w.rangeProto = v /\ Table(w.pkts)
        /\ \A k \in Slots : k = Ranged \/ w.pkts[k] = t.pkts[k]
        /\ w.pkts[Ranged] = Protoed(t.pkts[Ranged], v)
    BY <1>3, RangeProtoOnly
  <2> HIDE DEF w
  <2>2. Protoed(p, v) = [p EXCEPT !.proto = v]
    <3>1. Protoed(p, v) = [[p EXCEPT !.proto = v] EXCEPT !.ethType = "ipv4"]
      BY <1>2, <1>6 DEF Protoed, Packet, PktFields
    <3>2. [p EXCEPT !.proto = v].ethType = "ipv4"
      BY <1>2 DEF Packet, PktFields
    <3> QED  BY <3>1, <3>2
  <2>3. w.pkts = Reproto(b.pkts, v)
    <3>1. \A k \in Slots : w.pkts[k] = Reproto(b.pkts, v)[k]
      BY <1>3, <1>6, <2>1, <2>2 DEF Reproto, Proto
    <3>2. w.pkts = [k \in Slots |-> w.pkts[k]]
      BY <2>1 DEF Table, IsFcn
    <3>3. Reproto(b.pkts, v) = [k \in Slots |-> Reproto(b.pkts, v)[k]]
      BY DEF Reproto
    <3> QED  BY <3>1, <3>2, <3>3
  <2>4. Only(b, w, {"range", "rangeProto", "pkts"})
    BY <2>1 DEF Ranging, Only
  <2>5. w.range = t.range
    BY <2>1 DEF Only, FieldNames
  <2> QED  BY <1>6, <2>1, <2>3, <2>4, <2>5 DEF Ranging, Proto, w
<1> QED  BY <1>1, <1>5, <1>6 DEF Proto

-----------------------------------------------------------------------------
(* All lines of the ranges, from settings b whose ranges are fresh.        *)
Respans(s, R) ==
  /\ \A d \in Copied : R.range[d] = s.range[d]
  /\ IsSpan(R.range["size"])
  /\ R.range["size"]["start"] = s.range["size"]["start"]
  /\ R.range["size"]["min"] = s.range["size"]["min"]
  /\ R.range["size"]["max"] = s.range["size"]["max"]
  /\ R.range["size"]["inc"] = MinSize + Fcs
LEMMA RangingSize ==
  ASSUME NEW t, NEW b, NEW R, NEW X, NEW rp, NEW q, Ranging(t, b, R, X, rp, q)
  PROVE  t.flags = b.flags
BY DEF Ranging, Only, FieldNames

LEMMA FirstRanges ==
  ASSUME NEW s, RangesKept(s.range), NEW R, Respans(s, R),
         NEW t, NEW u,
         Reads("cmd", RangeLines(s, "src mac", "mac src") \o RangeLines(s, "dst mac", "mac dst")
                      \o RangeLines(s, "src ip", "src ip") \o RangeLines(s, "dst ip", "dst ip"),
               t, u),
         NEW b, NEW X, NEW rp, NEW q, Ranging(t, b, R, X, rp, q)
  PROVE  Ranging(u, b, R, X \cup {"src ip", "dst ip"}, rp, q)
<1> DEFINE a == RangeLines(s, "src mac", "mac src")
           c == RangeLines(s, "dst mac", "mac dst")
           d == RangeLines(s, "src ip", "src ip")
           e == RangeLines(s, "dst ip", "dst ip")
<1>1. IsSeq(a) /\ IsSeq(c) /\ IsSeq(d) /\ IsSeq(e)
  BY RangeQuartet, Zenon
<1>2. Reads("cmd", a \o c \o d \o e, t, u)
  OBVIOUS
<1> HIDE DEF a, c, d, e
<1>3. IsSeq(a \o c) /\ IsSeq((a \o c) \o d)
  BY <1>1, Joined, Zenon
<1>4. PICK w3 : Reads("cmd", (a \o c) \o d, t, w3) /\ Reads("cmd", e, w3, u)
  BY <1>1, <1>2, <1>3, ReadJoined, Zenon
<1>5. PICK w2 : Reads("cmd", a \o c, t, w2) /\ Reads("cmd", d, w2, w3)
  BY <1>1, <1>3, <1>4, ReadJoined, Zenon
<1>6. PICK w1 : Reads("cmd", a, t, w1) /\ Reads("cmd", c, w1, w2)
  BY <1>1, <1>5, ReadJoined, Zenon
<1>7. w1 = t
  BY <1>6, StrangeRead, Zenon DEF a, Strange
<1>8. w2 = w1
  BY <1>6, StrangeRead, Zenon DEF c, Strange
<1> DEFINE si == "src ip"
           di == "dst ip"
<1>9. si \in Copied /\ di \in Copied
  BY Zenon DEF Copied
<1>10. R.range[si] = s.range[si] /\ R.range[di] = s.range[di]
  BY <1>9, Zenon DEF Respans
<1>11. d = RangeLines(s, si, si) /\ e = RangeLines(s, di, di)
  BY Zenon DEF d, e
<1> HIDE DEF si, di
<1>12. Ranging(w3, b, R, X \cup {si}, rp, q)
  BY <1>5, <1>7, <1>8, <1>9, <1>10, <1>11, CopiedRead, Zenon
<1>13. Ranging(u, b, R, (X \cup {si}) \cup {di}, rp, q)
  BY <1>4, <1>9, <1>10, <1>11, <1>12, CopiedRead, Zenon
<1>14. (X \cup {si}) \cup {di} = X \cup {si, di}
  BY Zenon
<1>15. Ranging(u, b, R, X \cup {si, di}, rp, q)
  BY <1>13, <1>14, Zenon
<1> QED  BY <1>15, Zenon DEF si, di

LEMMA RangesRead ==
  ASSUME NEW s, Fit(s), Whole(s), NEW R, Respans(s, R),
         NEW b, Formed(b), b.range = Fresh.range, "SEND_SHORT_PACKETS" \notin b.flags,
         b.rangeProto = "tcp",
         b.pkts[Ranged].proto = "tcp", b.pkts[Ranged].ethType = "ipv4",
         NEW u, Reads("cmd", AllRangeLines(s), b, u)
  PROVE  Ranging(u, b, R, Copied \cup {"size"}, Proto(s.rangeProto),
                 Reproto(b.pkts, s.rangeProto))
<1> DEFINE a == RangeLines(s, "src mac", "mac src") \o RangeLines(s, "dst mac", "mac dst")
                \o RangeLines(s, "src ip", "src ip") \o RangeLines(s, "dst ip", "dst ip")
           c == << <<"range", "proto", s.rangeProto>> >>
           d == RangeLines(s, "src port", "sport")
           e == RangeLines(s, "dst port", "dport")
           f == RangeLines(s, "vlan", "vlan")
           g == RangeLines(s, "cos", "cos")
           h == RangeLines(s, "tos", "tos")
           z == SizeLines(s)
<1>1. IsSeq(d) /\ IsSeq(e) /\ IsSeq(f) /\ IsSeq(g) /\ IsSeq(h)
  BY RangeQuartet, Zenon
<1>2. IsSeq(z)
  BY SizeQuartet
<1>3. IsSeq(c)
  <2>1. c \in Seq({<<"range", "proto", s.rangeProto>>})
    OBVIOUS
  <2> QED  BY <2>1 DEF IsSeq
<1>4. IsSeq(a)
  BY RangeQuartet, Joined, Zenon
<1>5. Reads("cmd", a \o c \o d \o e \o f \o g \o h \o z, b, u)
  BY Zenon DEF AllRangeLines, SizeLines
<1> HIDE DEF a, c, d, e, f, g, h, z
<1> DEFINE l1 == a \o c
           l2 == l1 \o d
           l3 == l2 \o e
           l4 == l3 \o f
           l5 == l4 \o g
           l6 == l5 \o h
<1>6. IsSeq(l1)
  BY <1>3, <1>4, Joined, Zenon
<1>7. Reads("cmd", l6 \o z, b, u)
  BY <1>5
<1> HIDE DEF l1
<1>8. IsSeq(l2)
  BY <1>1, <1>6, Joined, Zenon
<1> HIDE DEF l2
<1>9. IsSeq(l3)
  BY <1>1, <1>8, Joined, Zenon
<1> HIDE DEF l3
<1>10. IsSeq(l4)
  BY <1>1, <1>9, Joined, Zenon
<1> HIDE DEF l4
<1>11. IsSeq(l5)
  BY <1>1, <1>10, Joined, Zenon
<1> HIDE DEF l5
<1>12. IsSeq(l6)
  BY <1>1, <1>11, Joined, Zenon
<1> HIDE DEF l6
<1>13. PICK u6 : Reads("cmd", l6, b, u6) /\ Reads("cmd", z, u6, u)
  BY <1>2, <1>7, <1>12, ReadJoined, Zenon
<1>14. PICK u5 : Reads("cmd", l5, b, u5) /\ Reads("cmd", h, u5, u6)
  BY <1>1, <1>11, <1>13, ReadJoined, Zenon DEF l6
<1>15. PICK u4 : Reads("cmd", l4, b, u4) /\ Reads("cmd", g, u4, u5)
  BY <1>1, <1>10, <1>14, ReadJoined, Zenon DEF l5
<1>16. PICK u3 : Reads("cmd", l3, b, u3) /\ Reads("cmd", f, u3, u4)
  BY <1>1, <1>9, <1>15, ReadJoined, Zenon DEF l4
<1>17. PICK u2 : Reads("cmd", l2, b, u2) /\ Reads("cmd", e, u2, u3)
  BY <1>1, <1>8, <1>16, ReadJoined, Zenon DEF l3
<1>18. PICK u1 : Reads("cmd", l1, b, u1) /\ Reads("cmd", d, u1, u2)
  BY <1>1, <1>6, <1>17, ReadJoined, Zenon DEF l2
<1>19. PICK u0 : Reads("cmd", a, b, u0) /\ Reads("cmd", c, u0, u1)
  BY <1>3, <1>4, <1>18, ReadJoined, Zenon DEF l1
<1> DEFINE v == s.rangeProto
           rp == Proto(v)
           q == Reproto(b.pkts, v)
           X1 == {} \cup {"src ip", "dst ip"}
           X2 == X1 \cup {"vlan"}
           X3 == X2 \cup {"cos"}
           X4 == X3 \cup {"tos"}
           X5 == X4 \cup {"size"}
<1>20. Ranging(b, b, R, {}, "tcp", b.pkts)
  <2>1. DOMAIN b.range = Dims /\ IsFcn(b.range) /\ \A x \in Dims : IsSpan(b.range[x])
    BY FreshWhole DEF Whole, RangesKept
  <2>2. Only(b, b, {"range", "rangeProto", "pkts"})
    BY DEF Only, Formed
  <2>3. \A x \in Dims : b.range[x] = IF x \in {} THEN R.range[x] ELSE b.range[x]
    OBVIOUS
  <2> QED  BY <2>1, <2>2, <2>3 DEF Ranging
<1>21. RangesKept(s.range) /\ v \in {"tcp", "udp", "icmp"} /\ SpansFit(s)
  BY DEF Whole, Fit
<1>22. Ranging(u0, b, R, X1, "tcp", b.pkts)
  BY <1>19, <1>20, <1>21, FirstRanges, Zenon DEF a
<1> HIDE DEF X1, v, rp, q
<1>23. Ranging(u1, b, R, X1, rp, q)
  <2>1. Reads("cmd", << <<"range", "proto", v>> >>, u0, u1)
    BY <1>19, Zenon DEF c, v
  <2> QED  BY <1>21, <1>22, <2>1, ProtoRead, Zenon DEF rp, q
<1>24. u2 = u1
  BY <1>18, StrangeRead, Zenon DEF d, Strange
<1>25. u3 = u2
  BY <1>17, StrangeRead, Zenon DEF e, Strange
<1>26. /\ "vlan" \in Copied /\ R.range["vlan"] = s.range["vlan"]
       /\ "cos" \in Copied /\ R.range["cos"] = s.range["cos"]
       /\ "tos" \in Copied /\ R.range["tos"] = s.range["tos"]
  BY Zenon DEF Copied, Respans
<1>27. Ranging(u3, b, R, X1, rp, q)
  BY <1>23, <1>24, <1>25, Zenon
<1>28. Ranging(u4, b, R, X2, rp, q)
  BY <1>16, <1>21, <1>26, <1>27, CopiedRead, Zenon DEF f
<1> HIDE DEF X2
<1>29. Ranging(u5, b, R, X3, rp, q)
  BY <1>15, <1>21, <1>26, <1>28, CopiedRead, Zenon DEF g
<1> HIDE DEF X3
<1>30. Ranging(u6, b, R, X4, rp, q)
  BY <1>14, <1>21, <1>26, <1>29, CopiedRead, Zenon DEF h
<1> HIDE DEF X4
<1>31. "SEND_SHORT_PACKETS" \notin u6.flags
  BY <1>30, RangingSize
<1>32. Ranging(u, b, R, X5, rp, q)
  <2>1. /\ IsSpan(R.range["size"])
        /\ R.range["size"]["start"] = s.range["size"]["start"]
        /\ R.range["size"]["min"] = s.range["size"]["min"]
        /\ R.range["size"]["max"] = s.range["size"]["max"]
        /\ R.range["size"]["inc"] = MinSize + Fcs
    BY Zenon DEF Respans
  <2>2. Reads("cmd", SizeLines(s), u6, u)
    BY <1>13, Zenon DEF z
  <2> QED  BY <1>21, <1>30, <1>31, <2>1, <2>2, SizesRead, Zenon
<1>33. X5 = Copied \cup {"size"}
  BY Zenon DEF X1, X2, X3, X4, Copied
<1>34. Ranging(u, b, R, Copied \cup {"size"}, rp, q)
  BY <1>32, <1>33, Zenon
<1> QED  BY <1>34, Zenon DEF rp, q, v

-----------------------------------------------------------------------------
(* A packet of the sequence, through its line.                             *)
LEMMA SeqPktRead ==
  ASSUME NEW p, Packet(p), SeqWhole(p), NEW x, Packet(x), SeqWhole(x)
  PROVE  SeqPkt(x, SeqText(p)) = KeptSeqPkt(p, x)
<1> DEFINE q == SeqText(p)
           src == Stored(q.type, q.srcIp)
           dst == Stored(q.type, q.dstIp)
           type == IF q.type = "ipv6" /\ q.proto /= "icmp" THEN "ipv6" ELSE "ipv4"
           z == (q.size - Fcs) % 2^16
           a == [x EXCEPT !.dstMac = q.dstMac, !.srcMac = q.srcMac, !.mask = q.mask,
                          !.srcIp = src, !.dstIp = dst,
                          !.sport = q.sport, !.dport = q.dport, !.proto = q.proto,
                          !.ethType = type, !.size = z, !.vlanid = q.vlanid,
                          !.teid = q.teid]
           sip == IF p.ethType = "ipv6" THEN Swap(p.srcIp) ELSE p.srcIp
           dip == IF p.ethType = "ipv6" THEN Swap(p.dstIp) ELSE p.dstIp
           b == [p EXCEPT !.cos = x.cos, !.tos = x.tos, !.srcIp = sip, !.dstIp = dip]
<1>1. SeqPkt(x, q) = a
  BY DEF SeqPkt
<1>2. KeptSeqPkt(p, x) = b
  BY DEF KeptSeqPkt
<1>3. /\ q.dstMac = p.dstMac /\ q.srcMac = p.srcMac /\ q.dstIp = p.dstIp
      /\ q.srcIp = p.srcIp /\ q.mask = p.mask /\ q.sport = p.sport
      /\ q.dport = p.dport /\ q.type = p.ethType /\ q.proto = p.proto
      /\ q.vlanid = p.vlanid /\ q.size = p.size + Fcs /\ q.teid = p.teid
  BY DEF SeqText, SeqWhole
<1> HIDE DEF q
<1>4. src = sip /\ dst = dip
  BY <1>3 DEF Stored, SeqWhole
<1>5. type = p.ethType
  BY <1>3 DEF SeqWhole
<1>6. z = p.size
  <2>1. p.size \in Word
    BY DEF SeqWhole
  <2>2. p.size \in Nat /\ (p.size + Fcs) - Fcs = p.size
    BY <2>1 DEF Word, Fcs
  <2>3. p.size % 2^16 = p.size
    BY <2>1, WordKept DEF W16
  <2> QED  BY <1>3, <2>2, <2>3
<1>7. x.qinq = p.qinq /\ x.mpls = p.mpls /\ x.greKey = p.greKey
  BY DEF SeqWhole
<1> HIDE DEF src, dst, type, z, sip, dip
<1>8. /\ DOMAIN a = PktFields /\ IsFcn(a)
      /\ a.dstMac = q.dstMac /\ a.srcMac = q.srcMac /\ a.mask = q.mask
      /\ a.srcIp = src /\ a.dstIp = dst /\ a.sport = q.sport /\ a.dport = q.dport
      /\ a.proto = q.proto /\ a.ethType = type /\ a.size = z
      /\ a.vlanid = q.vlanid /\ a.teid = q.teid /\ a.cos = x.cos /\ a.tos = x.tos
      /\ a.qinq = x.qinq /\ a.mpls = x.mpls /\ a.greKey = x.greKey
  BY DEF PktFields, Packet, IsFcn
<1>9. /\ DOMAIN b = PktFields /\ IsFcn(b)
      /\ b.dstMac = p.dstMac /\ b.srcMac = p.srcMac /\ b.mask = p.mask
      /\ b.srcIp = sip /\ b.dstIp = dip /\ b.sport = p.sport /\ b.dport = p.dport
      /\ b.proto = p.proto /\ b.ethType = p.ethType /\ b.size = p.size
      /\ b.vlanid = p.vlanid /\ b.teid = p.teid /\ b.cos = x.cos /\ b.tos = x.tos
      /\ b.qinq = p.qinq /\ b.mpls = p.mpls /\ b.greKey = p.greKey
  BY DEF PktFields, Packet, IsFcn
<1> HIDE DEF a, b
<1>10. \A y \in PktFields : a[y] = b[y]
  BY <1>3, <1>4, <1>5, <1>6, <1>7, <1>8, <1>9 DEF PktFields
<1>11. a = b
  BY <1>8, <1>9, <1>10 DEF IsFcn
<1> QED  BY <1>1, <1>2, <1>11 DEF q

LEMMA SeqLine ==
  ASSUME NEW t, NEW k \in Nat, k < SeqSlots, NEW p, SeqWhole(p)
  PROVE  Run(t, <<"seq", k, SeqText(p)>>) = Put(t, k, SeqPkt(t.pkts[k], SeqText(p)))
<1> DEFINE q == SeqText(p)
           l == <<"seq", k, q>>
<1>1. l[1] = "seq" /\ l[2] = k /\ l[3] = q
  OBVIOUS
<1>2. q.type = p.ethType /\ q.proto = p.proto
  BY DEF SeqText, SeqWhole
<1> HIDE DEF l, q
<1>3. l[1] # "set" /\ l[1] # "range" /\ l[1] \notin {"enable", "disable"}
  BY <1>1
<1>4. Run(t, l) = SeqCmd(t, k, q)
  BY <1>1, <1>3, Zenon DEF Run
<1>5. ~(q.proto = "icmp" /\ q.type = "ipv6") /\ q.type \in {"ipv4", "ipv6"}
  BY <1>2 DEF SeqWhole
<1>6. ~(k >= SeqSlots)
  BY SettingsAssumption
<1>7. SeqCmd(t, k, q) = SetSeq(t, k, q)
  BY <1>5, <1>6 DEF SeqCmd
<1> QED  BY <1>4, <1>7 DEF SetSeq, l, q

(* The lines of the sequence: the slots below j have come back.            *)
SeqSofar(t, v, s, j) ==
  /\ Only(v, t, {"pkts"}) /\ Formed(t)
  /\ \A k \in Slots : t.pkts[k] = IF k < j THEN KeptSeqPkt(s.pkts[k], v.pkts[k])
                                           ELSE v.pkts[k]
LEMMA SeqStep ==
  ASSUME NEW s, Whole(s), NEW v, Formed(v),
         \A k \in Slots : k < SeqSlots => SeqWhole(v.pkts[k]),
         NEW j \in Nat, j < SeqSlots, NEW t, SeqSofar(t, v, s, j)
  PROVE  SeqSofar(Run(t, <<"seq", j, SeqText(s.pkts[j])>>), v, s, j + 1)
<1> DEFINE p == s.pkts[j]
           x == v.pkts[j]
           u == Run(t, <<"seq", j, SeqText(p)>>)
<1>1. j \in Slots /\ \A k \in Slots : k \in Nat
  BY SettingsAssumption DEF Slots, Ranged
<1>2. Packet(p) /\ SeqWhole(p) /\ Packet(x) /\ SeqWhole(x) /\ t.pkts[j] = x
  BY <1>1 DEF Whole, Formed, SeqSofar
<1>3. u = Put(t, j, KeptSeqPkt(p, x))
  BY <1>2, SeqLine, SeqPktRead
<1>4. Packet(KeptSeqPkt(p, x))
  <2>1. \A a, b : Packet([p EXCEPT !.cos = x.cos, !.tos = x.tos, !.srcIp = a, !.dstIp = b])
    BY <1>2 DEF Packet, IsFcn
  <2> QED  BY <2>1 DEF KeptSeqPkt
<1> HIDE DEF u
<1>5. /\ Only(t, u, {"pkts"}) /\ Formed(u)
      /\ \A k \in Slots : k = j \/ u.pkts[k] = t.pkts[k]
      /\ u.pkts[j] = KeptSeqPkt(p, x)
  BY <1>1, <1>3, <1>4, PutAny DEF SeqSofar
<1>6. Only(v, u, {"pkts"})
  BY <1>5 DEF SeqSofar, Only
<1>7. \A k \in Slots : u.pkts[k] = IF k < j + 1 THEN KeptSeqPkt(s.pkts[k], v.pkts[k])
                                                ELSE v.pkts[k]
  <2>1. TAKE k \in Slots
  <2>2. CASE k = j
    BY <1>5, <2>2
  <2>3. CASE k # j
    <3>0. k \in Nat /\ j \in Nat
      BY <1>1
    <3>1. k < j + 1 <=> k < j
      BY <2>3, <3>0
    <3> QED  BY <1>5, <2>3, <3>1 DEF SeqSofar
  <2> QED  BY <2>2, <2>3
<1> QED  BY <1>5, <1>6, <1>7 DEF SeqSofar, u

LEMMA SeqRead ==
  ASSUME NEW s, Fit(s), Whole(s), NEW t, Formed(t),
         \A k \in Slots : k < SeqSlots => SeqWhole(t.pkts[k]),
         NEW u, Reads("cmd", SeqLines(s), t, u)
  PROVE  SeqSofar(u, SetSeqCnt(t, s.seqCnt), s, s.seqCnt)
<1> DEFINE n == s.seqCnt
           v == SetSeqCnt(t, n)
           b == [j \in 1..n |-> <<"seq", j - 1, SeqText(s.pkts[j - 1])>>]
           a == << <<"set", "seq_cnt", n>> >>
<1>1. n \in Nat /\ n <= SeqSlots /\ SeqSlots \in Nat
  BY SettingsAssumption DEF Fit, Counted
<1>2. Only(t, v, {"flags", "seqCnt"})
  BY ModeOnly DEF Formed
<1> HIDE DEF v
<1>3. Formed(v) /\ v.pkts = t.pkts
  BY <1>2, OnlyFormed
<1>4. IsSeq(a)
  <2>1. a \in Seq({<<"set", "seq_cnt", n>>})
    OBVIOUS
  <2> QED  BY <2>1 DEF IsSeq
<1>5. Len(b) = n /\ IsSeq(b)
  <2> DEFINE S == {b[j] : j \in 1..n}
  <2>1. b \in [1..n -> S]
    OBVIOUS
  <2> HIDE DEF S, b
  <2>2. b \in Seq(S) /\ Len(b) = n
    BY <1>1, <2>1
  <2> QED  BY <2>2 DEF IsSeq
<1>6. \A j \in 1..n : b[j] = <<"seq", j - 1, SeqText(s.pkts[j - 1])>>
  OBVIOUS
<1>7. Reads("cmd", a \o b, t, u)
  BY DEF SeqLines
<1> HIDE DEF a, b
<1>8. PICK w : Reads("cmd", a, t, w) /\ Reads("cmd", b, w, u)
  BY <1>4, <1>5, <1>7, ReadJoined, Zenon
<1>9. w = v
  <2>1. w = Step("cmd", t, <<"set", "seq_cnt", n>>)
    BY <1>8, ReadOne DEF a
  <2> QED  BY <2>1, SetLines DEF Step, v
<1>10. PICK f : f[0] = v /\ f[n] = u /\ \A j \in 1..n : f[j] = Step("cmd", f[j - 1], b[j])
  BY <1>5, <1>8, <1>9 DEF Reads, ReadUpTo, Traced
<1>11. SeqSofar(v, v, s, 0)
  <2>1. \A k \in Slots : ~(k < 0)
    BY SettingsAssumption DEF Slots, Ranged
  <2> QED  BY <1>3, <2>1 DEF SeqSofar, Only, Formed
<1> DEFINE I(j) == j <= n => SeqSofar(f[j], v, s, j)
<1>12. I(0)
  BY <1>10, <1>11
<1>13. ASSUME NEW j \in Nat, I(j) PROVE I(j + 1)
  <2> SUFFICES ASSUME j + 1 <= n PROVE SeqSofar(f[j + 1], v, s, j + 1)
    OBVIOUS
  <2>1. j < SeqSlots /\ j + 1 \in 1..n /\ (j + 1) - 1 = j
    BY <1>1
  <2>2. SeqSofar(f[j], v, s, j)
    BY <1>1, <1>13
  <2>3. f[j + 1] = Run(f[j], <<"seq", j, SeqText(s.pkts[j])>>)
    BY <1>6, <1>10, <2>1 DEF Step
  <2> QED  BY <1>3, <2>1, <2>2, <2>3, SeqStep
<1> HIDE DEF I
<1> DEFINE K == {j \in Nat : I(j)}
<1>14. K \in SUBSET Nat /\ 0 \in K /\ \A j \in K : j + 1 \in K
  BY <1>12, <1>13
<1>15. n \in K
  <2> HIDE DEF K
  <2> QED  BY <1>1, <1>14, NatInd
<1> QED  BY <1>1, <1>10, <1>15 DEF I, v

-----------------------------------------------------------------------------
(* What a file brings back, field by field.                                *)
LEMMA KeptFields ==
  ASSUME NEW s
  PROVE  /\ DOMAIN Kept(s) = FieldNames /\ Kept(s).flags = s.flags \cap SavedFlags
         /\ Kept(s).macFromArp = s.macFromArp /\ Kept(s).count = s.count
         /\ Kept(s).burst = s.burst /\ Kept(s).prime = s.prime
         /\ Kept(s).jitter = s.jitter /\ Kept(s).fill = s.fill
         /\ Kept(s).user = Fresh.user /\ Kept(s).rangeProto = Fresh.rangeProto
         /\ Kept(s).range = Fresh.range /\ Kept(s).pkts = Fresh.pkts
         /\ Kept(s).rnd = Fresh.rnd /\ Kept(s).seqCnt = Fresh.seqCnt
<1> DEFINE f == s.flags \cap SavedFlags
<1>1. DOMAIN Fresh = FieldNames
  BY FreshWhole DEF Whole, Formed
<1>2. Kept(s) = [Fresh EXCEPT !.flags = f, !.macFromArp = s.macFromArp,
                !.count = s.count, !.burst = s.burst, !.prime = s.prime,
                !.jitter = s.jitter, !.fill = s.fill]
  BY DEF Kept
<1> HIDE DEF f
<1>3. /\ DOMAIN Kept(s) = FieldNames /\ Kept(s).flags = f
      /\ Kept(s).macFromArp = s.macFromArp /\ Kept(s).count = s.count
      /\ Kept(s).burst = s.burst /\ Kept(s).prime = s.prime
      /\ Kept(s).jitter = s.jitter /\ Kept(s).fill = s.fill
      /\ Kept(s).user = Fresh.user /\ Kept(s).rangeProto = Fresh.rangeProto
      /\ Kept(s).range = Fresh.range /\ Kept(s).pkts = Fresh.pkts
      /\ Kept(s).rnd = Fresh.rnd /\ Kept(s).seqCnt = Fresh.seqCnt
  BY <1>1, <1>2 DEF FieldNames
<1> QED  BY <1>3 DEF f

LEMMA KeptSingleFields ==
  ASSUME NEW p
  PROVE  LET q == KeptSingle(p)  fresh == Fresh.pkts[Single] IN
         /\ DOMAIN q = PktFields /\ IsFcn(q)
         /\ q.size = Grown(p) /\ q.ethType = Typeset(p) /\ q.proto = p.proto
         /\ q.sport = p.sport /\ q.dport = p.dport /\ q.srcIp = p.srcIp
         /\ q.mask = p.mask /\ q.dstIp = p.dstIp /\ q.dstMac = p.dstMac
         /\ q.srcMac = fresh.srcMac /\ q.vlanid = fresh.vlanid /\ q.cos = fresh.cos
         /\ q.tos = fresh.tos /\ q.qinq = fresh.qinq /\ q.mpls = fresh.mpls
         /\ q.greKey = fresh.greKey /\ q.teid = fresh.teid
<1> DEFINE fresh == Fresh.pkts[Single]
           z == Grown(p)
           e == Typeset(p)
           q == [fresh EXCEPT !.size = z, !.ethType = e, !.proto = p.proto,
                   !.sport = p.sport, !.dport = p.dport, !.srcIp = p.srcIp,
                   !.mask = p.mask, !.dstIp = p.dstIp, !.dstMac = p.dstMac]
<1>1. Packet(fresh)
  BY FreshWhole, SlotFacts DEF Whole, Formed
<1>2. KeptSingle(p) = q
  BY DEF KeptSingle, Grown, Raised, Typeset
<1> HIDE DEF z, e, fresh
<1>3. /\ DOMAIN q = PktFields /\ IsFcn(q)
      /\ q.size = z /\ q.ethType = e /\ q.proto = p.proto
      /\ q.sport = p.sport /\ q.dport = p.dport /\ q.srcIp = p.srcIp
      /\ q.mask = p.mask /\ q.dstIp = p.dstIp /\ q.dstMac = p.dstMac
      /\ q.srcMac = fresh.srcMac /\ q.vlanid = fresh.vlanid /\ q.cos = fresh.cos
      /\ q.tos = fresh.tos /\ q.qinq = fresh.qinq /\ q.mpls = fresh.mpls
      /\ q.greKey = fresh.greKey /\ q.teid = fresh.teid
  BY <1>1 DEF Packet, PktFields, IsFcn
<1> QED  BY <1>2, <1>3 DEF z, e, fresh

(* The SINGLE packet of a command file.                                    *)
FileSingle(p) == [KeptSingle(p) EXCEPT !.srcMac = p.srcMac, !.qinq = p.qinq]
LEMMA FileSingleFields ==
  ASSUME NEW p
  PROVE  LET q == FileSingle(p)  fresh == Fresh.pkts[Single] IN
         /\ DOMAIN q = PktFields /\ IsFcn(q)
         /\ q.size = Grown(p) /\ q.ethType = Typeset(p)
         /\ \A y \in {"proto", "sport", "dport", "srcIp", "mask", "dstIp", "dstMac",
                      "srcMac", "qinq"} : q[y] = p[y]
         /\ \A y \in {"vlanid", "cos", "tos", "mpls", "greKey", "teid"} : q[y] = fresh[y]
<1> DEFINE k == KeptSingle(p)
           q == [k EXCEPT !.srcMac = p.srcMac, !.qinq = p.qinq]
           fresh == Fresh.pkts[Single]
<1>1. /\ DOMAIN k = PktFields /\ k.size = Grown(p) /\ k.ethType = Typeset(p)
      /\ k.proto = p.proto /\ k.sport = p.sport /\ k.dport = p.dport
      /\ k.srcIp = p.srcIp /\ k.mask = p.mask /\ k.dstIp = p.dstIp /\ k.dstMac = p.dstMac
      /\ k.vlanid = fresh.vlanid /\ k.cos = fresh.cos /\ k.tos = fresh.tos
      /\ k.mpls = fresh.mpls /\ k.greKey = fresh.greKey /\ k.teid = fresh.teid
  BY KeptSingleFields
<1> HIDE DEF k, fresh
<1>2. /\ DOMAIN q = PktFields /\ IsFcn(q)
      /\ q.srcMac = p.srcMac /\ q.qinq = p.qinq
      /\ \A y \in PktFields \ {"srcMac", "qinq"} : q[y] = k[y]
  BY <1>1 DEF PktFields, IsFcn
<1> HIDE DEF q
<1>3. q.size = Grown(p) /\ q.ethType = Typeset(p)
  BY <1>1, <1>2 DEF PktFields
<1>4. \A y \in {"proto", "sport", "dport", "srcIp", "mask", "dstIp", "dstMac",
                "srcMac", "qinq"} : q[y] = p[y]
  BY <1>1, <1>2 DEF PktFields
<1>5. \A y \in {"vlanid", "cos", "tos", "mpls", "greKey", "teid"} : q[y] = fresh[y]
  BY <1>1, <1>2 DEF PktFields
<1>6. FileSingle(p) = q
  BY DEF FileSingle, k, q
<1> QED  BY <1>2, <1>3, <1>4, <1>5, <1>6 DEF fresh

(* The flags and the ranges of a command file.                             *)
FileFlags(s) ==
  IF s.seqCnt > 0 THEN ((s.flags \cap SavedFlags) \ ModeFlags) \cup {"SEND_SEQ_PKTS"}
                  ELSE s.flags \cap SavedFlags
FileRange(s) ==
  [d \in Dims |->
     CASE d = "size" -> [s.range[d] EXCEPT !.inc = MinSize + Fcs]
       [] d \in {"src ip", "dst ip", "vlan", "cos", "tos", "size"} \ {"size"} -> s.range[d]
       [] OTHER -> Fresh.range[d]]
FilePkts(s, rp) ==
  [k \in Slots |->
     CASE k < s.seqCnt -> KeptSeqPkt(s.pkts[k], Fresh.pkts[k])
       [] k = Single   -> FileSingle(s.pkts[Single])
       [] k = Ranged   -> [Fresh.pkts[k] EXCEPT !.proto = rp]
       [] OTHER        -> Fresh.pkts[k]]
FileUser(s) == IF s.fill = "user" THEN "pattern" ELSE Fresh.user
LEMMA KeptByFileFields ==
  ASSUME NEW s
  PROVE  LET K == KeptByFile(s) IN
         /\ DOMAIN K = FieldNames /\ K.flags = FileFlags(s)
         /\ K.macFromArp = s.macFromArp /\ K.count = s.count
         /\ K.burst = s.burst /\ K.prime = s.prime
         /\ K.jitter = s.jitter /\ K.fill = s.fill /\ K.user = FileUser(s)
         /\ K.seqCnt = s.seqCnt /\ K.rnd = Fresh.rnd
         /\ K.rangeProto = Proto(s.rangeProto) /\ K.range = FileRange(s)
         /\ K.pkts = FilePkts(s, Proto(s.rangeProto))
<1> DEFINE k == Kept(s)
           rp == IF s.rangeProto = "icmp" THEN Fresh.rangeProto ELSE s.rangeProto
           flags == IF s.seqCnt > 0
                    THEN (k.flags \ ModeFlags) \cup
                         (IF s.seqCnt > 0 THEN {"SEND_SEQ_PKTS"} ELSE {})
                    ELSE k.flags
           user == IF s.fill = "user" THEN "pattern" ELSE k.user
           range == [d \in Dims |->
                      CASE d = "size" -> [s.range[d] EXCEPT !.inc = MinSize + Fcs]
                        [] d \in {"src ip", "dst ip", "vlan", "cos", "tos", "size"} \ {"size"}
                             -> s.range[d]
                        [] OTHER -> k.range[d]]
           pkts == [i \in Slots |->
                     CASE i < s.seqCnt -> KeptSeqPkt(s.pkts[i], k.pkts[i])
                       [] i = Single   -> FileSingle(s.pkts[Single])
                       [] i = Ranged   -> [k.pkts[i] EXCEPT !.proto = rp]
                       [] OTHER        -> k.pkts[i]]
<1>1. KeptByFile(s) = [k EXCEPT !.flags = flags, !.user = user, !.seqCnt = s.seqCnt,
                                !.rangeProto = rp, !.range = range, !.pkts = pkts]
  BY Zenon DEF KeptByFile, FileSingle
<1>2. /\ DOMAIN k = FieldNames /\ k.flags = s.flags \cap SavedFlags
      /\ k.macFromArp = s.macFromArp /\ k.count = s.count
      /\ k.burst = s.burst /\ k.prime = s.prime /\ k.jitter = s.jitter /\ k.fill = s.fill
      /\ k.user = Fresh.user /\ k.range = Fresh.range /\ k.pkts = Fresh.pkts
      /\ k.rnd = Fresh.rnd
  BY KeptFields
<1> HIDE DEF k, rp
<1>3. flags = FileFlags(s) /\ user = FileUser(s)
  <2> HIDE DEF range, pkts
  <2> QED  BY <1>2 DEF FileFlags, FileUser
<1>4. rp = Proto(s.rangeProto)
  <2> HIDE DEF range, pkts
  <2> QED  BY FreshFacts DEF rp, Proto
<1>5. range = FileRange(s)
  BY <1>2, Zenon DEF FileRange
<1>6. pkts = FilePkts(s, Proto(s.rangeProto))
  <2>1. k.pkts = Fresh.pkts
    BY <1>2
  <2>2. FilePkts(s, rp) = FilePkts(s, Proto(s.rangeProto))
    BY <1>4, Zenon
  <2>3. pkts = FilePkts(s, rp)
    <3> HIDE DEF range
    <3> QED  BY <2>1 DEF FilePkts
  <2> QED  BY <2>2, <2>3, Zenon
<1> HIDE DEF flags, user, range, pkts
<1>7. LET K == KeptByFile(s) IN
         /\ DOMAIN K = FieldNames /\ K.flags = flags
         /\ K.macFromArp = s.macFromArp /\ K.count = s.count
         /\ K.burst = s.burst /\ K.prime = s.prime
         /\ K.jitter = s.jitter /\ K.fill = s.fill /\ K.user = user
         /\ K.seqCnt = s.seqCnt /\ K.rnd = Fresh.rnd
         /\ K.rangeProto = rp /\ K.range = range /\ K.pkts = pkts
  BY <1>1, <1>2 DEF FieldNames
<1> QED  BY <1>3, <1>4, <1>5, <1>6, <1>7

-----------------------------------------------------------------------------
(* The parts of a command file are sequences.                              *)
LEMMA Tuples ==
  ASSUME NEW a, NEW b, NEW c, NEW d, NEW e, NEW f, NEW g, NEW h,
         NEW i, NEW j, NEW k, NEW l, NEW m, NEW n, NEW o, NEW p, NEW q
  PROVE  /\ IsSeq(<<>>) /\ IsSeq(<<a>>)
         /\ IsSeq(<<a, b, c, d, e, f, g, h, i, j, k, l, m, n, o>>)
         /\ IsSeq(<<a, b, c, d, e, f, g, h, i, j, k, l, m, n, o, p>>)
         /\ IsSeq(<<a, b, c, d, e, f, g, h, i, j, k, l, m, n, o, p, q>>)
<1> DEFINE S == {a, b, c, d, e, f, g, h, i, j, k, l, m, n, o, p, q}
<1>1. <<>> \in Seq(S) /\ <<a>> \in Seq(S)
  OBVIOUS
<1>2. <<a, b, c, d, e, f, g, h, i, j, k, l, m, n, o>> \in Seq(S)
  OBVIOUS
<1>3. <<a, b, c, d, e, f, g, h, i, j, k, l, m, n, o, p>> \in Seq(S)
  OBVIOUS
<1>4. <<a, b, c, d, e, f, g, h, i, j, k, l, m, n, o, p, q>> \in Seq(S)
  OBVIOUS
<1> HIDE DEF S
<1> QED  BY <1>1, <1>2, <1>3, <1>4 DEF IsSeq

LEMMA SinglesSeq == ASSUME NEW s PROVE IsSeq(SingleLines(s))
<1> DEFINE p == s.pkts[Single]
           long == <<  <<IF s.macFromArp THEN "enable" ELSE "disable", "mac_from_arp">>,
     <<"set", "count", s.count>>, <<"set", "size", p.size + Fcs>>,
     <<"set", "rate", s.rate>>,   <<"set", "pps", s.pps>>,
     <<"set", "burst", s.burst>>, <<"set", "sport", p.sport>>,
     <<"set", "dport", p.dport>>, <<"set", "prime", s.prime>>,
     <<"set", "type", p.ethType>>, <<"set", "proto", p.proto>>,
     <<"set", "dst ip", p.dstIp>>, <<"set", "src ip", <<p.srcIp, p.mask>>>>,
     <<"set", "dst mac", p.dstMac>>, <<"set", "src mac", p.srcMac>>,
     <<"set", "vlanid", p.vlanid>>, <<"set", "pattern", s.fill>> >>
           own == << <<"set", "user pattern", s.user>> >>
           user == IF s.fill = "user" THEN own ELSE <<>>
           last == << <<"set", "jitter", s.jitter>> >>
<1>1. IsSeq(long) /\ IsSeq(own) /\ IsSeq(last) /\ IsSeq(<<>>)
  BY Tuples, Zenon
<1>2. SingleLines(s) = (long \o user) \o last
  BY Zenon DEF SingleLines
<1> HIDE DEF long, own, last
<1>3. IsSeq(user)
  BY <1>1
<1> HIDE DEF user
<1>4. IsSeq(long \o user)
  BY <1>1, <1>3, Joined, Zenon
<1>5. IsSeq((long \o user) \o last)
  BY <1>1, <1>4, Joined, Zenon
<1> QED  BY <1>2, <1>5, Zenon

LEMMA FlagsSeq == ASSUME NEW s PROVE IsSeq(FlagLines(s))
BY Tuples, Zenon DEF FlagLines

LEMMA RangesSeq == ASSUME NEW s PROVE IsSeq(AllRangeLines(s))
<1> DEFINE a == RangeLines(s, "src mac", "mac src")
           b == RangeLines(s, "dst mac", "mac dst")
           c == RangeLines(s, "src ip", "src ip")
           d == RangeLines(s, "dst ip", "dst ip")
           e == << <<"range", "proto", s.rangeProto>> >>
           f == RangeLines(s, "src port", "sport")
           g == RangeLines(s, "dst port", "dport")
           h == RangeLines(s, "vlan", "vlan")
           i == RangeLines(s, "cos", "cos")
           j == RangeLines(s, "tos", "tos")
           k == SizeLines(s)
<1>1. /\ IsSeq(a) /\ IsSeq(b) /\ IsSeq(c) /\ IsSeq(d) /\ IsSeq(f) /\ IsSeq(g)
      /\ IsSeq(h) /\ IsSeq(i) /\ IsSeq(j)
  BY RangeQuartet, Zenon
<1>2. IsSeq(k)
  BY SizeQuartet
<1>3. IsSeq(e)
  BY Tuples
<1>4. AllRangeLines(s) = a \o b \o c \o d \o e \o f \o g \o h \o i \o j \o k
  BY Zenon DEF AllRangeLines, SizeLines
<1> HIDE DEF a, b, c, d, e, f, g, h, i, j, k
<1>5. IsSeq(a \o b \o c \o d)
  BY <1>1, Joined, Zenon
<1>6. IsSeq(a \o b \o c \o d \o e \o f \o g)
  BY <1>1, <1>3, <1>5, Joined, Zenon
<1>7. IsSeq(a \o b \o c \o d \o e \o f \o g \o h \o i \o j)
  BY <1>1, <1>6, Joined, Zenon
<1>8. IsSeq(a \o b \o c \o d \o e \o f \o g \o h \o i \o j \o k)
  BY <1>2, <1>7, Joined, Zenon
<1> QED  BY <1>4, <1>8

LEMMA SeqsSeq ==
  ASSUME NEW s, s.seqCnt \in Nat
  PROVE  IsSeq(SeqLines(s))
<1> DEFINE a == << <<"set", "seq_cnt", s.seqCnt>> >>
           b == [j \in 1..s.seqCnt |-> <<"seq", j - 1, SeqText(s.pkts[j - 1])>>]
           S == {b[j] : j \in 1..s.seqCnt}
<1>1. IsSeq(a)
  BY Tuples
<1>2. b \in [1..s.seqCnt -> S]
  OBVIOUS
<1>3. SeqLines(s) = a \o b
  BY DEF SeqLines
<1> HIDE DEF a, b, S
<1>4. b \in Seq(S)
  BY <1>2
<1>5. IsSeq(b)
  BY <1>4 DEF IsSeq
<1> QED  BY <1>1, <1>3, <1>5, Joined

(* A saved command file, part by part.                                     *)
LEMMA FileParts ==
  ASSUME NEW s, s.seqCnt \in Nat, NEW u, Reads("cmd", ScriptOf(s), Fresh, u)
  PROVE  \E w, x, y : /\ Reads("cmd", SingleLines(s), Fresh, w)
                      /\ Reads("cmd", FlagLines(s), w, x)
                      /\ Reads("cmd", AllRangeLines(s), x, y)
                      /\ Reads("cmd", SeqLines(s), y, u)
<1> DEFINE a == SingleLines(s)
           b == FlagLines(s)
           c == AllRangeLines(s)
           d == SeqLines(s)
<1>1. IsSeq(a) /\ IsSeq(b) /\ IsSeq(c) /\ IsSeq(d)
  BY SinglesSeq, FlagsSeq, RangesSeq, SeqsSeq
<1>2. Reads("cmd", ((a \o b) \o c) \o d, Fresh, u)
  BY DEF ScriptOf
<1> HIDE DEF a, b, c, d
<1>3. IsSeq(a \o b)
  BY <1>1, Joined, Zenon
<1>4. IsSeq((a \o b) \o c)
  BY <1>1, <1>3, Joined, Zenon
<1>5. PICK y : Reads("cmd", (a \o b) \o c, Fresh, y) /\ Reads("cmd", d, y, u)
  BY <1>1, <1>2, <1>4, ReadJoined, Zenon
<1>6. PICK x : Reads("cmd", a \o b, Fresh, x) /\ Reads("cmd", c, x, y)
  BY <1>1, <1>3, <1>5, ReadJoined, Zenon
<1>7. PICK w : Reads("cmd", a, Fresh, w) /\ Reads("cmd", b, w, x)
  BY <1>1, <1>6, ReadJoined, Zenon
<1> QED  BY <1>5, <1>6, <1>7, Zenon DEF a, b, c, d

LEMMA SeqReadNone ==
  ASSUME NEW s, s.seqCnt = 0, NEW t, NEW u, Reads("cmd", SeqLines(s), t, u)
  PROVE  u = SetSeqCnt(t, 0)
<1> DEFINE a == << <<"set", "seq_cnt", 0>> >>
           b == [j \in 1..0 |-> <<"seq", j - 1, SeqText(s.pkts[j - 1])>>]
<1>1. SeqLines(s) = a \o b
  BY DEF SeqLines
<1>2. IsSeq(a) /\ IsSeq(b) /\ b = <<>>
  <2>1. b = <<>>
    <3>1. DOMAIN b = {} /\ b = [x \in {} |-> b[x]]
      OBVIOUS
    <3>2. <<>> = [x \in {} |-> b[x]]
      OBVIOUS
    <3> QED  BY <3>1, <3>2
  <2> HIDE DEF b
  <2> QED  BY <2>1, Tuples
<1> HIDE DEF b
<1>3. Reads("cmd", a, t, u)
  <2> HIDE DEF a
  <2>1. PICK w : Reads("cmd", a, t, w) /\ Reads("cmd", b, w, u)
    BY <1>1, <1>2, ReadJoined
  <2>2. u = w
    BY <1>2, <2>1, ReadNone
  <2> QED  BY <2>1, <2>2
<1>4. u = Step("cmd", t, <<"set", "seq_cnt", 0>>)
  BY <1>3, ReadOne
<1> QED  BY <1>4, SetLines DEF Step

-----------------------------------------------------------------------------
(* What each part of a command file brings back, put together.             *)
LEMMA FileRanges ==
  ASSUME NEW s, IsSpan(s.range["size"])
  PROVE  /\ DOMAIN FileRange(s) = Dims /\ IsFcn(FileRange(s))
         /\ \A d \in Copied : FileRange(s)[d] = s.range[d]
         /\ FileRange(s)["size"] = Respan(s.range["size"], "inc", MinSize + Fcs)
         /\ \A d \in Dims : d \in Copied \cup {"size"} \/ FileRange(s)[d] = Fresh.range[d]
         /\ IsSpan(FileRange(s)["size"])
<1>1. DOMAIN FileRange(s) = Dims /\ IsFcn(FileRange(s))
  BY Zenon DEF FileRange, IsFcn
<1> DEFINE r == FileRange(s)
           z == Respan(s.range["size"], "inc", MinSize + Fcs)
<1>2. "size" \in Dims /\ "size" \notin Copied /\ Copied \subseteq Dims
  BY Zenon DEF Dims, Copied
<1>3. \A d \in Dims :
        r[d] = CASE d = "size" -> [s.range[d] EXCEPT !.inc = MinSize + Fcs]
                 [] d \in {"src ip", "dst ip", "vlan", "cos", "tos", "size"} \ {"size"}
                      -> s.range[d]
                 [] OTHER -> Fresh.range[d]
  BY Zenon DEF FileRange
<1>4. {"src ip", "dst ip", "vlan", "cos", "tos", "size"} \ {"size"} = Copied
  BY Zenon DEF Copied
<1>5. \A d \in Dims :
        r[d] = CASE d = "size" -> [s.range[d] EXCEPT !.inc = MinSize + Fcs]
                 [] d \in Copied -> s.range[d]
                 [] OTHER -> Fresh.range[d]
  BY <1>3, <1>4, Zenon
<1> HIDE DEF r
<1>6. \A d \in Copied : r[d] = s.range[d]
  BY <1>2, <1>5
<1>7. r["size"] = z
  BY <1>2, <1>5 DEF Respan
<1>8. \A d \in Dims : d \in Copied \cup {"size"} \/ r[d] = Fresh.range[d]
  BY <1>2, <1>5
<1>9. IsSpan(r["size"])
  BY <1>7 DEF IsSpan, Respan
<1> QED  BY <1>1, <1>6, <1>7, <1>8, <1>9 DEF r, z

(* What FileRead reads towards.                                            *)
Goal(s) ==
  [KeptByFile(s) EXCEPT !.rate = s.pps * (Max({s.pkts[Single].size, MinSize}) + Overhead)]
LEMMA GoalFields ==
  ASSUME NEW s, Fit(s), Whole(s)
  PROVE  /\ Matches(s, Goal(s)) /\ Respans(s, Goal(s))
         /\ Goal(s).user = FileUser(s)
         /\ Goal(s).rate = s.pps * (Max({s.pkts[Single].size, MinSize}) + Overhead)
         /\ Goal(s).range = FileRange(s)
         /\ Goal(s).pkts[Single] = FileSingle(s.pkts[Single])
<1> DEFINE K == KeptByFile(s)
           r == s.pps * (Max({s.pkts[Single].size, MinSize}) + Overhead)
           R == [K EXCEPT !.rate = r]
           p == s.pkts[Single]
<1>1. Goal(s) = R
  BY DEF Goal
<1>2. /\ DOMAIN K = FieldNames
      /\ K.macFromArp = s.macFromArp /\ K.count = s.count
      /\ K.burst = s.burst /\ K.prime = s.prime
      /\ K.jitter = s.jitter /\ K.fill = s.fill /\ K.user = FileUser(s)
      /\ K.range = FileRange(s) /\ K.pkts = FilePkts(s, Proto(s.rangeProto))
  BY KeptByFileFields
<1> HIDE DEF K, r
<1>3. R.rate = r /\ \A g \in FieldNames \ {"rate"} : R[g] = K[g]
  BY <1>2 DEF FieldNames
<1> HIDE DEF R
<1>4. /\ R.macFromArp = s.macFromArp /\ R.count = s.count
      /\ R.burst = s.burst /\ R.prime = s.prime
      /\ R.jitter = s.jitter /\ R.fill = s.fill /\ R.user = FileUser(s)
      /\ R.range = FileRange(s) /\ R.pkts = FilePkts(s, Proto(s.rangeProto))
  BY <1>2, <1>3 DEF FieldNames
<1>5. R.pkts[Single] = FileSingle(p)
  <2>1. ~(Single < s.seqCnt) /\ Single \in Slots
    BY SlotFacts, SettingsAssumption DEF Fit, Counted, Single
  <2> QED  BY <1>4, <2>1, SlotFacts DEF FilePkts
<1>6. Matches(s, R)
  <2>1. \A y \in {"sport", "dport", "proto", "dstIp", "srcIp", "mask", "dstMac"} :
          FileSingle(p)[y] = p[y]
    BY FileSingleFields
  <2> QED  BY <1>4, <1>5, <2>1 DEF Matches
<1>7. IsSpan(s.range["size"])
  <2>1. "size" \in Dims
    BY Zenon DEF Dims
  <2> QED  BY <2>1 DEF Whole, RangesKept
<1>8. Respans(s, R)
  <2> DEFINE x == s.range["size"]
             y == FileRange(s)["size"]
  <2>1. IsSpan(y) /\ y = Respan(x, "inc", MinSize + Fcs) /\ IsSpan(x)
    BY <1>7, FileRanges
  <2> HIDE DEF x, y
  <2>2. /\ y["start"] = x["start"] /\ y["min"] = x["min"] /\ y["max"] = x["max"]
        /\ y["inc"] = MinSize + Fcs
    BY <2>1 DEF Respan, IsSpan, Smmi
  <2>3. \A d \in Copied : R.range[d] = s.range[d]
    BY <1>4, <1>7, FileRanges
  <2> QED  BY <1>4, <2>1, <2>2, <2>3 DEF Respans, x, y
<1> QED  BY <1>1, <1>3, <1>4, <1>5, <1>6, <1>8 DEF r, p

(* After the SINGLE packet's lines and the flags'.                         *)
Regained(s, t) ==
  /\ Formed(t) /\ t.range = Fresh.range /\ t.flags = s.flags \cap SavedFlags
  /\ t.macFromArp = s.macFromArp /\ t.count = s.count /\ t.burst = s.burst
  /\ t.prime = s.prime /\ t.jitter = s.jitter /\ t.fill = s.fill
  /\ t.user = FileUser(s) /\ t.seqCnt = Fresh.seqCnt /\ t.rnd = Fresh.rnd
  /\ t.rangeProto = Fresh.rangeProto
  /\ t.rate = s.pps * (Max({s.pkts[Single].size, MinSize}) + Overhead)
  /\ \A k \in Slots : k = Single \/ t.pkts[k] = Fresh.pkts[k]
  /\ t.pkts[Single] = FileSingle(s.pkts[Single])
LEMMA HalfRead ==
  ASSUME NEW s, Fit(s), Whole(s), Exclusive(s), NEW w, NEW x,
         Reads("cmd", SingleLines(s), Fresh, w), Reads("cmd", FlagLines(s), w, x)
  PROVE  Regained(s, x)
<1> DEFINE R == Goal(s)
           p == s.pkts[Single]
           D == {"macFromArp", "count", "rate", "burst", "prime", "fill", "user", "jitter"}
           P == {"sport", "dport", "size", "ethType", "proto", "dstIp", "srcIp", "mask",
                 "dstMac", "srcMac"}
           fresh == Fresh.pkts[Single]
<1>1. /\ Matches(s, R) /\ R.user = FileUser(s)
      /\ R.rate = s.pps * (Max({s.pkts[Single].size, MinSize}) + Overhead)
      /\ R.pkts[Single] = FileSingle(p)
  BY GoalFields
<1>2. /\ \A y \in {"proto", "sport", "dport", "srcIp", "mask", "dstIp", "dstMac",
                   "srcMac", "qinq"} : FileSingle(p)[y] = p[y]
      /\ \A y \in {"vlanid", "cos", "tos", "mpls", "greKey", "teid"} :
           FileSingle(p)[y] = fresh[y]
      /\ DOMAIN FileSingle(p) = PktFields /\ IsFcn(FileSingle(p))
      /\ FileSingle(p).size = Grown(p) /\ FileSingle(p).ethType = Typeset(p)
  BY FileSingleFields
<1> HIDE DEF R
<1>3. Sofar(w, R, D, P, {}, Grown(p), Typeset(p))
  <2>1. R.pkts[Single].srcMac = s.pkts[Single].srcMac
    BY <1>1, <1>2
  <2>2. R.user = IF s.fill = "user" THEN "pattern" ELSE Fresh.user
    BY <1>1 DEF FileUser
  <2> QED  BY <1>1, <2>1, <2>2, SingleRead
<1> HIDE DEF D, P, fresh
<1>4. Sofar(x, R, D, P \cup {"qinq"}, s.flags \cap SavedFlags, Grown(p), Typeset(p))
  <2>1. FlagsKept(s.flags) /\ IsPair(s.pkts[Single].qinq)
    BY DEF Whole, SingleWhole
  <2>2. R.pkts[Single].qinq = s.pkts[Single].qinq
    BY <1>1, <1>2
  <2> QED  BY <1>3, <2>1, <2>2, FlagsRead
<1> HIDE DEF p
<1>5. x.pkts[Single] = FileSingle(p)
  <2>1. Packet(x.pkts[Single])
    BY <1>4, SlotFacts DEF Sofar, Formed
  <2>2. \A y \in Rest : x.pkts[Single][y] = FileSingle(p)[y]
    <3>1. \A y \in Rest : y \in P \cup {"qinq"} \/ y \in {"vlanid", "cos", "tos", "mpls", "greKey", "teid"}
      BY DEF Rest, PktFields, P
    <3>2. \A y \in Rest : x.pkts[Single][y] = IF y \in P \cup {"qinq"} THEN R.pkts[Single][y]
                                               ELSE fresh[y]
      BY <1>4 DEF Sofar, fresh
    <3> QED  BY <1>1, <1>2, <3>1, <3>2
  <2>3. x.pkts[Single].size = FileSingle(p).size
        /\ x.pkts[Single].ethType = FileSingle(p).ethType
    BY <1>2, <1>4 DEF Sofar
  <2>4. \A y \in PktFields : x.pkts[Single][y] = FileSingle(p)[y]
    BY <2>2, <2>3 DEF Rest
  <2> QED  BY <1>2, <2>1, <2>4 DEF Packet, IsFcn
<1>6. \A g \in Tops : x[g] = IF g \in D THEN R[g] ELSE Fresh[g]
  BY <1>4 DEF Sofar
<1>7. /\ x.macFromArp = R.macFromArp /\ x.count = R.count /\ x.burst = R.burst
      /\ x.prime = R.prime /\ x.jitter = R.jitter /\ x.fill = R.fill /\ x.user = R.user
      /\ x.rate = R.rate /\ x.seqCnt = Fresh.seqCnt /\ x.rnd = Fresh.rnd
      /\ x.rangeProto = Fresh.rangeProto
  BY <1>6 DEF Tops, D
<1>8. /\ R.macFromArp = s.macFromArp /\ R.count = s.count /\ R.burst = s.burst
      /\ R.prime = s.prime /\ R.jitter = s.jitter /\ R.fill = s.fill
  BY <1>1 DEF Matches
<1>9. /\ Formed(x) /\ x.range = Fresh.range /\ x.flags = s.flags \cap SavedFlags
      /\ \A k \in Slots : k = Single \/ x.pkts[k] = Fresh.pkts[k]
  BY <1>4 DEF Sofar
<1> QED  BY <1>1, <1>5, <1>7, <1>8, <1>9 DEF Regained, p

(* After the ranges' lines.                                                *)
LEMMA RangesRegained ==
  ASSUME NEW s, Fit(s), Whole(s), NEW x, Regained(s, x), NEW y,
         Reads("cmd", AllRangeLines(s), x, y)
  PROVE  /\ Formed(y) /\ Only(x, y, {"range", "rangeProto", "pkts"})
         /\ y.range = FileRange(s) /\ y.rangeProto = Proto(s.rangeProto)
         /\ \A k \in Slots : k \in {Single, Ranged} \/ y.pkts[k] = Fresh.pkts[k]
         /\ y.pkts[Single] = FileSingle(s.pkts[Single])
         /\ y.pkts[Ranged] = [Fresh.pkts[Ranged] EXCEPT !.proto = Proto(s.rangeProto)]
<1> DEFINE R == Goal(s)
           rp == Proto(s.rangeProto)
           q == Reproto(x.pkts, s.rangeProto)
           D == Copied \cup {"size"}
<1>1. Respans(s, R) /\ R.range = FileRange(s)
  BY GoalFields
<1> HIDE DEF R
<1>2. Formed(x) /\ x.range = Fresh.range /\ x.rangeProto = "tcp"
      /\ x.pkts[Ranged] = Fresh.pkts[Ranged]
      /\ x.pkts[Ranged].proto = "tcp" /\ x.pkts[Ranged].ethType = "ipv4"
      /\ "SEND_SHORT_PACKETS" \notin x.flags
  BY SlotFacts, FreshFacts DEF Regained, SavedFlags
<1>3. Ranging(y, x, R, D, rp, q)
  BY <1>1, <1>2, RangesRead
<1> HIDE DEF D
<1>4. y.range = FileRange(s)
  <2>1. IsSpan(s.range["size"])
    <3>1. "size" \in Dims
      BY Zenon DEF Dims
    <3> QED  BY <3>1 DEF Whole, RangesKept
  <2>2. \A d \in Dims : d \in D \/ FileRange(s)[d] = Fresh.range[d]
    BY <2>1, FileRanges DEF D
  <2>3. DOMAIN FileRange(s) = Dims /\ IsFcn(FileRange(s))
    BY <2>1, FileRanges
  <2>4. \A d \in Dims : y.range[d] = FileRange(s)[d]
    BY <1>1, <1>2, <1>3, <2>2 DEF Ranging
  <2>5. DOMAIN y.range = Dims /\ IsFcn(y.range)
    BY <1>3 DEF Ranging
  <2> QED  BY <2>3, <2>4, <2>5 DEF IsFcn
<1>5. /\ y.rangeProto = rp /\ y.pkts = q /\ Only(x, y, {"range", "rangeProto", "pkts"})
  BY <1>3 DEF Ranging
<1>6. /\ \A k \in Slots : k = Ranged \/ q[k] = x.pkts[k]
      /\ q[Ranged] = [x.pkts[Ranged] EXCEPT !.proto = rp]
      /\ DOMAIN q = Slots /\ IsFcn(q)
  BY SlotFacts DEF Reproto, IsFcn
<1> HIDE DEF q, rp
<1>7. Packet(q[Ranged]) /\ \A k \in Slots : Packet(q[k])
  <2>1. Packet(x.pkts[Ranged])
    BY <1>2, SlotFacts DEF Formed
  <2>2. Packet(q[Ranged])
    BY <1>6, <2>1 DEF Packet, IsFcn
  <2> QED  BY <1>2, <1>6, <2>2 DEF Formed
<1>8. Formed(y)
  BY <1>5, <1>6, <1>7 DEF Formed, Table, Only
<1> QED  BY <1>2, <1>4, <1>5, <1>6, <1>8, SlotFacts DEF Regained, rp

(* After the lines of the sequence: all but the pace is what KeptByFile    *)
(* says.                                                                   *)
LEMMA FileRead ==
  ASSUME NEW s, Fit(s), Whole(s), Exclusive(s), NEW u,
         Reads("cmd", ScriptOf(s), Fresh, u)
  PROVE  Unpaced(u) = Unpaced(KeptByFile(s))
<1> DEFINE n == s.seqCnt
           K == KeptByFile(s)
<1>1. n \in Nat /\ n <= SeqSlots /\ SeqSlots \in Nat
  BY SettingsAssumption DEF Fit, Counted
<1>2. PICK w, x, y : /\ Reads("cmd", SingleLines(s), Fresh, w)
                     /\ Reads("cmd", FlagLines(s), w, x)
                     /\ Reads("cmd", AllRangeLines(s), x, y)
                     /\ Reads("cmd", SeqLines(s), y, u)
  BY <1>1, FileParts
<1>3. Regained(s, x)
  BY <1>2, HalfRead
<1>4. /\ Formed(y) /\ Only(x, y, {"range", "rangeProto", "pkts"})
      /\ y.range = FileRange(s) /\ y.rangeProto = Proto(s.rangeProto)
      /\ \A k \in Slots : k \in {Single, Ranged} \/ y.pkts[k] = Fresh.pkts[k]
      /\ y.pkts[Single] = FileSingle(s.pkts[Single])
      /\ y.pkts[Ranged] = [Fresh.pkts[Ranged] EXCEPT !.proto = Proto(s.rangeProto)]
  BY <1>2, <1>3, RangesRegained
<1>5. \A k \in Slots : k < SeqSlots => k # Single /\ k # Ranged
  BY <1>1 DEF Single, Ranged
<1>6. \A k \in Slots : k < SeqSlots => SeqWhole(y.pkts[k])
  BY <1>4, <1>5, FreshWhole DEF Whole
<1> DEFINE v == SetSeqCnt(y, n)
<1>7. SeqSofar(u, v, s, n)
  BY <1>2, <1>4, <1>6, SeqRead
<1>8. /\ Only(y, v, {"flags", "seqCnt"}) /\ v.seqCnt = Min({n, SeqSlots})
      /\ v.flags = Chosen(y.flags, n > 0, "SEND_SEQ_PKTS", ModeFlags)
  BY <1>4, ModeOnly DEF Formed
<1> HIDE DEF v
<1>9. v.seqCnt = n
  <2>1. Min({n, SeqSlots}) = IF n <= SeqSlots THEN n ELSE SeqSlots
    BY <1>1, MinOfTwo
  <2> HIDE DEF Min
  <2> QED  BY <1>1, <1>8, <2>1
<1>10. y.flags = s.flags \cap SavedFlags
  BY <1>3, <1>4 DEF Only, FieldNames, Regained
<1>11. v.flags = FileFlags(s)
  <2> DEFINE F == s.flags \cap SavedFlags
  <2>1. "SEND_SEQ_PKTS" \notin F
    BY DEF SavedFlags
  <2> HIDE DEF F
  <2>2. CASE n > 0
    BY <1>8, <1>10, <2>2 DEF Chosen, FileFlags, F
  <2>3. CASE ~(n > 0)
    <3>1. v.flags = F \ {"SEND_SEQ_PKTS"}
      BY <1>8, <1>10, <2>3 DEF Chosen, F
    <3>2. FileFlags(s) = F
      BY <2>3 DEF FileFlags, F
    <3> QED  BY <2>1, <3>1, <3>2
  <2> QED  BY <2>2, <2>3
<1>12. /\ DOMAIN u = FieldNames /\ u.flags = v.flags /\ u.macFromArp = x.macFromArp
       /\ u.count = x.count /\ u.burst = x.burst /\ u.prime = x.prime
       /\ u.jitter = x.jitter /\ u.fill = x.fill /\ u.user = x.user /\ u.rnd = x.rnd
       /\ u.seqCnt = n /\ u.rangeProto = y.rangeProto /\ u.range = y.range
  <2>1. Only(v, u, {"pkts"})
    BY <1>7 DEF SeqSofar
  <2>2. \A g \in FieldNames \ {"pkts", "pps", "cycles"} : u[g] = v[g]
    BY <2>1 DEF Only
  <2>3. \A g \in FieldNames \ {"flags", "seqCnt", "pps", "cycles"} : v[g] = y[g]
    BY <1>8 DEF Only
  <2>4. \A g \in FieldNames \ {"range", "rangeProto", "pkts", "pps", "cycles"} : y[g] = x[g]
    BY <1>4 DEF Only
  <2>5. DOMAIN u = FieldNames
    BY <2>1 DEF Only
  <2> QED  BY <1>9, <2>2, <2>3, <2>4, <2>5 DEF FieldNames
<1>13. u.pkts = FilePkts(s, Proto(s.rangeProto))
  <2>1. v.pkts = y.pkts
    BY <1>8 DEF Only, FieldNames
  <2>2. DOMAIN u.pkts = Slots /\ IsFcn(u.pkts)
    BY <1>7 DEF SeqSofar, Formed, Table
  <2> DEFINE fp == FilePkts(s, Proto(s.rangeProto))
  <2>3. DOMAIN fp = Slots /\ IsFcn(fp)
    BY DEF FilePkts, IsFcn
  <2>4. ~(Single < n) /\ ~(Ranged < n) /\ Single # Ranged
    BY <1>1 DEF Single, Ranged
  <2>5. ASSUME NEW k \in Slots PROVE u.pkts[k] = fp[k]
    <3>1. u.pkts[k] = IF k < n THEN KeptSeqPkt(s.pkts[k], y.pkts[k]) ELSE y.pkts[k]
      BY <1>7, <2>1, <2>5 DEF SeqSofar
    <3>2. fp[k] = CASE k < s.seqCnt -> KeptSeqPkt(s.pkts[k], Fresh.pkts[k])
                    [] k = Single   -> FileSingle(s.pkts[Single])
                    [] k = Ranged   -> [Fresh.pkts[k] EXCEPT !.proto = Proto(s.rangeProto)]
                    [] OTHER        -> Fresh.pkts[k]
      BY <2>5 DEF FilePkts
    <3> HIDE DEF fp
    <3>3. CASE k < n
      <4>1. k # Single /\ k # Ranged
        BY <2>4, <3>3
      <4>2. fp[k] = KeptSeqPkt(s.pkts[k], Fresh.pkts[k])
        BY <3>2, <3>3, <4>1
      <4>3. y.pkts[k] = Fresh.pkts[k]
        BY <1>4, <4>1
      <4> QED  BY <3>1, <3>3, <4>2, <4>3
    <3>4. CASE k = Single
      <4>1. fp[k] = FileSingle(s.pkts[Single])
        BY <2>4, <3>2, <3>4
      <4> QED  BY <1>4, <2>4, <3>1, <3>4, <4>1
    <3>5. CASE k = Ranged
      <4>1. fp[k] = [Fresh.pkts[k] EXCEPT !.proto = Proto(s.rangeProto)]
        BY <2>4, <3>2, <3>5
      <4> QED  BY <1>4, <2>4, <3>1, <3>5, <4>1
    <3>6. CASE ~(k < n) /\ k # Single /\ k # Ranged
      <4>1. fp[k] = Fresh.pkts[k]
        BY <3>2, <3>6
      <4> QED  BY <1>4, <3>1, <3>6, <4>1
    <3> QED  BY <3>3, <3>4, <3>5, <3>6
  <2> HIDE DEF fp
  <2>6. u.pkts = fp
    BY <2>2, <2>3, <2>5 DEF IsFcn
  <2> QED  BY <2>6 DEF fp
<1>14. /\ DOMAIN K = FieldNames /\ K.flags = FileFlags(s)
       /\ K.macFromArp = s.macFromArp /\ K.count = s.count
       /\ K.burst = s.burst /\ K.prime = s.prime
       /\ K.jitter = s.jitter /\ K.fill = s.fill /\ K.user = FileUser(s)
       /\ K.seqCnt = s.seqCnt /\ K.rnd = Fresh.rnd
       /\ K.rangeProto = Proto(s.rangeProto) /\ K.range = FileRange(s)
       /\ K.pkts = FilePkts(s, Proto(s.rangeProto))
  BY KeptByFileFields
<1>15. \A g \in FieldNames \ {"rate", "pps", "cycles"} : u[g] = K[g]
  BY <1>3, <1>4, <1>11, <1>12, <1>13, <1>14 DEF Regained, FieldNames
<1> HIDE DEF K
<1>16. Unpaced(u) = Unpaced(K)
  <2> DEFINE a == [u EXCEPT !.rate = 0, !.pps = 0, !.cycles = 0]
             b == [K EXCEPT !.rate = 0, !.pps = 0, !.cycles = 0]
  <2>1. /\ DOMAIN a = FieldNames /\ IsFcn(a)
        /\ a.rate = 0 /\ a.pps = 0 /\ a.cycles = 0
        /\ \A g \in FieldNames \ {"rate", "pps", "cycles"} : a[g] = u[g]
    BY <1>12 DEF IsFcn, FieldNames
  <2>2. /\ DOMAIN b = FieldNames /\ IsFcn(b)
        /\ b.rate = 0 /\ b.pps = 0 /\ b.cycles = 0
        /\ \A g \in FieldNames \ {"rate", "pps", "cycles"} : b[g] = K[g]
    BY <1>14 DEF IsFcn, FieldNames, K
  <2> HIDE DEF a, b
  <2>3. \A g \in FieldNames : a[g] = b[g]
    BY <1>15, <2>1, <2>2
  <2>4. a = b
    BY <2>1, <2>2, <2>3 DEF IsFcn
  <2> QED  BY <2>4 DEF a, b, Unpaced
<1> QED  BY <1>16 DEF K

-----------------------------------------------------------------------------
(* A rate of p packets of W bytes, turned into packets per second again.   *)
LEMMA Monotone ==
  ASSUME NEW a \in Int, NEW b \in Int, NEW c \in Nat, a <= b
  PROVE  a * c <= b * c
<1>1. (b - a) * c >= 0
  <2>1. \A d \in Nat, e \in Nat : d * e >= 0
    OBVIOUS
  <2>2. b - a \in Nat
    OBVIOUS
  <2> QED  BY <2>1, <2>2
<1>2. (b - a) * c = b * c - a * c
  OBVIOUS
<1>3. a * c \in Int /\ b * c \in Int
  OBVIOUS
<1> QED  BY <1>1, <1>2, <1>3

LEMMA Quotient ==
  ASSUME NEW m \in Nat, NEW d \in Nat \ {0}
  PROVE  m \div d \in Nat /\ (m \div d) * d <= m /\ m < (m \div d) * d + d
OBVIOUS

LEMMA PaceBack ==
  ASSUME NEW L \in Nat \ {0}, NEW W \in Nat \ {0}, NEW p \in Nat, p <= L \div W
  PROVE  ((L \div W) * (p * W)) \div L \in (p - 1)..p
<1> DEFINE q == L \div W
           a == q * W
           b == p * W
           m == p * a
           c == p * L
<1>1. q \in Nat /\ a <= L /\ L < a + W
  BY Quotient
<1> HIDE DEF q
<1>2. a \in Nat /\ b \in Nat /\ q * b = m
  BY <1>1
<1>3. b <= a
  BY <1>1, Monotone DEF q
<1> HIDE DEF a
<1>4. m \in Nat /\ c \in Nat /\ m <= c
  BY <1>1, <1>2, Monotone
<1>5. m >= c - L
  <2>1. (L - W) * p <= a * p
    BY <1>1, <1>2, Monotone
  <2>2. (L - W) * p = c - b /\ a * p = m
    BY <1>2
  <2> HIDE DEF b, c, m
  <2> QED  BY <1>1, <1>2, <1>3, <1>4, <2>1, <2>2
<1> DEFINE d == m \div L
<1>6. d \in Nat /\ d * L <= m /\ m < d * L + L
  BY <1>4, Quotient
<1> HIDE DEF m, b, d
<1>7. d <= p
  <2> SUFFICES ASSUME p + 1 <= d PROVE FALSE
    BY <1>6
  <2>1. (p + 1) * L <= d * L
    BY <1>6, Monotone
  <2>2. (p + 1) * L = c + L
    OBVIOUS
  <2>3. d * L \in Nat
    BY <1>6
  <2> HIDE DEF c
  <2> QED  BY <1>4, <1>6, <2>1, <2>2, <2>3
<1>8. d >= p - 1
  <2> SUFFICES ASSUME d + 1 <= p - 1 PROVE FALSE
    BY <1>6
  <2>1. (d + 1) * L <= (p - 1) * L
    BY <1>6, Monotone
  <2>2. (p - 1) * L = c - L /\ (d + 1) * L = d * L + L
    BY <1>6
  <2>3. d * L \in Nat
    BY <1>6
  <2> HIDE DEF c
  <2> QED  BY <1>4, <1>5, <1>6, <2>1, <2>2, <2>3
<1>9. d \in (p - 1)..p
  BY <1>6, <1>7, <1>8
<1> QED  BY <1>2, <1>9 DEF d, q, b, m

LEMMA PaceRead ==
  ASSUME NEW s, Fit(s), Whole(s), Exclusive(s), NEW u,
         Reads("cmd", ScriptOf(s), Fresh, u),
         s.seqCnt = 0, "SEND_PCAP_PKTS" \notin s.flags,
         KeptByFile(s).pkts[Single].size = s.pkts[Single].size,
         s.pps <= Link \div WireSize(s)
  PROVE  /\ u.pps \in (s.pps - 1)..s.pps
         /\ u.cycles = Cycles(u.pps, s.burst)
<1> DEFINE p == s.pkts[Single]
           W == p.size + Overhead
<1>1. s.pps \in Nat /\ p.size \in Nat /\ Overhead = 24
  <2>1. s.pps \in Nat /\ p.size \in 0..MaxSize
    BY SavedSingle
  <2>2. MaxSize = 1514
    BY DEF MaxSize
  <2>3. \A n \in 0..1514 : n \in Nat
    OBVIOUS
  <2>4. p.size \in Nat
    <3> HIDE DEF p
    <3> QED  BY <2>1, <2>2, <2>3
  <2>5. Overhead = 24
    BY DEF Overhead
  <2> QED  BY <2>1, <2>4, <2>5
<1>2. PICK w, x, y : /\ Reads("cmd", SingleLines(s), Fresh, w)
                     /\ Reads("cmd", FlagLines(s), w, x)
                     /\ Reads("cmd", AllRangeLines(s), x, y)
                     /\ Reads("cmd", SeqLines(s), y, u)
  BY FileParts
<1>3. Regained(s, x)
  BY <1>2, HalfRead
<1>4. /\ Formed(y) /\ Only(x, y, {"range", "rangeProto", "pkts"})
      /\ y.pkts[Single] = FileSingle(p)
  BY <1>2, <1>3, RangesRegained
<1>5. FileSingle(p).size = Grown(p) /\ KeptByFile(s).pkts[Single] = FileSingle(p)
  <2>1. ~(Single < s.seqCnt) /\ Single \in Slots
    BY SlotFacts, SettingsAssumption DEF Single
  <2>2. FilePkts(s, Proto(s.rangeProto))[Single] = FileSingle(p)
    BY <2>1, SlotFacts DEF FilePkts
  <2> QED  BY <2>2, KeptByFileFields, FileSingleFields
<1>6. Max({p.size, MinSize}) = p.size
  <2> DEFINE m == Max({p.size, MinSize})
  <2>1. m = IF p.size >= MinSize THEN p.size ELSE MinSize
    BY <1>1, MaxOfTwo DEF MinSize
  <2> HIDE DEF m
  <2>2. m \in Nat /\ m >= p.size
    BY <1>1, <2>1 DEF MinSize
  <2>3. Raised(m, p.ethType) >= m
    BY <2>2 DEF Raised, MinSize, MinV6Size
  <2>4. Raised(m, p.ethType) = p.size
    BY <1>5 DEF Grown, m
  <2> QED  BY <1>1, <2>2, <2>3, <2>4 DEF m
<1>7. WireSize(s) = W
  BY WireOfSingle
<1>8. y.rate = s.pps * W /\ y.burst = s.burst /\ y.flags = s.flags \cap SavedFlags
  BY <1>3, <1>4, <1>6 DEF Only, FieldNames, Regained
<1>9. u = SetSeqCnt(y, 0)
  BY <1>2, SeqReadNone
<1> DEFINE o == [y EXCEPT !.seqCnt = 0]
           t == OneOf(o, FALSE, "SEND_SEQ_PKTS", ModeFlags)
<1>10. u = Paced(t)
  <2>1. Min({0, SeqSlots}) = 0
    <3>1. Min({0, SeqSlots}) = IF 0 <= SeqSlots THEN 0 ELSE SeqSlots
      BY SettingsAssumption, MinOfTwo
    <3> HIDE DEF Min
    <3> QED  BY <3>1, SettingsAssumption
  <2> HIDE DEF Min
  <2>2. (0 > 0) = FALSE
    OBVIOUS
  <2> QED  BY <1>9, <2>1, <2>2 DEF SetSeqCnt
<1>11. DOMAIN o = FieldNames /\ o.seqCnt = 0
       /\ \A g \in FieldNames \ {"seqCnt"} : o[g] = y[g]
  BY <1>4 DEF Formed, FieldNames
<1> HIDE DEF o
<1>12. Only(o, t, {"flags"}) /\ t.flags = o.flags \ {"SEND_SEQ_PKTS"}
  <2>1. t = ClrFlags(o, {"SEND_SEQ_PKTS"})
    BY DEF OneOf
  <2> HIDE DEF t
  <2>2. /\ Only(o, ClrFlags(o, {"SEND_SEQ_PKTS"}), {"flags"})
        /\ ClrFlags(o, {"SEND_SEQ_PKTS"}).flags = o.flags \ {"SEND_SEQ_PKTS"}
    BY <1>11, FlagsOnly
  <2> QED  BY <2>1, <2>2
<1> HIDE DEF t
<1>13. /\ t.rate = s.pps * W /\ t.burst = s.burst /\ t.seqCnt = 0
       /\ "SEND_PCAP_PKTS" \notin t.flags /\ t.pkts[Single].size = p.size
       /\ DOMAIN t = FieldNames
  BY <1>4, <1>5, <1>6, <1>8, <1>11, <1>12 DEF Only, FieldNames
<1>14. WireSize(t) = W
  BY <1>13, WireOfSingle
<1>15. /\ u.pps = ((Link \div W) * (s.pps * W)) \div Link
       /\ u.cycles = Cycles(u.pps, s.burst)
  <2> DEFINE n == ((Link \div WireSize(t)) * t.rate) \div Link
  <2>1. u = [t EXCEPT !.pps = n, !.cycles = Cycles(n, t.burst)]
    BY <1>10 DEF Paced
  <2> HIDE DEF n
  <2>2. u.pps = n /\ u.cycles = Cycles(n, t.burst)
    BY <1>13, <2>1 DEF FieldNames
  <2>3. n = ((Link \div W) * (s.pps * W)) \div Link
    BY <1>13, <1>14 DEF n
  <2> QED  BY <1>13, <2>2, <2>3
<1>16. W \in Nat \ {0} /\ s.pps <= Link \div W
  BY <1>1, <1>7
<1> HIDE DEF W
<1>17. ((Link \div W) * (s.pps * W)) \div Link \in (s.pps - 1)..s.pps
  <2>1. Link \in Nat \ {0}
    BY SettingsAssumption
  <2> QED  BY <1>1, <1>16, <2>1, PaceBack
<1> QED  BY <1>15, <1>17

-----------------------------------------------------------------------------
(* Saving and loading.  The settings that are saved are sound, the file    *)
(* holds what is printed of them, and what has been read of it has taken   *)
(* the settings of a new program to where they are.                        *)
Sound(s) == Fit(s) /\ Whole(s) /\ Good(s)
TextOf(kind, s) == IF kind = "lua" THEN LuaScriptOf(s) ELSE ScriptOf(s)
RoundTrip ==
  /\ phase \in {"editing", "loading", "loaded"}
  /\ phase = "editing" => Sound(port)
  /\ phase # "editing" =>
       /\ Sound(saved) /\ file.kind \in {"cmd", "lua"}
       /\ file.lines = TextOf(file.kind, saved)
       /\ next \in Nat /\ next > 0 /\ next - 1 <= Len(file.lines)
       /\ ReadUpTo(file.kind, file.lines, next - 1, Fresh, port)
       /\ file.kind = "lua" => \A n \in 1..(next - 1) : Accepts(file.lines[n])
  /\ phase = "loaded" => next > Len(file.lines) \/ Stuck
  /\ phase = "editing" => next = 1

LEMMA TextLength ==
  ASSUME NEW kind, NEW s, Sound(s) PROVE Len(TextOf(kind, s)) \in Nat
BY FileNumeric, ReadNumeric DEF TextOf, Sound

LEMMA RunSound ==
  ASSUME NEW s, Sound(s), NEW line, Numeric(line), Typed(line)
  PROVE  Sound(Run(s, line))
BY RunFit, RunWhole, RunGood DEF Sound

LEMMA CallSound ==
  ASSUME NEW s, Sound(s), NEW call, Accepts(call), Numeric(call), Typed(call)
  PROVE  Sound(Call(s, call))
BY CallFit, CallWhole, CallGood DEF Sound

LEMMA RoundTripInit == Init => RoundTrip
BY FreshFit, FreshWhole, FreshGood DEF Init, RoundTrip, Sound

LEMMA RoundTripStep == RoundTrip /\ [Next]_vars => RoundTrip'
<1> SUFFICES ASSUME RoundTrip, [Next]_vars PROVE RoundTrip'
  OBVIOUS
<1>1. ASSUME NEW line \in Lines, Type(line) PROVE RoundTrip'
  <2>1. Sound(port')
    BY <1>1, InputAssumption, RunSound DEF Type, RoundTrip
  <2> QED  BY <1>1, <2>1 DEF Type, RoundTrip
<1>2. ASSUME NEW call \in Calls, MakeCall(call) PROVE RoundTrip'
  <2>1. Sound(port')
    BY <1>2, InputAssumption, CallSound DEF MakeCall, RoundTrip
  <2> QED  BY <1>2, <2>1 DEF MakeCall, RoundTrip
<1>3. ASSUME NEW kind \in {"cmd", "lua"}, SaveAndRestart(kind) PROVE RoundTrip'
  <2>1. /\ phase' = "loading" /\ saved' = port /\ Sound(saved')
        /\ file'.kind = kind /\ file'.lines = TextOf(kind, saved')
        /\ next' = 1 /\ port' = Fresh
    BY <1>3 DEF SaveAndRestart, RoundTrip, TextOf
  <2>2. Len(file'.lines) \in Nat
    BY <2>1, TextLength
  <2>3. next' - 1 = 0
    BY <2>1
  <2>4. ReadUpTo(file'.kind, file'.lines, next' - 1, Fresh, port')
    BY <2>1, <2>3, ReadNothing
  <2>5. \A n \in 1..(next' - 1) : Accepts(file'.lines[n])
    BY <2>3
  <2> QED  BY <1>3, <2>1, <2>2, <2>4, <2>5 DEF RoundTrip
<1>4. ASSUME NEW kind, phase = "loading", file.kind = kind, next <= Len(file.lines),
             port' = Step(kind, port, file.lines[next]), next' = next + 1,
             kind = "lua" => Accepts(file.lines[next]),
             UNCHANGED <<saved, file, phase, input>>
      PROVE  RoundTrip'
  <2>1. next \in Nat /\ next > 0 /\ Len(file.lines) \in Nat
    BY <1>4, TextLength DEF RoundTrip
  <2>2. /\ next - 1 \in Nat /\ (next - 1) + 1 = next /\ next' - 1 = next
        /\ next' \in Nat /\ next' > 0
    BY <1>4, <2>1
  <2>3. ReadUpTo(kind, file.lines, (next - 1) + 1, Fresh,
                 Step(kind, port, file.lines[(next - 1) + 1]))
    BY <1>4, <2>2, ReadMore DEF RoundTrip
  <2>4. ReadUpTo(kind, file.lines, next, Fresh, port')
    BY <1>4, <2>2, <2>3
  <2>5. kind = "lua" => \A n \in 1..next : Accepts(file.lines[n])
    <3>1. \A n \in 1..next : n = next \/ n \in 1..(next - 1)
      BY <2>1
    <3> QED  BY <1>4, <3>1 DEF RoundTrip
  <2> QED  BY <1>4, <2>2, <2>4, <2>5 DEF RoundTrip
<1>5. CASE LoadLine
  <2>1. port' = Step(file.kind, port, file.lines[next])
    BY <1>5 DEF LoadLine, Step
  <2> QED  BY <1>4, <1>5, <2>1 DEF LoadLine
<1>6. CASE LoadCall
  <2>1. port' = Step(file.kind, port, file.lines[next])
    BY <1>6 DEF LoadCall, Step
  <2> QED  BY <1>4, <1>6, <2>1 DEF LoadCall
<1>7. CASE EndLoad
  BY <1>7 DEF EndLoad, RoundTrip, Stuck
<1>8. CASE UNCHANGED vars
  BY <1>8 DEF vars, RoundTrip, Stuck
<1> QED  BY <1>1, <1>2, <1>3, <1>5, <1>6, <1>7, <1>8 DEF Next

LEMMA RoundTripInv == Spec => []RoundTrip
BY RoundTripInit, RoundTripStep, PTL DEF Spec

(* Loaded means read to the end.                                           *)
LEMMA FileLoaded ==
  RoundTrip /\ phase = "loaded" /\ file.kind = "cmd" =>
    Sound(saved) /\ Reads("cmd", ScriptOf(saved), Fresh, port)
<1> SUFFICES ASSUME RoundTrip, phase = "loaded", file.kind = "cmd"
             PROVE  Sound(saved) /\ Reads("cmd", ScriptOf(saved), Fresh, port)
  OBVIOUS
<1>1. Sound(saved) /\ file.lines = ScriptOf(saved)
  BY DEF RoundTrip, TextOf
<1>2. Len(file.lines) \in Nat
  BY TextLength DEF RoundTrip
<1>3. next > Len(file.lines) /\ next \in Nat /\ next - 1 <= Len(file.lines)
  BY DEF RoundTrip, Stuck
<1>4. next - 1 = Len(file.lines)
  BY <1>2, <1>3
<1> QED  BY <1>1, <1>4 DEF RoundTrip, Reads

(* However a port was set up, from the command line and from Lua, a        *)
(* command file written by pktgen_save and loaded into a program that has  *)
(* just been started brings back what KeptByFile says of it, to the last   *)
(* field of the last packet: no line of the file undoes what one before it *)
(* has restored.                                                           *)
THEOREM FileRestores == Spec => []Restored
<1>1. RoundTrip => Restored
  <2> SUFFICES ASSUME RoundTrip, phase = "loaded", file.kind = "cmd"
               PROVE  Unpaced(port) = Unpaced(KeptByFile(saved))
    BY DEF Restored
  <2>1. Sound(saved) /\ Reads("cmd", ScriptOf(saved), Fresh, port)
    BY FileLoaded
  <2> QED  BY <2>1, FileRead DEF Sound, Good
<1> QED  BY <1>1, RoundTripInv, PTL

(* And the rate comes back through the packets per second it was saved as, *)
(* at most one lower.                                                      *)
THEOREM FilePaces == Spec => []PaceKept
<1>1. RoundTrip => PaceKept
  <2> SUFFICES ASSUME RoundTrip, phase = "loaded", file.kind = "cmd", saved.seqCnt = 0,
                      "SEND_PCAP_PKTS" \notin saved.flags,
                      KeptByFile(saved).pkts[Single].size = saved.pkts[Single].size,
                      saved.pps <= Link \div WireSize(saved)
               PROVE  /\ port.pps \in (saved.pps - 1)..saved.pps
                      /\ port.cycles = Cycles(port.pps, saved.burst)
    BY DEF PaceKept
  <2>1. Sound(saved) /\ Reads("cmd", ScriptOf(saved), Fresh, port)
    BY FileLoaded
  <2> QED  BY <2>1, PaceRead DEF Sound, Good
<1> QED  BY <1>1, RoundTripInv, PTL

-----------------------------------------------------------------------------
(* What the calls of a saved Lua script do.                                *)
LEMMA CallSwitch ==
  ASSUME NEW t, NEW on \in BOOLEAN, NEW v, On(v) = on
  PROVE  /\ Call(t, <<"mac_from_arp", v>>) = EnableMacFromArp(t, on)
         /\ Call(t, <<"mpls", v>>) = EnableMpls(t, on)
         /\ Call(t, <<"qinq", v>>) = EnableQinq(t, on)
         /\ Call(t, <<"gre", v>>) = EnableGre(t, on)
         /\ Call(t, <<"gre_eth", v>>) = EnableGreEth(t, on)
         /\ Call(t, <<"icmp_echo", v>>) = Switch(t, on, {"ICMP_ECHO_ENABLE_FLAG"})
         /\ Call(t, <<"pcap", v>>) = EnablePcap(t, on)
         /\ Call(t, <<"set_range", v>>) = EnableRange(t, on)
         /\ Call(t, <<"latency", v>>) = Switch(t, on, {"SEND_LATENCY_PKTS"})
         /\ Call(t, <<"process", v>>) = Switch(t, on, {"PROCESS_INPUT_PKTS"})
         /\ Call(t, <<"capture", v>>) = Switch(t, on, {"CAPTURE_PKTS"})
         /\ Call(t, <<"rxtap", v>>) = EnableTap(t, on, "PROCESS_RX_TAP_PKTS")
         /\ Call(t, <<"txtap", v>>) = EnableTap(t, on, "PROCESS_TX_TAP_PKTS")
         /\ Call(t, <<"vlan", v>>) = EnableVlan(t, on)
<1>1. ASSUME NEW f \in Switches PROVE Call(t, <<f, v>>) = EnableCall(t, f, on)
  <2> DEFINE l == <<f, v>>
  <2>1. l[1] = f /\ l[2] = v
    OBVIOUS
  <2> HIDE DEF l
  <2>2. f \notin Ranges /\ f # "ip_proto" /\ f \notin {"seqTable", "compile"}
        /\ f # "rnd" /\ f # "ping4" /\ f # "send_arp" /\ f # "reset"
    BY DEF Switches, TagSwitches, ModeSwitches, TapSwitches, Ranges, AddressRanges, NumberRanges
  <2>3. Call(t, l) = EnableCall(t, f, On(v))
    BY <2>1, <2>2 DEF Call
  <2> QED  BY <2>3 DEF l
<1>2. "mac_from_arp" \in Switches /\ EnableCall(t, "mac_from_arp", on) = EnableMacFromArp(t, on)
  BY DEF EnableCall, Switches, TagSwitches, ModeSwitches, TapSwitches
<1>3. "mpls" \in Switches /\ EnableCall(t, "mpls", on) = EnableMpls(t, on)
  BY DEF EnableCall, Switches, TagSwitches, ModeSwitches, TapSwitches, TagSwitch
<1>4. "qinq" \in Switches /\ EnableCall(t, "qinq", on) = EnableQinq(t, on)
  BY DEF EnableCall, Switches, TagSwitches, ModeSwitches, TapSwitches, TagSwitch
<1>5. "gre" \in Switches /\ EnableCall(t, "gre", on) = EnableGre(t, on)
  BY DEF EnableCall, Switches, TagSwitches, ModeSwitches, TapSwitches
<1>6. "gre_eth" \in Switches /\ EnableCall(t, "gre_eth", on) = EnableGreEth(t, on)
  BY DEF EnableCall, Switches, TagSwitches, ModeSwitches, TapSwitches
<1>7. "icmp_echo" \in Switches /\ EnableCall(t, "icmp_echo", on) = Switch(t, on, {"ICMP_ECHO_ENABLE_FLAG"})
  BY DEF EnableCall, Switches, TagSwitches, ModeSwitches, TapSwitches
<1>8. "pcap" \in Switches /\ EnableCall(t, "pcap", on) = EnablePcap(t, on)
  BY DEF EnableCall, Switches, TagSwitches, ModeSwitches, TapSwitches
<1>9. "set_range" \in Switches /\ EnableCall(t, "set_range", on) = EnableRange(t, on)
  BY DEF EnableCall, Switches, TagSwitches, ModeSwitches, TapSwitches
<1>10. "latency" \in Switches /\ EnableCall(t, "latency", on) = Switch(t, on, {"SEND_LATENCY_PKTS"})
  BY DEF EnableCall, Switches, TagSwitches, ModeSwitches, TapSwitches
<1>11. "process" \in Switches /\ EnableCall(t, "process", on) = Switch(t, on, {"PROCESS_INPUT_PKTS"})
  BY DEF EnableCall, Switches, TagSwitches, ModeSwitches, TapSwitches, ModeSwitch
<1>12. "capture" \in Switches /\ EnableCall(t, "capture", on) = Switch(t, on, {"CAPTURE_PKTS"})
  BY DEF EnableCall, Switches, TagSwitches, ModeSwitches, TapSwitches, ModeSwitch
<1>13. "rxtap" \in Switches /\ EnableCall(t, "rxtap", on) = EnableTap(t, on, "PROCESS_RX_TAP_PKTS")
  BY DEF EnableCall, Switches, TagSwitches, ModeSwitches, TapSwitches, TapSwitch
<1>14. "txtap" \in Switches /\ EnableCall(t, "txtap", on) = EnableTap(t, on, "PROCESS_TX_TAP_PKTS")
  BY DEF EnableCall, Switches, TagSwitches, ModeSwitches, TapSwitches, TapSwitch
<1>15. "vlan" \in Switches /\ EnableCall(t, "vlan", on) = EnableVlan(t, on)
  BY DEF EnableCall, Switches, TagSwitches, ModeSwitches, TapSwitches, TagSwitch
<1> QED  BY <1>1, <1>2, <1>3, <1>4, <1>5, <1>6, <1>7, <1>8, <1>9, <1>10, <1>11, <1>12, <1>13, <1>14, <1>15

LEMMA CallSet ==
  ASSUME NEW t, NEW v
  PROVE  /\ Call(t, <<"set", "count", v>>) = SetTxCount(t, v)
         /\ Call(t, <<"set", "size", v>>) = SetPktSize(t, v)
         /\ Call(t, <<"set", "rate", v>>) = SetTxRate(t, v)
         /\ Call(t, <<"set", "burst", v>>) = SetTxBurst(t, v)
         /\ Call(t, <<"set", "sport", v>>) = SetPort(t, "sport", v)
         /\ Call(t, <<"set", "dport", v>>) = SetPort(t, "dport", v)
         /\ Call(t, <<"set", "prime", v>>) = SetPrime(t, v)
         /\ Call(t, <<"set", "seq_cnt", v>>) = SetSeqCnt(t, v)
<1>1. \A what : Call(t, <<"set", what, v>>) = SetValue(t, what, v)
  <2>1. TAKE what
  <2> DEFINE l == <<"set", what, v>>
  <2>2. l[1] = "set" /\ l[2] = what /\ l[3] = v
    OBVIOUS
  <2> HIDE DEF l
  <2>3. "set" \notin Switches /\ "set" \notin Ranges
    BY DEF Switches, TagSwitches, ModeSwitches, TapSwitches, Ranges, AddressRanges, NumberRanges
  <2>4. Call(t, l) = SingleCall(t, l)
    BY <2>2, <2>3 DEF Call
  <2>5. SingleCall(t, l) = SetValue(t, what, v)
    BY <2>2 DEF SingleCall, HeaderNames, LabelNames, FillNames
  <2> QED  BY <2>4, <2>5 DEF l
<1>2. SetValue(t, "count", v) = SetTxCount(t, v)
  BY DEF SetValue
<1>3. SetValue(t, "size", v) = SetPktSize(t, v)
  BY DEF SetValue
<1>4. SetValue(t, "rate", v) = SetTxRate(t, v)
  BY DEF SetValue
<1>5. SetValue(t, "burst", v) = SetTxBurst(t, v)
  BY DEF SetValue
<1>6. SetValue(t, "sport", v) = SetPort(t, "sport", v)
  BY DEF SetValue
<1>7. SetValue(t, "dport", v) = SetPort(t, "dport", v)
  BY DEF SetValue
<1>8. SetValue(t, "prime", v) = SetPrime(t, v)
  BY DEF SetValue
<1>9. SetValue(t, "seq_cnt", v) = SetSeqCnt(t, v)
  BY DEF SetValue
<1> QED  BY <1>1, <1>2, <1>3, <1>4, <1>5, <1>6, <1>7, <1>8, <1>9

LEMMA CallOne ==
  ASSUME NEW t, NEW v
  PROVE  /\ Call(t, <<"set_proto", v>>) = SetProto(t, v)
         /\ Call(t, <<"set_type", v>>) = SetPktType(t, v)
         /\ Call(t, <<"set_mac", v>>) = SetDstMac(t, v)
         /\ Call(t, <<"vlanid", v>>) = SetVlanId(t, VlanId(v))
         /\ Call(t, <<"pattern", v>>) = SetPattern(t, v)
         /\ Call(t, <<"userPattern", v>>) = SetUserPattern(t, v)
         /\ Call(t, <<"jitter", v>>) = SetJitter(t, v)
         /\ Call(t, <<"mpls_entry", v>>) = SetMpls(t, v)
         /\ Call(t, <<"gre_key", v>>) = SetGreKey(t, v)
<1>1. Call(t, <<"set_proto", v>>) = SetProto(t, v)
  <2> DEFINE l == <<"set_proto", v>>
  <2>1. l[1] = "set_proto" /\ l[2] = v
    OBVIOUS
  <2> HIDE DEF l
  <2>2. "set_proto" \notin Switches /\ "set_proto" \notin Ranges
    BY DEF Switches, TagSwitches, ModeSwitches, TapSwitches, Ranges, AddressRanges, NumberRanges
  <2>3. Call(t, l) = SingleCall(t, l)
    BY <2>1, <2>2 DEF Call
  <2>4. SingleCall(t, l) = HeaderCall(t, l)
    BY <2>1 DEF SingleCall, HeaderNames, LabelNames, FillNames
  <2>5. HeaderCall(t, l) = SetProto(t, v)
    BY <2>1 DEF HeaderCall
  <2> QED  BY <2>3, <2>4, <2>5 DEF l
<1>2. Call(t, <<"set_type", v>>) = SetPktType(t, v)
  <2> DEFINE l == <<"set_type", v>>
  <2>1. l[1] = "set_type" /\ l[2] = v
    OBVIOUS
  <2> HIDE DEF l
  <2>2. "set_type" \notin Switches /\ "set_type" \notin Ranges
    BY DEF Switches, TagSwitches, ModeSwitches, TapSwitches, Ranges, AddressRanges, NumberRanges
  <2>3. Call(t, l) = SingleCall(t, l)
    BY <2>1, <2>2 DEF Call
  <2>4. SingleCall(t, l) = HeaderCall(t, l)
    BY <2>1 DEF SingleCall, HeaderNames, LabelNames, FillNames
  <2>5. HeaderCall(t, l) = SetPktType(t, v)
    BY <2>1 DEF HeaderCall
  <2> QED  BY <2>3, <2>4, <2>5 DEF l
<1>3. Call(t, <<"set_mac", v>>) = SetDstMac(t, v)
  <2> DEFINE l == <<"set_mac", v>>
  <2>1. l[1] = "set_mac" /\ l[2] = v
    OBVIOUS
  <2> HIDE DEF l
  <2>2. "set_mac" \notin Switches /\ "set_mac" \notin Ranges
    BY DEF Switches, TagSwitches, ModeSwitches, TapSwitches, Ranges, AddressRanges, NumberRanges
  <2>3. Call(t, l) = SingleCall(t, l)
    BY <2>1, <2>2 DEF Call
  <2>4. SingleCall(t, l) = HeaderCall(t, l)
    BY <2>1 DEF SingleCall, HeaderNames, LabelNames, FillNames
  <2>5. HeaderCall(t, l) = SetDstMac(t, v)
    BY <2>1 DEF HeaderCall
  <2> QED  BY <2>3, <2>4, <2>5 DEF l
<1>4. Call(t, <<"vlanid", v>>) = SetVlanId(t, VlanId(v))
  <2> DEFINE l == <<"vlanid", v>>
  <2>1. l[1] = "vlanid" /\ l[2] = v
    OBVIOUS
  <2> HIDE DEF l
  <2>2. "vlanid" \notin Switches /\ "vlanid" \notin Ranges
    BY DEF Switches, TagSwitches, ModeSwitches, TapSwitches, Ranges, AddressRanges, NumberRanges
  <2>3. Call(t, l) = SingleCall(t, l)
    BY <2>1, <2>2 DEF Call
  <2>4. SingleCall(t, l) = SetVlanId(t, VlanId(v))
    BY <2>1 DEF SingleCall, HeaderNames, LabelNames, FillNames
  <2> QED  BY <2>3, <2>4 DEF l
<1>5. Call(t, <<"pattern", v>>) = SetPattern(t, v)
  <2> DEFINE l == <<"pattern", v>>
  <2>1. l[1] = "pattern" /\ l[2] = v
    OBVIOUS
  <2> HIDE DEF l
  <2>2. "pattern" \notin Switches /\ "pattern" \notin Ranges
    BY DEF Switches, TagSwitches, ModeSwitches, TapSwitches, Ranges, AddressRanges, NumberRanges
  <2>3. Call(t, l) = SingleCall(t, l)
    BY <2>1, <2>2 DEF Call
  <2>4. SingleCall(t, l) = FillCall(t, "pattern", v)
    BY <2>1 DEF SingleCall, HeaderNames, LabelNames, FillNames
  <2>5. FillCall(t, "pattern", v) = SetPattern(t, v)
    BY DEF FillCall
  <2> QED  BY <2>3, <2>4, <2>5 DEF l
<1>6. Call(t, <<"userPattern", v>>) = SetUserPattern(t, v)
  <2> DEFINE l == <<"userPattern", v>>
  <2>1. l[1] = "userPattern" /\ l[2] = v
    OBVIOUS
  <2> HIDE DEF l
  <2>2. "userPattern" \notin Switches /\ "userPattern" \notin Ranges
    BY DEF Switches, TagSwitches, ModeSwitches, TapSwitches, Ranges, AddressRanges, NumberRanges
  <2>3. Call(t, l) = SingleCall(t, l)
    BY <2>1, <2>2 DEF Call
  <2>4. SingleCall(t, l) = FillCall(t, "userPattern", v)
    BY <2>1 DEF SingleCall, HeaderNames, LabelNames, FillNames
  <2>5. FillCall(t, "userPattern", v) = SetUserPattern(t, v)
    BY DEF FillCall
  <2> QED  BY <2>3, <2>4, <2>5 DEF l
<1>7. Call(t, <<"jitter", v>>) = SetJitter(t, v)
  <2> DEFINE l == <<"jitter", v>>
  <2>1. l[1] = "jitter" /\ l[2] = v
    OBVIOUS
  <2> HIDE DEF l
  <2>2. "jitter" \notin Switches /\ "jitter" \notin Ranges
    BY DEF Switches, TagSwitches, ModeSwitches, TapSwitches, Ranges, AddressRanges, NumberRanges
  <2>3. Call(t, l) = SingleCall(t, l)
    BY <2>1, <2>2 DEF Call
  <2>4. SingleCall(t, l) = FillCall(t, "jitter", v)
    BY <2>1 DEF SingleCall, HeaderNames, LabelNames, FillNames
  <2>5. FillCall(t, "jitter", v) = SetJitter(t, v)
    BY DEF FillCall
  <2> QED  BY <2>3, <2>4, <2>5 DEF l
<1>8. Call(t, <<"mpls_entry", v>>) = SetMpls(t, v)
  <2> DEFINE l == <<"mpls_entry", v>>
  <2>1. l[1] = "mpls_entry" /\ l[2] = v
    OBVIOUS
  <2> HIDE DEF l
  <2>2. "mpls_entry" \notin Switches /\ "mpls_entry" \notin Ranges
    BY DEF Switches, TagSwitches, ModeSwitches, TapSwitches, Ranges, AddressRanges, NumberRanges
  <2>3. Call(t, l) = SingleCall(t, l)
    BY <2>1, <2>2 DEF Call
  <2>4. SingleCall(t, l) = LabelCall(t, l)
    BY <2>1 DEF SingleCall, HeaderNames, LabelNames, FillNames
  <2>5. LabelCall(t, l) = SetMpls(t, v)
    BY <2>1 DEF LabelCall
  <2> QED  BY <2>3, <2>4, <2>5 DEF l
<1>9. Call(t, <<"gre_key", v>>) = SetGreKey(t, v)
  <2> DEFINE l == <<"gre_key", v>>
  <2>1. l[1] = "gre_key" /\ l[2] = v
    OBVIOUS
  <2> HIDE DEF l
  <2>2. "gre_key" \notin Switches /\ "gre_key" \notin Ranges
    BY DEF Switches, TagSwitches, ModeSwitches, TapSwitches, Ranges, AddressRanges, NumberRanges
  <2>3. Call(t, l) = SingleCall(t, l)
    BY <2>1, <2>2 DEF Call
  <2>4. SingleCall(t, l) = LabelCall(t, l)
    BY <2>1 DEF SingleCall, HeaderNames, LabelNames, FillNames
  <2>5. LabelCall(t, l) = SetGreKey(t, v)
    BY <2>1 DEF LabelCall
  <2> QED  BY <2>3, <2>4, <2>5 DEF l
<1> QED  BY <1>1, <1>2, <1>3, <1>4, <1>5, <1>6, <1>7, <1>8, <1>9

LEMMA CallTwo ==
  ASSUME NEW t, NEW v, NEW w
  PROVE  /\ Call(t, <<"set_ipaddr", "dst", v>>) = SetDstIp(t, v)
         /\ Call(t, <<"set_ipaddr", "src", <<v, w>>>>) = SetSrcIp(t, v, w)
         /\ Call(t, <<"qinqids", v, w>>) = SetQinq(t, VlanId(v), VlanId(w))
<1>1. Call(t, <<"set_ipaddr", "dst", v>>) = SetDstIp(t, v)
  <2> DEFINE l == <<"set_ipaddr", "dst", v>>
  <2>1. l[1] = "set_ipaddr" /\ l[2] = "dst" /\ l[3] = v
    OBVIOUS
  <2> HIDE DEF l
  <2>2. "set_ipaddr" \notin Switches /\ "set_ipaddr" \notin Ranges
    BY DEF Switches, TagSwitches, ModeSwitches, TapSwitches, Ranges, AddressRanges, NumberRanges
  <2>3. Call(t, l) = SingleCall(t, l)
    BY <2>1, <2>2 DEF Call
  <2>4. SingleCall(t, l) = HeaderCall(t, l)
    BY <2>1 DEF SingleCall, HeaderNames, LabelNames, FillNames
  <2>5. HeaderCall(t, l) = SetDstIp(t, v)
    BY <2>1 DEF HeaderCall
  <2> QED  BY <2>3, <2>4, <2>5 DEF l
<1>2. Call(t, <<"set_ipaddr", "src", <<v, w>>>>) = SetSrcIp(t, v, w)
  <2> DEFINE l == <<"set_ipaddr", "src", <<v, w>>>>
  <2>1. l[1] = "set_ipaddr" /\ l[2] = "src" /\ l[3][1] = v /\ l[3][2] = w
    OBVIOUS
  <2> HIDE DEF l
  <2>2. "set_ipaddr" \notin Switches /\ "set_ipaddr" \notin Ranges
    BY DEF Switches, TagSwitches, ModeSwitches, TapSwitches, Ranges, AddressRanges, NumberRanges
  <2>3. Call(t, l) = SingleCall(t, l)
    BY <2>1, <2>2 DEF Call
  <2>4. SingleCall(t, l) = HeaderCall(t, l)
    BY <2>1 DEF SingleCall, HeaderNames, LabelNames, FillNames
  <2>5. HeaderCall(t, l) = SetSrcIp(t, v, w)
    BY <2>1 DEF HeaderCall
  <2> QED  BY <2>3, <2>4, <2>5 DEF l
<1>3. Call(t, <<"qinqids", v, w>>) = SetQinq(t, VlanId(v), VlanId(w))
  <2> DEFINE l == <<"qinqids", v, w>>
  <2>1. l[1] = "qinqids" /\ l[2] = v /\ l[3] = w
    OBVIOUS
  <2> HIDE DEF l
  <2>2. "qinqids" \notin Switches /\ "qinqids" \notin Ranges
    BY DEF Switches, TagSwitches, ModeSwitches, TapSwitches, Ranges, AddressRanges, NumberRanges
  <2>3. Call(t, l) = SingleCall(t, l)
    BY <2>1, <2>2 DEF Call
  <2>4. SingleCall(t, l) = LabelCall(t, l)
    BY <2>1 DEF SingleCall, HeaderNames, LabelNames, FillNames
  <2>5. LabelCall(t, l) = SetQinq(t, VlanId(v), VlanId(w))
    BY <2>1 DEF LabelCall
  <2> QED  BY <2>3, <2>4, <2>5 DEF l
<1> QED  BY <1>1, <1>2, <1>3

-----------------------------------------------------------------------------
(* The calls of LuaSingle, one after the other.                            *)
LEMMA LuaSingleRead ==
  ASSUME NEW s, Fit(s), Whole(s), NEW R, Matches(s, R),
         R.pkts[Single].vlanid = VlanId(s.pkts[Single].vlanid),
         R.user = IF s.fill = "user" THEN s.user ELSE Fresh.user,
         R.rate = IF s.rate = 0 THEN LeastRate ELSE Min({s.rate, Link}),
         NEW u, Reads("lua", LuaSingle(s), Fresh, u)
  PROVE  Sofar(u, R, {"macFromArp", "count", "rate", "burst", "prime", "fill", "user",
                      "jitter"},
               {"sport", "dport", "size", "ethType", "proto", "dstIp", "srcIp", "mask",
                "dstMac", "vlanid"},
               {}, Grown(s.pkts[Single]), Typeset(s.pkts[Single]))
<1> DEFINE p == s.pkts[Single]
           a == <<"mac_from_arp", IF s.macFromArp THEN "enable" ELSE "disable">>
           b == <<"set", "count", s.count>>
           c == <<"set", "size", p.size + Fcs>>
           d == <<"set", "rate", s.rate>>
           e == <<"set", "burst", s.burst>>
           f == <<"set", "sport", p.sport>>
           g == <<"set", "dport", p.dport>>
           h == <<"set", "prime", s.prime>>
           i == <<"set_type", p.ethType>>
           j == <<"set_proto", p.proto>>
           k == <<"set_ipaddr", "dst", p.dstIp>>
           l == <<"set_ipaddr", "src", <<p.srcIp, p.mask>>>>
           m == <<"set_mac", p.dstMac>>
           n == <<"vlanid", p.vlanid>>
           o == <<"pattern", s.fill>>
           long == <<a, b, c, d, e, f, g, h, i, j, k, l, m, n, o>>
           own == <<"userPattern", s.user>>
           user == IF s.fill = "user" THEN <<own>> ELSE <<>>
           last == << <<"jitter", s.jitter>> >>
<1> DEFINE pkt == R.pkts[Single]
<1>0. /\ R.macFromArp = s.macFromArp /\ R.count = s.count /\ R.burst = s.burst
      /\ R.prime = s.prime /\ R.jitter = s.jitter /\ R.fill = s.fill
      /\ pkt.sport = p.sport /\ pkt.dport = p.dport /\ pkt.proto = p.proto
      /\ pkt.dstIp = p.dstIp /\ pkt.srcIp = p.srcIp /\ pkt.mask = p.mask
      /\ pkt.dstMac = p.dstMac /\ pkt.vlanid = VlanId(p.vlanid)
  BY DEF Matches
<1>1. LuaSingle(s) = (long \o user) \o last
  BY DEF LuaSingle
<1> HIDE DEF a, b, c, d, e, f, g, h, i, j, k, l, m, n, o, own
<1>2. IsSeq(long) /\ IsSeq(user) /\ IsSeq(last)
  <2>1. IsSeq(long) /\ IsSeq(last) /\ IsSeq(<<own>>) /\ IsSeq(<<>>)
    BY Tuples, Zenon
  <2> HIDE DEF long, last
  <2> QED  BY <2>1
<1> HIDE DEF user, last
<1>3. PICK v : Reads("lua", long \o user, Fresh, v) /\ Reads("lua", last, v, u)
  BY <1>1, <1>2, Joined, ReadJoined
<1>4. PICK w : Reads("lua", long, Fresh, w) /\ Reads("lua", user, w, v)
  BY <1>2, <1>3, ReadJoined
<1>5. PICK x : /\ x[0] = Fresh /\ x[15] = w
               /\ x[1] = Call(x[0], a)
               /\ x[2] = Call(x[1], b)
               /\ x[3] = Call(x[2], c)
               /\ x[4] = Call(x[3], d)
               /\ x[5] = Call(x[4], e)
               /\ x[6] = Call(x[5], f)
               /\ x[7] = Call(x[6], g)
               /\ x[8] = Call(x[7], h)
               /\ x[9] = Call(x[8], i)
               /\ x[10] = Call(x[9], j)
               /\ x[11] = Call(x[10], k)
               /\ x[12] = Call(x[11], l)
               /\ x[13] = Call(x[12], m)
               /\ x[14] = Call(x[13], n)
               /\ x[15] = Call(x[14], o)
  <2>1. \A y, z : Step("lua", y, z) = Call(y, z)
    BY DEF Step
  <2>2. PICK x : /\ x[0] = Fresh /\ x[15] = w
                /\ x[1] = Step("lua", x[0], a)
                /\ x[2] = Step("lua", x[1], b)
                /\ x[3] = Step("lua", x[2], c)
                /\ x[4] = Step("lua", x[3], d)
                /\ x[5] = Step("lua", x[4], e)
                /\ x[6] = Step("lua", x[5], f)
                /\ x[7] = Step("lua", x[6], g)
                /\ x[8] = Step("lua", x[7], h)
                /\ x[9] = Step("lua", x[8], i)
                /\ x[10] = Step("lua", x[9], j)
                /\ x[11] = Step("lua", x[10], k)
                /\ x[12] = Step("lua", x[11], l)
                /\ x[13] = Step("lua", x[12], m)
                /\ x[14] = Step("lua", x[13], n)
                /\ x[15] = Step("lua", x[14], o)
    BY <1>4, ReadFifteen
  <2> QED  BY <2>1, <2>2
<1> DEFINE wide == Max({p.size, MinSize})
           grown == Raised(wide, p.ethType)
           typeset == IF pkt.proto = "icmp" THEN "ipv4" ELSE p.ethType
           z0 == Fresh.pkts[Single].size
<1>6. /\ p.size \in 0..MaxSize /\ pkt.sport % W16 = pkt.sport /\ pkt.dport % W16 = pkt.dport
      /\ p.ethType \in {"arp", "ipv4", "ipv6"}
      /\ Min({Max({R.burst, 1}), MaxBurst}) = R.burst
      /\ (IF R.prime = 0 THEN 1 ELSE Min({R.prime, MaxPrime})) = R.prime
  BY SavedSingle, <1>0
<1>7. s.macFromArp \in BOOLEAN
  BY DEF Whole
<1>8. wide \in Nat
  <2>1. Max({p.size, MinSize}) \in MinSize..MaxSize
    <3>1. Fresh.flags = {}
      BY FreshFacts
    <3> QED  BY <1>6, <3>1, SizeRead
  <2>2. MinSize = 60 /\ MaxSize = 1514
    BY DEF MinSize, MaxSize
  <2> HIDE DEF p
  <2> DEFINE q0 == Max({p.size, MinSize})
  <2> HIDE DEF q0
  <2>3. q0 \in MinSize..MaxSize
    BY <2>1 DEF q0
  <2>4. q0 \in Nat
    BY <2>2, <2>3
  <2> QED  BY <2>4 DEF q0
<1>9. grown = Grown(p) /\ typeset = Typeset(p)
  BY <1>0 DEF Grown, Typeset
<1> HIDE DEF pkt, wide, z0, grown, typeset
<1>10. x[1] = EnableMacFromArp(x[0], R.macFromArp)
  <2>1. x[1] = Call(x[0], a)
    BY <1>5
  <2> DEFINE y == IF s.macFromArp THEN "enable" ELSE "disable"
  <2>2. On(y) = s.macFromArp
    BY <1>7 DEF On
  <2> HIDE DEF y
  <2>3. Call(x[0], <<"mac_from_arp", y>>) = EnableMacFromArp(x[0], s.macFromArp)
    BY <1>7, <2>2, CallSwitch
  <2> QED  BY <1>0, <2>1, <2>3 DEF a, y
<1>11. x[2] = SetTxCount(x[1], R.count)
  <2>1. x[2] = Call(x[1], b)
    BY <1>5
  <2>2. Call(x[1], b) = SetTxCount(x[1], s.count)
    BY CallSet DEF b
  <2> QED  BY <1>0, <2>1, <2>2
<1>12. x[3] = SetPktSize(x[2], p.size + Fcs)
  <2>1. x[3] = Call(x[2], c)
    BY <1>5
  <2>2. Call(x[2], c) = SetPktSize(x[2], p.size + Fcs)
    BY CallSet DEF c
  <2> QED  BY <1>0, <2>1, <2>2
<1>13. x[4] = SetTxRate(x[3], s.rate)
  <2>1. x[4] = Call(x[3], d)
    BY <1>5
  <2>2. Call(x[3], d) = SetTxRate(x[3], s.rate)
    BY CallSet DEF d
  <2> QED  BY <1>0, <2>1, <2>2
<1>14. x[5] = SetTxBurst(x[4], R.burst)
  <2>1. x[5] = Call(x[4], e)
    BY <1>5
  <2>2. Call(x[4], e) = SetTxBurst(x[4], s.burst)
    BY CallSet DEF e
  <2> QED  BY <1>0, <2>1, <2>2
<1>15. x[6] = SetPort(x[5], "sport", pkt.sport)
  <2>1. x[6] = Call(x[5], f)
    BY <1>5
  <2>2. Call(x[5], f) = SetPort(x[5], "sport", p.sport)
    BY CallSet DEF f
  <2> QED  BY <1>0, <2>1, <2>2
<1>16. x[7] = SetPort(x[6], "dport", pkt.dport)
  <2>1. x[7] = Call(x[6], g)
    BY <1>5
  <2>2. Call(x[6], g) = SetPort(x[6], "dport", p.dport)
    BY CallSet DEF g
  <2> QED  BY <1>0, <2>1, <2>2
<1>17. x[8] = SetPrime(x[7], R.prime)
  <2>1. x[8] = Call(x[7], h)
    BY <1>5
  <2>2. Call(x[7], h) = SetPrime(x[7], s.prime)
    BY CallSet DEF h
  <2> QED  BY <1>0, <2>1, <2>2
<1>18. x[9] = SetPktType(x[8], p.ethType)
  <2>1. x[9] = Call(x[8], i)
    BY <1>5
  <2>2. Call(x[8], i) = SetPktType(x[8], p.ethType)
    BY CallOne DEF i
  <2> QED  BY <1>0, <2>1, <2>2
<1>19. x[10] = SetProto(x[9], pkt.proto)
  <2>1. x[10] = Call(x[9], j)
    BY <1>5
  <2>2. Call(x[9], j) = SetProto(x[9], p.proto)
    BY CallOne DEF j
  <2> QED  BY <1>0, <2>1, <2>2
<1>20. x[11] = SetDstIp(x[10], pkt.dstIp)
  <2>1. x[11] = Call(x[10], k)
    BY <1>5
  <2>2. Call(x[10], k) = SetDstIp(x[10], p.dstIp)
    BY CallTwo DEF k
  <2> QED  BY <1>0, <2>1, <2>2
<1>21. x[12] = SetSrcIp(x[11], pkt.srcIp, pkt.mask)
  <2>1. x[12] = Call(x[11], l)
    BY <1>5
  <2>2. Call(x[11], l) = SetSrcIp(x[11], p.srcIp, p.mask)
    BY CallTwo DEF l
  <2> QED  BY <1>0, <2>1, <2>2
<1>22. x[13] = SetDstMac(x[12], pkt.dstMac)
  <2>1. x[13] = Call(x[12], m)
    BY <1>5
  <2>2. Call(x[12], m) = SetDstMac(x[12], p.dstMac)
    BY CallOne DEF m
  <2> QED  BY <1>0, <2>1, <2>2
<1>23. x[14] = SetVlanId(x[13], pkt.vlanid)
  <2>1. x[14] = Call(x[13], n)
    BY <1>5
  <2>2. Call(x[13], n) = SetVlanId(x[13], VlanId(p.vlanid))
    BY CallOne DEF n
  <2> QED  BY <1>0, <2>1, <2>2
<1>24. x[15] = SetPattern(x[14], R.fill)
  <2>1. x[15] = Call(x[14], o)
    BY <1>5
  <2>2. Call(x[14], o) = SetPattern(x[14], s.fill)
    BY CallOne DEF o
  <2> QED  BY <1>0, <2>1, <2>2
<1> DEFINE none == {}
           D1 == none \cup {"macFromArp"}
           D2 == D1 \cup {"count"}
           D4 == D2 \cup {"rate"}
           D5 == D4 \cup {"burst"}
           D8 == D5 \cup {"prime"}
           D15 == D8 \cup {"fill"}
           P3 == none \cup {"size"}
           P6 == P3 \cup {"sport"}
           P7 == P6 \cup {"dport"}
           P9 == P7 \cup {"size", "ethType"}
           P10 == P9 \cup {"proto", "ethType"}
           P11 == P10 \cup {"dstIp"}
           P12 == P11 \cup {"srcIp", "mask"}
           P13 == P12 \cup {"dstMac"}
           P14 == P13 \cup {"vlanid"}
<1>25. Sofar(x[0], R, none, none, none, z0, "ipv4")
  BY <1>5, FreshSofar, FreshFacts DEF z0
<1> HIDE DEF none, D1, D2, D4, D5, D8, D15, P3, P6, P7, P9, P10, P11, P12, P13, P14
<1>26. Sofar(x[1], R, D1, none, none, z0, "ipv4")
  <2>1. Sofar(EnableMacFromArp(x[0], R.macFromArp), R, none \cup {"macFromArp"}, none,
              none, z0, "ipv4")
    BY <1>6, <1>25, FillsSofar
  <2> QED  BY <1>10, <2>1 DEF D1
<1>27. Sofar(x[2], R, D2, none, none, z0, "ipv4")
  <2>1. Sofar(SetTxCount(x[1], R.count), R, D1 \cup {"count"}, none,
              none, z0, "ipv4")
    BY <1>6, <1>26, CountsSofar
  <2> QED  BY <1>11, <2>1 DEF D2
<1>28. Sofar(x[3], R, D2, P3, none, wide, "ipv4")
  <2>1. Sofar(SetPktSize(x[2], p.size + Fcs), R, D2, none \cup {"size"},
              none, Max({p.size, MinSize}), "ipv4")
    BY <1>6, <1>27, SizeSofar DEF none
  <2> QED  BY <1>12, <2>1 DEF P3, wide
<1>29. Sofar(x[4], R, D4, P3, none, wide, "ipv4")
  <2>1. Sofar(SetTxRate(x[3], s.rate), R, D2 \cup {"rate"}, P3,
              none, wide, "ipv4")
    BY <1>6, <1>28, CountsSofar
  <2> QED  BY <1>13, <2>1 DEF D4
<1>30. Sofar(x[5], R, D5, P3, none, wide, "ipv4")
  <2>1. Sofar(SetTxBurst(x[4], R.burst), R, D4 \cup {"burst"}, P3,
              none, wide, "ipv4")
    BY <1>6, <1>29, CountsSofar
  <2> QED  BY <1>14, <2>1 DEF D5
<1>31. Sofar(x[6], R, D5, P6, none, wide, "ipv4")
  <2>1. Sofar(SetPort(x[5], "sport", R.pkts[Single].sport), R, D5, P3 \cup {"sport"},
              none, wide, "ipv4")
    BY <1>6, <1>30, PortsSofar DEF pkt
  <2> QED  BY <1>15, <2>1 DEF P6, pkt
<1>32. Sofar(x[7], R, D5, P7, none, wide, "ipv4")
  <2>1. Sofar(SetPort(x[6], "dport", R.pkts[Single].dport), R, D5, P6 \cup {"dport"},
              none, wide, "ipv4")
    BY <1>6, <1>31, PortsSofar DEF pkt
  <2> QED  BY <1>16, <2>1 DEF P7, pkt
<1>33. Sofar(x[8], R, D8, P7, none, wide, "ipv4")
  <2>1. Sofar(SetPrime(x[7], R.prime), R, D5 \cup {"prime"}, P7,
              none, wide, "ipv4")
    BY <1>6, <1>32, CountsSofar
  <2> QED  BY <1>17, <2>1 DEF D8
<1>34. Sofar(x[9], R, D8, P9, none, grown, p.ethType)
  <2> DEFINE type == p.ethType
             Q == P7 \cup {"size", "ethType"}
  <2>1. type \in {"arp", "ipv4", "ipv6"}
    BY <1>6
  <2>2. x[9] = SetPktType(x[8], type)
    BY <1>18
  <2> HIDE DEF type
  <2>3. Sofar(SetPktType(x[8], type), R, D8, Q, none, Raised(wide, type), type)
    BY <1>8, <1>33, <2>1, TypeSofar
  <2> QED  BY <2>2, <2>3 DEF P9, grown, type
<1>35. Sofar(x[10], R, D8, P10, none, grown, typeset)
  <2>1. Sofar(SetProto(x[9], R.pkts[Single].proto), R, D8, P9 \cup {"proto", "ethType"},
              none, grown, IF R.pkts[Single].proto = "icmp" THEN "ipv4" ELSE p.ethType)
    BY <1>6, <1>34, ProtoSofar
  <2> QED  BY <1>19, <2>1 DEF P10, typeset, pkt
<1>36. Sofar(x[11], R, D8, P11, none, grown, typeset)
  <2>1. Sofar(SetDstIp(x[10], R.pkts[Single].dstIp), R, D8, P10 \cup {"dstIp"},
              none, grown, typeset)
    BY <1>6, <1>35, AddressSofar
  <2> QED  BY <1>20, <2>1 DEF P11, pkt
<1>37. Sofar(x[12], R, D8, P12, none, grown, typeset)
  <2>1. Sofar(SetSrcIp(x[11], R.pkts[Single].srcIp, R.pkts[Single].mask), R, D8, P11 \cup {"srcIp", "mask"},
              none, grown, typeset)
    BY <1>6, <1>36, AddressSofar
  <2> QED  BY <1>21, <2>1 DEF P12, pkt
<1>38. Sofar(x[13], R, D8, P13, none, grown, typeset)
  <2>1. Sofar(SetDstMac(x[12], R.pkts[Single].dstMac), R, D8, P12 \cup {"dstMac"},
              none, grown, typeset)
    BY <1>6, <1>37, AddressSofar
  <2> QED  BY <1>22, <2>1 DEF P13, pkt
<1>39. Sofar(x[14], R, D8, P14, none, grown, typeset)
  <2>1. Sofar(SetVlanId(x[13], R.pkts[Single].vlanid), R, D8, P13 \cup {"vlanid"},
              none, grown, typeset)
    BY <1>6, <1>38, LabelsSofar
  <2> QED  BY <1>23, <2>1 DEF P14, pkt
<1>40. Sofar(x[15], R, D15, P14, none, grown, typeset)
  <2>1. Sofar(SetPattern(x[14], R.fill), R, D8 \cup {"fill"}, P14,
              none, grown, typeset)
    BY <1>6, <1>39, FillsSofar
  <2> QED  BY <1>24, <2>1 DEF D15
<1> DEFINE D16 == D15 \cup {"user", "fill"}
<1> HIDE DEF D16
<1>41. Sofar(v, R, D16, P14, none, grown, typeset)
  <2>1. Sofar(w, R, D15, P14, none, grown, typeset)
    BY <1>5, <1>40
  <2>2. CASE s.fill = "user"
    <3>1. v = Step("lua", w, own)
      BY <1>4, <2>2, ReadOne DEF user
    <3>2. v = Call(w, own)
      BY <3>1 DEF Step
    <3>3. Call(w, own) = SetUserPattern(w, s.user)
      BY CallOne DEF own
    <3>4. R.user = s.user /\ R.fill = "user"
      BY <1>0, <2>2
    <3>5. Sofar(SetUserPattern(w, R.user), R, D15 \cup {"user", "fill"}, P14, none,
                grown, typeset)
      BY <2>1, <3>4, FillsSofar
    <3> QED  BY <3>2, <3>3, <3>4, <3>5 DEF D16
  <2>3. CASE s.fill # "user"
    <3>1. v = w
      BY <1>4, <2>3, ReadNone DEF user
    <3>2. R.user = Fresh.user
      BY <2>3
    <3>3. w.user = Fresh.user /\ w.fill = R.fill /\ DOMAIN w = FieldNames
      <4>1. "user" \notin D15 /\ "fill" \in D15 /\ "user" \in Tops /\ "fill" \in Tops
        BY DEF D15, D8, D5, D4, D2, D1, none, Tops
      <4> QED  BY <2>1, <4>1 DEF Sofar, Formed
    <3> DEFINE X == {"user", "fill"}
    <3>4. Only(w, w, X)
      BY <3>3 DEF Only
    <3>5. X \in SUBSET Tops /\ \A g0 \in X : w[g0] = R[g0]
      BY <3>2, <3>3 DEF Tops
    <3> HIDE DEF X
    <3>6. Sofar(w, R, D15 \cup X, P14, none, grown, typeset)
      BY <2>1, <3>4, <3>5, TopSofar
    <3> QED  BY <3>1, <3>6 DEF X, D16
  <2> QED  BY <2>2, <2>3
<1>42. Sofar(u, R, D16 \cup {"jitter"}, P14, none, grown, typeset)
  <2> DEFINE jline == <<"jitter", s.jitter>>
  <2>1. u = Step("lua", v, jline)
    <3> HIDE DEF jline
    <3>1. last = <<jline>>
      BY DEF last, jline
    <3> QED  BY <1>3, <3>1, ReadOne
  <2>2. Call(v, jline) = SetJitter(v, s.jitter)
    BY CallOne
  <2>3. u = SetJitter(v, R.jitter)
    BY <1>0, <2>1, <2>2 DEF Step
  <2>4. Sofar(SetJitter(v, R.jitter), R, D16 \cup {"jitter"}, P14, none, grown, typeset)
    BY <1>41, FillsSofar
  <2> QED  BY <2>3, <2>4
<1>43. /\ D16 \cup {"jitter"} = {"macFromArp", "count", "rate", "burst", "prime", "fill",
                                "user", "jitter"}
       /\ P14 = {"sport", "dport", "size", "ethType", "proto", "dstIp", "srcIp", "mask",
                 "dstMac", "vlanid"}
  BY DEF D16, D15, D8, D5, D4, D2, D1, none, P14, P13, P12, P11, P10, P9, P7, P6, P3
<1> QED  BY <1>9, <1>42, <1>43 DEF none

-----------------------------------------------------------------------------
(* The calls of LuaFlags, one after the other.                             *)
LEMMA OnEnDis == ASSUME NEW s, NEW f PROVE On(EnDis(s, f)) = Has(s, f) /\ Has(s, f) \in BOOLEAN
BY DEF On, EnDis, Has

LEMMA TagCalls ==
  ASSUME NEW t, NEW s, NEW f
  PROVE  /\ Call(t, <<"mpls", EnDis(s, f)>>) = EnableMpls(t, Has(s, f))
         /\ Call(t, <<"qinq", EnDis(s, f)>>) = EnableQinq(t, Has(s, f))
         /\ Call(t, <<"gre", EnDis(s, f)>>) = EnableGre(t, Has(s, f))
         /\ Call(t, <<"gre_eth", EnDis(s, f)>>) = EnableGreEth(t, Has(s, f))
<1> DEFINE on == Has(s, f)
           v == EnDis(s, f)
<1>1. on \in BOOLEAN /\ On(v) = on
  BY OnEnDis
<1> HIDE DEF on, v
<1>2. /\ Call(t, <<"mpls", v>>) = EnableMpls(t, on)
      /\ Call(t, <<"qinq", v>>) = EnableQinq(t, on)
      /\ Call(t, <<"gre", v>>) = EnableGre(t, on)
      /\ Call(t, <<"gre_eth", v>>) = EnableGreEth(t, on)
  BY <1>1, CallSwitch
<1> QED  BY <1>2 DEF on, v

LEMMA ModeCalls ==
  ASSUME NEW t, NEW s, NEW f
  PROVE  /\ Call(t, <<"icmp_echo", EnDis(s, f)>>) = Switch(t, Has(s, f), {"ICMP_ECHO_ENABLE_FLAG"})
         /\ Call(t, <<"pcap", EnDis(s, f)>>) = EnablePcap(t, Has(s, f))
         /\ Call(t, <<"set_range", EnDis(s, f)>>) = EnableRange(t, Has(s, f))
         /\ Call(t, <<"latency", EnDis(s, f)>>) = Switch(t, Has(s, f), {"SEND_LATENCY_PKTS"})
         /\ Call(t, <<"process", EnDis(s, f)>>) = Switch(t, Has(s, f), {"PROCESS_INPUT_PKTS"})
<1> DEFINE on == Has(s, f)
           v == EnDis(s, f)
<1>1. on \in BOOLEAN /\ On(v) = on
  BY OnEnDis
<1> HIDE DEF on, v
<1>2. /\ Call(t, <<"icmp_echo", v>>) = Switch(t, on, {"ICMP_ECHO_ENABLE_FLAG"})
      /\ Call(t, <<"pcap", v>>) = EnablePcap(t, on)
      /\ Call(t, <<"set_range", v>>) = EnableRange(t, on)
      /\ Call(t, <<"latency", v>>) = Switch(t, on, {"SEND_LATENCY_PKTS"})
      /\ Call(t, <<"process", v>>) = Switch(t, on, {"PROCESS_INPUT_PKTS"})
  BY <1>1, CallSwitch
<1> QED  BY <1>2 DEF on, v

LEMMA TapCalls ==
  ASSUME NEW t, NEW s, NEW f
  PROVE  /\ Call(t, <<"capture", EnDis(s, f)>>) = Switch(t, Has(s, f), {"CAPTURE_PKTS"})
         /\ Call(t, <<"rxtap", EnDis(s, f)>>) = EnableTap(t, Has(s, f), "PROCESS_RX_TAP_PKTS")
         /\ Call(t, <<"txtap", EnDis(s, f)>>) = EnableTap(t, Has(s, f), "PROCESS_TX_TAP_PKTS")
         /\ Call(t, <<"vlan", EnDis(s, f)>>) = EnableVlan(t, Has(s, f))
<1> DEFINE on == Has(s, f)
           v == EnDis(s, f)
<1>1. on \in BOOLEAN /\ On(v) = on
  BY OnEnDis
<1> HIDE DEF on, v
<1>2. /\ Call(t, <<"capture", v>>) = Switch(t, on, {"CAPTURE_PKTS"})
      /\ Call(t, <<"rxtap", v>>) = EnableTap(t, on, "PROCESS_RX_TAP_PKTS")
      /\ Call(t, <<"txtap", v>>) = EnableTap(t, on, "PROCESS_TX_TAP_PKTS")
      /\ Call(t, <<"vlan", v>>) = EnableVlan(t, on)
  BY <1>1, CallSwitch
<1> QED  BY <1>2 DEF on, v

(* The labels of the SINGLE packet p, of which the script brings back q.   *)
Relabelled(p, q) ==
  /\ q.mpls = p.mpls /\ q.greKey = p.greKey
  /\ q.qinq = <<VlanId(p.qinq[1]), VlanId(p.qinq[2])>>

LEMMA LuaFlagsRead ==
  ASSUME NEW s, Exclusive(s), FlagsKept(s.flags),
         NEW R, Relabelled(s.pkts[Single], R.pkts[Single]),
         NEW t, NEW D, NEW P, NEW z, NEW e, Sofar(t, R, D, P, {}, z, e),
         NEW u, Reads("lua", LuaFlags(s), t, u)
  PROVE  Sofar(u, R, D, P \cup {"mpls", "qinq", "greKey"}, s.flags \cap SavedFlags, z, e)
<1> DEFINE q == s.pkts[Single].qinq
           l1 == <<"mpls", EnDis(s, "SEND_MPLS_LABEL")>>
           l2 == <<"mpls_entry", s.pkts[Single].mpls>>
           l3 == <<"qinq", EnDis(s, "SEND_Q_IN_Q_IDS")>>
           l4 == <<"qinqids", q[1], q[2]>>
           l5 == <<"gre", EnDis(s, "SEND_GRE_IPv4_HEADER")>>
           l6 == <<"gre_eth", EnDis(s, "SEND_GRE_ETHER_HEADER")>>
           l7 == <<"gre_key", s.pkts[Single].greKey>>
           l8 == <<"icmp_echo", EnDis(s, "ICMP_ECHO_ENABLE_FLAG")>>
           l9 == <<"pcap", EnDis(s, "SEND_PCAP_PKTS")>>
           l10 == <<"set_range", EnDis(s, "SEND_RANGE_PKTS")>>
           l11 == <<"latency", EnDis(s, "SEND_LATENCY_PKTS")>>
           l12 == <<"process", EnDis(s, "PROCESS_INPUT_PKTS")>>
           l13 == <<"capture", EnDis(s, "CAPTURE_PKTS")>>
           l14 == <<"rxtap", EnDis(s, "PROCESS_RX_TAP_PKTS")>>
           l15 == <<"txtap", EnDis(s, "PROCESS_TX_TAP_PKTS")>>
           l16 == <<"vlan", EnDis(s, "SEND_VLAN_ID")>>
<1>1. LuaFlags(s) = <<l1, l2, l3, l4, l5, l6, l7, l8, l9, l10, l11, l12, l13, l14,
                      l15, l16>>
  BY DEF LuaFlags
<1> HIDE DEF l1, l2, l3, l4, l5, l6, l7, l8, l9, l10, l11, l12, l13, l14, l15, l16
<1>2. PICK x : /\ x[0] = t /\ x[16] = u
               /\ x[1] = Step("lua", x[0], l1) /\ x[2] = Step("lua", x[1], l2)
               /\ x[3] = Step("lua", x[2], l3) /\ x[4] = Step("lua", x[3], l4)
               /\ x[5] = Step("lua", x[4], l5) /\ x[6] = Step("lua", x[5], l6)
               /\ x[7] = Step("lua", x[6], l7) /\ x[8] = Step("lua", x[7], l8)
               /\ x[9] = Step("lua", x[8], l9) /\ x[10] = Step("lua", x[9], l10)
               /\ x[11] = Step("lua", x[10], l11) /\ x[12] = Step("lua", x[11], l12)
               /\ x[13] = Step("lua", x[12], l13) /\ x[14] = Step("lua", x[13], l14)
               /\ x[15] = Step("lua", x[14], l15) /\ x[16] = Step("lua", x[15], l16)
  BY <1>1, ReadSixteen
<1>3. \A y, line : Step("lua", y, line) = Call(y, line)
  BY DEF Step
<1> DEFINE S0 == {}
           S1 == S0 \cup {"SEND_MPLS_LABEL"}
           Q2 == P \cup {"mpls"}
           S3 == S1 \cup {"SEND_Q_IN_Q_IDS"}
           Q4 == Q2 \cup {"qinq"}
           S5 == S3 \cup {"SEND_GRE_IPv4_HEADER"}
           S6 == S5 \cup {"SEND_GRE_ETHER_HEADER"}
           Q7 == Q4 \cup {"greKey"}
           S8 == S6 \cup {"ICMP_ECHO_ENABLE_FLAG"}
           S9 == S8 \cup {"SEND_PCAP_PKTS"}
           S10 == S9 \cup {"SEND_RANGE_PKTS"}
           S11 == S10 \cup {"SEND_LATENCY_PKTS"}
           S12 == S11 \cup {"PROCESS_INPUT_PKTS"}
           S13 == S12 \cup {"CAPTURE_PKTS"}
           S14 == S13 \cup {"PROCESS_RX_TAP_PKTS"}
           S15 == S14 \cup {"PROCESS_TX_TAP_PKTS"}
           S16 == S15 \cup {"SEND_VLAN_ID"}
           N(y, Q, S) == Sofar(y, R, D, Q, s.flags \cap S, z, e)
<1>4. N(x[0], P, S0)
  <2>1. s.flags \cap S0 = {}
    OBVIOUS
  <2>2. N(t, P, S0)
    BY <2>1
  <2>3. x[0] = t
    BY <1>2
  <2> QED  BY <2>2, <2>3
<1> HIDE DEF S0, S1, S3, S5, S6, S8, S9, S10, S11, S12, S13, S14, S15, S16, Q2, Q4, Q7
<1>5. N(x[1], P, S1)
  <2>1. x[1] = Call(x[0], l1)
    BY <1>2, <1>3
  <2>2. Call(x[0], l1) = EnableMpls(x[0], Has(s, "SEND_MPLS_LABEL"))
    BY TagCalls, Zenon DEF l1
  <2>3. N(EnableMpls(x[0], Has(s, "SEND_MPLS_LABEL")), P, S0 \cup {"SEND_MPLS_LABEL"})
    BY <1>4, TagsSofar
  <2> QED  BY <2>1, <2>2, <2>3 DEF S1
<1>6. N(x[2], Q2, S1)
  <2>1. x[2] = Call(x[1], l2)
    BY <1>2, <1>3
  <2>2. Call(x[1], l2) = SetMpls(x[1], s.pkts[Single].mpls)
    BY CallOne DEF l2
  <2>3. N(SetMpls(x[1], R.pkts[Single].mpls), P \cup {"mpls"}, S1)
    BY <1>5, LabelsSofar
  <2>4. R.pkts[Single].mpls = s.pkts[Single].mpls
    BY DEF Relabelled
  <2> QED  BY <2>1, <2>2, <2>3, <2>4 DEF Q2
<1>7. N(x[3], Q2, S3)
  <2>1. x[3] = Call(x[2], l3)
    BY <1>2, <1>3
  <2>2. Call(x[2], l3) = EnableQinq(x[2], Has(s, "SEND_Q_IN_Q_IDS"))
    BY TagCalls, Zenon DEF l3
  <2>3. N(EnableQinq(x[2], Has(s, "SEND_Q_IN_Q_IDS")), Q2, S1 \cup {"SEND_Q_IN_Q_IDS"})
    BY <1>6, TagsSofar
  <2> QED  BY <2>1, <2>2, <2>3 DEF S3
<1>8. N(x[4], Q4, S3)
  <2>1. x[4] = Call(x[3], l4)
    BY <1>2, <1>3
  <2> DEFINE v == VlanId(q[1])
             w == VlanId(q[2])
  <2>2. <<v, w>> = R.pkts[Single].qinq
    BY DEF Relabelled
  <2>3. Call(x[3], l4) = SetQinq(x[3], v, w)
    <3> DEFINE a == q[1]
               b == q[2]
    <3>1. l4 = <<"qinqids", a, b>> /\ v = VlanId(a) /\ w = VlanId(b)
      BY DEF l4
    <3> HIDE DEF a, b, v, w
    <3>2. Call(x[3], <<"qinqids", a, b>>) = SetQinq(x[3], VlanId(a), VlanId(b))
      BY CallTwo
    <3> QED  BY <3>1, <3>2
  <2> HIDE DEF v, w
  <2>4. N(SetQinq(x[3], v, w), Q2 \cup {"qinq"}, S3)
    BY <1>7, <2>2, LabelsSofar
  <2> QED  BY <2>1, <2>3, <2>4 DEF Q4
<1>9. N(x[5], Q4, S5)
  <2>1. x[5] = Call(x[4], l5)
    BY <1>2, <1>3
  <2>2. Call(x[4], l5) = EnableGre(x[4], Has(s, "SEND_GRE_IPv4_HEADER"))
    BY TagCalls, Zenon DEF l5
  <2>3. N(EnableGre(x[4], Has(s, "SEND_GRE_IPv4_HEADER")), Q4, S3 \cup {"SEND_GRE_IPv4_HEADER"})
    BY <1>8, TagsSofar
  <2> QED  BY <2>1, <2>2, <2>3 DEF S5
<1>10. N(x[6], Q4, S6)
  <2>1. x[6] = Call(x[5], l6)
    BY <1>2, <1>3
  <2>2. Call(x[5], l6) = EnableGreEth(x[5], Has(s, "SEND_GRE_ETHER_HEADER"))
    BY TagCalls, Zenon DEF l6
  <2>3. N(EnableGreEth(x[5], Has(s, "SEND_GRE_ETHER_HEADER")), Q4, S5 \cup {"SEND_GRE_ETHER_HEADER"})
    BY <1>9, TagsSofar
  <2> QED  BY <2>1, <2>2, <2>3 DEF S6
<1>11. N(x[7], Q7, S6)
  <2>1. x[7] = Call(x[6], l7)
    BY <1>2, <1>3
  <2>2. Call(x[6], l7) = SetGreKey(x[6], s.pkts[Single].greKey)
    BY CallOne DEF l7
  <2>3. N(SetGreKey(x[6], R.pkts[Single].greKey), Q4 \cup {"greKey"}, S6)
    BY <1>10, LabelsSofar
  <2>4. R.pkts[Single].greKey = s.pkts[Single].greKey
    BY DEF Relabelled
  <2> QED  BY <2>1, <2>2, <2>3, <2>4 DEF Q7
<1>12. N(x[8], Q7, S8)
  <2>1. x[8] = Call(x[7], l8)
    BY <1>2, <1>3
  <2>2. Call(x[7], l8) = Switch(x[7], Has(s, "ICMP_ECHO_ENABLE_FLAG"), {"ICMP_ECHO_ENABLE_FLAG"})
    BY ModeCalls, Zenon DEF l8
  <2>3. N(Switch(x[7], Has(s, "ICMP_ECHO_ENABLE_FLAG"), {"ICMP_ECHO_ENABLE_FLAG"}), Q7, S6 \cup {"ICMP_ECHO_ENABLE_FLAG"})
    BY <1>11, SwitchSofar
  <2> QED  BY <2>1, <2>2, <2>3 DEF S8
<1>13. N(x[9], Q7, S9)
  <2>1. x[9] = Call(x[8], l9)
    BY <1>2, <1>3
  <2>2. Call(x[8], l9) = EnablePcap(x[8], Has(s, "SEND_PCAP_PKTS"))
    BY ModeCalls, Zenon DEF l9
  <2>3. N(EnablePcap(x[8], Has(s, "SEND_PCAP_PKTS")), Q7, S8 \cup {"SEND_PCAP_PKTS"})
    BY <1>12, ModesSofar
  <2> QED  BY <2>1, <2>2, <2>3 DEF S9
<1>14. N(x[10], Q7, S10)
  <2>1. x[10] = Call(x[9], l10)
    BY <1>2, <1>3
  <2>2. Call(x[9], l10) = EnableRange(x[9], Has(s, "SEND_RANGE_PKTS"))
    BY ModeCalls, Zenon DEF l10
  <2>3. N(EnableRange(x[9], Has(s, "SEND_RANGE_PKTS")), Q7, S9 \cup {"SEND_RANGE_PKTS"})
    BY <1>13, ModesSofar
  <2> QED  BY <2>1, <2>2, <2>3 DEF S10
<1>15. N(x[11], Q7, S11)
  <2>1. x[11] = Call(x[10], l11)
    BY <1>2, <1>3
  <2>2. Call(x[10], l11) = Switch(x[10], Has(s, "SEND_LATENCY_PKTS"), {"SEND_LATENCY_PKTS"})
    BY ModeCalls, Zenon DEF l11
  <2>3. N(Switch(x[10], Has(s, "SEND_LATENCY_PKTS"), {"SEND_LATENCY_PKTS"}), Q7, S10 \cup {"SEND_LATENCY_PKTS"})
    BY <1>14, SwitchSofar
  <2> QED  BY <2>1, <2>2, <2>3 DEF S11
<1>16. N(x[12], Q7, S12)
  <2>1. x[12] = Call(x[11], l12)
    BY <1>2, <1>3
  <2>2. Call(x[11], l12) = Switch(x[11], Has(s, "PROCESS_INPUT_PKTS"), {"PROCESS_INPUT_PKTS"})
    BY ModeCalls, Zenon DEF l12
  <2>3. N(Switch(x[11], Has(s, "PROCESS_INPUT_PKTS"), {"PROCESS_INPUT_PKTS"}), Q7, S11 \cup {"PROCESS_INPUT_PKTS"})
    BY <1>15, SwitchSofar
  <2> QED  BY <2>1, <2>2, <2>3 DEF S12
<1>17. N(x[13], Q7, S13)
  <2>1. x[13] = Call(x[12], l13)
    BY <1>2, <1>3
  <2>2. Call(x[12], l13) = Switch(x[12], Has(s, "CAPTURE_PKTS"), {"CAPTURE_PKTS"})
    BY TapCalls, Zenon DEF l13
  <2>3. N(Switch(x[12], Has(s, "CAPTURE_PKTS"), {"CAPTURE_PKTS"}), Q7, S12 \cup {"CAPTURE_PKTS"})
    BY <1>16, SwitchSofar
  <2> QED  BY <2>1, <2>2, <2>3 DEF S13
<1>18. N(x[14], Q7, S14)
  <2>1. x[14] = Call(x[13], l14)
    BY <1>2, <1>3
  <2>2. Call(x[13], l14) = EnableTap(x[13], Has(s, "PROCESS_RX_TAP_PKTS"), "PROCESS_RX_TAP_PKTS")
    BY TapCalls, Zenon DEF l14
  <2>3. N(EnableTap(x[13], Has(s, "PROCESS_RX_TAP_PKTS"), "PROCESS_RX_TAP_PKTS"), Q7, S13 \cup {"PROCESS_RX_TAP_PKTS"})
    BY <1>17, TapSofar
  <2> QED  BY <2>1, <2>2, <2>3 DEF S14
<1>19. N(x[15], Q7, S15)
  <2>1. x[15] = Call(x[14], l15)
    BY <1>2, <1>3
  <2>2. Call(x[14], l15) = EnableTap(x[14], Has(s, "PROCESS_TX_TAP_PKTS"), "PROCESS_TX_TAP_PKTS")
    BY TapCalls, Zenon DEF l15
  <2>3. N(EnableTap(x[14], Has(s, "PROCESS_TX_TAP_PKTS"), "PROCESS_TX_TAP_PKTS"), Q7, S14 \cup {"PROCESS_TX_TAP_PKTS"})
    BY <1>18, TapSofar
  <2> QED  BY <2>1, <2>2, <2>3 DEF S15
<1>20. N(x[16], Q7, S16)
  <2>1. x[16] = Call(x[15], l16)
    BY <1>2, <1>3
  <2>2. Call(x[15], l16) = EnableVlan(x[15], Has(s, "SEND_VLAN_ID"))
    BY TapCalls, Zenon DEF l16
  <2>3. N(EnableVlan(x[15], Has(s, "SEND_VLAN_ID")), Q7, S15 \cup {"SEND_VLAN_ID"})
    BY <1>19, TagsSofar
  <2> QED  BY <2>1, <2>2, <2>3 DEF S16
<1>21. S16 = SavedFlags
  BY Zenon DEF S16, S15, S14, S13, S12, S11, S10, S9, S8, S6, S5, S3, S1, S0, SavedFlags, Flags, ModeFlags, TagFlags, GreFlags
<1>22. x[16] = u
  BY <1>2
<1>23. Q7 = P \cup {"mpls", "qinq", "greKey"}
  BY DEF Q7, Q4, Q2
<1> QED  BY <1>20, <1>21, <1>22, <1>23

-----------------------------------------------------------------------------
(* The functions of the ranges and the ranges they set.                    *)
LEMMA CallRange ==
  ASSUME NEW t, NEW f, NEW what, NEW v
  PROVE  /\ f \in AddressRanges => Call(t, <<f, what, v>>) = AddressRange(t, f, what, v)
         /\ f \in NumberRanges => Call(t, <<f, what, v>>) = NumberRange(t, f, what, v)
<1> DEFINE l == <<f, what, v>>
<1>1. l[1] = f /\ l[2] = what /\ l[3] = v
  OBVIOUS
<1> HIDE DEF l
<1>2. ASSUME f \in AddressRanges PROVE Call(t, l) = AddressRange(t, f, what, v)
  <2>1. f \notin Switches /\ f \in Ranges /\ f \notin NumberRanges /\ f # "pkt_size"
    BY <1>2, Zenon DEF Switches, TagSwitches, ModeSwitches, TapSwitches, Ranges,
       AddressRanges, NumberRanges
  <2>2. Call(t, l) = RangeCall(t, l)
    <3>1. f # "ip_proto" /\ f # "rnd" /\ f # "ping4" /\ f # "send_arp" /\ f # "reset"
          /\ f \notin {"seqTable", "compile"}
      BY <1>2, Zenon DEF AddressRanges, NumberRanges
    <3> QED  BY <1>1, <2>1, <3>1 DEF Call
  <2>3. RangeCall(t, l) = AddressRange(t, f, what, v)
    BY <1>1, <1>2, <2>1, Zenon DEF RangeCall
  <2> QED  BY <2>2, <2>3
<1>3. ASSUME f \in NumberRanges PROVE Call(t, l) = NumberRange(t, f, what, v)
  <2>1. f \notin Switches /\ f \in Ranges /\ f \notin AddressRanges /\ f # "pkt_size"
    BY <1>3, Zenon DEF Switches, TagSwitches, ModeSwitches, TapSwitches, Ranges,
       AddressRanges, NumberRanges
  <2>2. Call(t, l) = RangeCall(t, l)
    <3>1. f # "ip_proto" /\ f # "rnd" /\ f # "ping4" /\ f # "send_arp" /\ f # "reset"
          /\ f \notin {"seqTable", "compile"}
      BY <1>3, Zenon DEF AddressRanges, NumberRanges
    <3> QED  BY <1>1, <2>1, <3>1 DEF Call
  <2>3. RangeCall(t, l) = NumberRange(t, f, what, v)
    BY <1>1, <1>3, <2>1, Zenon DEF RangeCall
  <2> QED  BY <2>2, <2>3
<1> QED  BY <1>2, <1>3 DEF l

Twins(f, d) ==
  \/ f = "src_ip" /\ d = "src ip"
  \/ f = "dst_ip" /\ d = "dst ip"
  \/ f = "src_port" /\ d = "src port"
  \/ f = "dst_port" /\ d = "dst port"
  \/ f = "vlan_id" /\ d = "vlan"
MacTwins(f, d, y) ==
  \/ f = "src_mac" /\ d = "src mac" /\ y = "srcMac"
  \/ f = "dst_mac" /\ d = "dst mac" /\ y = "dstMac"

(* A value a range holds is one its function leaves as it is.              *)
LEMMA CallSpan ==
  ASSUME NEW t, NEW f, NEW d, Twins(f, d), NEW what, NEW v, Bounded(d, what, v)
  PROVE  Call(t, <<f, what, v>>) = SetSpan(t, d, what, v)
<1> DEFINE c == Call(t, <<f, what, v>>)
<1>1. CASE f = "src_ip" /\ d = "src ip"
  <2>1. c = AddressRange(t, "src_ip", what, v)
    BY <1>1, CallRange, Zenon DEF AddressRanges
  <2>2. AddressRange(t, "src_ip", what, v) = RangeIp(t, "src ip", what, v)
    BY Zenon DEF AddressRange
  <2> QED  BY <1>1, <2>1, <2>2, Zenon DEF RangeIp
<1>2. CASE f = "dst_ip" /\ d = "dst ip"
  <2>1. c = AddressRange(t, "dst_ip", what, v)
    BY <1>2, CallRange, Zenon DEF AddressRanges
  <2>2. AddressRange(t, "dst_ip", what, v) = RangeIp(t, "dst ip", what, v)
    BY Zenon DEF AddressRange
  <2> QED  BY <1>2, <2>1, <2>2, Zenon DEF RangeIp
<1>3. CASE d \in Ports /\ c = RangePort(t, d, what, v)
  <2>1. IF what = "inc" THEN v \in 0..64 ELSE v \in Word
    BY <1>3 DEF Bounded
  <2>2. v \in Word
    <3>1. W16 > 64
      BY DEF W16
    <3>2. 0..64 \subseteq Word
      <4> HIDE DEF W16
      <4> QED  BY <3>1, WordKept DEF Word
    <3> QED  BY <2>1, <3>2
  <2>3. v % W16 = v
    BY <2>2, WordKept
  <2>4. what = "inc" => Min({v, 64}) = v
    <3>1. ASSUME what = "inc" PROVE Min({v, 64}) = v
      <4>1. v \in 0..64
        BY <2>1, <3>1
      <4>2. Min({v, 64}) = IF v <= 64 THEN v ELSE 64
        BY <4>1, MinOfTwo
      <4> HIDE DEF Min
      <4> QED  BY <4>1, <4>2
    <3> QED  BY <3>1
  <2> HIDE DEF Min
  <2>5. CapInc(what, v % W16, 64) = v
    BY <2>3, <2>4 DEF CapInc
  <2> QED  BY <1>3, <2>5 DEF RangePort, W16
<1>4. CASE f = "src_port" /\ d = "src port"
  <2>1. c = NumberRange(t, "src_port", what, v)
    BY <1>4, CallRange, Zenon DEF NumberRanges
  <2>2. NumberRange(t, "src_port", what, v) = RangePort(t, "src port", what, v)
    BY Zenon DEF NumberRange
  <2>3. d \in Ports /\ c = RangePort(t, d, what, v)
    BY <1>4, <2>1, <2>2, Zenon DEF Ports
  <2> QED  BY <1>3, <2>3, Zenon
<1>5. CASE f = "dst_port" /\ d = "dst port"
  <2>1. c = NumberRange(t, "dst_port", what, v)
    BY <1>5, CallRange, Zenon DEF NumberRanges
  <2>2. NumberRange(t, "dst_port", what, v) = RangePort(t, "dst port", what, v)
    BY Zenon DEF NumberRange
  <2>3. d \in Ports /\ c = RangePort(t, d, what, v)
    BY <1>5, <2>1, <2>2, Zenon DEF Ports
  <2> QED  BY <1>3, <2>3, Zenon
<1>6. CASE f = "vlan_id" /\ d = "vlan"
  <2>1. c = NumberRange(t, "vlan_id", what, v)
    BY <1>6, CallRange, Zenon DEF NumberRanges
  <2>2. NumberRange(t, "vlan_id", what, v) = RangeVlan(t, what, v)
    BY Zenon DEF NumberRange
  <2>3. RangeDim(t, "vlan", what, v) = RangeVlan(t, what, v)
    BY Zenon DEF RangeDim
  <2>4. RangeDim(t, d, what, v) = SetSpan(t, d, what, v)
    BY <1>6, RangeDimSame, Zenon DEF Copied
  <2> QED  BY <1>6, <2>1, <2>2, <2>3, <2>4, Zenon
<1> QED  BY <1>1, <1>2, <1>4, <1>5, <1>6, Zenon DEF Twins

(* The address of the first packet of a range, put into its slot.          *)
Remac(q, y, m) == [q EXCEPT ![Ranged][y] = m]
PutMac(t, y, m) == [t EXCEPT !.pkts = Remac(@, y, m)]
LEMMA MacApart ==
  ASSUME NEW t, DOMAIN t = FieldNames, NEW d, NEW y, NEW v
  PROVE  [SetSpan(t, d, "start", v) EXCEPT !.pkts[Ranged][y] = v]
           = SetSpan(PutMac(t, y, v), d, "start", v)
<1> DEFINE r == [t.range EXCEPT ![d]["start"] = v]
           q == [t.pkts EXCEPT ![Ranged][y] = v]
<1>1. "range" \in DOMAIN t /\ "pkts" \in DOMAIN t
  BY DEF FieldNames
<1>2. SetSpan(t, d, "start", v) = [t EXCEPT !.range = r]
  BY DEF SetSpan
<1>3. PutMac(t, y, v) = [t EXCEPT !.pkts = q]
  BY DEF PutMac, Remac
<1>4. [SetSpan(t, d, "start", v) EXCEPT !.pkts[Ranged][y] = v]
        = [[t EXCEPT !.range = r] EXCEPT !.pkts = q]
  BY <1>1, <1>2
<1>5. SetSpan(PutMac(t, y, v), d, "start", v) = [[t EXCEPT !.pkts = q] EXCEPT !.range = r]
  BY <1>1, <1>3 DEF SetSpan
<1> HIDE DEF r, q
<1>6. [[t EXCEPT !.range = r] EXCEPT !.pkts = q] = [[t EXCEPT !.pkts = q] EXCEPT !.range = r]
  OBVIOUS
<1> QED  BY <1>4, <1>5, <1>6

LEMMA CallMac ==
  ASSUME NEW t, DOMAIN t = FieldNames, NEW f, NEW d, NEW y, MacTwins(f, d, y), NEW what, NEW v
  PROVE  Call(t, <<f, what, v>>) = IF what = "start" THEN SetSpan(PutMac(t, y, v), d, "start", v)
                                                     ELSE SetSpan(t, d, what, v)
<1> DEFINE c == Call(t, <<f, what, v>>)
<1>1. c = RangeMac(t, d, what, v)
  <2>1. CASE f = "src_mac" /\ d = "src mac"
    <3>1. c = AddressRange(t, "src_mac", what, v)
      BY <2>1, CallRange, Zenon DEF AddressRanges
    <3>2. AddressRange(t, "src_mac", what, v) = RangeMac(t, "src mac", what, v)
      BY Zenon DEF AddressRange
    <3> QED  BY <2>1, <3>1, <3>2, Zenon
  <2>2. CASE f = "dst_mac" /\ d = "dst mac"
    <3>1. c = AddressRange(t, "dst_mac", what, v)
      BY <2>2, CallRange, Zenon DEF AddressRanges
    <3>2. AddressRange(t, "dst_mac", what, v) = RangeMac(t, "dst mac", what, v)
      BY Zenon DEF AddressRange
    <3> QED  BY <2>2, <3>1, <3>2, Zenon
  <2> QED  BY <2>1, <2>2, Zenon DEF MacTwins
<1>2. (IF d = "dst mac" THEN "dstMac" ELSE "srcMac") = y
  BY Zenon DEF MacTwins
<1>3. RangeMac(t, d, what, v) =
        IF what = "start" THEN [SetSpan(t, d, what, v) EXCEPT !.pkts[Ranged][y] = v]
                          ELSE SetSpan(t, d, what, v)
  BY <1>2, Zenon DEF RangeMac
<1>4. [SetSpan(t, d, "start", v) EXCEPT !.pkts[Ranged][y] = v]
           = SetSpan(PutMac(t, y, v), d, "start", v)
  BY MacApart
<1> QED  BY <1>1, <1>3, <1>4, Zenon

-----------------------------------------------------------------------------
(* The four calls of a range.                                              *)
LEMMA LuaQuartet ==
  ASSUME NEW s, NEW d, NEW f
  PROVE  /\ IsSeq(LuaRange(s, d, f)) /\ Len(LuaRange(s, d, f)) = 4
         /\ LuaRange(s, d, f)[1] = <<f, "start", s.range[d]["start"]>>
         /\ LuaRange(s, d, f)[2] = <<f, "min", s.range[d]["min"]>>
         /\ LuaRange(s, d, f)[3] = <<f, "max", s.range[d]["max"]>>
         /\ LuaRange(s, d, f)[4] = <<f, "inc", s.range[d]["inc"]>>
<1> DEFINE l == LuaRange(s, d, f)
<1>1. DOMAIN l = 1..4 /\ l = [n \in 1..4 |-> l[n]]
  BY DEF LuaRange
<1>2. \A n \in 1..4 : l[n] = <<f, SmmiSeq[n], s.range[d][SmmiSeq[n]]>>
  BY DEF LuaRange
<1> HIDE DEF l
<1>3. IsSeq(l) /\ Len(l) = 4
  BY <1>1, Quartet
<1>4. SmmiSeq[1] = "start" /\ SmmiSeq[2] = "min" /\ SmmiSeq[3] = "max" /\ SmmiSeq[4] = "inc"
  BY DEF SmmiSeq
<1>5. /\ l[1] = <<f, "start", s.range[d]["start"]>>
      /\ l[2] = <<f, "min", s.range[d]["min"]>>
      /\ l[3] = <<f, "max", s.range[d]["max"]>>
      /\ l[4] = <<f, "inc", s.range[d]["inc"]>>
  BY <1>2, <1>4
<1> QED  BY <1>3, <1>5 DEF l

LEMMA LuaFour ==
  ASSUME NEW s, NEW d, NEW f, NEW t, NEW u, Reads("lua", LuaRange(s, d, f), t, u)
  PROVE  u = Call(Call(Call(Call(t, <<f, "start", s.range[d]["start"]>>),
                            <<f, "min", s.range[d]["min"]>>),
                       <<f, "max", s.range[d]["max"]>>), <<f, "inc", s.range[d]["inc"]>>)
<1> DEFINE l == LuaRange(s, d, f)
           a1 == <<f, "start", s.range[d]["start"]>>
           a2 == <<f, "min", s.range[d]["min"]>>
           a3 == <<f, "max", s.range[d]["max"]>>
           a4 == <<f, "inc", s.range[d]["inc"]>>
<1>1. Len(l) = 4 /\ l[1] = a1 /\ l[2] = a2 /\ l[3] = a3 /\ l[4] = a4
  BY LuaQuartet
<1>2. Reads("lua", l, t, u)
  OBVIOUS
<1> HIDE DEF l, a1, a2, a3, a4
<1>3. u = Step("lua", Step("lua", Step("lua", Step("lua", t, l[1]), l[2]), l[3]), l[4])
  BY <1>1, <1>2, ReadFour
<1>4. \A w, x : Step("lua", w, x) = Call(w, x)
  BY DEF Step
<1>5. u = Call(Call(Call(Call(t, a1), a2), a3), a4)
  BY <1>1, <1>3, <1>4
<1> QED  BY <1>5 DEF a1, a2, a3, a4

LEMMA LuaSpanRead ==
  ASSUME NEW s, RangesKept(s.range), NEW R, NEW f, NEW d, d \in Dims, Twins(f, d),
         R.range[d] = s.range[d],
         NEW t, NEW u, Reads("lua", LuaRange(s, d, f), t, u),
         NEW b, NEW X, NEW rp, NEW q, Ranging(t, b, R, X, rp, q)
  PROVE  Ranging(u, b, R, X \cup {d}, rp, q)
<1> DEFINE x == s.range[d]
<1>1. IsSpan(x) /\ \A what \in Smmi : Bounded(d, what, x[what])
  BY DEF RangesKept
<1>2. u = Call(Call(Call(Call(t, <<f, "start", x["start"]>>), <<f, "min", x["min"]>>),
                    <<f, "max", x["max"]>>), <<f, "inc", x["inc"]>>)
  BY LuaFour
<1>3. x = R.range[d]
  OBVIOUS
<1> HIDE DEF x
<1>4. "start" \in Smmi /\ "min" \in Smmi /\ "max" \in Smmi /\ "inc" \in Smmi
  BY DEF Smmi
<1>5. \A w : /\ Call(w, <<f, "start", x["start"]>>) = SetSpan(w, d, "start", x["start"])
             /\ Call(w, <<f, "min", x["min"]>>) = SetSpan(w, d, "min", x["min"])
             /\ Call(w, <<f, "max", x["max"]>>) = SetSpan(w, d, "max", x["max"])
             /\ Call(w, <<f, "inc", x["inc"]>>) = SetSpan(w, d, "inc", x["inc"])
  <2>1. \A what \in Smmi : \A w : Call(w, <<f, what, x[what]>>) = SetSpan(w, d, what, x[what])
    BY <1>1, CallSpan
  <2> QED  BY <1>4, <2>1
<1>6. u = SetSpan(SetSpan(SetSpan(SetSpan(t, d, "start", x["start"]),
                                  d, "min", x["min"]),
                          d, "max", x["max"]), d, "inc", x["inc"])
  BY <1>2, <1>5
<1> QED  BY <1>1, <1>3, <1>6, SpansRanging

(* A range of MAC addresses: its first one goes to the packet, too.        *)
LEMMA PutMacRanging ==
  ASSUME NEW t, NEW b, NEW R, NEW X, NEW rp, NEW q, Ranging(t, b, R, X, rp, q),
         NEW y, NEW v
  PROVE  Ranging(PutMac(t, y, v), b, R, X, rp, Remac(q, y, v))
<1> DEFINE w == PutMac(t, y, v)
<1>1. DOMAIN t = FieldNames
  BY DEF Ranging, Only
<1>2. DOMAIN w = FieldNames /\ \A g \in FieldNames : g = "pkts" \/ w[g] = t[g]
  BY <1>1 DEF PutMac
<1>3. w.pkts = Remac(t.pkts, y, v)
  BY <1>1 DEF PutMac, FieldNames
<1> HIDE DEF w
<1>4. w.range = t.range /\ w.rangeProto = t.rangeProto
  BY <1>2 DEF FieldNames
<1>5. Only(b, w, {"range", "rangeProto", "pkts"})
  BY <1>2 DEF Ranging, Only
<1>6. Ranging(w, b, R, X, rp, Remac(q, y, v))
  BY <1>3, <1>4, <1>5 DEF Ranging
<1> QED  BY <1>6 DEF w

LEMMA LuaMacRead ==
  ASSUME NEW s, RangesKept(s.range), NEW R, NEW f, NEW d, d \in Dims,
         NEW y, MacTwins(f, d, y), R.range[d] = s.range[d],
         NEW t, NEW u, Reads("lua", LuaRange(s, d, f), t, u),
         NEW b, NEW X, NEW rp, NEW q, Ranging(t, b, R, X, rp, q)
  PROVE  Ranging(u, b, R, X \cup {d}, rp, Remac(q, y, s.range[d]["start"]))
<1> DEFINE x == s.range[d]
           v == x["start"]
           p == PutMac(t, y, v)
<1>1. IsSpan(x)
  BY DEF RangesKept
<1>2. u = Call(Call(Call(Call(t, <<f, "start", v>>), <<f, "min", x["min"]>>),
                    <<f, "max", x["max"]>>), <<f, "inc", x["inc"]>>)
  BY LuaFour
<1>3. x = R.range[d]
  OBVIOUS
<1> HIDE DEF x
<1>4. DOMAIN t = FieldNames
  BY DEF Ranging, Only
<1>5. Ranging(p, b, R, X, rp, Remac(q, y, v))
  BY PutMacRanging
<1> HIDE DEF v
<1>6. Call(t, <<f, "start", v>>) = SetSpan(p, d, "start", v)
  BY <1>4, CallMac
<1>7. DOMAIN p = FieldNames
  BY <1>5 DEF Ranging, Only
<1> HIDE DEF p
<1>8. \A w, what, m : DOMAIN w = FieldNames /\ what # "start"
         => Call(w, <<f, what, m>>) = SetSpan(w, d, what, m)
  BY CallMac
<1> DEFINE p1 == SetSpan(p, d, "start", v)
           p2 == SetSpan(p1, d, "min", x["min"])
           p3 == SetSpan(p2, d, "max", x["max"])
<1>9. DOMAIN p1 = FieldNames
  BY <1>7 DEF SetSpan
<1>10. Call(p1, <<f, "min", x["min"]>>) = p2
  BY <1>8, <1>9
<1>11. DOMAIN p2 = FieldNames
  BY <1>9 DEF SetSpan
<1>12. Call(p2, <<f, "max", x["max"]>>) = p3
  BY <1>8, <1>11
<1>13. DOMAIN p3 = FieldNames
  BY <1>11 DEF SetSpan
<1>14. u = SetSpan(p3, d, "inc", x["inc"])
  BY <1>2, <1>6, <1>8, <1>10, <1>12, <1>13
<1> QED  BY <1>1, <1>3, <1>5, <1>14, SpansRanging DEF v

(* The protocol of the ranges.                                             *)
Protoing(q, v) == [k \in Slots |-> IF k = Ranged THEN Protoed(q[k], v) ELSE q[k]]
LEMMA LuaProtoRead ==
  ASSUME NEW v, NEW t, Formed(t), NEW u, Reads("lua", << <<"ip_proto", v>> >>, t, u),
         NEW b, NEW R, NEW X, NEW rp, NEW q, Ranging(t, b, R, X, rp, q)
  PROVE  Ranging(u, b, R, X, v, Protoing(q, v))
<1> DEFINE l == <<"ip_proto", v>>
<1>1. u = Call(t, l)
  <2>1. u = Step("lua", t, <<"ip_proto", v>>)
    BY ReadOne
  <2> QED  BY <2>1 DEF Step
<1>2. l[1] = "ip_proto" /\ l[2] = v
  OBVIOUS
<1> HIDE DEF l
<1>3. "ip_proto" \notin Switches /\ "ip_proto" \notin Ranges
  BY DEF Switches, TagSwitches, ModeSwitches, TapSwitches, Ranges, AddressRanges, NumberRanges
<1>4. u = RangeProto(t, v)
  BY <1>1, <1>2, <1>3 DEF Call
<1>5. /\ Only(t, u, {"rangeProto", "pkts"}) /\ u.rangeProto = v /\ Table(u.pkts)
      /\ \A k \in Slots : k = Ranged \/ u.pkts[k] = t.pkts[k]
      /\ u.pkts[Ranged] = Protoed(t.pkts[Ranged], v)
  BY <1>4, RangeProtoOnly
<1>6. u.pkts = Protoing(q, v)
  <2>1. t.pkts = q
    BY DEF Ranging
  <2>2. \A k \in Slots : u.pkts[k] = Protoing(q, v)[k]
    BY <1>5, <2>1 DEF Protoing
  <2>3. DOMAIN u.pkts = Slots /\ u.pkts = [k \in Slots |-> u.pkts[k]]
    BY <1>5 DEF Table, IsFcn
  <2> QED  BY <2>2, <2>3 DEF Protoing
<1>7. u.range = t.range
  BY <1>5 DEF Only, FieldNames
<1>8. Only(b, u, {"range", "rangeProto", "pkts"})
  BY <1>5 DEF Ranging, Only
<1> QED  BY <1>5, <1>6, <1>7, <1>8 DEF Ranging

-----------------------------------------------------------------------------
(* How far a saved script is read: the calls before the ranges of the CoS  *)
(* are accepted, and the first of those is not.                            *)
LuaFirst(s) ==
  LuaRange(s, "src mac", "src_mac") \o LuaRange(s, "dst mac", "dst_mac")
  \o LuaRange(s, "src ip", "src_ip") \o LuaRange(s, "dst ip", "dst_ip")
  \o << <<"ip_proto", s.rangeProto>> >>
  \o LuaRange(s, "src port", "src_port") \o LuaRange(s, "dst port", "dst_port")
  \o LuaRange(s, "vlan", "vlan_id")
LuaLead(s) == (LuaSingle(s) \o LuaFlags(s)) \o LuaFirst(s)
LuaSizes(s) == [n \in 1..4 |-> <<"pkt_size", SmmiSeq[n], SizeText(s, SmmiSeq[n])>>]

(* Every member of a sequence is accepted.                                 *)
AllAccepted(calls) ==
  \E S : calls \in Seq(S) /\ \A call \in S : Accepts(call)

LEMMA JoinAccepted ==
  ASSUME NEW a, NEW b, AllAccepted(a), AllAccepted(b) PROVE AllAccepted(a \o b)
<1>1. PICK S : a \in Seq(S) /\ \A call \in S : Accepts(call)
  BY DEF AllAccepted
<1>2. PICK T : b \in Seq(T) /\ \A call \in T : Accepts(call)
  BY DEF AllAccepted
<1>3. a \in Seq(S \cup T) /\ b \in Seq(S \cup T)
  BY <1>1, <1>2
<1>4. a \o b \in Seq(S \cup T)
  BY <1>3
<1>5. \A call \in S \cup T : Accepts(call)
  BY <1>1, <1>2
<1> QED  BY <1>4, <1>5 DEF AllAccepted

LEMMA ReadAccepted ==
  ASSUME NEW calls, AllAccepted(calls)
  PROVE  /\ IsSeq(calls) /\ Len(calls) \in Nat
         /\ \A n \in 1..Len(calls) : Accepts(calls[n])
<1>1. PICK S : calls \in Seq(S) /\ \A call \in S : Accepts(call)
  BY DEF AllAccepted
<1> QED  BY <1>1 DEF IsSeq

LEMMA SomeAccepted ==
  ASSUME NEW a, Accepts(a) PROVE AllAccepted(<<>>) /\ AllAccepted(<<a>>)
<1> DEFINE S == {a}
<1>1. <<>> \in Seq(S) /\ <<a>> \in Seq(S) /\ \A call \in S : Accepts(call)
  OBVIOUS
<1> HIDE DEF S
<1> QED  BY <1>1 DEF AllAccepted

LEMMA FourAccepted ==
  ASSUME NEW l, DOMAIN l = 1..4, l = [n \in 1..4 |-> l[n]],
         \A n \in 1..4 : Accepts(l[n])
  PROVE  AllAccepted(l)
<1> DEFINE S == {l[n] : n \in 1..4}
<1>1. l \in [1..4 -> S]
  OBVIOUS
<1>2. \A call \in S : Accepts(call)
  OBVIOUS
<1> HIDE DEF S
<1>3. l \in Seq(S)
  BY <1>1
<1> QED  BY <1>2, <1>3 DEF AllAccepted

LEMMA FifteenAccepted ==
  ASSUME NEW a, NEW b, NEW c, NEW d, NEW e, NEW f, NEW g, NEW h,
         NEW i, NEW j, NEW k, NEW l, NEW m, NEW n, NEW o,
         Accepts(a), Accepts(b), Accepts(c), Accepts(d), Accepts(e),
         Accepts(f), Accepts(g), Accepts(h), Accepts(i), Accepts(j),
         Accepts(k), Accepts(l), Accepts(m), Accepts(n), Accepts(o)
  PROVE  AllAccepted(<<a, b, c, d, e, f, g, h, i, j, k, l, m, n, o>>)
<1> DEFINE S == {a, b, c, d, e, f, g, h, i, j, k, l, m, n, o}
<1>1. <<a, b, c, d, e, f, g, h, i, j, k, l, m, n, o>> \in Seq(S)
  OBVIOUS
<1>2. \A call \in S : Accepts(call)
  OBVIOUS
<1> HIDE DEF S
<1> QED  BY <1>1, <1>2 DEF AllAccepted

LEMMA SixteenAccepted ==
  ASSUME NEW a, NEW b, NEW c, NEW d, NEW e, NEW f, NEW g, NEW h,
         NEW i, NEW j, NEW k, NEW l, NEW m, NEW n, NEW o, NEW p,
         Accepts(a), Accepts(b), Accepts(c), Accepts(d), Accepts(e),
         Accepts(f), Accepts(g), Accepts(h), Accepts(i), Accepts(j),
         Accepts(k), Accepts(l), Accepts(m), Accepts(n), Accepts(o), Accepts(p)
  PROVE  AllAccepted(<<a, b, c, d, e, f, g, h, i, j, k, l, m, n, o, p>>)
<1> DEFINE S == {a, b, c, d, e, f, g, h, i, j, k, l, m, n, o, p}
<1>1. <<a, b, c, d, e, f, g, h, i, j, k, l, m, n, o, p>> \in Seq(S)
  OBVIOUS
<1>2. \A call \in S : Accepts(call)
  OBVIOUS
<1> HIDE DEF S
<1> QED  BY <1>1, <1>2 DEF AllAccepted

(* The functions a script calls with one argument, and with two.           *)
OneWord ==
  {"mac_from_arp", "set_type", "set_proto", "set_mac", "vlanid", "pattern",
   "userPattern", "jitter", "mpls", "mpls_entry", "qinq", "gre", "gre_eth", "gre_key",
   "icmp_echo", "pcap", "set_range", "latency", "process", "capture", "rxtap", "txtap",
   "vlan", "ip_proto"}
TwoWords ==
  {"set_ipaddr", "qinqids", "src_mac", "dst_mac", "src_ip", "dst_ip", "src_port",
   "dst_port", "vlan_id"}
LEMMA Arities ==
  /\ \A f \in OneWord : f \in DOMAIN Arity /\ Arity[f] = 1
  /\ \A f \in TwoWords \cup {"set"} : f \in DOMAIN Arity /\ Arity[f] = 2
  /\ Arity["cos"] = 1 /\ "cos" \in DOMAIN Arity
BY DEF OneWord, TwoWords, Arity

LEMMA WordsAccepted ==
  ASSUME NEW v, NEW w
  PROVE  /\ \A f \in OneWord : Accepts(<<f, v>>)
         /\ \A f \in TwoWords : Accepts(<<f, v, w>>)
         /\ v \in SetWords => Accepts(<<"set", v, w>>)
         /\ ~Accepts(<<"cos", v, w>>)
<1>1. ASSUME NEW f \in OneWord PROVE Accepts(<<f, v>>)
  <2>1. f \in DOMAIN Arity /\ Arity[f] = 1
    BY Arities
  <2>2. f # "seq" /\ f # "set"
    BY DEF OneWord
  <2> QED  BY <2>1, <2>2 DEF Accepts
<1>2. ASSUME NEW f \in TwoWords PROVE Accepts(<<f, v, w>>)
  <2>1. f \in DOMAIN Arity /\ Arity[f] = 2
    BY Arities
  <2>2. f # "seq" /\ f # "set"
    BY DEF TwoWords
  <2> QED  BY <2>1, <2>2 DEF Accepts
<1>3. v \in SetWords => Accepts(<<"set", v, w>>)
  BY Arities DEF Accepts
<1>4. ~Accepts(<<"cos", v, w>>)
  BY Arities DEF Accepts
<1> QED  BY <1>1, <1>2, <1>3, <1>4

LEMMA RangeAccepted ==
  ASSUME NEW s, NEW d, NEW f \in TwoWords PROVE AllAccepted(LuaRange(s, d, f))
<1> DEFINE l == LuaRange(s, d, f)
<1>1. DOMAIN l = 1..4 /\ l = [n \in 1..4 |-> l[n]]
  BY DEF LuaRange
<1>2. \A n \in 1..4 : l[n] = <<f, SmmiSeq[n], s.range[d][SmmiSeq[n]]>>
  BY DEF LuaRange
<1> HIDE DEF l
<1>3. \A n \in 1..4 : Accepts(l[n])
  <2>1. \A v, w : Accepts(<<f, v, w>>)
    BY WordsAccepted
  <2> QED  BY <1>2, <2>1
<1>4. AllAccepted(l)
  BY <1>1, <1>3, FourAccepted
<1> QED  BY <1>4 DEF l

LEMMA SingleAccepted == ASSUME NEW s PROVE AllAccepted(LuaSingle(s))
<1> DEFINE p == s.pkts[Single]
           long ==
  << <<"mac_from_arp", IF s.macFromArp THEN "enable" ELSE "disable">>,
     <<"set", "count", s.count>>, <<"set", "size", p.size + Fcs>>,
     <<"set", "rate", s.rate>>, <<"set", "burst", s.burst>>,
     <<"set", "sport", p.sport>>, <<"set", "dport", p.dport>>,
     <<"set", "prime", s.prime>>, <<"set_type", p.ethType>>,
     <<"set_proto", p.proto>>, <<"set_ipaddr", "dst", p.dstIp>>,
     <<"set_ipaddr", "src", <<p.srcIp, p.mask>>>>, <<"set_mac", p.dstMac>>,
     <<"vlanid", p.vlanid>>, <<"pattern", s.fill>> >>
           own == << <<"userPattern", s.user>> >>
           user == IF s.fill = "user" THEN own ELSE <<>>
           last == << <<"jitter", s.jitter>> >>
<1>1. \A v : /\ Accepts(<<"set", "count", v>>) /\ Accepts(<<"set", "size", v>>)
             /\ Accepts(<<"set", "rate", v>>) /\ Accepts(<<"set", "burst", v>>)
             /\ Accepts(<<"set", "sport", v>>) /\ Accepts(<<"set", "dport", v>>)
             /\ Accepts(<<"set", "prime", v>>)
  BY WordsAccepted DEF SetWords
<1>2. \A v : /\ Accepts(<<"mac_from_arp", v>>) /\ Accepts(<<"set_type", v>>)
             /\ Accepts(<<"set_proto", v>>) /\ Accepts(<<"set_mac", v>>)
             /\ Accepts(<<"vlanid", v>>) /\ Accepts(<<"pattern", v>>)
             /\ Accepts(<<"userPattern", v>>) /\ Accepts(<<"jitter", v>>)
  BY WordsAccepted DEF OneWord
<1>3. \A v : Accepts(<<"set_ipaddr", "dst", v>>) /\ Accepts(<<"set_ipaddr", "src", v>>)
  BY WordsAccepted DEF TwoWords
<1>4. AllAccepted(long)
  BY <1>1, <1>2, <1>3, FifteenAccepted, Zenon
<1>5. AllAccepted(own) /\ AllAccepted(last) /\ AllAccepted(<<>>)
  BY <1>2, SomeAccepted, Zenon
<1>6. LuaSingle(s) = (long \o user) \o last
  BY Zenon DEF LuaSingle
<1> HIDE DEF long, own, last
<1>7. AllAccepted(user)
  BY <1>5
<1> HIDE DEF user
<1> QED  BY <1>4, <1>5, <1>6, <1>7, JoinAccepted, Zenon

LEMMA FlagsAccepted == ASSUME NEW s PROVE AllAccepted(LuaFlags(s))
<1>1. \A v : /\ Accepts(<<"mpls", v>>) /\ Accepts(<<"mpls_entry", v>>)
             /\ Accepts(<<"qinq", v>>) /\ Accepts(<<"gre", v>>)
             /\ Accepts(<<"gre_eth", v>>) /\ Accepts(<<"gre_key", v>>)
             /\ Accepts(<<"icmp_echo", v>>) /\ Accepts(<<"pcap", v>>)
  BY WordsAccepted DEF OneWord
<1>2. \A v : /\ Accepts(<<"set_range", v>>) /\ Accepts(<<"latency", v>>)
             /\ Accepts(<<"process", v>>) /\ Accepts(<<"capture", v>>)
             /\ Accepts(<<"rxtap", v>>) /\ Accepts(<<"txtap", v>>)
             /\ Accepts(<<"vlan", v>>)
  BY WordsAccepted DEF OneWord
<1>3. \A v, w : Accepts(<<"qinqids", v, w>>)
  BY WordsAccepted DEF TwoWords
<1> QED  BY <1>1, <1>2, <1>3, SixteenAccepted, Zenon DEF LuaFlags

LEMMA FirstAccepted == ASSUME NEW s PROVE AllAccepted(LuaFirst(s))
<1> DEFINE a == LuaRange(s, "src mac", "src_mac")
           b == LuaRange(s, "dst mac", "dst_mac")
           c == LuaRange(s, "src ip", "src_ip")
           d == LuaRange(s, "dst ip", "dst_ip")
           e == << <<"ip_proto", s.rangeProto>> >>
           f == LuaRange(s, "src port", "src_port")
           g == LuaRange(s, "dst port", "dst_port")
           h == LuaRange(s, "vlan", "vlan_id")
<1>1. \A x : \A y \in TwoWords : AllAccepted(LuaRange(s, x, y))
  BY RangeAccepted
<1>2. /\ AllAccepted(a) /\ AllAccepted(b) /\ AllAccepted(c) /\ AllAccepted(d)
      /\ AllAccepted(f) /\ AllAccepted(g) /\ AllAccepted(h)
  BY <1>1, Zenon DEF TwoWords
<1>3. AllAccepted(e)
  <2>1. Accepts(<<"ip_proto", s.rangeProto>>)
    BY WordsAccepted, Zenon DEF OneWord
  <2> QED  BY <2>1, SomeAccepted, Zenon
<1>4. LuaFirst(s) = a \o b \o c \o d \o e \o f \o g \o h
  BY Zenon DEF LuaFirst
<1> HIDE DEF a, b, c, d, e, f, g, h
<1>5. AllAccepted(a \o b \o c \o d)
  BY <1>2, JoinAccepted, Zenon
<1>6. AllAccepted(a \o b \o c \o d \o e \o f \o g)
  BY <1>2, <1>3, <1>5, JoinAccepted, Zenon
<1>7. AllAccepted(a \o b \o c \o d \o e \o f \o g \o h)
  BY <1>2, <1>6, JoinAccepted, Zenon
<1> QED  BY <1>4, <1>7

LEMMA LeadAccepted == ASSUME NEW s PROVE AllAccepted(LuaLead(s))
BY SingleAccepted, FlagsAccepted, FirstAccepted, JoinAccepted, Zenon DEF LuaLead

-----------------------------------------------------------------------------
(* The beginning of a sequence.                                            *)
Begins(a, b) ==
  /\ IsSeq(a) /\ IsSeq(b) /\ Len(a) \in Nat /\ Len(b) \in Nat /\ Len(a) <= Len(b)
  /\ \A i \in 1..Len(a) : b[i] = a[i]

LEMMA BeginsJoined ==
  ASSUME NEW a, NEW b, IsSeq(a), IsSeq(b) PROVE Begins(a, a \o b)
BY Joined DEF Begins

LEMMA BeginsTwice ==
  ASSUME NEW a, NEW b, NEW c, Begins(a, b), Begins(b, c) PROVE Begins(a, c)
BY DEF Begins

LEMMA BeginsAfter ==
  ASSUME NEW a, NEW b, NEW c, IsSeq(a), Begins(b, c) PROVE Begins(a \o b, a \o c)
<1> DEFINE x == a \o b
           y == a \o c
           m == Len(a)
           n == Len(b)
<1>1. IsSeq(b) /\ IsSeq(c) /\ n \in Nat /\ Len(c) \in Nat /\ n <= Len(c)
      /\ \A i \in 1..n : c[i] = b[i]
  BY DEF Begins
<1>2. /\ IsSeq(x) /\ m \in Nat /\ Len(x) = m + n
      /\ \A i \in 1..m : x[i] = a[i]
      /\ \A i \in 1..n : x[m + i] = b[i]
  BY <1>1, Joined
<1>3. /\ IsSeq(y) /\ Len(y) = m + Len(c)
      /\ \A i \in 1..m : y[i] = a[i]
      /\ \A i \in 1..Len(c) : y[m + i] = c[i]
  BY <1>1, Joined
<1> HIDE DEF x, y, m, n
<1>4. ASSUME NEW i \in 1..(m + n) PROVE y[i] = x[i]
  <2>1. CASE i <= m
    BY <1>2, <1>3, <2>1
  <2>2. CASE i > m
    <3>1. i - m \in 1..n /\ i - m \in 1..Len(c) /\ i = m + (i - m)
      BY <1>1, <1>2, <2>2
    <3> QED  BY <1>1, <1>2, <1>3, <3>1
  <2> QED  BY <1>2, <2>1, <2>2
<1>5. Begins(x, y)
  BY <1>1, <1>2, <1>3, <1>4 DEF Begins
<1> QED  BY <1>5 DEF x, y

(* The first call that is not accepted comes after those of LuaLead.       *)
LEMMA LuaStops ==
  ASSUME NEW s
  PROVE  LET l == LuaScriptOf(s)  K == Len(LuaLead(s)) IN
         /\ Begins(LuaLead(s), l) /\ K + 1 <= Len(l)
         /\ l[K + 1] = <<"cos", "start", s.range["cos"]["start"]>>
<1> DEFINE a == LuaSingle(s) \o LuaFlags(s)
           b == LuaFirst(s)
           c == LuaRange(s, "cos", "cos")
           d == LuaRange(s, "tos", "tos")
           e == LuaSizes(s)
           f == << <<"set", "seq_cnt", s.seqCnt>> >>
           g == LuaRanges(s)
           x == s.range["cos"]["start"]
<1>1. IsSeq(a) /\ IsSeq(b)
  BY SingleAccepted, FlagsAccepted, FirstAccepted, JoinAccepted, ReadAccepted, Zenon
<1>2. IsSeq(c) /\ IsSeq(d) /\ Len(c) = 4 /\ c[1] = <<"cos", "start", x>>
  <2>1. \A y, z : IsSeq(LuaRange(s, y, z)) /\ Len(LuaRange(s, y, z)) = 4
    BY LuaQuartet
  <2>2. c[1] = <<"cos", "start", x>>
    BY LuaQuartet
  <2> QED  BY <2>1, <2>2, Zenon
<1>3. IsSeq(e)
  BY Quartet DEF LuaSizes
<1>4. IsSeq(f)
  BY Tuples
<1>5. g = ((b \o c) \o d) \o e
  BY Zenon DEF LuaRanges, LuaFirst, LuaSizes
<1>6. LuaScriptOf(s) = (a \o g) \o f
  BY Zenon DEF LuaScriptOf
<1>7. LuaLead(s) = a \o b
  BY Zenon DEF LuaLead
<1> HIDE DEF a, b, c, d, e, f, g, x
<1>8. IsSeq(b \o c) /\ IsSeq((b \o c) \o d) /\ IsSeq(((b \o c) \o d) \o e)
  BY <1>1, <1>2, <1>3, Joined
<1>9. Begins(b \o c, g)
  <2>1. Begins(b \o c, (b \o c) \o d) /\ Begins((b \o c) \o d, ((b \o c) \o d) \o e)
    BY <1>2, <1>3, <1>8, BeginsJoined
  <2> QED  BY <1>5, <2>1, BeginsTwice
<1>10. Begins(a \o (b \o c), (a \o g) \o f)
  <2>1. Begins(a \o (b \o c), a \o g)
    BY <1>1, <1>9, BeginsAfter
  <2>2. IsSeq(a \o g)
    BY <1>1, <1>5, <1>8, Joined
  <2>3. Begins(a \o g, (a \o g) \o f)
    BY <1>4, <2>2, BeginsJoined
  <2> QED  BY <2>1, <2>3, BeginsTwice
<1>11. Begins(a \o b, a \o (b \o c))
  BY <1>1, <1>2, BeginsJoined, BeginsAfter
<1>12. Begins(a \o b, (a \o g) \o f)
  BY <1>10, <1>11, BeginsTwice
<1> DEFINE h == b \o c
           k == a \o h
           m == Len(a)
           n == Len(b)
           l == (a \o g) \o f
<1>13. m \in Nat /\ n \in Nat /\ Len(a \o b) = m + n
  BY <1>1, Joined
<1>14. Len(h) = n + 4 /\ \A i \in 1..4 : h[n + i] = c[i]
  <2>1. Len(h) = Len(b) + Len(c) /\ \A i \in 1..Len(c) : h[Len(b) + i] = c[i]
    <3>1. IsSeq(b) /\ IsSeq(c)
      BY <1>1, <1>2
    <3> QED  BY <3>1, Joined
  <2> HIDE DEF h
  <2> QED  BY <1>2, <2>1
<1>15. Len(k) = m + Len(h) /\ \A i \in 1..Len(h) : k[m + i] = h[i]
  BY <1>1, <1>8, Joined
<1>16. Len(k) <= Len(l) /\ Len(l) \in Nat /\ \A i \in 1..Len(k) : l[i] = k[i]
  BY <1>10 DEF Begins
<1> HIDE DEF h, k, m, n, l
<1>17. k[m + (n + 1)] = c[1]
  BY <1>13, <1>14, <1>15
<1>18. m + n + 1 \in 1..Len(k) /\ m + (n + 1) = m + n + 1
  BY <1>13, <1>14, <1>15
<1>19. m + n + 1 <= Len(l) /\ l[m + n + 1] = c[1]
  BY <1>13, <1>14, <1>15, <1>16, <1>17, <1>18
<1> QED  BY <1>2, <1>6, <1>7, <1>12, <1>13, <1>19, Zenon DEF l, x

(* Loaded means read up to there.                                          *)
LEMMA ScriptLoaded ==
  RoundTrip /\ phase = "loaded" /\ file.kind = "lua" =>
    Sound(saved) /\ Reads("lua", LuaLead(saved), Fresh, port)
<1> SUFFICES ASSUME RoundTrip, phase = "loaded", file.kind = "lua"
             PROVE  Sound(saved) /\ Reads("lua", LuaLead(saved), Fresh, port)
  OBVIOUS
<1> DEFINE a == LuaLead(saved)
           K == Len(a)
           l == LuaScriptOf(saved)
           x == saved.range["cos"]["start"]
<1>1. /\ Sound(saved) /\ file.lines = l /\ next \in Nat /\ next > 0
      /\ ReadUpTo("lua", l, next - 1, Fresh, port)
      /\ \A n \in 1..(next - 1) : Accepts(l[n])
  BY DEF RoundTrip, TextOf
<1>2. next > Len(l) \/ ~Accepts(l[next])
  BY <1>1 DEF RoundTrip, Stuck
<1>3. /\ Begins(a, l) /\ K + 1 <= Len(l) /\ l[K + 1] = <<"cos", "start", x>>
  BY LuaStops, Zenon
<1>4. \A n \in 1..K : Accepts(a[n])
  BY LeadAccepted, ReadAccepted
<1> HIDE DEF a, K, l, x
<1>5. ~Accepts(l[K + 1])
  BY <1>3, WordsAccepted
<1>6. K \in Nat /\ Len(l) \in Nat /\ \A n \in 1..K : l[n] = a[n]
  BY <1>3 DEF Begins, K
<1>7. next - 1 = K
  <2>1. next - 1 <= K
    BY <1>1, <1>5, <1>6
  <2>2. CASE next <= K
    BY <1>1, <1>2, <1>3, <1>4, <1>6, <2>2
  <2> QED  BY <1>1, <1>6, <2>1, <2>2
<1>8. PICK f : f[0] = Fresh /\ f[K] = port /\ Traced("lua", l, K, f)
  BY <1>1, <1>7 DEF ReadUpTo
<1>9. Traced("lua", a, K, f)
  BY <1>6, <1>8 DEF Traced
<1>10. Reads("lua", a, Fresh, port)
  BY <1>8, <1>9 DEF Reads, ReadUpTo, K
<1> QED  BY <1>1, <1>10 DEF a

-----------------------------------------------------------------------------
(* The calls of LuaFirst, one range after the other.                       *)
Pktwise(q) == Table(q) /\ \A k \in Slots : Packet(q[k])
LEMMA RemacFacts ==
  ASSUME NEW q, Pktwise(q), NEW y \in PktFields, NEW m
  PROVE  /\ Pktwise(Remac(q, y, m))
         /\ \A k \in Slots : k = Ranged \/ Remac(q, y, m)[k] = q[k]
         /\ Remac(q, y, m)[Ranged] = [q[Ranged] EXCEPT ![y] = m]
<1> DEFINE p == [q[Ranged] EXCEPT ![y] = m]
           r == Remac(q, y, m)
<1>1. Ranged \in Slots /\ DOMAIN q = Slots /\ q = [k \in Slots |-> q[k]]
  BY RangedPlace DEF Pktwise, Table, IsFcn
<1>2. Packet(p)
  <2>1. DOMAIN q[Ranged] = PktFields
    BY <1>1 DEF Pktwise, Packet
  <2>2. p = [x \in PktFields |-> IF x = y THEN m ELSE q[Ranged][x]]
    BY <2>1
  <2> HIDE DEF p
  <2> QED  BY <2>2 DEF Packet, IsFcn
<1>3. r = [q EXCEPT ![Ranged] = p]
  BY <1>1 DEF Remac
<1> HIDE DEF p, r
<1>4. r = [k \in Slots |-> IF k = Ranged THEN p ELSE q[k]]
  BY <1>1, <1>3
<1>5. Table(r)
  BY <1>4 DEF Table, IsFcn
<1>6. \A k \in Slots : r[k] = IF k = Ranged THEN p ELSE q[k]
  BY <1>4
<1>7. Pktwise(r)
  BY <1>2, <1>5, <1>6 DEF Pktwise
<1> QED  BY <1>1, <1>6, <1>7 DEF p, r

LEMMA RangingFormed ==
  ASSUME NEW t, NEW b, NEW R, NEW X, NEW rp, NEW q, Ranging(t, b, R, X, rp, q), Pktwise(q)
  PROVE  Formed(t)
BY DEF Ranging, Only, Formed, Pktwise

LuaDims == {"src mac", "dst mac", "src ip", "dst ip", "src port", "dst port", "vlan"}
LEMMA LuaDimsThere == LuaDims \subseteq Dims
BY Zenon DEF LuaDims, Dims

(* The packets q, the slot of the ranges as the script of s leaves it.     *)
Remacked(q, s) ==
  Remac(Remac(q, "srcMac", s.range["src mac"]["start"]),
        "dstMac", s.range["dst mac"]["start"])

LEMMA MacsRead ==
  ASSUME NEW s, RangesKept(s.range), NEW R, \A d \in LuaDims : R.range[d] = s.range[d],
         NEW t, NEW u,
         Reads("lua", LuaRange(s, "src mac", "src_mac") \o LuaRange(s, "dst mac", "dst_mac")
                      \o LuaRange(s, "src ip", "src_ip") \o LuaRange(s, "dst ip", "dst_ip"),
               t, u),
         NEW b, NEW X, NEW rp, NEW q, Ranging(t, b, R, X, rp, q)
  PROVE  Ranging(u, b, R, X \cup {"src mac"} \cup {"dst mac"} \cup {"src ip"} \cup {"dst ip"},
                 rp, Remacked(q, s))
<1> DEFINE a == LuaRange(s, "src mac", "src_mac")
           c == LuaRange(s, "dst mac", "dst_mac")
           d == LuaRange(s, "src ip", "src_ip")
           e == LuaRange(s, "dst ip", "dst_ip")
<1>1. IsSeq(a) /\ IsSeq(c) /\ IsSeq(d) /\ IsSeq(e)
  BY LuaQuartet, Zenon
<1>2. Reads("lua", ((a \o c) \o d) \o e, t, u)
  OBVIOUS
<1> HIDE DEF a, c, d, e
<1>3. IsSeq(a \o c) /\ IsSeq((a \o c) \o d)
  BY <1>1, Joined, Zenon
<1>4. PICK u3 : Reads("lua", (a \o c) \o d, t, u3) /\ Reads("lua", e, u3, u)
  BY <1>1, <1>2, <1>3, ReadJoined, Zenon
<1>5. PICK u2 : Reads("lua", a \o c, t, u2) /\ Reads("lua", d, u2, u3)
  BY <1>1, <1>3, <1>4, ReadJoined, Zenon
<1>6. PICK u1 : Reads("lua", a, t, u1) /\ Reads("lua", c, u1, u2)
  BY <1>1, <1>5, ReadJoined, Zenon
<1> DEFINE q1 == Remac(q, "srcMac", s.range["src mac"]["start"])
           q2 == Remac(q1, "dstMac", s.range["dst mac"]["start"])
           X1 == X \cup {"src mac"}
           X2 == X1 \cup {"dst mac"}
           X3 == X2 \cup {"src ip"}
           X4 == X3 \cup {"dst ip"}
<1>7. /\ "src mac" \in Dims /\ "dst mac" \in Dims /\ "src ip" \in Dims /\ "dst ip" \in Dims
  BY Zenon DEF Dims
<1>8. /\ R.range["src mac"] = s.range["src mac"] /\ R.range["dst mac"] = s.range["dst mac"]
      /\ R.range["src ip"] = s.range["src ip"] /\ R.range["dst ip"] = s.range["dst ip"]
  BY Zenon DEF LuaDims
<1>9. /\ MacTwins("src_mac", "src mac", "srcMac") /\ MacTwins("dst_mac", "dst mac", "dstMac")
      /\ Twins("src_ip", "src ip") /\ Twins("dst_ip", "dst ip")
  <2>1. MacTwins("src_mac", "src mac", "srcMac")
    BY Zenon DEF MacTwins
  <2>2. MacTwins("dst_mac", "dst mac", "dstMac")
    BY Zenon DEF MacTwins
  <2>3. Twins("src_ip", "src ip")
    BY Zenon DEF Twins
  <2>4. Twins("dst_ip", "dst ip")
    BY Zenon DEF Twins
  <2> QED  BY <2>1, <2>2, <2>3, <2>4, Zenon
<1>10. Ranging(u1, b, R, X1, rp, q1)
  BY <1>6, <1>7, <1>8, <1>9, LuaMacRead, Zenon DEF a
<1> HIDE DEF X1, q1
<1>11. Ranging(u2, b, R, X2, rp, q2)
  BY <1>6, <1>7, <1>8, <1>9, <1>10, LuaMacRead, Zenon DEF c
<1> HIDE DEF X2, q2
<1>12. Ranging(u3, b, R, X3, rp, q2)
  BY <1>5, <1>7, <1>8, <1>9, <1>11, LuaSpanRead, Zenon DEF d
<1> HIDE DEF X3
<1>13. Ranging(u, b, R, X4, rp, q2)
  BY <1>4, <1>7, <1>8, <1>9, <1>12, LuaSpanRead, Zenon DEF e
<1> QED  BY <1>13, Zenon DEF X1, X2, X3, X4, q1, q2, Remacked

LEMMA LuaRangesRead ==
  ASSUME NEW s, RangesKept(s.range), NEW R, \A d \in LuaDims : R.range[d] = s.range[d],
         NEW b, Formed(b), b.range = Fresh.range,
         NEW u, Reads("lua", LuaFirst(s), b, u)
  PROVE  Ranging(u, b, R, LuaDims, s.rangeProto,
                 Protoing(Remacked(b.pkts, s), s.rangeProto))
<1> DEFINE a == LuaRange(s, "src mac", "src_mac") \o LuaRange(s, "dst mac", "dst_mac")
                \o LuaRange(s, "src ip", "src_ip") \o LuaRange(s, "dst ip", "dst_ip")
           c == << <<"ip_proto", s.rangeProto>> >>
           f == LuaRange(s, "src port", "src_port")
           g == LuaRange(s, "dst port", "dst_port")
           h == LuaRange(s, "vlan", "vlan_id")
<1>1. IsSeq(a)
  BY LuaQuartet, Joined, Zenon
<1>2. IsSeq(f) /\ IsSeq(g) /\ IsSeq(h)
  BY LuaQuartet, Zenon
<1>3. IsSeq(c)
  BY Tuples
<1>4. Reads("lua", (((a \o c) \o f) \o g) \o h, b, u)
  BY Zenon DEF LuaFirst
<1> HIDE DEF a, c, f, g, h
<1>5. IsSeq(a \o c) /\ IsSeq((a \o c) \o f) /\ IsSeq(((a \o c) \o f) \o g)
  BY <1>1, <1>2, <1>3, Joined, Zenon
<1>6. PICK u4 : Reads("lua", ((a \o c) \o f) \o g, b, u4) /\ Reads("lua", h, u4, u)
  BY <1>2, <1>4, <1>5, ReadJoined, Zenon
<1>7. PICK u3 : Reads("lua", (a \o c) \o f, b, u3) /\ Reads("lua", g, u3, u4)
  BY <1>2, <1>5, <1>6, ReadJoined, Zenon
<1>8. PICK u2 : Reads("lua", a \o c, b, u2) /\ Reads("lua", f, u2, u3)
  BY <1>2, <1>5, <1>7, ReadJoined, Zenon
<1>9. PICK u1 : Reads("lua", a, b, u1) /\ Reads("lua", c, u1, u2)
  BY <1>1, <1>3, <1>8, ReadJoined, Zenon
<1> DEFINE v == s.rangeProto
           q == Remacked(b.pkts, s)
           r == Protoing(q, v)
           rp == b.rangeProto
           X1 == {} \cup {"src mac"} \cup {"dst mac"} \cup {"src ip"} \cup {"dst ip"}
           X2 == X1 \cup {"src port"}
           X3 == X2 \cup {"dst port"}
           X4 == X3 \cup {"vlan"}
<1>10. Ranging(b, b, R, {}, rp, b.pkts)
  <2>1. DOMAIN b.range = Dims /\ IsFcn(b.range) /\ \A x \in Dims : IsSpan(b.range[x])
    BY FreshWhole DEF Whole, RangesKept
  <2>2. Only(b, b, {"range", "rangeProto", "pkts"})
    BY DEF Only, Formed
  <2>3. \A x \in Dims : b.range[x] = IF x \in {} THEN R.range[x] ELSE b.range[x]
    OBVIOUS
  <2> QED  BY <2>1, <2>2, <2>3 DEF Ranging
<1>11. Ranging(u1, b, R, X1, rp, q)
  BY <1>9, <1>10, MacsRead, Zenon DEF a
<1> HIDE DEF X1, rp
<1>12. Pktwise(q)
  <2>1. Pktwise(b.pkts)
    BY DEF Pktwise, Formed
  <2>2. "srcMac" \in PktFields /\ "dstMac" \in PktFields
    BY DEF PktFields
  <2> QED  BY <2>1, <2>2, RemacFacts, Zenon DEF Remacked
<1> HIDE DEF q
<1>13. Formed(u1)
  BY <1>11, <1>12, RangingFormed, Zenon
<1>14. Ranging(u2, b, R, X1, v, r)
  BY <1>9, <1>11, <1>13, LuaProtoRead, Zenon DEF c
<1> HIDE DEF v, r
<1>15. /\ "src port" \in Dims /\ "dst port" \in Dims /\ "vlan" \in Dims
  BY Zenon DEF Dims
<1>16. /\ R.range["src port"] = s.range["src port"] /\ R.range["vlan"] = s.range["vlan"]
       /\ R.range["dst port"] = s.range["dst port"]
  BY Zenon DEF LuaDims
<1>17. /\ Twins("src_port", "src port") /\ Twins("dst_port", "dst port")
       /\ Twins("vlan_id", "vlan")
  <2>1. Twins("src_port", "src port")
    BY Zenon DEF Twins
  <2>2. Twins("dst_port", "dst port")
    BY Zenon DEF Twins
  <2>3. Twins("vlan_id", "vlan")
    BY Zenon DEF Twins
  <2> QED  BY <2>1, <2>2, <2>3, Zenon
<1>18. Ranging(u3, b, R, X2, v, r)
  BY <1>8, <1>14, <1>15, <1>16, <1>17, LuaSpanRead, Zenon DEF f
<1> HIDE DEF X2
<1>19. Ranging(u4, b, R, X3, v, r)
  BY <1>7, <1>15, <1>16, <1>17, <1>18, LuaSpanRead, Zenon DEF g
<1> HIDE DEF X3
<1>20. Ranging(u, b, R, X4, v, r)
  BY <1>6, <1>15, <1>16, <1>17, <1>19, LuaSpanRead, Zenon DEF h
<1>21. X4 = LuaDims
  BY Zenon DEF X1, X2, X3, LuaDims
<1> QED  BY <1>20, <1>21, Zenon DEF v, q, r

-----------------------------------------------------------------------------
(* What a script brings back, field by field.                              *)
ScriptSingle(p) ==
  [KeptSingle(p) EXCEPT !.vlanid = VlanId(p.vlanid), !.mpls = p.mpls,
                        !.greKey = p.greKey,
                        !.qinq = <<VlanId(p.qinq[1]), VlanId(p.qinq[2])>>]
LEMMA ScriptSingleFields ==
  ASSUME NEW p
  PROVE  LET q == ScriptSingle(p)  fresh == Fresh.pkts[Single] IN
         /\ DOMAIN q = PktFields /\ IsFcn(q)
         /\ q.size = Grown(p) /\ q.ethType = Typeset(p)
         /\ \A y \in {"proto", "sport", "dport", "srcIp", "mask", "dstIp", "dstMac"} :
              q[y] = p[y]
         /\ q.vlanid = VlanId(p.vlanid) /\ Relabelled(p, q)
         /\ \A y \in {"srcMac", "cos", "tos", "teid"} : q[y] = fresh[y]
<1> DEFINE k == KeptSingle(p)
           v == VlanId(p.vlanid)
           w == <<VlanId(p.qinq[1]), VlanId(p.qinq[2])>>
           q == [k EXCEPT !.vlanid = v, !.mpls = p.mpls, !.greKey = p.greKey, !.qinq = w]
           fresh == Fresh.pkts[Single]
<1>1. /\ DOMAIN k = PktFields /\ k.size = Grown(p) /\ k.ethType = Typeset(p)
      /\ k.proto = p.proto /\ k.sport = p.sport /\ k.dport = p.dport
      /\ k.srcIp = p.srcIp /\ k.mask = p.mask /\ k.dstIp = p.dstIp /\ k.dstMac = p.dstMac
      /\ k.srcMac = fresh.srcMac /\ k.cos = fresh.cos /\ k.tos = fresh.tos
      /\ k.teid = fresh.teid
  BY KeptSingleFields
<1>2. ScriptSingle(p) = q
  BY DEF ScriptSingle
<1> HIDE DEF k, fresh, v, w
<1>3. /\ DOMAIN q = PktFields /\ IsFcn(q)
      /\ q.vlanid = v /\ q.mpls = p.mpls /\ q.greKey = p.greKey /\ q.qinq = w
      /\ \A y \in PktFields \ {"vlanid", "mpls", "greKey", "qinq"} : q[y] = k[y]
  BY <1>1 DEF PktFields, IsFcn
<1> HIDE DEF q
<1>4. q.size = Grown(p) /\ q.ethType = Typeset(p)
  BY <1>1, <1>3 DEF PktFields
<1>5. \A y \in {"proto", "sport", "dport", "srcIp", "mask", "dstIp", "dstMac"} : q[y] = p[y]
  BY <1>1, <1>3 DEF PktFields
<1>6. \A y \in {"srcMac", "cos", "tos", "teid"} : q[y] = fresh[y]
  BY <1>1, <1>3 DEF PktFields
<1>7. Relabelled(p, q)
  BY <1>3 DEF Relabelled, w
<1> QED  BY <1>2, <1>3, <1>4, <1>5, <1>6, <1>7 DEF fresh, v

(* The slot of the ranges with its protocol and its addresses, the user's  *)
(* pattern, the ranges and the packets.                                    *)
Refilled(p, rp, m, n) == [p EXCEPT !.proto = rp, !.srcMac = m, !.dstMac = n]
SrcStart(s) == s.range["src mac"].start
DstStart(s) == s.range["dst mac"].start
ScriptUser(s) == IF s.fill = "user" THEN s.user ELSE Fresh.user
ScriptRange(s) == [d \in Dims |-> IF d \in LuaDims THEN s.range[d] ELSE Fresh.range[d]]
ScriptPkts(s) ==
  [k \in Slots |->
     CASE k = Single -> ScriptSingle(s.pkts[Single])
       [] k = Ranged -> Refilled(Fresh.pkts[k], s.rangeProto, SrcStart(s), DstStart(s))
       [] OTHER      -> Fresh.pkts[k]]

LEMMA KeptByScriptFields ==
  ASSUME NEW s
  PROVE  LET K == KeptByScript(s) IN
         /\ DOMAIN K = FieldNames /\ K.flags = s.flags \cap SavedFlags
         /\ K.macFromArp = s.macFromArp /\ K.count = s.count
         /\ K.burst = s.burst /\ K.prime = s.prime
         /\ K.jitter = s.jitter /\ K.fill = s.fill /\ K.user = ScriptUser(s)
         /\ K.seqCnt = Fresh.seqCnt /\ K.rnd = Fresh.rnd
         /\ K.rangeProto = s.rangeProto /\ K.range = ScriptRange(s)
         /\ K.pkts = ScriptPkts(s)
<1> DEFINE k == Kept(s)
           user == IF s.fill = "user" THEN s.user ELSE k.user
           range == [d \in Dims |-> IF d \in LuaDims THEN s.range[d] ELSE k.range[d]]
           pkts == [i \in Slots |->
                     CASE i = Single -> ScriptSingle(s.pkts[Single])
                       [] i = Ranged -> Refilled(k.pkts[i], s.rangeProto, SrcStart(s), DstStart(s))
                       [] OTHER      -> k.pkts[i]]
<1>1. KeptByScript(s) = [k EXCEPT !.user = user, !.rangeProto = s.rangeProto,
                                  !.range = range, !.pkts = pkts]
  BY Zenon DEF KeptByScript, ScriptSingle, LuaDims, Refilled, SrcStart, DstStart
<1>2. /\ DOMAIN k = FieldNames /\ k.flags = s.flags \cap SavedFlags
      /\ k.macFromArp = s.macFromArp /\ k.count = s.count
      /\ k.burst = s.burst /\ k.prime = s.prime /\ k.jitter = s.jitter /\ k.fill = s.fill
      /\ k.user = Fresh.user /\ k.range = Fresh.range /\ k.pkts = Fresh.pkts
      /\ k.rnd = Fresh.rnd /\ k.seqCnt = Fresh.seqCnt
  BY KeptFields
<1> HIDE DEF k
<1>3. user = ScriptUser(s)
  BY <1>2 DEF ScriptUser
<1>4. range = ScriptRange(s)
  BY <1>2 DEF ScriptRange
<1>5. pkts = ScriptPkts(s)
  BY <1>2 DEF ScriptPkts
<1> HIDE DEF user, range, pkts
<1>6. LET K == KeptByScript(s) IN
         /\ DOMAIN K = FieldNames /\ K.flags = k.flags
         /\ K.macFromArp = s.macFromArp /\ K.count = s.count
         /\ K.burst = s.burst /\ K.prime = s.prime
         /\ K.jitter = s.jitter /\ K.fill = s.fill /\ K.user = user
         /\ K.seqCnt = Fresh.seqCnt /\ K.rnd = Fresh.rnd
         /\ K.rangeProto = s.rangeProto /\ K.range = range /\ K.pkts = pkts
  BY <1>1, <1>2 DEF FieldNames
<1> QED  BY <1>2, <1>3, <1>4, <1>5, <1>6

-----------------------------------------------------------------------------
(* What the calls of a script are read towards.                            *)
ScriptRate(s) == IF s.rate = 0 THEN LeastRate ELSE Min({s.rate, Link})
ScriptGoal(s) == [KeptByScript(s) EXCEPT !.rate = ScriptRate(s)]
LEMMA ScriptGoalFields ==
  ASSUME NEW s
  PROVE  /\ Matches(s, ScriptGoal(s)) /\ ScriptGoal(s).user = ScriptUser(s)
         /\ ScriptGoal(s).rate = ScriptRate(s)
         /\ \A d \in LuaDims : ScriptGoal(s).range[d] = s.range[d]
         /\ ScriptGoal(s).pkts[Single] = ScriptSingle(s.pkts[Single])
<1> DEFINE K == KeptByScript(s)
           r == ScriptRate(s)
           R == [K EXCEPT !.rate = r]
           p == s.pkts[Single]
<1>1. ScriptGoal(s) = R
  BY DEF ScriptGoal
<1>2. /\ DOMAIN K = FieldNames
      /\ K.macFromArp = s.macFromArp /\ K.count = s.count
      /\ K.burst = s.burst /\ K.prime = s.prime
      /\ K.jitter = s.jitter /\ K.fill = s.fill /\ K.user = ScriptUser(s)
      /\ K.range = ScriptRange(s) /\ K.pkts = ScriptPkts(s)
  BY KeptByScriptFields
<1> HIDE DEF K, r
<1>3. R.rate = r /\ \A g \in FieldNames \ {"rate"} : R[g] = K[g]
  BY <1>2 DEF FieldNames
<1> HIDE DEF R
<1>4. /\ R.macFromArp = s.macFromArp /\ R.count = s.count
      /\ R.burst = s.burst /\ R.prime = s.prime
      /\ R.jitter = s.jitter /\ R.fill = s.fill /\ R.user = ScriptUser(s)
      /\ R.range = ScriptRange(s) /\ R.pkts = ScriptPkts(s)
  BY <1>2, <1>3 DEF FieldNames
<1>5. R.pkts[Single] = ScriptSingle(p)
  BY <1>4, SlotFacts DEF ScriptPkts
<1>6. Matches(s, R)
  <2>1. \A y \in {"sport", "dport", "proto", "dstIp", "srcIp", "mask", "dstMac"} :
          ScriptSingle(p)[y] = p[y]
    BY ScriptSingleFields
  <2> QED  BY <1>4, <1>5, <2>1 DEF Matches
<1>7. \A d \in LuaDims : R.range[d] = s.range[d]
  BY <1>4, LuaDimsThere DEF ScriptRange
<1> QED  BY <1>1, <1>3, <1>4, <1>5, <1>6, <1>7 DEF r, p

-----------------------------------------------------------------------------
(* What the parts of a script bring back, put together.                    *)
LEMMA LuaParts ==
  ASSUME NEW s, NEW u, Reads("lua", LuaLead(s), Fresh, u)
  PROVE  \E w, x : /\ Reads("lua", LuaSingle(s), Fresh, w)
                   /\ Reads("lua", LuaFlags(s), w, x)
                   /\ Reads("lua", LuaFirst(s), x, u)
<1> DEFINE a == LuaSingle(s)
           b == LuaFlags(s)
           c == LuaFirst(s)
<1>1. AllAccepted(a) /\ AllAccepted(b) /\ AllAccepted(c)
  BY SingleAccepted, FlagsAccepted, FirstAccepted
<1>2. Reads("lua", (a \o b) \o c, Fresh, u)
  BY DEF LuaLead
<1> HIDE DEF a, b, c
<1>3. IsSeq(a) /\ IsSeq(b) /\ IsSeq(c)
  BY <1>1, ReadAccepted
<1>4. IsSeq(a \o b)
  BY <1>3, Joined, Zenon
<1>5. PICK x : Reads("lua", a \o b, Fresh, x) /\ Reads("lua", c, x, u)
  BY <1>2, <1>3, <1>4, ReadJoined, Zenon
<1>6. PICK w : Reads("lua", a, Fresh, w) /\ Reads("lua", b, w, x)
  BY <1>3, <1>5, ReadJoined, Zenon
<1> QED  BY <1>5, <1>6, Zenon DEF a, b, c

(* After the SINGLE packet's calls and the flags'.                         *)
Rescripted(s, t) ==
  /\ Formed(t) /\ t.range = Fresh.range /\ t.flags = s.flags \cap SavedFlags
  /\ t.macFromArp = s.macFromArp /\ t.count = s.count /\ t.burst = s.burst
  /\ t.prime = s.prime /\ t.jitter = s.jitter /\ t.fill = s.fill
  /\ t.user = ScriptUser(s) /\ t.seqCnt = Fresh.seqCnt /\ t.rnd = Fresh.rnd
  /\ t.rate = ScriptRate(s)
  /\ \A k \in Slots : k = Single \/ t.pkts[k] = Fresh.pkts[k]
  /\ t.pkts[Single] = ScriptSingle(s.pkts[Single])
LEMMA LuaHalfRead ==
  ASSUME NEW s, Fit(s), Whole(s), Exclusive(s), NEW w, NEW x,
         Reads("lua", LuaSingle(s), Fresh, w), Reads("lua", LuaFlags(s), w, x)
  PROVE  Rescripted(s, x)
<1> DEFINE R == ScriptGoal(s)
           p == s.pkts[Single]
           q == ScriptSingle(p)
           D == {"macFromArp", "count", "rate", "burst", "prime", "fill", "user", "jitter"}
           P == {"sport", "dport", "size", "ethType", "proto", "dstIp", "srcIp", "mask",
                 "dstMac", "vlanid"}
           fresh == Fresh.pkts[Single]
<1>1. /\ Matches(s, R) /\ R.user = ScriptUser(s) /\ R.rate = ScriptRate(s)
      /\ R.pkts[Single] = q
  BY ScriptGoalFields
<1>2. /\ DOMAIN q = PktFields /\ IsFcn(q)
      /\ q.size = Grown(p) /\ q.ethType = Typeset(p)
      /\ q.vlanid = VlanId(p.vlanid) /\ Relabelled(p, q)
      /\ \A y \in {"srcMac", "cos", "tos", "teid"} : q[y] = fresh[y]
  BY ScriptSingleFields
<1> HIDE DEF R, q
<1>3. Sofar(w, R, D, P, {}, Grown(p), Typeset(p))
  <2>1. R.pkts[Single].vlanid = VlanId(s.pkts[Single].vlanid)
    BY <1>1, <1>2
  <2>2. R.user = IF s.fill = "user" THEN s.user ELSE Fresh.user
    BY <1>1 DEF ScriptUser
  <2>3. R.rate = IF s.rate = 0 THEN LeastRate ELSE Min({s.rate, Link})
    BY <1>1 DEF ScriptRate
  <2> QED  BY <1>1, <2>1, <2>2, <2>3, LuaSingleRead
<1> HIDE DEF D, P, fresh
<1>4. Sofar(x, R, D, P \cup {"mpls", "qinq", "greKey"}, s.flags \cap SavedFlags,
            Grown(p), Typeset(p))
  <2>1. FlagsKept(s.flags)
    BY DEF Whole
  <2>2. Relabelled(s.pkts[Single], R.pkts[Single])
    BY <1>1, <1>2
  <2> QED  BY <1>3, <2>1, <2>2, LuaFlagsRead
<1> HIDE DEF p
<1>5. x.pkts[Single] = q
  <2>1. Packet(x.pkts[Single])
    BY <1>4, SlotFacts DEF Sofar, Formed
  <2>2. \A y \in Rest : x.pkts[Single][y] = q[y]
    <3>1. \A y \in Rest : y \in P \cup {"mpls", "qinq", "greKey"}
                          \/ y \in {"srcMac", "cos", "tos", "teid"}
      BY DEF Rest, PktFields, P
    <3>2. \A y \in Rest : x.pkts[Single][y] = IF y \in P \cup {"mpls", "qinq", "greKey"}
                                              THEN R.pkts[Single][y] ELSE fresh[y]
      BY <1>4 DEF Sofar, fresh
    <3> QED  BY <1>1, <1>2, <3>1, <3>2
  <2>3. x.pkts[Single].size = q.size /\ x.pkts[Single].ethType = q.ethType
    BY <1>2, <1>4 DEF Sofar
  <2>4. \A y \in PktFields : x.pkts[Single][y] = q[y]
    BY <2>2, <2>3 DEF Rest
  <2> QED  BY <1>2, <2>1, <2>4 DEF Packet, IsFcn
<1>6. \A g \in Tops : x[g] = IF g \in D THEN R[g] ELSE Fresh[g]
  BY <1>4 DEF Sofar
<1>7. /\ x.macFromArp = R.macFromArp /\ x.count = R.count /\ x.burst = R.burst
      /\ x.prime = R.prime /\ x.jitter = R.jitter /\ x.fill = R.fill /\ x.user = R.user
      /\ x.rate = R.rate /\ x.seqCnt = Fresh.seqCnt /\ x.rnd = Fresh.rnd
  BY <1>6 DEF Tops, D
<1>8. /\ R.macFromArp = s.macFromArp /\ R.count = s.count /\ R.burst = s.burst
      /\ R.prime = s.prime /\ R.jitter = s.jitter /\ R.fill = s.fill
  BY <1>1 DEF Matches
<1>9. /\ Formed(x) /\ x.range = Fresh.range /\ x.flags = s.flags \cap SavedFlags
      /\ \A k \in Slots : k = Single \/ x.pkts[k] = Fresh.pkts[k]
  BY <1>4 DEF Sofar
<1> QED  BY <1>1, <1>5, <1>7, <1>8, <1>9 DEF Rescripted, p, q

(* The packets after the calls of the ranges.                              *)
LEMMA RefilledPkts ==
  ASSUME NEW s, NEW q, Pktwise(q), q[Ranged] = Fresh.pkts[Ranged]
  PROVE  LET r == Protoing(Remacked(q, s), s.rangeProto) IN
         /\ Table(r) /\ \A k \in Slots : k = Ranged \/ r[k] = q[k]
         /\ r[Ranged] = Refilled(Fresh.pkts[Ranged], s.rangeProto, SrcStart(s), DstStart(s))
<1> DEFINE m == s.range["src mac"]["start"]
           n == s.range["dst mac"]["start"]
           v == s.rangeProto
           a == Remac(q, "srcMac", m)
           b == Remac(a, "dstMac", n)
           f == Fresh.pkts[Ranged]
           r == Protoing(b, v)
<1>1. Remacked(q, s) = b /\ SrcStart(s) = m /\ DstStart(s) = n
  BY Zenon DEF Remacked, SrcStart, DstStart
<1> HIDE DEF m, n, v, f
<1>2. "srcMac" \in PktFields /\ "dstMac" \in PktFields
  BY DEF PktFields
<1>3. /\ Pktwise(a) /\ \A k \in Slots : k = Ranged \/ a[k] = q[k]
      /\ a[Ranged] = [q[Ranged] EXCEPT !["srcMac"] = m]
  BY <1>2, RemacFacts
<1>4. /\ Pktwise(b) /\ \A k \in Slots : k = Ranged \/ b[k] = a[k]
      /\ b[Ranged] = [a[Ranged] EXCEPT !["dstMac"] = n]
  <2> HIDE DEF a
  <2> QED  BY <1>2, <1>3, RemacFacts
<1>5. Packet(f) /\ f.ethType = "ipv4"
  BY FreshWhole, FreshFacts, SlotFacts DEF Whole, Formed, f
<1>6. b[Ranged] = [[f EXCEPT !["srcMac"] = m] EXCEPT !["dstMac"] = n]
  BY <1>3, <1>4 DEF f
<1> HIDE DEF a, b
<1>7. Protoed(b[Ranged], v) = Refilled(f, v, m, n)
  <2> DEFINE g == b[Ranged]
             h == Protoed(g, v)
             i == Refilled(f, v, m, n)
  <2>1. /\ DOMAIN g = PktFields /\ g.srcMac = m /\ g.dstMac = n
        /\ \A y \in PktFields \ {"srcMac", "dstMac"} : g[y] = f[y]
    BY <1>5, <1>6 DEF Packet, PktFields
  <2>2. g.ethType = "ipv4"
    BY <1>5, <2>1 DEF PktFields
  <2> HIDE DEF g
  <2>3. /\ DOMAIN h = PktFields /\ IsFcn(h) /\ h.proto = v /\ h.ethType = "ipv4"
        /\ \A y \in PktFields \ {"proto", "ethType"} : h[y] = g[y]
    BY <2>1, <2>2 DEF Protoed, IsFcn, PktFields
  <2>4. /\ DOMAIN i = PktFields /\ IsFcn(i) /\ i.proto = v
        /\ i.srcMac = m /\ i.dstMac = n
        /\ \A y \in PktFields \ {"proto", "srcMac", "dstMac"} : i[y] = f[y]
    BY <1>5 DEF Refilled, IsFcn, Packet, PktFields
  <2> HIDE DEF h, i
  <2>5. \A y \in PktFields : h[y] = i[y]
    BY <1>5, <2>1, <2>3, <2>4 DEF PktFields
  <2>6. h = i
    BY <2>3, <2>4, <2>5 DEF IsFcn
  <2> QED  BY <2>6 DEF g, h, i
<1>8. /\ Table(r) /\ \A k \in Slots : r[k] = IF k = Ranged THEN Protoed(b[k], v) ELSE b[k]
  BY DEF Protoing, Table, IsFcn
<1> HIDE DEF r
<1>9. \A k \in Slots : k = Ranged \/ r[k] = q[k]
  BY <1>3, <1>4, <1>8
<1>10. r[Ranged] = Refilled(f, v, m, n)
  BY <1>7, <1>8, SlotFacts
<1> QED  BY <1>1, <1>8, <1>9, <1>10 DEF r, f, v

(* After the calls of the ranges, where the script stops: all but the pace *)
(* is what KeptByScript says.                                              *)
LEMMA ScriptRead ==
  ASSUME NEW s, Fit(s), Whole(s), Exclusive(s), NEW u,
         Reads("lua", LuaLead(s), Fresh, u)
  PROVE  Unpaced(u) = Unpaced(KeptByScript(s)) /\ u.rate = ScriptRate(s)
<1> DEFINE R == ScriptGoal(s)
           K == KeptByScript(s)
<1>1. PICK w, x : /\ Reads("lua", LuaSingle(s), Fresh, w)
                  /\ Reads("lua", LuaFlags(s), w, x)
                  /\ Reads("lua", LuaFirst(s), x, u)
  BY LuaParts
<1>2. Rescripted(s, x)
  BY <1>1, LuaHalfRead
<1>3. \A d \in LuaDims : R.range[d] = s.range[d]
  BY ScriptGoalFields
<1> DEFINE q == x.pkts
           v == s.rangeProto
           r == Protoing(Remacked(q, s), v)
<1> HIDE DEF R
<1>4. RangesKept(s.range) /\ Formed(x) /\ x.range = Fresh.range
  BY <1>2 DEF Whole, Rescripted
<1>5. Ranging(u, x, R, LuaDims, v, r)
  BY <1>1, <1>3, <1>4, LuaRangesRead
<1>6. Pktwise(q) /\ q[Ranged] = Fresh.pkts[Ranged]
  BY <1>2, SlotFacts DEF Rescripted, Formed, Pktwise
<1>7. /\ Table(r) /\ \A k \in Slots : k = Ranged \/ r[k] = q[k]
      /\ r[Ranged] = Refilled(Fresh.pkts[Ranged], s.rangeProto, SrcStart(s), DstStart(s))
  BY <1>6, RefilledPkts
<1> HIDE DEF r
<1>8. Only(x, u, {"range", "rangeProto", "pkts"}) /\ u.rangeProto = v /\ u.pkts = r
  BY <1>5 DEF Ranging
<1>9. u.range = ScriptRange(s)
  <2> DEFINE a == u.range
             b == ScriptRange(s)
  <2>1. /\ DOMAIN a = Dims /\ IsFcn(a)
        /\ \A d \in Dims : a[d] = IF d \in LuaDims THEN R.range[d] ELSE x.range[d]
    BY <1>5 DEF Ranging
  <2>2. /\ DOMAIN b = Dims /\ IsFcn(b)
        /\ \A d \in Dims : b[d] = IF d \in LuaDims THEN s.range[d] ELSE Fresh.range[d]
    BY Zenon DEF ScriptRange, IsFcn
  <2> HIDE DEF a, b
  <2>3. \A d \in Dims : a[d] = b[d]
    BY <1>3, <1>4, <2>1, <2>2
  <2>4. a = b
    BY <2>1, <2>2, <2>3 DEF IsFcn
  <2> QED  BY <2>4 DEF a, b
<1>10. u.pkts = ScriptPkts(s)
  <2> DEFINE b == ScriptPkts(s)
  <2>1. DOMAIN r = Slots /\ IsFcn(r)
    BY <1>7 DEF Table
  <2>2. DOMAIN b = Slots /\ IsFcn(b)
    BY DEF ScriptPkts, IsFcn
  <2>3. b[Single] = ScriptSingle(s.pkts[Single])
    BY SlotFacts DEF ScriptPkts
  <2>4. b[Ranged] = Refilled(Fresh.pkts[Ranged], s.rangeProto, SrcStart(s), DstStart(s))
    BY SlotFacts DEF ScriptPkts
  <2>5. \A k \in Slots : k = Single \/ k = Ranged \/ b[k] = Fresh.pkts[k]
    BY DEF ScriptPkts
  <2> HIDE DEF b
  <2>6. ASSUME NEW k \in Slots PROVE r[k] = b[k]
    <3>1. CASE k = Single
      BY <1>2, <1>7, <2>3, <3>1, SlotFacts DEF Rescripted
    <3>2. CASE k = Ranged
      BY <1>7, <2>4, <3>2
    <3>3. CASE k # Single /\ k # Ranged
      BY <1>2, <1>7, <2>5, <3>3 DEF Rescripted
    <3> QED  BY <3>1, <3>2, <3>3
  <2>7. r = b
    BY <2>1, <2>2, <2>6 DEF IsFcn
  <2> QED  BY <1>8, <2>7 DEF b
<1>11. /\ DOMAIN u = FieldNames /\ u.flags = x.flags /\ u.macFromArp = x.macFromArp
       /\ u.count = x.count /\ u.burst = x.burst /\ u.prime = x.prime
       /\ u.jitter = x.jitter /\ u.fill = x.fill /\ u.user = x.user /\ u.rnd = x.rnd
       /\ u.seqCnt = x.seqCnt /\ u.rate = x.rate
  BY <1>8 DEF Only, FieldNames
<1>12. /\ DOMAIN K = FieldNames /\ K.flags = s.flags \cap SavedFlags
       /\ K.macFromArp = s.macFromArp /\ K.count = s.count
       /\ K.burst = s.burst /\ K.prime = s.prime
       /\ K.jitter = s.jitter /\ K.fill = s.fill /\ K.user = ScriptUser(s)
       /\ K.seqCnt = Fresh.seqCnt /\ K.rnd = Fresh.rnd
       /\ K.rangeProto = s.rangeProto /\ K.range = ScriptRange(s)
       /\ K.pkts = ScriptPkts(s)
  BY KeptByScriptFields
<1> HIDE DEF K
<1>13. u.rate = ScriptRate(s)
  BY <1>2, <1>11 DEF Rescripted
<1>14. \A g \in FieldNames \ {"rate", "pps", "cycles"} : u[g] = K[g]
  BY <1>2, <1>8, <1>9, <1>10, <1>11, <1>12 DEF Rescripted, FieldNames
<1>15. Unpaced(u) = Unpaced(K)
  <2> DEFINE a == [u EXCEPT !.rate = 0, !.pps = 0, !.cycles = 0]
             b == [K EXCEPT !.rate = 0, !.pps = 0, !.cycles = 0]
  <2>1. /\ DOMAIN a = FieldNames /\ IsFcn(a)
        /\ a.rate = 0 /\ a.pps = 0 /\ a.cycles = 0
        /\ \A g \in FieldNames \ {"rate", "pps", "cycles"} : a[g] = u[g]
    BY <1>11 DEF IsFcn, FieldNames
  <2>2. /\ DOMAIN b = FieldNames /\ IsFcn(b)
        /\ b.rate = 0 /\ b.pps = 0 /\ b.cycles = 0
        /\ \A g \in FieldNames \ {"rate", "pps", "cycles"} : b[g] = K[g]
    BY <1>12 DEF IsFcn, FieldNames
  <2> HIDE DEF a, b
  <2>3. \A g \in FieldNames : a[g] = b[g]
    BY <1>14, <2>1, <2>2
  <2>4. a = b
    BY <2>1, <2>2, <2>3 DEF IsFcn
  <2> QED  BY <2>4 DEF a, b, Unpaced
<1> QED  BY <1>13, <1>15 DEF K

(* Loading a Lua script that pktgen_lua_save has written brings back what  *)
(* KeptByScript says, whatever commands and calls had set the port up: the *)
(* calls before the one the interpreter refuses restore each of their      *)
(* settings, and a rate within the speed of the link as it was.            *)
THEOREM ScriptRestores == Spec => []RestoredByLua
<1>1. RoundTrip => RestoredByLua
  <2> SUFFICES ASSUME RoundTrip, phase = "loaded", file.kind = "lua"
               PROVE  /\ Unpaced(port) = Unpaced(KeptByScript(saved))
                      /\ saved.rate \in 1..Link => port.rate = saved.rate
    BY DEF RestoredByLua
  <2>1. Sound(saved) /\ Reads("lua", LuaLead(saved), Fresh, port)
    BY ScriptLoaded
  <2>2. Unpaced(port) = Unpaced(KeptByScript(saved)) /\ port.rate = ScriptRate(saved)
    BY <2>1, ScriptRead DEF Sound, Good
  <2>3. ASSUME saved.rate \in 1..Link PROVE port.rate = saved.rate
    <3> DEFINE a == saved.rate
    <3>1. Link \in Nat /\ a \in Nat /\ a # 0 /\ a <= Link
      BY <2>3, SettingsAssumption
    <3>2. ScriptRate(saved) = Min({a, Link})
      BY <3>1 DEF ScriptRate
    <3>3. Min({a, Link}) = IF a <= Link THEN a ELSE Link
      BY <3>1, MinOfTwo
    <3> HIDE DEF Min
    <3> QED  BY <2>2, <3>1, <3>2, <3>3
  <2> QED  BY <2>2, <2>3
<1> QED  BY <1>1, RoundTripInv, PTL

==============================================================================

---------------------------- MODULE MbufsProofs ----------------------------
(***************************************************************************)
(* Proofs about the mbufs of a port whose one lcore receives and transmits *)
(* in turns: which of the mempools, the device, the table and the lcore    *)
(* holds each of them.                                                     *)
(***************************************************************************)
EXTENDS Mbufs, SequenceTheorems, FiniteSetTheorems, TLAPS

(***************************************************************************)
(* Sequences of mbufs and what they count for.                             *)
(***************************************************************************)
LEMMA AtMostOne ==
  ASSUME NEW D, \A x, y \in D : x = y
  PROVE  IsFiniteSet(D) /\ Cardinality(D) = IF D = {} THEN 0 ELSE 1
<1>1. CASE D = {}
  BY <1>1, FS_EmptySet
<1>2. CASE D # {}
  <2>1. PICK x \in D : TRUE
    BY <1>2
  <2>2. D = {x}
    BY <2>1
  <2> QED  BY <1>2, <2>2, FS_Singleton
<1> QED  BY <1>1, <1>2

LEMMA TimesFacts ==
  ASSUME NEW S, NEW s \in Seq(S), NEW b
  PROVE  /\ Times(b, s) \in Nat
         /\ (\A x \in DOMAIN s : s[x] # b) => Times(b, s) = 0
         /\ (\E x \in DOMAIN s : s[x] = b) => Times(b, s) >= 1
         /\ (\A x, y \in DOMAIN s : s[x] = b /\ s[y] = b => x = y) => Times(b, s) <= 1
<1> DEFINE D == {e \in DOMAIN s : s[e] = b}
<1>1. DOMAIN s = 1..Len(s) /\ Len(s) \in Nat
  BY LenProperties
<1>2. IsFiniteSet(1..Len(s))
  BY <1>1, FS_Interval
<1>3. D \in SUBSET (1..Len(s))
  BY <1>1
<1>4. IsFiniteSet(D) /\ Cardinality(D) \in Nat
  BY <1>2, <1>3, FS_Subset, FS_CardinalityType
<1>5. Cardinality(D) = 0 <=> D = {}
  BY <1>4, FS_EmptySet
<1>6. (\A x, y \in D : x = y) => Cardinality(D) <= 1
  BY <1>4, AtMostOne
<1>7. Times(b, s) = Cardinality(D)
  BY DEF Times
<1>8. (\A x \in DOMAIN s : s[x] # b) => D = {}
  OBVIOUS
<1>9. (\E x \in DOMAIN s : s[x] = b) => D # {}
  OBVIOUS
<1>10. (\A x, y \in DOMAIN s : s[x] = b /\ s[y] = b => x = y) => \A x, y \in D : x = y
  OBVIOUS
<1> HIDE DEF D
<1> QED  BY <1>4, <1>5, <1>6, <1>7, <1>8, <1>9, <1>10

LEMMA TimesNone ==
  ASSUME NEW b
  PROVE  Times(b, << >>) = 0
<1>1. << >> \in Seq({}) /\ DOMAIN << >> = {}
  BY EmptySeq
<1> QED  BY <1>1, TimesFacts

LEMMA SetToSeqFacts ==
  ASSUME NEW S, IsFiniteSet(S)
  PROVE  /\ SetToSeq(S) \in Seq(S) /\ DOMAIN SetToSeq(S) = 1..Len(SetToSeq(S))
         /\ Len(SetToSeq(S)) \in Nat
         /\ \A x, y \in DOMAIN SetToSeq(S) : SetToSeq(S)[x] = SetToSeq(S)[y] => x = y
         /\ \A b \in S : \E x \in DOMAIN SetToSeq(S) : SetToSeq(S)[x] = b
<1> DEFINE c == Cardinality(S)
           f == SetToSeq(S)
<1>1. c \in Nat /\ ExistsBijection(1..c, S)
  BY FS_CardinalityType
<1>2. \E g \in [1..c -> S] : IsInjective(g)
  BY <1>1 DEF ExistsBijection, Bijection, Injection
<1>3. f \in [1..c -> S] /\ IsInjective(f)
  BY <1>2 DEF SetToSeq
<1>4. f \in Injection(1..c, S)
  BY <1>3 DEF Injection
<1>5. Cardinality(1..c) = c
  BY <1>1, FS_Interval
<1>6. f \in Surjection(1..c, S)
  BY <1>4, <1>5, FS_Injection
<1> HIDE DEF f, c
<1>7. f \in Seq(S)
  BY <1>1, <1>3, SeqDef
<1>8. Len(f) \in Nat /\ DOMAIN f = 1..Len(f)
  BY <1>7, LenProperties
<1>9. \A b \in S : \E x \in DOMAIN f : f[x] = b
  BY <1>3, <1>6 DEF Surjection
<1>10. \A x, y \in DOMAIN f : f[x] = f[y] => x = y
  BY <1>3 DEF IsInjective
<1> QED  BY <1>7, <1>8, <1>9, <1>10 DEF f

(* What the device gives back.                                             *)
LEMMA TimesOfSet ==
  ASSUME NEW S, IsFiniteSet(S), NEW b
  PROVE  Times(b, SetToSeq(S)) = IF b \in S THEN 1 ELSE 0
<1> DEFINE f == SetToSeq(S)
<1>1. /\ f \in Seq(S)
      /\ \A x, y \in DOMAIN f : f[x] = f[y] => x = y
      /\ \A c \in S : \E x \in DOMAIN f : f[x] = c
      /\ DOMAIN f = 1..Len(f)
  BY SetToSeqFacts
<1> HIDE DEF f
<1>2. \A x \in DOMAIN f : f[x] \in S
  BY <1>1
<1>3. CASE b \in S
  <2>1. Times(b, f) \in Nat /\ Times(b, f) >= 1 /\ Times(b, f) <= 1
    BY <1>1, <1>3, TimesFacts
  <2> QED  BY <1>3, <2>1 DEF f
<1>4. CASE b \notin S
  <2>1. Times(b, f) = 0
    BY <1>1, <1>2, <1>4, TimesFacts
  <2> QED  BY <1>4, <2>1 DEF f
<1> QED  BY <1>3, <1>4

(* The first mbufs a mempool gives: free ones, each once.                  *)
LEMMA FreeFacts ==
  ASSUME NEW S \in SUBSET Bufs, pool \in [Bufs -> Nat]
  PROVE  /\ Free(S) \in Seq(S) /\ Len(Free(S)) \in Nat
         /\ DOMAIN Free(S) = 1..Len(Free(S))
         /\ \A x \in 1..Len(Free(S)) : Free(S)[x] \in S /\ pool[Free(S)[x]] > 0
         /\ \A x, y \in 1..Len(Free(S)) : Free(S)[x] = Free(S)[y] => x = y
<1> DEFINE F == {b \in S : pool[b] > 0}
           f == Free(S)
<1>1. F \in SUBSET Bufs /\ IsFiniteSet(Bufs)
  BY MbufAssumption
<1>2. IsFiniteSet(F)
  BY <1>1, FS_Subset
<1>3. f = SetToSeq(F)
  BY DEF Free
<1> HIDE DEF f
<1>4. /\ f \in Seq(F) /\ Len(f) \in Nat /\ DOMAIN f = 1..Len(f)
      /\ \A x, y \in DOMAIN f : f[x] = f[y] => x = y
  BY <1>2, <1>3, SetToSeqFacts
<1>5. f \in [1..Len(f) -> F]
  BY <1>4, LenProperties
<1>6. \A x \in 1..Len(f) : f[x] \in S /\ pool[f[x]] > 0
  BY <1>5
<1>7. f \in [1..Len(f) -> S]
  BY <1>4, <1>5
<1>8. f \in Seq(S)
  BY <1>4, <1>7, SeqDef
<1> QED  BY <1>4, <1>6, <1>8 DEF f

LEMMA BulkFacts ==
  ASSUME NEW S \in SUBSET Bufs, pool \in [Bufs -> Nat],
         NEW k \in Nat, k <= Len(Free(S)), NEW s, s = SubSeq(Free(S), 1, k)
  PROVE  /\ s \in Seq(S) /\ Len(s) = k /\ DOMAIN s = 1..k
         /\ \A x \in 1..k : s[x] \in S /\ pool[s[x]] > 0
         /\ \A x, y \in 1..k : s[x] = s[y] => x = y
<1> DEFINE f == Free(S)
<1>1. /\ Len(f) \in Nat
      /\ \A x \in 1..Len(f) : f[x] \in S /\ pool[f[x]] > 0
      /\ \A x, y \in 1..Len(f) : f[x] = f[y] => x = y
  BY FreeFacts
<1>2. s = SubSeq(f, 1, k) /\ k <= Len(f)
  OBVIOUS
<1> HIDE DEF f
<1>3. \A x \in 1..k : x \in 1..Len(f) /\ f[x] \in S
  BY <1>1, <1>2
<1>4. s \in Seq(S) /\ Len(s) = k /\ \A x \in 1..k : s[x] = f[x]
  BY <1>2, <1>3, SubSeqProperties
<1>5. DOMAIN s = 1..k
  BY <1>4, LenProperties
<1>6. \A x \in 1..k : s[x] \in S /\ pool[s[x]] > 0
  BY <1>1, <1>3, <1>4
<1>7. \A x, y \in 1..k : s[x] = s[y] => x = y
  BY <1>1, <1>3, <1>4
<1> QED  BY <1>4, <1>5, <1>6, <1>7

(* Mbufs that come and go.                                                 *)
LEMMA PlusFacts ==
  ASSUME NEW S, NEW s \in Seq(S), NEW f \in [Bufs -> Nat]
  PROVE  /\ Plus(f, s) \in [Bufs -> Nat]
         /\ \A b \in Bufs : Plus(f, s)[b] = f[b] + Times(b, s)
  BY TimesFacts DEF Plus

LEMMA LessFacts ==
  ASSUME NEW f \in [Bufs -> Nat], NEW S, \A b \in Bufs : b \in S => f[b] > 0
  PROVE  /\ Less(f, S) \in [Bufs -> Nat]
         /\ \A b \in Bufs : Less(f, S)[b] = IF b \in S THEN f[b] - 1 ELSE f[b]
  BY DEF Less
-----------------------------------------------------------------------------
(***************************************************************************)
(* What the theorems need: one lcore, and a burst length that does not     *)
(* change if the port sends for ever, which reads it twice (SetLen).       *)
(***************************************************************************)
Steady == ~Split /\ (Forever => \A k, l \in Bursts : k = l)

(***************************************************************************)
(* Where the lcore is.                                                     *)
(***************************************************************************)
Queues  == {"queue", "store"}
Sending == {"take", "zero", "call"}

Own(t) == IF t = "rx" THEN RxBufs ELSE SpecialBufs

ControlInv ==
  /\ pc["rx"] = "idle" \/ pc["tx"] = "idle"
  /\ pc["rx"] \in {"idle", "classify", "flag"} \cup Queues \cup Sending
  /\ pc["tx"] # "classify"
  /\ \A t \in Lcores :
       /\ pc[t] \in Queues => back[t] = "flag" /\ m[t] \in Own(t)
       /\ pc[t] \in Sending =>
            back[t] \in IF t = "rx" THEN {"flag"} ELSE {"flag", "qflags", "cleanup"}
  /\ txBurst \in Bursts

(* The burst in hand, and how much of it is looked at.                     *)
BurstInv ==
  /\ pc["rx"] = "idle" => burst = << >>
  /\ seen <= Len(burst) /\ Len(burst) <= TableSize
  /\ pc["rx"] \in Queues \cup Sending \cup {"flag"} => seen < Len(burst)

(* The table's length is below its size between two packets.               *)
TableInv ==
  /\ len <= TableSize
  /\ len = TableSize => \E t \in Lcores : pc[t] \in {"take", "zero"}
  /\ \A t \in Lcores :
       /\ pc[t] = "store" => i[t] = len
       /\ pc[t] = "zero" => cnt[t] = len
       /\ pc[t] = "call" => /\ len = 0 /\ cnt[t] > 0
                            /\ ptr[t] + cnt[t] <= TableSize + 1
       /\ pc[t] # "call" => ptr[t] = 1
  /\ pc["tx"] = "fill" => i["tx"] \in 1..TableSize /\ (Forever => i["tx"] = txBurst)

(* The traffic is in the table only from its allocation until it is sent.  *)
TrafficInv ==
  \A e \in 1..len : table[e] \in TxBufs =>
    \/ pc["tx"] = "fill" /\ e <= i["tx"]
    \/ pc["tx"] \in {"take", "zero"}

(***************************************************************************)
(* The places of an mbuf: SoleOwner and OnlyRequestsLeak without counting. *)
(***************************************************************************)
Entries == 1..TableSize

Pend(e) ==
  \/ e <= len
  \/ pc["tx"] = "fill" /\ e <= i["tx"]
  \/ \E t \in Lcores : pc[t] = "call" /\ ptr[t] <= e /\ e < ptr[t] + cnt[t]

Tracked(b) == b \in RxBufs => reused = 0
InPlace(b) == pool[b] + dev[b]
InTable(b) == \E e \in Entries : Pend(e) /\ table[e] = b
InBurst(b) == \E x \in DOMAIN burst : burst[x] = b
InHand(b)  == \E t \in Lcores : pc[t] \in Queues /\ m[t] = b

OneOf(b) ==
  /\ InPlace(b) <= 1
  /\ \A e, f \in Entries : Pend(e) /\ Pend(f) /\ table[e] = b /\ table[f] = b => e = f
  /\ \A x, y \in DOMAIN burst : burst[x] = b /\ burst[y] = b => x = y
  /\ InPlace(b) = 1 => ~InTable(b) /\ ~InBurst(b) /\ ~InHand(b)
  /\ InTable(b) => ~InBurst(b) /\ ~InHand(b)
  /\ InBurst(b) => ~InHand(b)

(* The mbufs of the traffic and of the receive side.                       *)
KeptOf(b) ==
  /\ b \in TxBufs => InPlace(b) > 0 \/ InTable(b)
  /\ b \in RxBufs => InPlace(b) > 0 \/ InBurst(b)

OwnInv  == \A b \in Bufs : Tracked(b) => OneOf(b)
KeptInv == \A b \in Bufs : KeptOf(b)

PcInv   == ControlInv /\ BurstInv /\ TableInv /\ TrafficInv
MbufInv == TypeOK /\ PcInv /\ OwnInv /\ KeptInv
-----------------------------------------------------------------------------
LEMMA TwoLcores ==
  /\ "rx" \in Lcores /\ "tx" \in Lcores /\ "rx" # "tx"
  /\ \A t \in Lcores : t = "rx" \/ t = "tx"
BY DEF Lcores

LEMMA Busy ==
  ASSUME MbufInv, NEW t \in Lcores, pc[t] # "idle"
  PROVE  \A u \in Lcores : u # t => pc[u] = "idle"
BY TwoLcores DEF MbufInv, PcInv, ControlInv

(* A step that moves mbufs between the device and the mempools alone.      *)
LEMMA SamePlaces ==
  ASSUME MbufInv, UNCHANGED <<table, burst, reused>>,
         \A b \in Bufs : InPlace(b)' = InPlace(b),
         \A e \in Entries : Pend(e)' <=> Pend(e),
         \A b \in Bufs : InHand(b)' => InHand(b)
  PROVE  OwnInv' /\ KeptInv'
<1>1. \A b \in Bufs : InTable(b)' <=> InTable(b)
  BY DEF InTable
<1>2. \A b \in Bufs : InBurst(b)' <=> InBurst(b)
  BY DEF InBurst
<1>3. \A b \in Bufs : OneOf(b) => OneOf(b)'
  BY <1>1, <1>2 DEF OneOf
<1>4. OwnInv'
  BY <1>3 DEF MbufInv, OwnInv, Tracked
<1>5. KeptInv'
  BY <1>1, <1>2 DEF MbufInv, KeptInv, KeptOf
<1> QED  BY <1>4, <1>5

(* A step that moves no mbuf.                                              *)
LEMMA Same ==
  ASSUME MbufInv, UNCHANGED <<pool, dev, table, burst, reused>>,
         \A e \in Entries : Pend(e)' <=> Pend(e),
         \A b \in Bufs : InHand(b)' => InHand(b)
  PROVE  OwnInv' /\ KeptInv'
<1>1. \A b \in Bufs : InPlace(b)' = InPlace(b)
  BY DEF InPlace
<1> QED  BY <1>1, SamePlaces

LEMMA CommandStep ==
  ASSUME Steady, MbufInv, Command
  PROVE  MbufInv'
<1>1. /\ UNCHANGED <<pool, dev, table, len, pc, back, m, i, ptr, cnt, burst, seen>>
      /\ UNCHANGED <<todo, reused, role, flush>>
      /\ requests' \subseteq Requests /\ input' \in BOOLEAN /\ txBurst' \in Bursts
      /\ ncmd' \in 0..MaxCmds
      /\ Forever => txBurst' = txBurst
  BY MbufAssumption, SMTT(20) DEF Command, Request, SetBurst, EnableProcess, mem, tab, flags,
     locals, rx, MbufInv, PcInv, ControlInv, TypeOK, Steady
<1>2. TypeOK'
  BY <1>1, MbufAssumption DEF MbufInv, TypeOK
<1>3. PcInv'
  BY <1>1 DEF MbufInv, PcInv, ControlInv, BurstInv, TableInv, TrafficInv
<1>4. OwnInv' /\ KeptInv'
  BY <1>1, Same DEF Pend, InHand
<1> QED  BY <1>2, <1>3, <1>4 DEF MbufInv

LEMMA StutterStep ==
  ASSUME MbufInv, UNCHANGED vars
  PROVE  MbufInv'
<1>1. /\ UNCHANGED <<pool, dev, table, len, pc, back, m, i, ptr, cnt, burst, seen>>
      /\ UNCHANGED <<todo, reused, role, flush, requests, input, txBurst, ncmd>>
  BY DEF vars, mem, tab, flags, locals, rx
<1>2. TypeOK'
  BY <1>1 DEF MbufInv, TypeOK
<1>3. PcInv'
  BY <1>1 DEF MbufInv, PcInv, ControlInv, BurstInv, TableInv, TrafficInv
<1>4. OwnInv' /\ KeptInv'
  BY <1>1, Same DEF Pend, InHand
<1> QED  BY <1>2, <1>3, <1>4 DEF MbufInv
-----------------------------------------------------------------------------
(***************************************************************************)
(* The steps of an lcore that move no mbuf.                                *)
(***************************************************************************)
LEMMA ReadLenStep ==
  ASSUME MbufInv, NEW t \in Lcores, ReadLen(t)
  PROVE  MbufInv'
<1>1. /\ pc[t] = "queue" /\ pc' = [pc EXCEPT ![t] = "store"]
      /\ i' = [i EXCEPT ![t] = len]
      /\ UNCHANGED <<pool, dev, table, len, txBurst, role, input, requests, flush>>
      /\ UNCHANGED <<back, m, ptr, cnt, burst, seen, todo, ncmd, reused>>
  BY DEF ReadLen, At, Goto, mem, tab, flags, rx
<1>2. \A u \in Lcores : u # t => pc[u] = "idle"
  BY <1>1, Busy
<1>3. /\ pc \in [Lcores -> LcorePc] /\ i \in [Lcores -> 0..TableSize+1]
      /\ len \in 0..TableSize+1
  BY DEF MbufInv, TypeOK
<1>4. TypeOK'
  BY <1>1, <1>3 DEF MbufInv, TypeOK, LcorePc
<1>5. PcInv'
  <2>1. ControlInv' /\ BurstInv'
    BY <1>1, <1>2, <1>3, TwoLcores DEF MbufInv, PcInv, ControlInv, BurstInv, Queues, Sending
  <2>2. TableInv'
    BY <1>1, <1>2, <1>3, TwoLcores DEF MbufInv, PcInv, TableInv
  <2>3. TrafficInv'
    BY <1>1, <1>2, <1>3, TwoLcores DEF MbufInv, PcInv, TrafficInv
  <2> QED  BY <2>1, <2>2, <2>3 DEF PcInv
<1>6. OwnInv' /\ KeptInv'
  <2>1. \A e \in Entries : Pend(e)' <=> Pend(e)
    BY <1>1, <1>2, <1>3, TwoLcores DEF Pend
  <2>2. \A b \in Bufs : InHand(b)' => InHand(b)
    BY <1>1, <1>2, <1>3 DEF InHand, Queues
  <2> QED  BY <1>1, <2>1, <2>2, Same
<1> QED  BY <1>4, <1>5, <1>6 DEF MbufInv

LEMMA TakeLenStep ==
  ASSUME MbufInv, NEW t \in Lcores, TakeLen(t)
  PROVE  MbufInv'
<1>1. /\ pc[t] = "take" /\ pc' = [pc EXCEPT ![t] = "zero"]
      /\ cnt' = [cnt EXCEPT ![t] = len]
      /\ UNCHANGED <<pool, dev, table, len, txBurst, role, input, requests, flush>>
      /\ UNCHANGED <<back, m, ptr, i, burst, seen, todo, ncmd, reused>>
  BY DEF TakeLen, At, Goto, mem, tab, flags, rx
<1>2. \A u \in Lcores : u # t => pc[u] = "idle"
  BY <1>1, Busy
<1>3. /\ pc \in [Lcores -> LcorePc] /\ cnt \in [Lcores -> 0..TableSize+1]
      /\ len \in 0..TableSize+1
  BY DEF MbufInv, TypeOK
<1>4. TypeOK'
  BY <1>1, <1>3 DEF MbufInv, TypeOK, LcorePc
<1>5. PcInv'
  <2>1. ControlInv' /\ BurstInv'
    BY <1>1, <1>2, <1>3, TwoLcores DEF MbufInv, PcInv, ControlInv, BurstInv, Queues, Sending
  <2>2. TableInv'
    BY <1>1, <1>2, <1>3, TwoLcores DEF MbufInv, PcInv, TableInv
  <2>3. TrafficInv'
    BY <1>1, <1>2, <1>3, TwoLcores DEF MbufInv, PcInv, TrafficInv
  <2> QED  BY <2>1, <2>2, <2>3 DEF PcInv
<1>6. OwnInv' /\ KeptInv'
  <2>1. \A e \in Entries : Pend(e)' <=> Pend(e)
    BY <1>1, <1>2, <1>3, TwoLcores DEF Pend
  <2>2. \A b \in Bufs : InHand(b)' => InHand(b)
    BY <1>1, <1>2, <1>3 DEF InHand, Queues
  <2> QED  BY <1>1, <2>1, <2>2, Same
<1> QED  BY <1>4, <1>5, <1>6 DEF MbufInv

(* What was in the table is what is to be sent.                            *)
LEMMA ZeroLenStep ==
  ASSUME MbufInv, NEW t \in Lcores, ZeroLen(t)
  PROVE  MbufInv'
<1>1. /\ pc[t] = "zero" /\ len' = 0
      /\ pc' = [pc EXCEPT ![t] = IF cnt[t] = 0 THEN back[t] ELSE "call"]
      /\ back' = IF cnt[t] = 0 THEN [back EXCEPT ![t] = "idle"] ELSE back
      /\ UNCHANGED <<pool, dev, table, txBurst, role, input, requests, flush>>
      /\ UNCHANGED <<m, ptr, i, cnt, burst, seen, todo, ncmd, reused>>
  BY DEF ZeroLen, At, Goto, Return, mem, flags, rx
<1>2. \A u \in Lcores : u # t => pc[u] = "idle"
  BY <1>1, Busy
<1>3. /\ pc \in [Lcores -> LcorePc] /\ back \in [Lcores -> LcorePc]
      /\ cnt \in [Lcores -> 0..TableSize+1] /\ len \in 0..TableSize+1
      /\ TableSize \in Nat \ {0}
  BY MbufAssumption DEF MbufInv, TypeOK
<1>4. /\ cnt[t] = len /\ ptr[t] = 1 /\ len <= TableSize
      /\ back[t] \in IF t = "rx" THEN {"flag"} ELSE {"flag", "qflags", "cleanup"}
  BY <1>1 DEF MbufInv, PcInv, TableInv, ControlInv, Sending
<1>5. TypeOK'
  BY <1>1, <1>3 DEF MbufInv, TypeOK, LcorePc
<1>6. PcInv'
  <2>1. ControlInv'
    BY <1>1, <1>2, <1>3, <1>4, TwoLcores DEF MbufInv, PcInv, ControlInv, Queues, Sending
  <2>2. BurstInv'
    BY <1>1, <1>2, <1>3, <1>4, TwoLcores DEF MbufInv, PcInv, BurstInv, Queues, Sending
  <2>3. TableInv'
    BY <1>1, <1>2, <1>3, <1>4, TwoLcores, SMTT(20) DEF MbufInv, PcInv, TableInv
  <2>4. TrafficInv'
    BY <1>1 DEF TrafficInv
  <2> QED  BY <2>1, <2>2, <2>3, <2>4 DEF PcInv
<1>7. OwnInv' /\ KeptInv'
  <2>1. \A e \in Entries : Pend(e)' <=> Pend(e)
    BY <1>1, <1>2, <1>3, <1>4, TwoLcores DEF Pend, Entries
  <2>2. \A b \in Bufs : InHand(b)' => InHand(b)
    BY <1>1, <1>2, <1>3, <1>4 DEF InHand, Queues
  <2> QED  BY <1>1, <2>1, <2>2, Same
<1> QED  BY <1>5, <1>6, <1>7 DEF MbufInv

LEMMA AskFlushStep ==
  ASSUME MbufInv, NEW t \in Lcores, AskFlush(t)
  PROVE  MbufInv'
<1>1. /\ pc[t] = "flag" /\ flush' = TRUE
      /\ pc' = [pc EXCEPT ![t] = IF t = "rx" THEN "classify" ELSE "special"]
      /\ seen' = IF t = "rx" THEN seen + 1 ELSE seen
      /\ UNCHANGED <<pool, dev, table, len, txBurst, role, input, requests>>
      /\ UNCHANGED <<back, m, ptr, i, cnt, burst, todo, ncmd, reused>>
  BY DEF AskFlush, At, Goto, mem, tab, locals
<1>2. \A u \in Lcores : u # t => pc[u] = "idle"
  BY <1>1, Busy
<1>3. /\ pc \in [Lcores -> LcorePc] /\ seen \in 0..TableSize /\ Len(burst) \in Nat
      /\ TableSize \in Nat
  BY MbufAssumption DEF MbufInv, TypeOK
<1>4. t = "rx" => seen < Len(burst) /\ Len(burst) <= TableSize
  BY <1>1 DEF MbufInv, PcInv, BurstInv
<1>5. TypeOK'
  <2>1. seen' \in 0..TableSize
    BY <1>1, <1>3, <1>4
  <2> QED  BY <1>1, <1>3, <2>1 DEF MbufInv, TypeOK, LcorePc
<1>6. PcInv'
  <2>1. ControlInv'
    BY <1>1, <1>2, <1>3, TwoLcores DEF MbufInv, PcInv, ControlInv, Queues, Sending
  <2>2. BurstInv'
    BY <1>1, <1>2, <1>3, <1>4, TwoLcores DEF MbufInv, PcInv, BurstInv, Queues, Sending
  <2>3. TableInv' /\ TrafficInv'
    BY <1>1, <1>2, <1>3, TwoLcores DEF MbufInv, PcInv, TableInv, TrafficInv
  <2> QED  BY <2>1, <2>2, <2>3 DEF PcInv
<1>7. OwnInv' /\ KeptInv'
  <2>1. \A e \in Entries : Pend(e)' <=> Pend(e)
    BY <1>1, <1>2, <1>3, TwoLcores DEF Pend
  <2>2. \A b \in Bufs : InHand(b)' => InHand(b)
    BY <1>1, <1>2, <1>3 DEF InHand, Queues
  <2> QED  BY <1>1, <2>1, <2>2, Same
<1> QED  BY <1>5, <1>6, <1>7 DEF MbufInv

(* Poll, ClearRequests, AllocFails and PollFlush: the lcore turns to the   *)
(* next thing to transmit.                                                 *)
LEMMA TurnStep ==
  ASSUME Steady, MbufInv, Poll \/ ClearRequests \/ AllocFails \/ PollFlush
  PROVE  MbufInv'
<1>1. /\ pc["tx"] \in {"idle", "special", "alloc", "qflags"} /\ pc["rx"] = "idle"
      /\ pc' = [pc EXCEPT !["tx"] = pc'["tx"]]
      /\ pc'["tx"] \in {"idle", "special", "alloc", "qflags", "take"}
      /\ back' = [back EXCEPT !["tx"] = back'["tx"]]
      /\ pc'["tx"] = "take" => back'["tx"] = "cleanup"
      /\ back'["tx"] \in LcorePc
      /\ requests' \subseteq Requests /\ todo' \in Nat
      /\ UNCHANGED <<pool, dev, table, len, txBurst, role, input, flush>>
      /\ UNCHANGED <<m, ptr, i, cnt, burst, seen, ncmd, reused>>
  <2>1. pc \in [Lcores -> LcorePc] /\ back \in [Lcores -> LcorePc]
    BY DEF MbufInv, TypeOK
  <2>2. ASSUME Poll PROVE pc["rx"] = "idle" /\ todo' \in Nat
    <3>1. pc["rx"] = "idle"
      BY <2>2, TwoLcores DEF Poll, Turn, At, Steady
    <3>2. Cardinality(requests) \in Nat
      <4>1. IsFiniteSet(Requests)
        <5>1. Requests = {"arp"} \cup {"ping"}
          BY DEF Requests
        <5> QED  BY <5>1, FS_Singleton, FS_AddElement
      <4>2. requests \in SUBSET Requests
        BY DEF MbufInv, TypeOK
      <4> QED  BY <4>1, <4>2, FS_Subset, FS_CardinalityType
    <3>3. Cardinality(requests) * (SeqCnt + 1) \in Nat
      BY <3>2, MbufAssumption
    <3> QED  BY <2>2, <3>1, <3>3 DEF Poll, MbufInv, TypeOK
  <2>3. CASE Poll
    BY <2>1, <2>2, <2>3, TwoLcores DEF Poll, At, Goto, mem, tab, flags, locals, rx,
       MbufInv, TypeOK
  <2>4. CASE ClearRequests
    BY <2>1, <2>4, Busy, TwoLcores DEF ClearRequests, At, Goto, mem, tab, locals, rx,
       MbufInv, TypeOK
  <2>5. CASE AllocFails
    BY <2>1, <2>5, Busy, TwoLcores DEF AllocFails, At, Goto, mem, tab, flags, locals,
       rx, MbufInv, TypeOK
  <2>6. CASE PollFlush
    <3>1. /\ UNCHANGED <<pool, dev, table, len, txBurst, role, input, flush>>
          /\ UNCHANGED <<m, ptr, i, cnt, burst, seen, ncmd, reused, requests, todo>>
      BY <2>6 DEF PollFlush, mem, tab, flags, rx
    <3>2. todo' \in Nat /\ requests' \subseteq Requests
      BY <3>1 DEF MbufInv, TypeOK
    <3>3. CASE flush
      <4>1. /\ pc["tx"] = "qflags" /\ pc' = [pc EXCEPT !["tx"] = "take"]
            /\ back' = [back EXCEPT !["tx"] = "cleanup"]
        BY <2>6, <3>3 DEF PollFlush, At, Goto
      <4> QED  BY <2>1, <3>1, <3>2, <4>1, Busy, TwoLcores DEF LcorePc
    <3>4. CASE ~flush
      <4>1. /\ pc["tx"] = "qflags" /\ pc' = [pc EXCEPT !["tx"] = "idle"]
            /\ back' = back
        BY <2>6, <3>4 DEF PollFlush, At, Goto
      <4> QED  BY <2>1, <3>1, <3>2, <4>1, Busy, TwoLcores
    <3> QED  BY <3>3, <3>4
  <2> QED  BY <2>3, <2>4, <2>5, <2>6
<1>2. pc \in [Lcores -> LcorePc] /\ back \in [Lcores -> LcorePc]
  BY DEF MbufInv, TypeOK
<1>3. TypeOK'
  <2>1. pc'["tx"] \in LcorePc
    BY <1>1 DEF LcorePc
  <2>2. pc' \in [Lcores -> LcorePc] /\ back' \in [Lcores -> LcorePc]
    BY <1>1, <1>2, <2>1
  <2> QED  BY <1>1, <2>2 DEF MbufInv, TypeOK
<1>4. PcInv'
  <2>1. ControlInv' /\ BurstInv'
    BY <1>1, <1>2, TwoLcores DEF MbufInv, PcInv, ControlInv, BurstInv, Queues, Sending
  <2>2. TableInv'
    BY <1>1, <1>2, TwoLcores DEF MbufInv, PcInv, TableInv
  <2>3. TrafficInv'
    BY <1>1, <1>2, TwoLcores DEF MbufInv, PcInv, TrafficInv
  <2> QED  BY <2>1, <2>2, <2>3 DEF PcInv
<1>5. OwnInv' /\ KeptInv'
  <2>1. \A e \in Entries : Pend(e)' <=> Pend(e)
    BY <1>1, <1>2, TwoLcores DEF Pend
  <2>2. \A b \in Bufs : InHand(b)' => InHand(b)
    BY <1>1, <1>2, TwoLcores DEF InHand, Queues
  <2> QED  BY <1>1, <2>1, <2>2, Same
<1> QED  BY <1>3, <1>4, <1>5 DEF MbufInv

LEMMA ClassifyStep ==
  ASSUME MbufInv, Classify
  PROVE  MbufInv'
<1>1. /\ pc["rx"] = "classify" /\ seen < Len(burst) /\ seen' = seen + 1
      /\ UNCHANGED <<pool, dev, table, len, txBurst, role, input, requests, flush>>
      /\ UNCHANGED <<pc, back, m, ptr, i, cnt, burst, todo, ncmd, reused>>
  BY DEF Classify, At, mem, tab, flags, locals
<1>2. seen \in Nat /\ Len(burst) \in Nat /\ Len(burst) <= TableSize /\ TableSize \in Nat
  BY MbufAssumption DEF MbufInv, TypeOK, PcInv, BurstInv
<1>3. TypeOK'
  BY <1>1, <1>2 DEF MbufInv, TypeOK
<1>4. PcInv'
  BY <1>1, <1>2 DEF MbufInv, PcInv, ControlInv, BurstInv, TableInv, TrafficInv, Queues,
     Sending
<1>5. OwnInv' /\ KeptInv'
  BY <1>1, Same DEF Pend, InHand
<1> QED  BY <1>3, <1>4, <1>5 DEF MbufInv
-----------------------------------------------------------------------------
(***************************************************************************)
(* The steps that move mbufs: into the table and out of it.                *)
(***************************************************************************)
(* The length the traffic's burst is given: what was allocated.            *)
LEMMA SetLenStep ==
  ASSUME MbufInv, SetLen
  PROVE  MbufInv'
<1>1. /\ pc["tx"] = "fill" /\ pc' = [pc EXCEPT !["tx"] = "take"]
      /\ i' = [i EXCEPT !["tx"] = 0] /\ back' = [back EXCEPT !["tx"] = "qflags"]
      /\ len' = i["tx"] /\ i["tx"] \in 1..TableSize
      /\ UNCHANGED <<pool, dev, table, txBurst, role, input, requests, flush>>
      /\ UNCHANGED <<m, ptr, cnt, burst, seen, todo, ncmd, reused>>
  BY DEF SetLen, At, Goto, mem, flags, rx, MbufInv, PcInv, TableInv
<1>2. pc["rx"] = "idle"
  BY <1>1, Busy, TwoLcores
<1>3. /\ pc \in [Lcores -> LcorePc] /\ back \in [Lcores -> LcorePc]
      /\ i \in [Lcores -> 0..TableSize+1] /\ len \in 0..TableSize+1
      /\ TableSize \in Nat \ {0}
  BY MbufAssumption DEF MbufInv, TypeOK
<1>4. TypeOK'
  <2>3. len' \in 0..TableSize+1 /\ 0 \in 0..TableSize+1
    BY <1>1, <1>3
  <2>1. len' \in 0..TableSize+1 /\ i' \in [Lcores -> 0..TableSize+1]
    BY <1>1, <1>3, <2>3
  <2>2. pc' \in [Lcores -> LcorePc] /\ back' \in [Lcores -> LcorePc]
    BY <1>1, <1>3 DEF LcorePc
  <2> QED  BY <1>1, <2>1, <2>2 DEF MbufInv, TypeOK
<1>5. PcInv'
  <2>1. ControlInv' /\ BurstInv'
    BY <1>1, <1>2, <1>3, TwoLcores DEF MbufInv, PcInv, ControlInv, BurstInv, Queues, Sending
  <2>2. TableInv'
    BY <1>1, <1>2, <1>3, TwoLcores DEF MbufInv, PcInv, TableInv
  <2>3. TrafficInv'
    BY <1>1, <1>3, TwoLcores DEF TrafficInv
  <2> QED  BY <2>1, <2>2, <2>3 DEF PcInv
<1>6. \A e \in Entries : (Pend(e)' <=> e <= i["tx"]) /\ (Pend(e)' => Pend(e))
  BY <1>1, <1>2, <1>3, TwoLcores DEF Pend, Entries
<1>7. \A b \in Bufs : /\ InTable(b)' => InTable(b)
                      /\ InPlace(b)' = InPlace(b) /\ ~InHand(b)'
                      /\ InBurst(b)' <=> InBurst(b)
  BY <1>1, <1>2, <1>3, <1>6, TwoLcores DEF InTable, InPlace, InHand, InBurst, Queues
<1>8. OwnInv'
  <2>1. \A b \in Bufs : OneOf(b) => OneOf(b)'
    BY <1>1, <1>6, <1>7 DEF OneOf
  <2> QED  BY <1>1, <2>1 DEF MbufInv, OwnInv, Tracked
<1>9. KeptInv'
  <2>1. ASSUME NEW b \in TxBufs, InTable(b) PROVE InTable(b)'
    <3>1. PICK e \in Entries : Pend(e) /\ table[e] = b
      BY <2>1 DEF InTable
    <3>2. e <= i["tx"]
      BY <1>1, <1>2, <1>3, <3>1, TwoLcores
         DEF Pend, Entries, MbufInv, PcInv, TrafficInv
    <3> QED  BY <1>1, <1>6, <3>1, <3>2 DEF InTable
  <2> QED  BY <1>7, <2>1 DEF MbufInv, KeptInv, KeptOf
<1> QED  BY <1>4, <1>5, <1>8, <1>9 DEF MbufInv

(* A request or a reply goes from an lcore's hand to the end of the table. *)
LEMMA StoreMbufStep ==
  ASSUME MbufInv, NEW t \in Lcores, StoreMbuf(t)
  PROVE  MbufInv'
<1>1. /\ pc[t] = "store" /\ i[t] = len /\ back[t] = "flag" /\ m[t] \in Own(t)
      /\ table' = [table EXCEPT ![len + 1] = m[t]] /\ len' = len + 1
      /\ i' = [i EXCEPT ![t] = 0] /\ m' = [m EXCEPT ![t] = NoBuf]
      /\ pc' = [pc EXCEPT ![t] = IF len + 1 >= txBurst THEN "take" ELSE "flag"]
      /\ back' = IF len + 1 >= txBurst THEN back ELSE [back EXCEPT ![t] = "idle"]
      /\ UNCHANGED <<pool, dev, txBurst, role, input, requests, flush>>
      /\ UNCHANGED <<ptr, cnt, burst, seen, todo, ncmd, reused>>
  BY DEF StoreMbuf, At, Goto, Return, mem, flags, rx, MbufInv, PcInv, TableInv,
     ControlInv, Queues
<1>2. \A u \in Lcores : u # t => pc[u] = "idle"
  BY <1>1, Busy
<1>3. /\ pc \in [Lcores -> LcorePc] /\ back \in [Lcores -> LcorePc]
      /\ i \in [Lcores -> 0..TableSize+1] /\ m \in [Lcores -> Bufs \cup {NoBuf}]
      /\ table \in [1..TableSize+1 -> Bufs \cup {NoBuf}]
      /\ TableSize \in Nat \ {0} /\ txBurst \in 1..TableSize
  BY MbufAssumption DEF MbufInv, TypeOK
<1>4. len \in 0..TableSize /\ len # TableSize
  <2>1. len \in 0..TableSize+1 /\ len <= TableSize
    BY DEF MbufInv, PcInv, TableInv, TypeOK
  <2>2. len # TableSize
    BY <1>1, <1>2 DEF MbufInv, PcInv, TableInv
  <2> QED  BY <1>3, <2>1, <2>2
<1>5. m[t] \in Bufs /\ m[t] \notin TxBufs
  BY <1>1, MbufAssumption DEF Own, Bufs
<1>6. TypeOK'
  BY <1>1, <1>3, <1>4, <1>5, SMTT(30) DEF MbufInv, TypeOK, LcorePc
<1>7. PcInv'
  <2>1. ControlInv'
    BY <1>1, <1>2, <1>3, TwoLcores DEF MbufInv, PcInv, ControlInv, Queues, Sending
  <2>2. BurstInv'
    BY <1>1, <1>2, <1>3, TwoLcores DEF MbufInv, PcInv, BurstInv, Queues, Sending
  <2>3. TableInv'
    BY <1>1, <1>2, <1>3, <1>4, TwoLcores DEF MbufInv, PcInv, TableInv
  <2>4. TrafficInv'
    BY <1>1, <1>2, <1>3, <1>4, <1>5, TwoLcores DEF MbufInv, PcInv, TrafficInv
  <2> QED  BY <2>1, <2>2, <2>3, <2>4 DEF PcInv
<1>8. \A e \in Entries : (Pend(e) <=> e <= len) /\ (Pend(e)' <=> e <= len + 1)
  BY <1>1, <1>2, <1>3, <1>4, TwoLcores DEF Pend, Entries
<1>9. /\ len + 1 \in Entries /\ table'[len + 1] = m[t]
      /\ \A e \in Entries : e <= len => table'[e] = table[e]
  BY <1>1, <1>3, <1>4 DEF Entries
<1>10. ASSUME NEW b \in Bufs
       PROVE  /\ InTable(b)' <=> InTable(b) \/ b = m[t]
              /\ InPlace(b)' = InPlace(b) /\ ~InHand(b)' /\ InHand(m[t])
              /\ InBurst(b)' <=> InBurst(b)
  <2>1. InTable(b)' <=> InTable(b) \/ b = m[t]
    BY <1>4, <1>8, <1>9 DEF InTable, Entries
  <2>2. ~InHand(b)' /\ InHand(m[t])
    BY <1>1, <1>2, <1>3 DEF InHand, Queues
  <2> QED  BY <1>1, <2>1, <2>2 DEF InPlace, InBurst
<1>11. OwnInv'
  <2>1. ASSUME NEW b \in Bufs, OneOf(b) PROVE OneOf(b)'
    <3>1. \A e, f \in Entries : (Pend(e) /\ Pend(f) /\ table[e] = b /\ table[f] = b => e = f)'
      <4>1. CASE b = m[t]
        <5>1. ~InTable(b)
          BY <1>10, <2>1, <4>1 DEF OneOf
        <5> QED  BY <1>4, <1>8, <1>9, <4>1, <5>1 DEF InTable, Entries
      <4>2. CASE b # m[t]
        BY <1>4, <1>8, <1>9, <2>1, <4>2 DEF OneOf, Entries
      <4> QED  BY <4>1, <4>2
    <3> QED  BY <1>1, <1>10, <2>1, <3>1 DEF OneOf
  <2> QED  BY <1>1, <2>1 DEF MbufInv, OwnInv, Tracked
<1>12. KeptInv'
  BY <1>10 DEF MbufInv, KeptInv, KeptOf
<1> QED  BY <1>6, <1>7, <1>11, <1>12 DEF MbufInv

(* A free mbuf of special_mp comes into the lcore's hand.                  *)
LEMMA SendSpecialStep ==
  ASSUME MbufInv, SendSpecial
  PROVE  MbufInv'
<1>1. /\ pc["tx"] = "special" /\ todo' \in Nat
      /\ UNCHANGED <<dev, table, len, txBurst, role, input, requests, flush>>
      /\ UNCHANGED <<i, ptr, cnt, burst, seen, ncmd, reused>>
  BY DEF SendSpecial, At, tab, flags, rx, MbufInv, TypeOK
<1>2. pc["rx"] = "idle"
  BY <1>1, Busy, TwoLcores
<1>3. /\ pc \in [Lcores -> LcorePc] /\ back \in [Lcores -> LcorePc]
      /\ m \in [Lcores -> Bufs \cup {NoBuf}]
      /\ pool \in [Bufs -> Nat] /\ dev \in [Bufs -> Nat]
  BY DEF MbufInv, TypeOK
<1>4. CASE Free(SpecialBufs) = << >>
  <2>1. UNCHANGED <<pool, m, back, pc>>
    BY <1>4 DEF SendSpecial
  <2>2. TypeOK'
    BY <1>1, <2>1 DEF MbufInv, TypeOK
  <2>3. PcInv'
    BY <1>1, <2>1 DEF MbufInv, PcInv, ControlInv, BurstInv, TableInv, TrafficInv
  <2>4. OwnInv' /\ KeptInv'
    BY <1>1, <2>1, Same DEF Pend, InHand
  <2> QED  BY <2>2, <2>3, <2>4 DEF MbufInv
<1>5. CASE Free(SpecialBufs) # << >>
  <2> DEFINE s == Free(SpecialBufs)[1]
  <2>1. /\ pool' = Less(pool, {s}) /\ m' = [m EXCEPT !["tx"] = s]
        /\ back' = [back EXCEPT !["tx"] = "flag"]
        /\ pc' = [pc EXCEPT !["tx"] = "queue"]
    BY <1>5 DEF SendSpecial, Goto
  <2>2. s \in SpecialBufs /\ pool[s] > 0 /\ s \in Bufs
    <3>1. SpecialBufs \in SUBSET Bufs
      BY DEF Bufs
    <3>2. 1 \in 1..Len(Free(SpecialBufs))
      BY <1>3, <1>5, <3>1, FreeFacts, EmptySeq
    <3> QED  BY <1>3, <3>1, <3>2, FreeFacts
  <2> HIDE DEF s
  <2>3. /\ pool' \in [Bufs -> Nat]
        /\ \A b \in Bufs : pool'[b] = IF b = s THEN pool[b] - 1 ELSE pool[b]
    BY <1>3, <2>1, <2>2, LessFacts
  <2>4. TypeOK'
    BY <1>1, <1>3, <2>1, <2>2, <2>3 DEF MbufInv, TypeOK, LcorePc
  <2>5. PcInv'
    <3>1. ControlInv' /\ BurstInv'
      BY <1>1, <1>2, <1>3, <2>1, <2>2, TwoLcores
         DEF MbufInv, PcInv, ControlInv, BurstInv, Queues, Sending, Own
    <3>2. TableInv' /\ TrafficInv'
      BY <1>1, <1>2, <1>3, <2>1, TwoLcores DEF MbufInv, PcInv, TableInv, TrafficInv
    <3> QED  BY <3>1, <3>2 DEF PcInv
  <2>6. \A e \in Entries : Pend(e)' <=> Pend(e)
    BY <1>1, <1>2, <1>3, <2>1, TwoLcores DEF Pend
  <2>7. \A b \in Bufs : /\ InTable(b)' <=> InTable(b)
                        /\ InBurst(b)' <=> InBurst(b)
                        /\ InHand(b)' <=> b = s
                        /\ InPlace(b) \in Nat
                        /\ InPlace(b)' = IF b = s THEN InPlace(b) - 1 ELSE InPlace(b)
    BY <1>1, <1>2, <1>3, <2>1, <2>2, <2>3, <2>6, TwoLcores
       DEF InTable, InBurst, InHand, InPlace, Queues
  <2>8. InPlace(s) > 0
    BY <1>3, <2>2 DEF InPlace
  <2>9. OwnInv'
    <3>1. ASSUME NEW b \in Bufs, OneOf(b) PROVE OneOf(b)'
      BY <1>1, <2>6, <2>7, <2>8, <3>1 DEF OneOf
    <3> QED  BY <1>1, <3>1 DEF MbufInv, OwnInv, Tracked
  <2>10. KeptInv'
    BY <2>2, <2>7, MbufAssumption DEF MbufInv, KeptInv, KeptOf
  <2> QED  BY <2>4, <2>5, <2>9, <2>10 DEF MbufInv
<1> QED  BY <1>4, <1>5

(* The traffic's burst overwrites the table from its start.                *)
LEMMA AllocBulkStep ==
  ASSUME Steady, MbufInv, NEW k \in 1..TableSize, AllocBulk(k)
  PROVE  MbufInv'
<1> DEFINE bulk == SubSeq(Free(TxBufs), 1, k)
<1>1. /\ pc["tx"] = "alloc" /\ pc' = [pc EXCEPT !["tx"] = "fill"]
      /\ i' = [i EXCEPT !["tx"] = k]
      /\ Forever => k = txBurst
      /\ UNCHANGED <<dev, len, txBurst, role, input, requests, flush>>
      /\ UNCHANGED <<m, back, ptr, cnt, burst, seen, todo, ncmd, reused>>
  BY DEF AllocBulk, At, Goto, flags, rx
<1>2. pc["rx"] = "idle"
  BY <1>1, Busy, TwoLcores
<1>3. /\ pc \in [Lcores -> LcorePc] /\ i \in [Lcores -> 0..TableSize+1]
      /\ pool \in [Bufs -> Nat] /\ dev \in [Bufs -> Nat]
      /\ table \in [1..TableSize+1 -> Bufs \cup {NoBuf}]
      /\ TableSize \in Nat \ {0} /\ k \in Nat /\ len \in Nat
  BY MbufAssumption DEF MbufInv, TypeOK
<1>4. /\ DOMAIN bulk = 1..k
      /\ \A x \in 1..k : bulk[x] \in TxBufs /\ pool[bulk[x]] > 0
      /\ \A x, y \in 1..k : bulk[x] = bulk[y] => x = y
      /\ \A b : b \in ToSet(bulk) <=> \E x \in 1..k : bulk[x] = b
  <2>1. TxBufs \in SUBSET Bufs
    BY DEF Bufs
  <2>2. k <= Len(Free(TxBufs))
    BY DEF AllocBulk
  <2>3. bulk = SubSeq(Free(TxBufs), 1, k)
    OBVIOUS
  <2>4. k \in Nat /\ pool \in [Bufs -> Nat]
    BY <1>3
  <2> HIDE DEF bulk
  <2>5. bulk \in Seq(TxBufs) /\ Len(bulk) = k /\ DOMAIN bulk = 1..k
    BY <2>1, <2>2, <2>3, <2>4, BulkFacts
  <2>6. \A x \in 1..k : bulk[x] \in TxBufs /\ pool[bulk[x]] > 0
    BY <2>1, <2>2, <2>3, <2>4, BulkFacts
  <2>7. \A x, y \in 1..k : bulk[x] = bulk[y] => x = y
    BY <2>1, <2>2, <2>3, <2>4, BulkFacts
  <2>8. \A b : b \in ToSet(bulk) <=> \E x \in 1..k : bulk[x] = b
    BY <2>5 DEF ToSet
  <2> QED  BY <2>5, <2>6, <2>7, <2>8
<1>5. /\ pool' = Less(pool, ToSet(bulk))
      /\ table' = [e \in 1..TableSize+1 |-> IF e <= k THEN bulk[e] ELSE table[e]]
  BY <1>3 DEF AllocBulk
<1> HIDE DEF bulk
<1>6. TxBufs \subseteq Bufs
  BY DEF Bufs
<1> DEFINE Taken(b) == \E x \in 1..k : bulk[x] = b
<1>7. /\ pool' \in [Bufs -> Nat]
      /\ \A b \in Bufs : pool'[b] = IF Taken(b) THEN pool[b] - 1 ELSE pool[b]
  <2>1. \A b \in Bufs : b \in ToSet(bulk) => pool[b] > 0
    BY <1>4
  <2>2. /\ pool' \in [Bufs -> Nat]
        /\ \A b \in Bufs : pool'[b] = IF b \in ToSet(bulk) THEN pool[b] - 1 ELSE pool[b]
    BY <1>3, <1>5, <2>1, LessFacts
  <2>3. \A b \in Bufs : b \in ToSet(bulk) <=> Taken(b)
    BY <1>4
  <2> QED  BY <2>2, <2>3
<1>8. table' \in [1..TableSize+1 -> Bufs \cup {NoBuf}]
  BY <1>3, <1>4, <1>5, <1>6
<1>9. TypeOK'
  <2>1. k \in 0..TableSize+1
    BY <1>3
  <2>2. i' \in [Lcores -> 0..TableSize+1]
    BY <1>1, <1>3, <2>1
  <2>3. pc' \in [Lcores -> LcorePc]
    BY <1>1, <1>3 DEF LcorePc
  <2> QED  BY <1>1, <1>7, <1>8, <2>2, <2>3 DEF MbufInv, TypeOK
<1>10. /\ \A e \in 1..k : table'[e] = bulk[e] /\ table'[e] \in TxBufs
       /\ \A e \in Entries : e > k => table'[e] = table[e]
       /\ \A e \in 1..k : e \in Entries
  BY <1>3, <1>4, <1>5 DEF Entries
<1>10a. ASSUME NEW b, ~Taken(b), NEW e \in Entries, table'[e] = b
       PROVE  e > k
  <2>1. e \notin 1..k
    BY <1>10, <1>10a
  <2> HIDE DEF Taken
  <2> QED  BY <1>3, <2>1 DEF Entries
<1>11. \A e \in Entries : /\ Pend(e) <=> e <= len
                          /\ Pend(e)' <=> e <= len \/ e <= k
  BY <1>1, <1>2, <1>3, TwoLcores DEF Pend, Entries
<1>12. \A e \in 1..len : table[e] \notin TxBufs /\ e \in Entries
  BY <1>1, <1>2, <1>3 DEF MbufInv, PcInv, TrafficInv, TableInv, Entries
<1>13. PcInv'
  <2>1. ControlInv' /\ BurstInv'
    BY <1>1, <1>2, <1>3, TwoLcores DEF MbufInv, PcInv, ControlInv, BurstInv, Queues, Sending
  <2>2. TableInv'
    BY <1>1, <1>2, <1>3, TwoLcores DEF MbufInv, PcInv, TableInv
  <2>3. TrafficInv'
    BY <1>1, <1>3, <1>10, <1>12, TwoLcores, SMTT(30) DEF TrafficInv, Entries
  <2> QED  BY <2>1, <2>2, <2>3 DEF PcInv
<1>14. ASSUME NEW b \in Bufs
       PROVE  /\ InPlace(b) \in Nat
              /\ Taken(b) => InPlace(b) > 0
              /\ InPlace(b)' = IF Taken(b) THEN InPlace(b) - 1 ELSE InPlace(b)
              /\ InBurst(b)' <=> InBurst(b)
              /\ ~InHand(b)'
              /\ Taken(b) => InTable(b)'
              /\ ~Taken(b) => (InTable(b)' => InTable(b))
  <2>1. Taken(b) => pool[b] > 0
    BY <1>4
  <2>2. /\ InPlace(b) \in Nat
        /\ Taken(b) => InPlace(b) > 0
        /\ InPlace(b)' = IF Taken(b) THEN InPlace(b) - 1 ELSE InPlace(b)
    <3>1. pool[b] \in Nat /\ dev[b] \in Nat /\ dev'[b] = dev[b]
      BY <1>1, <1>3
    <3>2. pool'[b] = IF Taken(b) THEN pool[b] - 1 ELSE pool[b]
      BY <1>7
    <3> HIDE DEF Taken
    <3> QED  BY <2>1, <3>1, <3>2 DEF InPlace
  <2>3. (InBurst(b)' <=> InBurst(b)) /\ ~InHand(b)'
    BY <1>1, <1>2, <1>3, TwoLcores DEF InBurst, InHand, Queues
  <2>4. Taken(b) => InTable(b)'
    <3>1. ASSUME NEW x \in 1..k, bulk[x] = b PROVE InTable(b)'
      <4>1. x \in Entries /\ table'[x] = b
        BY <1>10, <3>1
      <4>2. x <= k
        BY <1>3
      <4> QED  BY <1>11, <4>1, <4>2 DEF InTable
    <3> QED  BY <3>1
  <2>5. ~Taken(b) => (InTable(b)' => InTable(b))
    <3>1. ASSUME ~Taken(b), NEW e \in Entries, Pend(e)', table'[e] = b
          PROVE  Pend(e) /\ table[e] = b
      <4>1. e > k
        BY <1>10a, <3>1
      <4> QED  BY <1>3, <1>10, <1>11, <3>1, <4>1 DEF Entries
    <3> QED  BY <3>1 DEF InTable
  <2> QED  BY <2>2, <2>3, <2>4, <2>5
<1>15. OwnInv'
  <2>1. ASSUME NEW b \in Bufs, OneOf(b) PROVE OneOf(b)'
    <3>1. ASSUME NEW e \in Entries, NEW f \in Entries, Pend(e)', Pend(f)',
                 table'[e] = b, table'[f] = b
          PROVE  e = f
      <4>1. CASE Taken(b)
        <5>1. ~InTable(b)
          BY <1>14, <2>1, <4>1 DEF OneOf
        <5>2. e <= k /\ f <= k
          <6>1. ASSUME NEW x \in Entries, Pend(x)', table'[x] = b, ~(x <= k)
                PROVE  FALSE
            <7>1. x \in Nat /\ k \in Nat /\ x > k
              BY <1>3, <6>1 DEF Entries
            <7>2. Pend(x) /\ table[x] = b
              BY <1>10, <1>11, <6>1, <7>1
            <7> QED  BY <5>1, <7>2 DEF InTable
          <6> QED  BY <3>1, <6>1
        <5> QED  BY <1>3, <1>4, <1>10, <3>1, <5>2 DEF Entries
      <4>2. CASE ~Taken(b)
        <5>1. e > k /\ f > k
          BY <1>10a, <3>1, <4>2
        <5>2. Pend(e) /\ Pend(f) /\ table[e] = b /\ table[f] = b
          <6>1. e \in Nat /\ f \in Nat /\ k \in Nat
            BY <1>3 DEF Entries
          <6>2. Pend(e) /\ Pend(f)
            BY <1>11, <3>1, <5>1, <6>1
          <6>3. table[e] = b /\ table[f] = b
            BY <1>10, <3>1, <5>1
          <6> QED  BY <6>2, <6>3
        <5>3. \A x, y \in Entries :
                Pend(x) /\ Pend(y) /\ table[x] = b /\ table[y] = b => x = y
          BY <2>1 DEF OneOf
        <5> QED  BY <5>2, <5>3
      <4> QED  BY <4>1, <4>2
    <3> HIDE DEF Taken
    <3> QED  BY <1>1, <1>14, <2>1, <3>1 DEF OneOf
  <2> QED  BY <1>1, <2>1 DEF MbufInv, OwnInv, Tracked
<1>16. KeptInv'
  <2>1. ASSUME NEW b \in TxBufs PROVE ~InTable(b)
    BY <1>3, <1>11, <1>12, <2>1 DEF InTable, Entries
  <2>2. \A b \in RxBufs : ~Taken(b)
    BY <1>4, MbufAssumption
  <2> HIDE DEF Taken
  <2> QED  BY <1>14, <2>1, <2>2 DEF MbufInv, KeptInv, KeptOf
<1> QED  BY <1>9, <1>13, <1>15, <1>16 DEF MbufInv

(* What the device gives back and what it takes.                           *)
LEMMA HandFacts ==
  ASSUME MbufInv, NEW done \in Done, NEW S, NEW given \in Seq(S), Hand(given, done)
  PROVE  /\ pool' \in [Bufs -> Nat] /\ dev' \in [Bufs -> Nat]
         /\ \A b \in Bufs : /\ InPlace(b) \in Nat /\ Times(b, given) \in Nat
                            /\ InPlace(b)' = InPlace(b) + Times(b, given)
<1>1. /\ pool \in [Bufs -> Nat] /\ dev \in [Bufs -> Nat] /\ IsFiniteSet(Bufs)
      /\ done \in SUBSET Bufs /\ \A b \in done : dev[b] > 0
  BY MbufAssumption DEF MbufInv, TypeOK, Done
<1>2. IsFiniteSet(done)
  BY <1>1, FS_Subset
<1>3. SetToSeq(done) \in Seq(done)
  BY <1>2, SetToSeqFacts
<1>4. /\ Less(dev, done) \in [Bufs -> Nat]
      /\ \A b \in Bufs : Less(dev, done)[b] = IF b \in done THEN dev[b] - 1 ELSE dev[b]
  BY <1>1, LessFacts
<1>5. /\ dev' \in [Bufs -> Nat]
      /\ \A b \in Bufs : dev'[b] = Less(dev, done)[b] + Times(b, given)
  BY <1>4, PlusFacts DEF Hand
<1>6. /\ pool' \in [Bufs -> Nat]
      /\ \A b \in Bufs : pool'[b] = pool[b] + Times(b, SetToSeq(done))
  BY <1>1, <1>3, PlusFacts DEF Hand
<1>7. \A b \in Bufs : Times(b, given) \in Nat
  BY TimesFacts
<1>8. \A b \in Bufs : pool'[b] = pool[b] + (IF b \in done THEN 1 ELSE 0)
  BY <1>2, <1>6, TimesOfSet
<1>9. ASSUME NEW b \in Bufs
      PROVE  InPlace(b) \in Nat /\ InPlace(b)' = InPlace(b) + Times(b, given)
  <2>1. pool[b] \in Nat /\ dev[b] \in Nat /\ Times(b, given) \in Nat
    BY <1>1, <1>7
  <2>2. dev'[b] = (IF b \in done THEN dev[b] - 1 ELSE dev[b]) + Times(b, given)
    BY <1>4, <1>5
  <2>3. pool'[b] = pool[b] + (IF b \in done THEN 1 ELSE 0)
    BY <1>8
  <2>4. b \in done => dev[b] > 0
    BY <1>1
  <2> DEFINE T == Times(b, given)
  <2>5. T \in Nat /\ dev'[b] = (IF b \in done THEN dev[b] - 1 ELSE dev[b]) + T
    BY <2>1, <2>2
  <2> HIDE DEF T
  <2>6. CASE b \in done
    BY <2>1, <2>3, <2>5, <2>6 DEF InPlace, T
  <2>7. CASE b \notin done
    BY <2>1, <2>3, <2>5, <2>7 DEF InPlace, T
  <2> QED  BY <2>6, <2>7
<1> QED  BY <1>5, <1>6, <1>7, <1>9

(* The device takes the first k of the mbufs it is offered.                *)
LEMMA TxBurstStep ==
  ASSUME MbufInv, NEW t \in Lcores, NEW k \in 0..TableSize, NEW done \in Done,
         TxBurst(t, k, done)
  PROVE  MbufInv'
<1> DEFINE offered == SubSeq(table, ptr[t], ptr[t] + k - 1)
<1>1. /\ pc[t] = "call" /\ k <= cnt[t] /\ Hand(offered, done)
      /\ cnt' = [cnt EXCEPT ![t] = cnt[t] - k]
      /\ ptr' = [ptr EXCEPT ![t] = IF k = cnt[t] THEN 1 ELSE ptr[t] + k]
      /\ pc' = IF k = cnt[t] THEN [pc EXCEPT ![t] = back[t]] ELSE pc
      /\ back' = IF k = cnt[t] THEN [back EXCEPT ![t] = "idle"] ELSE back
      /\ UNCHANGED <<table, len, txBurst, role, input, requests, flush>>
      /\ UNCHANGED <<m, i, burst, seen, todo, ncmd, reused>>
  BY DEF TxBurst, At, Goto, Return, Offered, tab, flags, rx, MbufInv, TypeOK
<1>2. \A u \in Lcores : u # t => pc[u] = "idle"
  BY <1>1, Busy
<1>3. /\ pc \in [Lcores -> LcorePc] /\ back \in [Lcores -> LcorePc]
      /\ ptr \in [Lcores -> 1..TableSize+2] /\ cnt \in [Lcores -> 0..TableSize+1]
      /\ table \in [1..TableSize+1 -> Bufs \cup {NoBuf}]
      /\ TableSize \in Nat \ {0}
  BY MbufAssumption DEF MbufInv, TypeOK
<1>4. /\ len = 0 /\ cnt[t] > 0 /\ ptr[t] + cnt[t] <= TableSize + 1
      /\ back[t] \in IF t = "rx" THEN {"flag"} ELSE {"flag", "qflags", "cleanup"}
      /\ cnt[t] \in Nat /\ ptr[t] \in Nat /\ ptr[t] >= 1 /\ k \in Nat
  BY <1>1, <1>3 DEF MbufInv, PcInv, TableInv, ControlInv, Sending
<1>5. /\ offered \in Seq(Bufs \cup {NoBuf}) /\ DOMAIN offered = 1..k
      /\ \A x \in 1..k : offered[x] = table[ptr[t] + x - 1]
  <2>1. \A e \in ptr[t]..(ptr[t] + k - 1) : table[e] \in Bufs \cup {NoBuf}
    BY <1>1, <1>3, <1>4
  <2>2. /\ offered \in Seq(Bufs \cup {NoBuf}) /\ Len(offered) = k
        /\ \A x \in 1..k : offered[x] = table[ptr[t] + x - 1]
    BY <1>4, <2>1, SubSeqProperties
  <2> QED  BY <2>2, LenProperties
<1> HIDE DEF offered
<1>6. /\ pool' \in [Bufs -> Nat] /\ dev' \in [Bufs -> Nat]
      /\ \A b \in Bufs : /\ InPlace(b) \in Nat /\ Times(b, offered) \in Nat
                         /\ InPlace(b)' = InPlace(b) + Times(b, offered)
  BY <1>1, <1>5, HandFacts
<1>7. TypeOK'
  <2>1. cnt' \in [Lcores -> 0..TableSize+1] /\ ptr' \in [Lcores -> 1..TableSize+2]
    BY <1>1, <1>3, <1>4
  <2>2. pc' \in [Lcores -> LcorePc] /\ back' \in [Lcores -> LcorePc]
    BY <1>1, <1>3 DEF LcorePc
  <2> QED  BY <1>1, <1>6, <2>1, <2>2 DEF MbufInv, TypeOK
<1>8. PcInv'
  <2>1. ControlInv'
    BY <1>1, <1>2, <1>3, <1>4, TwoLcores DEF MbufInv, PcInv, ControlInv, Queues, Sending
  <2>2. BurstInv'
    BY <1>1, <1>2, <1>3, <1>4, TwoLcores DEF MbufInv, PcInv, BurstInv, Queues, Sending
  <2>3. TableInv'
    BY <1>1, <1>2, <1>3, <1>4, TwoLcores, SMTT(20) DEF MbufInv, PcInv, TableInv
  <2>4. TrafficInv'
    BY <1>1, <1>4 DEF TrafficInv
  <2> QED  BY <2>1, <2>2, <2>3, <2>4 DEF PcInv
<1>9. \A e \in Entries :
        /\ Pend(e) <=> ptr[t] <= e /\ e < ptr[t] + cnt[t]
        /\ Pend(e)' <=> ptr[t] + k <= e /\ e < ptr[t] + cnt[t]
  <2>1. ASSUME NEW e \in Entries
        PROVE  Pend(e) <=> ptr[t] <= e /\ e < ptr[t] + cnt[t]
    BY <1>1, <1>2, <1>4, TwoLcores DEF Pend, Entries
  <2>2. ASSUME NEW e \in Entries
        PROVE  Pend(e)' <=> ptr[t] + k <= e /\ e < ptr[t] + cnt[t]
    <3>1. CASE k = cnt[t]
      <4>1. pc'["tx"] # "fill" /\ \A u \in Lcores : pc'[u] # "call"
        BY <1>1, <1>2, <1>3, <1>4, <3>1, TwoLcores
      <4>2. ~Pend(e)'
        BY <1>1, <1>4, <4>1 DEF Pend, Entries
      <4> QED  BY <1>4, <3>1, <4>2 DEF Entries
    <3>2. CASE k # cnt[t]
      <4>1. pc' = pc /\ ptr'[t] = ptr[t] + k /\ cnt'[t] = cnt[t] - k
        BY <1>1, <1>3, <3>2
      <4>2. Pend(e)' <=> ptr'[t] <= e /\ e < ptr'[t] + cnt'[t]
        BY <1>1, <1>2, <1>4, <4>1, TwoLcores DEF Pend, Entries
      <4> QED  BY <1>4, <4>1, <4>2 DEF Entries
    <3> QED  BY <3>1, <3>2
  <2> QED  BY <2>1, <2>2
<1>9a. ASSUME NEW x \in 1..k
       PROVE  ptr[t] + x - 1 \in Entries /\ Pend(ptr[t] + x - 1)
  <2> DEFINE p == ptr[t]
             c == cnt[t]
             e == ptr[t] + x - 1
  <2>1. p \in Nat /\ c \in Nat /\ p >= 1 /\ k <= c /\ p + c <= TableSize + 1 /\ e = p + x - 1
    BY <1>1, <1>4
  <2>2. \A f \in Entries : p <= f /\ f < p + c => Pend(f)
    BY <1>9
  <2> HIDE DEF p, c, e
  <2>3. e \in Entries /\ p <= e /\ e < p + c
    BY <1>3, <1>4, <2>1 DEF Entries
  <2>4. e \in Entries /\ Pend(e)
    BY <2>2, <2>3
  <2> QED  BY <2>4 DEF e
<1> DEFINE Sent(b) == \E e \in Entries : Pend(e) /\ e < ptr[t] + k /\ table[e] = b
<1>10. \A b \in Bufs : Sent(b) <=> \E x \in DOMAIN offered : offered[x] = b
  <2>1. ASSUME NEW b, NEW e \in Entries, Pend(e), e < ptr[t] + k, table[e] = b
        PROVE  \E x \in DOMAIN offered : offered[x] = b
    <3>1. e - ptr[t] + 1 \in 1..k /\ ptr[t] + (e - ptr[t] + 1) - 1 = e
      BY <1>4, <1>9, <2>1 DEF Entries
    <3> QED  BY <1>5, <2>1, <3>1
  <2>2. ASSUME NEW b, NEW x \in 1..k, offered[x] = b
        PROVE  Sent(b)
    <3>1. ptr[t] + x - 1 \in Entries /\ Pend(ptr[t] + x - 1) /\ ptr[t] + x - 1 < ptr[t] + k
      BY <1>4, <1>9a
    <3> QED  BY <1>5, <2>2, <3>1
  <2> QED  BY <1>5, <2>1, <2>2
<1>11. \A b \in Bufs : /\ Sent(b) => InTable(b) /\ Times(b, offered) >= 1
                       /\ ~Sent(b) => Times(b, offered) = 0
  BY <1>5, <1>10, TimesFacts DEF InTable
<1>12. \A b \in Bufs : /\ ~InHand(b)'
                       /\ InBurst(b)' <=> InBurst(b)
                       /\ InTable(b)' => InTable(b)
                       /\ InTable(b) => InTable(b)' \/ Sent(b)
  <2>1. \A b \in Bufs : ~InHand(b)'
    BY <1>1, <1>2, <1>3, <1>4 DEF InHand, Queues
  <2>2. \A b \in Bufs : InTable(b)' => InTable(b)
    BY <1>1, <1>4, <1>9 DEF InTable, Entries
  <2>3. \A b \in Bufs : InTable(b) => InTable(b)' \/ Sent(b)
    BY <1>1, <1>4, <1>9 DEF InTable, Entries
  <2> QED  BY <1>1, <2>1, <2>2, <2>3 DEF InBurst
<1>13. OwnInv'
  <2>1. ASSUME NEW b \in Bufs, OneOf(b) PROVE OneOf(b)'
    <3>1. \A e, f \in Entries : (Pend(e) /\ Pend(f) /\ table[e] = b /\ table[f] = b => e = f)'
      BY <1>1, <1>4, <1>9, <2>1 DEF OneOf, Entries
    <3>2. Sent(b) => Times(b, offered) <= 1
      <4>1. ASSUME NEW x \in 1..k, NEW y \in 1..k, offered[x] = b, offered[y] = b
            PROVE  x = y
        <5>1. /\ ptr[t] + x - 1 \in Entries /\ Pend(ptr[t] + x - 1)
              /\ ptr[t] + y - 1 \in Entries /\ Pend(ptr[t] + y - 1)
          BY <1>9a
        <5>2. ptr[t] + x - 1 = ptr[t] + y - 1
          BY <1>5, <2>1, <4>1, <5>1 DEF OneOf
        <5> QED  BY <1>4, <5>2
      <4> QED  BY <1>5, <4>1, TimesFacts
    <3>3. Sent(b) => ~InTable(b)'
      <4>1. ASSUME NEW e \in Entries, Pend(e), e < ptr[t] + k, table[e] = b,
                   NEW f \in Entries, Pend(f)', table[f] = b
            PROVE  FALSE
        <5>1. Pend(f) /\ f # e
          BY <1>4, <1>9, <4>1 DEF Entries
        <5> QED  BY <2>1, <4>1, <5>1 DEF OneOf
      <4> QED  BY <1>1, <4>1 DEF InTable
    <3> HIDE DEF Sent
    <3>4. CASE Sent(b)
      <4>1. InPlace(b) = 0 /\ ~InBurst(b) /\ ~InTable(b)'
        BY <1>6, <1>11, <2>1, <3>3, <3>4 DEF OneOf
      <4>2. InPlace(b)' = 1
        BY <1>6, <1>11, <3>2, <3>4, <4>1
      <4> QED  BY <1>1, <1>12, <2>1, <3>1, <4>1, <4>2 DEF OneOf
    <3>5. CASE ~Sent(b)
      <4>1. InPlace(b)' = InPlace(b)
        BY <1>6, <1>11, <3>5
      <4> QED  BY <1>1, <1>12, <2>1, <3>1, <4>1 DEF OneOf
    <3> QED  BY <3>4, <3>5
  <2> QED  BY <1>1, <2>1 DEF MbufInv, OwnInv, Tracked
<1>14. KeptInv'
  <2> HIDE DEF Sent
  <2>1. RxBufs \subseteq Bufs /\ TxBufs \subseteq Bufs
    BY DEF Bufs
  <2>2. \A b \in Bufs : /\ InPlace(b) > 0 \/ Sent(b) => InPlace(b)' > 0
    BY <1>6, <1>11
  <2> QED  BY <1>12, <2>1, <2>2 DEF MbufInv, KeptInv, KeptOf
<1> QED  BY <1>7, <1>8, <1>13, <1>14 DEF MbufInv

LEMMA FlushDoneStep ==
  ASSUME MbufInv, NEW done \in Done, FlushDone(done)
  PROVE  MbufInv'
<1>1. /\ pc["tx"] = "cleanup" /\ Hand(<< >>, done) /\ flush' = FALSE
      /\ pc' = [pc EXCEPT !["tx"] = "idle"]
      /\ UNCHANGED <<table, len, txBurst, role, input, requests>>
      /\ UNCHANGED <<back, m, ptr, i, cnt, burst, seen, todo, ncmd, reused>>
  BY DEF FlushDone, At, Goto, tab, locals, rx
<1>2. pc["rx"] = "idle"
  BY <1>1, Busy, TwoLcores
<1>3. pc \in [Lcores -> LcorePc]
  BY DEF MbufInv, TypeOK
<1>4. /\ pool' \in [Bufs -> Nat] /\ dev' \in [Bufs -> Nat]
      /\ \A b \in Bufs : InPlace(b)' = InPlace(b)
  <2>1. << >> \in Seq({})
    BY EmptySeq
  <2>2. /\ pool' \in [Bufs -> Nat] /\ dev' \in [Bufs -> Nat]
        /\ \A b \in Bufs : /\ InPlace(b) \in Nat
                           /\ InPlace(b)' = InPlace(b) + Times(b, << >>)
    BY <1>1, <2>1, HandFacts
  <2> QED  BY <2>2, TimesNone
<1>5. TypeOK'
  BY <1>1, <1>3, <1>4 DEF MbufInv, TypeOK, LcorePc
<1>6. PcInv'
  <2>1. ControlInv' /\ BurstInv'
    BY <1>1, <1>2, <1>3, TwoLcores DEF MbufInv, PcInv, ControlInv, BurstInv, Queues, Sending
  <2>2. TableInv' /\ TrafficInv'
    BY <1>1, <1>2, <1>3, TwoLcores DEF MbufInv, PcInv, TableInv, TrafficInv
  <2> QED  BY <2>1, <2>2 DEF PcInv
<1>7. OwnInv' /\ KeptInv'
  <2>1. \A e \in Entries : Pend(e)' <=> Pend(e)
    BY <1>1, <1>2, <1>3, TwoLcores DEF Pend
  <2>2. \A b \in Bufs : InHand(b)' => InHand(b)
    BY <1>1, <1>2, <1>3, TwoLcores DEF InHand, Queues
  <2> QED  BY <1>1, <1>4, <2>1, <2>2, SamePlaces
<1> QED  BY <1>5, <1>6, <1>7 DEF MbufInv
-----------------------------------------------------------------------------
(***************************************************************************)
(* The steps of the lcore that receives.                                   *)
(***************************************************************************)
(* Free mbufs of rx_mp become the burst.                                   *)
LEMMA ReceiveStep ==
  ASSUME Steady, MbufInv, Receive
  PROVE  MbufInv'
<1>1. /\ pc["rx"] = "idle" /\ pc["tx"] = "idle"
      /\ pc' = [pc EXCEPT !["rx"] = "classify"] /\ seen' = 0
      /\ UNCHANGED <<dev, table, len, txBurst, role, input, requests, flush>>
      /\ UNCHANGED <<back, m, i, ptr, cnt, todo, ncmd, reused>>
  BY TwoLcores DEF Receive, Turn, At, Goto, Steady, tab, flags, locals
<1>2. PICK k \in 1..txBurst : /\ k <= Len(Free(RxBufs))
                              /\ burst' = SubSeq(Free(RxBufs), 1, k)
                              /\ pool' = Less(pool, ToSet(burst'))
  BY DEF Receive
<1>3. /\ pc \in [Lcores -> LcorePc] /\ TableSize \in Nat /\ txBurst \in 1..TableSize
      /\ pool \in [Bufs -> Nat] /\ dev \in [Bufs -> Nat]
  BY MbufAssumption DEF MbufInv, TypeOK
<1>4. k \in Nat /\ k <= TableSize
  BY <1>3
<1>5. RxBufs \in SUBSET Bufs
  BY DEF Bufs
<1>6. /\ burst' \in Seq(RxBufs) /\ Len(burst') = k /\ DOMAIN burst' = 1..k
      /\ \A x \in 1..k : burst'[x] \in RxBufs /\ pool[burst'[x]] > 0
      /\ \A x, y \in 1..k : burst'[x] = burst'[y] => x = y
  <2> DEFINE s == burst'
  <2>1. s = SubSeq(Free(RxBufs), 1, k) /\ k <= Len(Free(RxBufs))
    BY <1>2
  <2> HIDE DEF s
  <2>2. k \in Nat /\ pool \in [Bufs -> Nat]
    BY <1>3, <1>4
  <2>3. k <= Len(Free(RxBufs))
    BY <2>1
  <2>4. s = SubSeq(Free(RxBufs), 1, k)
    BY <2>1
  <2>5. s \in Seq(RxBufs) /\ Len(s) = k /\ DOMAIN s = 1..k
    BY <1>5, <2>2, <2>3, <2>4, BulkFacts
  <2>6. \A x \in 1..k : s[x] \in RxBufs /\ pool[s[x]] > 0
    BY <1>5, <2>2, <2>3, <2>4, BulkFacts
  <2>7. \A x, y \in 1..k : s[x] = s[y] => x = y
    BY <1>5, <2>2, <2>3, <2>4, BulkFacts, SMTT(60)
  <2> QED  BY <2>5, <2>6, <2>7 DEF s
<1>7. \A b : b \in ToSet(burst') <=> InBurst(b)'
  BY DEF ToSet, InBurst
<1>8. \A b \in Bufs : InBurst(b)' => pool[b] > 0 /\ b \in RxBufs
  BY <1>6 DEF InBurst
<1>9. /\ pool' \in [Bufs -> Nat]
      /\ \A b \in Bufs : pool'[b] = IF InBurst(b)' THEN pool[b] - 1 ELSE pool[b]
  BY <1>2, <1>3, <1>7, <1>8, LessFacts
<1>10. \A b : ~InBurst(b) /\ ~InHand(b) /\ ~InHand(b)'
  <2>1. DOMAIN burst = {}
    BY <1>1, EmptySeq DEF MbufInv, PcInv, BurstInv
  <2> QED  BY <1>1, <1>3, <2>1, TwoLcores DEF InBurst, InHand, Queues
<1>11. TypeOK'
  <2>1. pc' \in [Lcores -> LcorePc]
    BY <1>1, <1>3 DEF LcorePc
  <2>2. seen' \in 0..TableSize
    BY <1>1, <1>3
  <2> QED  BY <1>1, <1>6, <1>9, <2>1, <2>2 DEF MbufInv, TypeOK
<1>12. PcInv'
  <2>1. ControlInv'
    <3>1. pc'["rx"] = "classify" /\ pc'["tx"] = "idle" /\ txBurst' \in Bursts
      BY <1>1, <1>3, TwoLcores DEF MbufInv, PcInv, ControlInv
    <3>2. \A t \in Lcores : pc'[t] \notin Queues /\ pc'[t] \notin Sending
      BY <3>1, TwoLcores DEF Queues, Sending
    <3> QED  BY <3>1, <3>2 DEF ControlInv
  <2>2. BurstInv'
    <3>1. pc'["rx"] = "classify" /\ seen' = 0 /\ Len(burst') = k
      BY <1>1, <1>3, <1>6, TwoLcores
    <3> QED  BY <1>3, <1>4, <3>1 DEF BurstInv, Queues, Sending
  <2>3. TableInv' /\ TrafficInv'
    BY <1>1, <1>3, TwoLcores DEF MbufInv, PcInv, TableInv, TrafficInv
  <2> QED  BY <2>1, <2>2, <2>3 DEF PcInv
<1>13. \A e \in Entries : Pend(e)' <=> Pend(e)
  BY <1>1, <1>3, TwoLcores DEF Pend
<1>14. \A b \in Bufs : InTable(b)' <=> InTable(b)
  BY <1>1, <1>13 DEF InTable
<1>15. ASSUME NEW b \in Bufs
       PROVE  /\ InPlace(b) \in Nat
              /\ InBurst(b)' => InPlace(b) > 0
              /\ InPlace(b)' = IF InBurst(b)' THEN InPlace(b) - 1 ELSE InPlace(b)
  <2>1. pool[b] \in Nat /\ dev[b] \in Nat /\ dev'[b] = dev[b]
    BY <1>1, <1>3
  <2> QED  BY <1>8, <1>9, <2>1 DEF InPlace
<1>16. OwnInv'
  <2>1. ASSUME NEW b \in Bufs, OneOf(b) PROVE OneOf(b)'
    <3>1. \A x, y \in DOMAIN burst' : burst'[x] = b /\ burst'[y] = b => x = y
      BY <1>6
    <3>2. \A e, f \in Entries : (Pend(e) /\ Pend(f) /\ table[e] = b /\ table[f] = b => e = f)'
      BY <1>1, <1>13, <2>1 DEF OneOf
    <3>3. InPlace(b) <= 1 /\ (InPlace(b) = 1 => ~InTable(b))
      BY <2>1 DEF OneOf
    <3>4. /\ InPlace(b)' <= 1
          /\ InBurst(b)' => InPlace(b)' = 0 /\ ~InTable(b)'
          /\ InPlace(b)' = 1 => ~InTable(b)'
      BY <1>14, <1>15, <3>3
    <3>5. InPlace(b)' = 1 => ~InBurst(b)'
      BY <3>4
    <3> QED  BY <1>10, <3>1, <3>2, <3>4, <3>5 DEF OneOf
  <2> QED  BY <1>1, <2>1 DEF MbufInv, OwnInv, Tracked
<1>17. KeptInv'
  <2>1. ASSUME NEW b \in Bufs PROVE KeptOf(b)'
    <3>1. b \in TxBufs => ~InBurst(b)'
      BY <1>8, MbufAssumption
    <3>2. KeptOf(b)
      BY DEF MbufInv, KeptInv
    <3> QED  BY <1>10, <1>14, <1>15, <3>1, <3>2 DEF KeptOf
  <2> QED  BY <2>1 DEF KeptInv
<1> QED  BY <1>11, <1>12, <1>16, <1>17 DEF MbufInv

(* A reply has its mbuf in the table and in the burst at once: from then   *)
(* on nothing is claimed of the mbufs of rx_mp but that they are kept.     *)
LEMMA ReplyStep ==
  ASSUME MbufInv, Reply
  PROVE  MbufInv'
<1>1. /\ pc["rx"] = "classify" /\ seen < Len(burst)
      /\ reused < MaxReuses /\ reused' = reused + 1
      /\ m' = [m EXCEPT !["rx"] = burst[seen + 1]]
      /\ back' = [back EXCEPT !["rx"] = "flag"] /\ pc' = [pc EXCEPT !["rx"] = "queue"]
      /\ UNCHANGED <<pool, dev, table, len, txBurst, role, input, requests, flush>>
      /\ UNCHANGED <<i, ptr, cnt, burst, seen, todo, ncmd>>
  BY DEF Reply, At, Goto, mem, tab, flags, rx
<1>2. pc["tx"] = "idle"
  BY <1>1, Busy, TwoLcores
<1>3. /\ pc \in [Lcores -> LcorePc] /\ back \in [Lcores -> LcorePc]
      /\ m \in [Lcores -> Bufs \cup {NoBuf}] /\ reused \in 0..MaxReuses
      /\ burst \in Seq(RxBufs) /\ seen \in Nat /\ MaxReuses \in Nat
  BY MbufAssumption DEF MbufInv, TypeOK
<1>4. burst[seen + 1] \in RxBufs /\ RxBufs \subseteq Bufs
  <2>1. burst \in [1..Len(burst) -> RxBufs] /\ Len(burst) \in Nat
    BY <1>3, LenProperties
  <2>2. seen + 1 \in 1..Len(burst)
    BY <1>1, <1>3, <2>1
  <2> QED  BY <2>1, <2>2 DEF Bufs
<1>5. TypeOK'
  <2>1. pc' \in [Lcores -> LcorePc] /\ back' \in [Lcores -> LcorePc]
    BY <1>1, <1>3 DEF LcorePc
  <2>2. m' \in [Lcores -> Bufs \cup {NoBuf}]
    BY <1>1, <1>3, <1>4
  <2>3. reused' \in 0..MaxReuses
    BY <1>1, <1>3
  <2> QED  BY <1>1, <2>1, <2>2, <2>3 DEF MbufInv, TypeOK
<1>6. PcInv'
  <2>1. ControlInv'
    BY <1>1, <1>2, <1>3, <1>4, TwoLcores
       DEF MbufInv, PcInv, ControlInv, Queues, Sending, Own
  <2>2. BurstInv'
    BY <1>1, <1>2, <1>3, TwoLcores DEF MbufInv, PcInv, BurstInv
  <2>3. TableInv' /\ TrafficInv'
    BY <1>1, <1>2, <1>3, TwoLcores DEF MbufInv, PcInv, TableInv, TrafficInv
  <2> QED  BY <2>1, <2>2, <2>3 DEF PcInv
<1>7. \A e \in Entries : Pend(e)' <=> Pend(e)
  BY <1>1, <1>2, <1>3, TwoLcores DEF Pend
<1>8. \A b : /\ InPlace(b)' = InPlace(b)
             /\ InTable(b)' <=> InTable(b)
             /\ InBurst(b)' <=> InBurst(b)
  BY <1>1, <1>7 DEF InPlace, InTable, InBurst
<1>9. \A b : b \notin RxBufs => ~InHand(b)'
  BY <1>1, <1>2, <1>3, <1>4, TwoLcores DEF InHand, Queues
<1>10. OwnInv'
  <2>1. ASSUME NEW b \in Bufs, b \notin RxBufs PROVE OneOf(b)'
    <3>1. OneOf(b)
      BY <2>1 DEF MbufInv, OwnInv, Tracked
    <3> QED  BY <1>1, <1>7, <1>8, <1>9, <2>1, <3>1 DEF OneOf
  <2>2. \A b \in Bufs : Tracked(b)' => b \notin RxBufs
    BY <1>1, <1>3 DEF Tracked
  <2> QED  BY <2>1, <2>2 DEF OwnInv
<1>11. KeptInv'
  BY <1>8 DEF MbufInv, KeptInv, KeptOf
<1> QED  BY <1>5, <1>6, <1>10, <1>11 DEF MbufInv

(* The burst leaves the lcore, each of its mbufs to a place at least: to   *)
(* one place, unless it was handed over and freed too.                     *)
LEMMA BurstGone ==
  ASSUME MbufInv, pc["rx"] = "classify", pc' = [pc EXCEPT !["rx"] = "idle"],
         burst' = << >>, seen' = 0, reused' \in 0..MaxReuses, reused' = 0 => reused = 0,
         UNCHANGED <<table, len, txBurst, role, input, requests, flush, back, m, i>>,
         UNCHANGED <<ptr, cnt, todo, ncmd>>,
         pool' \in [Bufs -> Nat], dev' \in [Bufs -> Nat],
         \A b \in Bufs : InPlace(b)' >= InPlace(b) + Times(b, burst),
         \A b \in Bufs : Tracked(b)' => InPlace(b)' = InPlace(b) + Times(b, burst)
  PROVE  MbufInv'
<1>1. pc["tx"] = "idle"
  BY Busy, TwoLcores
<1>2. /\ pc \in [Lcores -> LcorePc] /\ TableSize \in Nat /\ burst \in Seq(RxBufs)
      /\ pool \in [Bufs -> Nat] /\ dev \in [Bufs -> Nat]
  BY MbufAssumption DEF MbufInv, TypeOK
<1>3. burst' \in Seq(RxBufs) /\ Len(burst') = 0 /\ DOMAIN burst' = {}
  BY EmptySeq
<1>4. TypeOK'
  <2>1. pc' \in [Lcores -> LcorePc]
    BY <1>2 DEF LcorePc
  <2>2. seen' \in 0..TableSize
    BY <1>2
  <2> QED  BY <1>3, <2>1, <2>2 DEF MbufInv, TypeOK
<1>5. PcInv'
  <2>1. ControlInv'
    BY <1>1, <1>2, TwoLcores DEF MbufInv, PcInv, ControlInv, Queues, Sending
  <2>2. BurstInv'
    BY <1>1, <1>2, <1>3, TwoLcores DEF BurstInv, Queues, Sending
  <2>3. TableInv' /\ TrafficInv'
    BY <1>1, <1>2, TwoLcores DEF MbufInv, PcInv, TableInv, TrafficInv
  <2> QED  BY <2>1, <2>2, <2>3 DEF PcInv
<1>6. \A e \in Entries : Pend(e)' <=> Pend(e)
  BY <1>1, <1>2, TwoLcores DEF Pend
<1>7. \A b : (InTable(b)' <=> InTable(b)) /\ ~InBurst(b)' /\ ~InHand(b)'
  BY <1>1, <1>2, <1>3, <1>6, TwoLcores DEF InTable, InBurst, InHand, Queues
<1>8. ASSUME NEW b \in Bufs
      PROVE  /\ InPlace(b) \in Nat /\ Times(b, burst) \in Nat
             /\ InBurst(b) => Times(b, burst) >= 1
             /\ ~InBurst(b) => Times(b, burst) = 0
             /\ (\A x, y \in DOMAIN burst : burst[x] = b /\ burst[y] = b => x = y)
                  => Times(b, burst) <= 1
  <2>1. InPlace(b) \in Nat
    BY <1>2 DEF InPlace
  <2> QED  BY <1>2, <2>1, TimesFacts DEF InBurst
<1>9. OwnInv'
  <2>1. ASSUME NEW b \in Bufs, OneOf(b), InPlace(b)' = InPlace(b) + Times(b, burst)
        PROVE  OneOf(b)'
    <3>1. \A e, f \in Entries : (Pend(e) /\ Pend(f) /\ table[e] = b /\ table[f] = b => e = f)'
      BY <1>6, <2>1 DEF OneOf
    <3>2. /\ InPlace(b) <= 1 /\ Times(b, burst) <= 1
          /\ InPlace(b) = 1 => ~InTable(b)
          /\ InPlace(b) = 1 => ~InBurst(b)
          /\ InBurst(b) => ~InTable(b)
      BY <1>8, <2>1 DEF OneOf
    <3>3. /\ InPlace(b)' <= 1
          /\ InPlace(b)' = 1 => ~InTable(b)
      BY <1>8, <2>1, <3>2
    <3> QED  BY <1>3, <1>7, <3>1, <3>3 DEF OneOf
  <2>2. \A b \in Bufs : Tracked(b)' => Tracked(b)
    BY DEF Tracked
  <2> QED  BY <2>1, <2>2 DEF MbufInv, OwnInv
<1>10. KeptInv'
  <2>1. ASSUME NEW b \in Bufs PROVE KeptOf(b)'
    <3>1. KeptOf(b)
      BY DEF MbufInv, KeptInv
    <3>2. /\ InPlace(b) > 0 => InPlace(b)' > 0
          /\ InBurst(b) => InPlace(b)' > 0
      <4>1. InPlace(b)' \in Nat
        BY DEF InPlace
      <4> QED  BY <1>8, <4>1
    <3> QED  BY <1>7, <3>1, <3>2 DEF KeptOf
  <2> QED  BY <2>1 DEF KeptInv
<1> QED  BY <1>4, <1>5, <1>9, <1>10 DEF MbufInv

(* All of the burst is freed,                                              *)
LEMMA ReleaseStep ==
  ASSUME MbufInv, Release
  PROVE  MbufInv'
<1>1. /\ pc["rx"] = "classify" /\ pc' = [pc EXCEPT !["rx"] = "idle"]
      /\ burst' = << >> /\ seen' = 0 /\ pool' = Plus(pool, burst)
      /\ UNCHANGED <<dev, table, len, txBurst, role, input, requests, flush>>
      /\ UNCHANGED <<back, m, i, ptr, cnt, todo, ncmd, reused>>
  BY DEF Release, At, Goto, tab, flags, locals
<1>2. /\ pool \in [Bufs -> Nat] /\ dev \in [Bufs -> Nat] /\ burst \in Seq(RxBufs)
      /\ reused \in 0..MaxReuses
  BY DEF MbufInv, TypeOK
<1>3. /\ pool' \in [Bufs -> Nat]
      /\ \A b \in Bufs : pool'[b] = pool[b] + Times(b, burst)
  BY <1>1, <1>2, PlusFacts
<1>4. ASSUME NEW b \in Bufs
      PROVE  /\ InPlace(b)' \in Nat
             /\ InPlace(b)' = InPlace(b) + Times(b, burst)
  <2>1. /\ pool[b] \in Nat /\ dev[b] \in Nat /\ dev'[b] = dev[b] /\ pool'[b] \in Nat
        /\ Times(b, burst) \in Nat
    BY <1>1, <1>2, <1>3, TimesFacts
  <2> QED  BY <1>3, <2>1 DEF InPlace
<1>5. \A b \in Bufs : InPlace(b)' >= InPlace(b) + Times(b, burst)
  BY <1>4
<1> QED  BY <1>1, <1>2, <1>3, <1>4, <1>5, BurstGone

(* or handed to the device,                                                *)
LEMMA ReflectBurstStep ==
  ASSUME MbufInv, NEW done \in Done, ReflectBurst(done)
  PROVE  MbufInv'
<1>1. /\ pc["rx"] = "classify" /\ pc' = [pc EXCEPT !["rx"] = "idle"]
      /\ burst' = << >> /\ seen' = 0 /\ Hand(burst, done)
      /\ UNCHANGED <<table, len, txBurst, role, input, requests, flush>>
      /\ UNCHANGED <<back, m, i, ptr, cnt, todo, ncmd, reused>>
  BY DEF ReflectBurst, At, Goto, tab, flags, locals
<1>2. burst \in Seq(RxBufs) /\ reused \in 0..MaxReuses
  BY DEF MbufInv, TypeOK
<1>3. /\ pool' \in [Bufs -> Nat] /\ dev' \in [Bufs -> Nat]
      /\ \A b \in Bufs : /\ InPlace(b) \in Nat /\ Times(b, burst) \in Nat
                         /\ InPlace(b)' = InPlace(b) + Times(b, burst)
  BY <1>1, <1>2, HandFacts
<1>4. \A b \in Bufs : InPlace(b)' >= InPlace(b) + Times(b, burst)
  BY <1>3
<1> QED  BY <1>1, <1>2, <1>3, <1>4, BurstGone

(* or handed over in part and all of it freed: then no mbuf of rx_mp is    *)
(* tracked any more.                                                       *)
LEMMA ReflectPartStep ==
  ASSUME MbufInv, NEW k \in 0..TableSize, NEW done \in Done, ReflectPart(k, done)
  PROVE  MbufInv'
<1> DEFINE part == SubSeq(burst, 1, k)
           given == SetToSeq(done)
<1>1. /\ pc["rx"] = "classify" /\ pc' = [pc EXCEPT !["rx"] = "idle"]
      /\ burst' = << >> /\ seen' = 0 /\ k < Len(burst)
      /\ reused' = (IF k > 0 THEN reused + 1 ELSE reused) /\ reused' <= MaxReuses
      /\ dev' = Plus(Less(dev, done), part)
      /\ pool' = Plus(Plus(pool, given), burst)
      /\ UNCHANGED <<table, len, txBurst, role, input, requests, flush>>
      /\ UNCHANGED <<back, m, i, ptr, cnt, todo, ncmd>>
  BY DEF ReflectPart, At, Goto, tab, flags, locals
<1>2. /\ pool \in [Bufs -> Nat] /\ dev \in [Bufs -> Nat] /\ burst \in Seq(RxBufs)
      /\ reused \in 0..MaxReuses /\ MaxReuses \in Nat /\ k \in Nat /\ IsFiniteSet(Bufs)
      /\ done \in SUBSET Bufs /\ \A b \in done : dev[b] > 0
  BY MbufAssumption DEF MbufInv, TypeOK, Done
<1>3. /\ part \in Seq(RxBufs) /\ DOMAIN part = 1..k
      /\ \A x \in 1..k : part[x] \in RxBufs
  <2>1. burst \in [1..Len(burst) -> RxBufs] /\ Len(burst) \in Nat
    BY <1>2, LenProperties
  <2>2. \A x \in 1..k : burst[x] \in RxBufs
    BY <1>1, <1>2, <2>1
  <2>3. /\ part \in Seq(RxBufs) /\ Len(part) = k
        /\ \A x \in 1..k : part[x] = burst[x]
    BY <1>2, <2>2, SubSeqProperties
  <2> HIDE DEF part
  <2> QED  BY <2>2, <2>3, LenProperties
<1>4. IsFiniteSet(done)
  BY <1>2, FS_Subset
<1>5. given \in Seq(done)
  BY <1>4, SetToSeqFacts
<1>6. \A b : Times(b, given) = IF b \in done THEN 1 ELSE 0
  BY <1>4, TimesOfSet
<1> HIDE DEF part, given
<1>7. /\ Less(dev, done) \in [Bufs -> Nat]
      /\ \A b \in Bufs : Less(dev, done)[b] = IF b \in done THEN dev[b] - 1 ELSE dev[b]
  BY <1>2, LessFacts
<1>8. /\ dev' \in [Bufs -> Nat]
      /\ \A b \in Bufs : dev'[b] = Less(dev, done)[b] + Times(b, part)
  BY <1>1, <1>3, <1>7, PlusFacts
<1>9. /\ Plus(pool, given) \in [Bufs -> Nat]
      /\ \A b \in Bufs : Plus(pool, given)[b] = pool[b] + Times(b, given)
  BY <1>2, <1>5, PlusFacts
<1>10. /\ pool' \in [Bufs -> Nat]
       /\ \A b \in Bufs : pool'[b] = Plus(pool, given)[b] + Times(b, burst)
  BY <1>1, <1>2, <1>9, PlusFacts
<1>11. ASSUME NEW b \in Bufs
       PROVE  /\ InPlace(b) \in Nat /\ Times(b, part) \in Nat /\ Times(b, burst) \in Nat
              /\ InPlace(b)' = InPlace(b) + Times(b, burst) + Times(b, part)
  <2> DEFINE p == Times(b, part)
             a == Times(b, burst)
  <2>1. pool[b] \in Nat /\ dev[b] \in Nat /\ (b \in done => dev[b] > 0)
    BY <1>2
  <2>2. p \in Nat /\ a \in Nat
    BY <1>2, <1>3, TimesFacts
  <2>3. /\ dev'[b] = (IF b \in done THEN dev[b] - 1 ELSE dev[b]) + p
        /\ pool'[b] = (pool[b] + (IF b \in done THEN 1 ELSE 0)) + a
    BY <1>6, <1>7, <1>8, <1>9, <1>10
  <2> HIDE DEF p, a
  <2>4. CASE b \in done
    BY <2>1, <2>2, <2>3, <2>4 DEF InPlace, p, a
  <2>5. CASE b \notin done
    BY <2>1, <2>2, <2>3, <2>5 DEF InPlace, p, a
  <2> QED  BY <2>4, <2>5
<1>12. ASSUME NEW b \in Bufs, Tracked(b)' PROVE Times(b, part) = 0
  <2>1. \A x \in DOMAIN part : part[x] # b
    BY <1>1, <1>2, <1>3, <1>12 DEF Tracked
  <2> QED  BY <1>3, <2>1, TimesFacts
<1>13. \A b \in Bufs : InPlace(b)' >= InPlace(b) + Times(b, burst)
  BY <1>11
<1>14. \A b \in Bufs : Tracked(b)' => InPlace(b)' = InPlace(b) + Times(b, burst)
  BY <1>11, <1>12
<1>15. reused' \in 0..MaxReuses /\ (reused' = 0 => reused = 0)
  BY <1>1, <1>2
<1> QED  BY <1>1, <1>8, <1>10, <1>13, <1>14, <1>15, BurstGone
-----------------------------------------------------------------------------
LEMMA MbufInit ==
  ASSUME Init
  PROVE  MbufInv
<1>1. /\ role \in Roles /\ input = FALSE /\ pool = [b \in Bufs |-> 1]
      /\ dev = [b \in Bufs |-> 0] /\ table = [e \in 1..TableSize+1 |-> NoBuf]
      /\ len = 0 /\ txBurst \in Bursts /\ requests = {} /\ flush = FALSE
      /\ pc = [t \in Lcores |-> "idle"] /\ back = [t \in Lcores |-> "idle"]
      /\ m = [t \in Lcores |-> NoBuf] /\ i = [t \in Lcores |-> 0]
      /\ ptr = [t \in Lcores |-> 1] /\ cnt = [t \in Lcores |-> 0]
      /\ burst = << >> /\ seen = 0 /\ todo = 0 /\ ncmd = 0 /\ reused = 0
  BY DEF Init
<1>2. burst \in Seq(RxBufs) /\ Len(burst) = 0 /\ DOMAIN burst = {}
  BY <1>1, EmptySeq
<1>3. \A t \in Lcores : pc[t] = "idle" /\ ptr[t] = 1
  BY <1>1
<1>4. TypeOK
  <2>1. TableSize \in Nat \ {0} /\ MaxCmds \in Nat /\ MaxReuses \in Nat
    BY MbufAssumption
  <2>2. /\ pool \in [Bufs -> Nat] /\ dev \in [Bufs -> Nat]
        /\ table \in [1..TableSize+1 -> Bufs \cup {NoBuf}] /\ m \in [Lcores -> Bufs \cup {NoBuf}]
    BY <1>1
  <2>3. pc \in [Lcores -> LcorePc] /\ back \in [Lcores -> LcorePc]
    BY <1>1 DEF LcorePc
  <2>4. 0 \in 0..TableSize+1 /\ 1 \in 1..TableSize+2 /\ 0 \in 0..TableSize
    BY <2>1
  <2>5. i \in [Lcores -> 0..TableSize+1] /\ cnt \in [Lcores -> 0..TableSize+1]
    BY <1>1, <2>4
  <2>6. ptr \in [Lcores -> 1..TableSize+2]
    BY <1>1, <2>4
  <2>7. txBurst \in 1..TableSize
    BY <1>1, MbufAssumption
  <2>8. /\ role \in Roles /\ input \in BOOLEAN /\ requests \subseteq Requests
        /\ flush \in BOOLEAN /\ todo \in Nat
    BY <1>1
  <2>9. len \in 0..TableSize+1 /\ seen \in 0..TableSize
    BY <1>1, <2>4
  <2>10. ncmd \in 0..MaxCmds /\ reused \in 0..MaxReuses
    BY <1>1, <2>1
  <2> QED  BY <1>2, <2>2, <2>3, <2>5, <2>6, <2>7, <2>8, <2>9, <2>10 DEF TypeOK
<1>5. PcInv
  <2>1. ControlInv
    BY <1>1, <1>3, TwoLcores DEF ControlInv, Queues, Sending
  <2>2. BurstInv
    BY <1>1, <1>2, <1>3, TwoLcores, MbufAssumption DEF BurstInv, Queues, Sending
  <2>3. TableInv
    BY <1>1, <1>3, TwoLcores, MbufAssumption DEF TableInv
  <2>4. TrafficInv
    BY <1>1 DEF TrafficInv
  <2> QED  BY <2>1, <2>2, <2>3, <2>4 DEF PcInv
<1>6. \A b \in Bufs : InPlace(b) = 1
  BY <1>1 DEF InPlace
<1>7. \A b \in Bufs : ~InTable(b) /\ ~InBurst(b) /\ ~InHand(b)
  <2>1. \A e \in Entries : ~Pend(e)
    BY <1>1, <1>3, TwoLcores DEF Pend, Entries
  <2>2. \A b : ~InHand(b)
    BY <1>3 DEF InHand, Queues
  <2> QED  BY <1>2, <2>1, <2>2 DEF InTable, InBurst
<1>8. OwnInv
  <2>1. ASSUME NEW b \in Bufs PROVE OneOf(b)
    <3>1. InPlace(b) <= 1
      BY <1>6
    <3>2. \A e, f \in Entries : Pend(e) /\ Pend(f) /\ table[e] = b /\ table[f] = b => e = f
      BY <1>7 DEF InTable
    <3> QED  BY <1>2, <1>7, <3>1, <3>2 DEF OneOf
  <2> QED  BY <2>1 DEF OwnInv
<1>9. KeptInv
  BY <1>6 DEF KeptInv, KeptOf
<1> QED  BY <1>4, <1>5, <1>8, <1>9 DEF MbufInv

LEMMA MbufNext ==
  ASSUME Steady, MbufInv, [Next]_vars
  PROVE  MbufInv'
<1>1. CASE Command
  BY <1>1, CommandStep
<1>2. CASE TxLcore
  <2>1. CASE Poll \/ ClearRequests \/ AllocFails \/ PollFlush
    BY <2>1, TurnStep
  <2>2. CASE SendSpecial
    BY <2>2, SendSpecialStep
  <2>3. CASE ReadLen("tx") \/ StoreMbuf("tx") \/ AskFlush("tx")
    BY <2>3, TwoLcores, ReadLenStep, StoreMbufStep, AskFlushStep
  <2>4. CASE \E k \in 1..TableSize : AllocBulk(k)
    BY <2>4, AllocBulkStep
  <2>5. CASE SetLen
    BY <2>5, SetLenStep
  <2>6. CASE SendBurst("tx")
    BY <2>6, TwoLcores, TakeLenStep, ZeroLenStep, TxBurstStep DEF SendBurst
  <2>7. CASE \E done \in Done : FlushDone(done)
    BY <2>7, FlushDoneStep
  <2> QED  BY <1>2, <2>1, <2>2, <2>3, <2>4, <2>5, <2>6, <2>7 DEF TxLcore
<1>3. CASE RxLcore
  <2>1. CASE Receive
    BY <2>1, ReceiveStep
  <2>2. CASE Classify \/ Reply \/ Release
    BY <2>2, ClassifyStep, ReplyStep, ReleaseStep
  <2>3. CASE ReadLen("rx") \/ StoreMbuf("rx") \/ AskFlush("rx")
    BY <2>3, TwoLcores, ReadLenStep, StoreMbufStep, AskFlushStep
  <2>4. CASE SendBurst("rx")
    BY <2>4, TwoLcores, TakeLenStep, ZeroLenStep, TxBurstStep DEF SendBurst
  <2>5. CASE \E done \in Done : ReflectBurst(done)
    BY <2>5, ReflectBurstStep
  <2>6. CASE \E done \in Done, k \in 0..TableSize : ReflectPart(k, done)
    BY <2>6, ReflectPartStep
  <2> QED  BY <1>3, <2>1, <2>2, <2>3, <2>4, <2>5, <2>6 DEF RxLcore
<1>4. CASE UNCHANGED vars
  BY <1>4, StutterStep
<1> QED  BY <1>1, <1>2, <1>3, <1>4 DEF Next

LEMMA MbufInvariant ==
  ASSUME Steady
  PROVE  Spec => []MbufInv
<1>1. Init => MbufInv
  BY MbufInit
<1>2. MbufInv /\ [Next]_vars => MbufInv'
  BY MbufNext
<1> QED  BY <1>1, <1>2, PTL DEF Spec
-----------------------------------------------------------------------------
(***************************************************************************)
(* The sum SoleOwner and OnlyRequestsLeak take, place by place.            *)
(***************************************************************************)
LEMMA PendingFacts ==
  ASSUME MbufInv
  PROVE  Pending = {e \in Entries : Pend(e)}
<1>1. /\ len \in Nat /\ len <= TableSize /\ TableSize \in Nat
      /\ i["tx"] \in Nat
      /\ \A t \in Lcores : ptr[t] \in Nat /\ cnt[t] \in Nat /\ ptr[t] >= 1
  BY TwoLcores, MbufAssumption DEF MbufInv, TypeOK, PcInv, TableInv
<1>2. /\ pc["tx"] = "fill" => i["tx"] <= TableSize
      /\ \A t \in Lcores : pc[t] = "call" => ptr[t] + cnt[t] <= TableSize + 1
  BY <1>1 DEF MbufInv, PcInv, TableInv
<1>3. ASSUME NEW e, e \in Pending PROVE e \in Entries /\ Pend(e)
  <2>1. CASE e \in 1..len
    BY <1>1, <2>1 DEF Entries, Pend
  <2>2. CASE pc["tx"] = "fill" /\ e \in 1..i["tx"]
    BY <1>1, <1>2, <2>2 DEF Entries, Pend
  <2>3. CASE \E t \in Lcores : pc[t] = "call" /\ e \in ptr[t]..(ptr[t] + cnt[t] - 1)
    <3>1. PICK t \in Lcores : pc[t] = "call" /\ e \in ptr[t]..(ptr[t] + cnt[t] - 1)
      BY <2>3
    <3>2. e \in Nat /\ e >= 1 /\ ptr[t] <= e /\ e < ptr[t] + cnt[t] /\ e <= TableSize
      BY <1>1, <1>2, <3>1
    <3> QED  BY <1>1, <3>1, <3>2 DEF Entries, Pend
  <2> QED  BY <1>3, <2>1, <2>2, <2>3 DEF Pending, At
<1>4. ASSUME NEW e \in Entries, Pend(e) PROVE e \in Pending
  <2>1. CASE e <= len
    <3>1. e \in 1..len
      BY <1>1, <2>1 DEF Entries
    <3> QED  BY <3>1 DEF Pending
  <2>2. CASE pc["tx"] = "fill" /\ e <= i["tx"]
    <3>1. e \in 1..i["tx"]
      BY <1>1, <2>2 DEF Entries
    <3> QED  BY <2>2, <3>1 DEF Pending, At
  <2>3. ASSUME NEW t \in Lcores, pc[t] = "call", ptr[t] <= e, e < ptr[t] + cnt[t]
        PROVE  e \in Pending
    <3>1. e \in ptr[t]..(ptr[t] + cnt[t] - 1)
      BY <1>1, <2>3 DEF Entries
    <3> QED  BY <2>3, <3>1 DEF Pending, At
  <2> QED  BY <1>4, <2>1, <2>2, <2>3 DEF Pend
<1> QED  BY <1>3, <1>4

LEMMA HoldersFacts ==
  ASSUME MbufInv, NEW b \in Bufs
  PROVE  \E s, c, h \in Nat :
           /\ InPlace(b) \in Nat /\ Holders(b) = InPlace(b) + s + c + h
           /\ (s > 0 <=> InBurst(b)) /\ (c > 0 <=> InTable(b)) /\ (h > 0 <=> InHand(b))
           /\ h <= 1
           /\ OneOf(b) => s <= 1 /\ c <= 1
<1> DEFINE C == {e \in Pending : table[e] = b}
           s == Times(b, burst)
           c == Cardinality(C)
           h == IF b \in Queueing THEN 1 ELSE 0
<1>1. /\ pool[b] \in Nat /\ dev[b] \in Nat /\ burst \in Seq(RxBufs) /\ TableSize \in Nat
  BY MbufAssumption DEF MbufInv, TypeOK
<1>2. C = {e \in Entries : Pend(e) /\ table[e] = b}
  BY PendingFacts
<1>3. IsFiniteSet(C)
  <2>1. IsFiniteSet(Entries)
    BY <1>1, FS_Interval DEF Entries
  <2>2. C \in SUBSET Entries
    BY <1>2
  <2> QED  BY <2>1, <2>2, FS_Subset
<1>4. (C # {}) <=> InTable(b)
  BY <1>2 DEF InTable
<1>5. OneOf(b) => \A e, f \in C : e = f
  BY <1>2 DEF OneOf
<1>6. (b \in Queueing) <=> InHand(b)
  BY DEF Queueing, InHand, Queues
<1>7. Holders(b) = pool[b] + dev[b] + s + c + h
  BY DEF Holders
<1> HIDE DEF C
<1>8. c \in Nat /\ (c > 0 <=> InTable(b)) /\ (OneOf(b) => c <= 1)
  <2>1. c \in Nat /\ (c = 0 <=> C = {})
    BY <1>3, FS_CardinalityType, FS_EmptySet
  <2>2. OneOf(b) => c <= 1
    BY <1>5, AtMostOne
  <2> HIDE DEF c
  <2> QED  BY <1>4, <2>1, <2>2
<1>9. s \in Nat /\ (s > 0 <=> InBurst(b)) /\ (OneOf(b) => s <= 1)
  <2>1. /\ s \in Nat
        /\ ~InBurst(b) => s = 0
        /\ InBurst(b) => s >= 1
        /\ OneOf(b) => s <= 1
    BY <1>1, TimesFacts DEF InBurst, OneOf
  <2> HIDE DEF s
  <2> QED  BY <2>1
<1>10. h \in Nat /\ h <= 1 /\ (h > 0 <=> InHand(b))
  BY <1>6
<1> HIDE DEF s, c, h
<1>11. InPlace(b) \in Nat /\ Holders(b) = InPlace(b) + s + c + h
  BY <1>1, <1>7 DEF InPlace
<1> QED  BY <1>8, <1>9, <1>10, <1>11
-----------------------------------------------------------------------------
(***************************************************************************)
(* An mbuf is in one place, and the table holds no more than its entries,  *)
(* whatever the burst length is set to, how often requests and replies are *)
(* queued between two bursts, and how much the device takes at a time      *)
(* (pktgen_send_mbuf, pktgen_send_burst, pktgen_send_pkts and              *)
(* pktgen_main_receive of one lcore).                                      *)
(***************************************************************************)
THEOREM OwnedOnce ==
  ASSUME Steady
  PROVE  Spec => []SoleOwner
<1>1. ASSUME MbufInv PROVE SoleOwner
  <2>1. len <= TableSize
    BY <1>1 DEF MbufInv, PcInv, TableInv
  <2>2. ASSUME NEW b \in Bufs, b \in RxBufs => reused = 0
        PROVE  Holders(b) <= 1
    <3>1. OneOf(b)
      BY <1>1, <2>2 DEF MbufInv, OwnInv, Tracked
    <3>2. PICK s, c, h \in Nat :
            /\ InPlace(b) \in Nat /\ Holders(b) = InPlace(b) + s + c + h
            /\ (s > 0 <=> InBurst(b)) /\ (c > 0 <=> InTable(b)) /\ (h > 0 <=> InHand(b))
            /\ h <= 1
            /\ OneOf(b) => s <= 1 /\ c <= 1
      BY <1>1, HoldersFacts
    <3>3. /\ InPlace(b) <= 1
          /\ InPlace(b) = 1 => ~InTable(b) /\ ~InBurst(b) /\ ~InHand(b)
          /\ InTable(b) => ~InBurst(b) /\ ~InHand(b)
          /\ InBurst(b) => ~InHand(b)
      BY <3>1 DEF OneOf
    <3> QED  BY <3>1, <3>2, <3>3
  <2> QED  BY <2>1, <2>2 DEF SoleOwner
<1> QED  BY <1>1, MbufInvariant, PTL

(***************************************************************************)
(* No mbuf of the traffic or of the receive side is ever lost: what        *)
(* pktgen_send_pkts overwrites in the table is never traffic, and          *)
(* pktgen_main_receive frees or hands over all it received.                *)
(***************************************************************************)
THEOREM TrafficKept ==
  ASSUME Steady
  PROVE  Spec => []OnlyRequestsLeak
<1>1. ASSUME MbufInv PROVE OnlyRequestsLeak
  <2>1. ASSUME NEW b \in Bufs, b \notin SpecialBufs PROVE Holders(b) # 0
    <3>1. InPlace(b) > 0 \/ InTable(b) \/ InBurst(b)
      BY <1>1, <2>1 DEF MbufInv, KeptInv, KeptOf, Bufs
    <3>2. PICK s, c, h \in Nat :
            /\ InPlace(b) \in Nat /\ Holders(b) = InPlace(b) + s + c + h
            /\ (s > 0 <=> InBurst(b)) /\ (c > 0 <=> InTable(b)) /\ (h > 0 <=> InHand(b))
            /\ h <= 1
            /\ OneOf(b) => s <= 1 /\ c <= 1
      BY <1>1, HoldersFacts
    <3> QED  BY <3>1, <3>2
  <2> QED  BY <2>1 DEF OnlyRequestsLeak
<1> QED  BY <1>1, MbufInvariant, PTL

(***************************************************************************)
(* The lcore is where TypeOK says: no index of m_table leaves the table,   *)
(* no count of mbufs goes below zero.                                      *)
(***************************************************************************)
THEOREM MbufTypes ==
  ASSUME Steady
  PROVE  Spec => []TypeOK
<1>1. MbufInv => TypeOK
  BY DEF MbufInv
<1> QED  BY <1>1, MbufInvariant, PTL
=============================================================================

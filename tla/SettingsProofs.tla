--------------------------- MODULE SettingsProofs ---------------------------
(***************************************************************************)
(* Proofs about the settings of a port, for any command lines and Lua      *)
(* calls, any number of them, and any constants of the port: the modes     *)
(* exclude each other (SettingsExclusive), and what is set can be sent     *)
(* (SettingsSendable).                                                     *)
(***************************************************************************)
EXTENDS SaveLoad, WellFoundedInduction, TLAPS

(* The one thing the proofs need to know of a record of settings.          *)
IsPort(s) == "flags" \in DOMAIN s

(* t has the flags of s.                                                   *)
Quiet(s, t) == IsPort(t) /\ t.flags = s.flags

Good(s) == IsPort(s) /\ Exclusive(s)

LEMMA QuietGood == ASSUME NEW s, NEW t, Good(s), Quiet(s, t) PROVE Good(t)
  BY DEF Good, Quiet, Exclusive, AtMostOne

LEMMA FlagsSet ==
  ASSUME NEW s, IsPort(s), NEW F
  PROVE  /\ IsPort(SetFlags(s, F)) /\ SetFlags(s, F).flags = s.flags \cup F
         /\ IsPort(ClrFlags(s, F)) /\ ClrFlags(s, F).flags = s.flags \ F
  BY DEF IsPort, SetFlags, ClrFlags

(* Flags outside a group do not matter to it.                              *)
LEMMA Widened ==
  ASSUME NEW s, NEW t, NEW F, NEW group, AtMostOne(s, group),
         t.flags \subseteq s.flags \cup F, F \cap group = {}
  PROVE  AtMostOne(t, group)
  BY DEF AtMostOne

LEMMA WidenedGood ==
  ASSUME NEW s, NEW t, NEW F, Good(s), IsPort(t),
         t.flags \subseteq s.flags \cup F,
         F \cap (ModeFlags \cup TagFlags \cup GreFlags) = {}
  PROVE  Good(t)
<1>1. /\ F \cap ModeFlags = {} /\ F \cap TagFlags = {}
      /\ F \cap GreFlags = {}
  OBVIOUS
<1>2. AtMostOne(s, ModeFlags) /\ AtMostOne(s, TagFlags) /\ AtMostOne(s, GreFlags)
  BY DEF Good, Exclusive
<1>3. AtMostOne(t, ModeFlags)
  BY <1>1, <1>2, Widened
<1>4. AtMostOne(t, TagFlags)
  BY <1>1, <1>2, Widened
<1>5. AtMostOne(t, GreFlags)
  BY <1>1, <1>2, Widened
<1> QED
  BY <1>3, <1>4, <1>5 DEF Good, Exclusive

LEMMA ClearGood ==
  ASSUME NEW s, Good(s), NEW F PROVE Good(ClrFlags(s, F))
<1>1. IsPort(ClrFlags(s, F)) /\ ClrFlags(s, F).flags \subseteq s.flags \cup {}
  BY FlagsSet DEF Good
<1>2. {} \cap (ModeFlags \cup TagFlags \cup GreFlags) = {}
  OBVIOUS
<1> DEFINE E == {}
<1>3. /\ ClrFlags(s, F).flags \subseteq s.flags \cup E
      /\ E \cap (ModeFlags \cup TagFlags \cup GreFlags) = {}
  BY <1>1, <1>2
<1> HIDE DEF E
<1> QED
  BY <1>1, <1>3, WidenedGood

(* Flags in no group are set and cleared at will.                          *)
LEMMA SwitchGood ==
  ASSUME NEW s, Good(s), NEW on, NEW F,
         F \cap (ModeFlags \cup TagFlags \cup GreFlags) = {}
  PROVE  Good(Switch(s, on, F)) /\ Good(SetFlags(s, F)) /\ Good(ClrFlags(s, F))
<1>1. IsPort(SetFlags(s, F)) /\ SetFlags(s, F).flags = s.flags \cup F
  BY FlagsSet DEF Good
<1>2. Good(SetFlags(s, F))
  BY <1>1, WidenedGood
<1>3. Good(ClrFlags(s, F))
  BY ClearGood
<1> QED
  BY <1>2, <1>3 DEF Switch

(* A flag of one group takes the place of the group's others.              *)
LEMMA OneOfGood ==
  ASSUME NEW s, Good(s), NEW on, NEW group, NEW f \in group,
         group \in {ModeFlags, TagFlags, GreFlags}
  PROVE  Good(OneOf(s, on, f, group))
<1>1. Good(ClrFlags(s, {f})) /\ Good(ClrFlags(s, group))
  BY ClearGood
<1> DEFINE t == SetFlags(ClrFlags(s, group), {f})
<1>2. IsPort(t) /\ t.flags = (s.flags \ group) \cup {f}
  BY <1>1, FlagsSet DEF Good
<1>3. \A g \in group : g \in t.flags => g = f
  BY <1>2
<1>4. AtMostOne(t, group)
  BY <1>3 DEF AtMostOne
<1>5. ASSUME NEW other \in {ModeFlags, TagFlags, GreFlags}, other # group
      PROVE  AtMostOne(t, other)
  <2>1. f \notin other
    BY <1>5 DEF ModeFlags, TagFlags, GreFlags
  <2>2. AtMostOne(s, other)
    BY DEF Good, Exclusive
  <2>3. {f} \cap other = {} /\ t.flags \subseteq s.flags \cup {f}
    BY <1>2, <2>1
  <2> HIDE DEF t
  <2> QED
    BY <2>2, <2>3, Widened
<1>6. Good(t)
  BY <1>2, <1>4, <1>5 DEF Good, Exclusive
<1> QED
  BY <1>1, <1>6 DEF OneOf

(* The pace and the packets are no matter of the flags.                    *)
LEMMA PacedQuiet == ASSUME NEW s, IsPort(s) PROVE Quiet(s, Paced(s))
  BY DEF IsPort, Quiet, Paced
LEMMA PutQuiet ==
  ASSUME NEW s, IsPort(s), NEW k, NEW p
  PROVE  Quiet(s, Put(s, k, p)) /\ Quiet(s, SinglePut(s, p))
  BY DEF IsPort, Quiet, Put, SinglePut
-----------------------------------------------------------------------------
(* Setters that leave the flags alone.                                     *)
LEMMA PaceQuiet ==
  ASSUME NEW s, IsPort(s), NEW n
  PROVE  /\ Quiet(s, SetTxCount(s, n)) /\ Quiet(s, SetTxRate(s, n))
         /\ Quiet(s, SetPps(s, n)) /\ Quiet(s, SetTxBurst(s, n))
         /\ Quiet(s, SetTxCycles(s, n)) /\ Quiet(s, SetPrime(s, n))
  BY DEF IsPort, Quiet, SetTxCount, SetTxRate, Paced, SetPps, SetTxBurst,
         SetTxCycles, SetPrime

LEMMA SingleQuiet ==
  ASSUME NEW s, IsPort(s), NEW v, NEW w
  PROVE  /\ Quiet(s, SetPktSize(s, v)) /\ Quiet(s, SetPort(s, v, w))
         /\ Quiet(s, SetProto(s, v)) /\ Quiet(s, SetPktType(s, v))
         /\ Quiet(s, SetVlanId(s, v)) /\ Quiet(s, SetCos(s, v))
         /\ Quiet(s, SetTos(s, v)) /\ Quiet(s, SetMpls(s, v))
         /\ Quiet(s, SetGreKey(s, v)) /\ Quiet(s, SetQinq(s, v, w))
         /\ Quiet(s, SetDstMac(s, v)) /\ Quiet(s, SetSrcMac(s, v))
         /\ Quiet(s, SetDstIp(s, v)) /\ Quiet(s, SetSrcIp(s, v, w))
  BY PutQuiet DEF SetPktSize, SetPort, SetProto, SetPktType, SetVlanId, SetCos,
         SetTos, SetMpls, SetGreKey, SetQinq, SetDstMac, SetSrcMac, SetDstIp,
         SetSrcIp

LEMMA FillQuiet ==
  ASSUME NEW s, IsPort(s), NEW v
  PROVE  /\ Quiet(s, SetJitter(s, v)) /\ Quiet(s, SetPattern(s, v))
         /\ Quiet(s, SetUserPattern(s, v)) /\ Quiet(s, EnableMacFromArp(s, v))
  BY DEF IsPort, Quiet, SetJitter, SetPattern, SetUserPattern, EnableMacFromArp

LEMMA SpanQuiet ==
  ASSUME NEW s, IsPort(s), NEW d, NEW what, NEW v
  PROVE  Quiet(s, SetSpan(s, d, what, v))
  BY DEF IsPort, Quiet, SetSpan

LEMMA RangeQuiet ==
  ASSUME NEW s, IsPort(s), NEW d, NEW what, NEW v
  PROVE  /\ Quiet(s, RangeMac(s, d, what, v)) /\ Quiet(s, RangeIp(s, d, what, v))
         /\ Quiet(s, RangePort(s, d, what, v)) /\ Quiet(s, RangeTeid(s, what, v))
         /\ Quiet(s, RangeVlan(s, what, v)) /\ Quiet(s, RangeTos(s, what, v))
         /\ Quiet(s, RangeCos(s, what, v)) /\ Quiet(s, RangeSize(s, what, v))
         /\ Quiet(s, RangeProto(s, v)) /\ Quiet(s, RangeQinq(s, what, v))
<1>1. Quiet(s, RangeMac(s, d, what, v))
  BY SpanQuiet DEF RangeMac, Quiet, IsPort
<1>2. Quiet(s, RangeTeid(s, what, v))
  BY SpanQuiet DEF RangeTeid, Quiet, IsPort
<1>3. Quiet(s, RangeProto(s, v))
  <2> DEFINE t == [s EXCEPT !.rangeProto = v]
             q == [s.pkts[Ranged] EXCEPT !.proto = v,
                     !.ethType = IF v = "icmp" THEN "ipv4" ELSE @]
  <2>1. Quiet(s, t)
    BY DEF Quiet, IsPort
  <2>2. RangeProto(s, v) = Put(t, Ranged, q)
    BY DEF RangeProto
  <2> HIDE DEF q, t
  <2>3. Quiet(t, Put(t, Ranged, q))
    BY <2>1, PutQuiet DEF Quiet
  <2> QED
    BY <2>1, <2>2, <2>3 DEF Quiet
<1>4. Quiet(s, RangeQinq(s, what, v))
  BY DEF RangeQinq, Quiet, IsPort
<1>5. /\ Quiet(s, RangeIp(s, d, what, v)) /\ Quiet(s, RangePort(s, d, what, v))
      /\ Quiet(s, RangeVlan(s, what, v)) /\ Quiet(s, RangeTos(s, what, v))
      /\ Quiet(s, RangeCos(s, what, v)) /\ Quiet(s, RangeSize(s, what, v))
  BY SpanQuiet DEF RangeIp, RangePort, RangeVlan, RangeTos, RangeCos, RangeSize
<1> QED
  BY <1>1, <1>2, <1>3, <1>4, <1>5

LEMMA SeqQuiet ==
  ASSUME NEW s, IsPort(s), NEW k, NEW q, NEW cos, NEW tos
  PROVE  Quiet(s, SetSeq(s, k, q)) /\ Quiet(s, SetSeqCosTos(s, k, cos, tos))
  BY PutQuiet DEF SetSeq, SetSeqCosTos

LEMMA QuietTwice ==
  ASSUME NEW s, NEW t, NEW u, Quiet(s, t), Quiet(t, u) PROVE Quiet(s, u)
  BY DEF Quiet

LEMMA DefaultsQuiet ==
  ASSUME NEW s, IsPort(s)
  PROVE  Quiet(s, PortDefaults(s)) /\ Quiet(s, RangeSetup(s))
<1>1. Quiet(s, RangeSetup(s))
  BY DEF RangeSetup, IsPort, Quiet
<1>2. Quiet(s, PortDefaults(s))
  BY DEF PortDefaults, Paced, IsPort, Quiet
<1> QED
  BY <1>1, <1>2
-----------------------------------------------------------------------------
(* Setters of flags.                                                       *)
LEMMA GroupGood ==
  ASSUME NEW s, Good(s), NEW on
  PROVE  /\ Good(EnableVlan(s, on)) /\ Good(EnableMpls(s, on))
         /\ Good(EnableQinq(s, on)) /\ Good(EnableGre(s, on))
         /\ Good(EnableGreEth(s, on))
<1>1. /\ "SEND_VLAN_ID" \in TagFlags /\ "SEND_MPLS_LABEL" \in TagFlags
      /\ "SEND_Q_IN_Q_IDS" \in TagFlags /\ "SEND_GRE_IPv4_HEADER" \in GreFlags
      /\ "SEND_GRE_ETHER_HEADER" \in GreFlags
  BY DEF TagFlags, GreFlags
<1>2. Good(EnableVlan(s, on))
  BY <1>1, OneOfGood DEF EnableVlan
<1>3. Good(EnableMpls(s, on))
  BY <1>1, OneOfGood DEF EnableMpls
<1>4. Good(EnableQinq(s, on))
  BY <1>1, OneOfGood DEF EnableQinq
<1>5. Good(EnableGre(s, on))
  BY <1>1, OneOfGood DEF EnableGre
<1>6. Good(EnableGreEth(s, on))
  BY <1>1, OneOfGood DEF EnableGreEth
<1> QED
  BY <1>2, <1>3, <1>4, <1>5, <1>6

LEMMA ModeGood ==
  ASSUME NEW s, Good(s), NEW on, NEW n
  PROVE  Good(EnableRange(s, on)) /\ Good(EnablePcap(s, on)) /\ Good(SetSeqCnt(s, n))
<1>1. /\ "SEND_RANGE_PKTS" \in ModeFlags /\ "SEND_SEQ_PKTS" \in ModeFlags
      /\ "SEND_PCAP_PKTS" \in ModeFlags
  BY DEF ModeFlags
<1>2. ASSUME NEW t, Good(t) PROVE Good(Paced(t))
  BY <1>2, PacedQuiet, QuietGood DEF Good
<1>3. Good(EnableRange(s, on)) /\ Good(EnablePcap(s, on))
  BY <1>1, <1>2, OneOfGood DEF EnableRange, EnablePcap
<1> DEFINE t == [s EXCEPT !.seqCnt = Min({n, SeqSlots})]
<1>4. Quiet(s, t)
  BY DEF Good, IsPort, Quiet
<1>5. Good(t)
  BY <1>4, QuietGood
<1> HIDE DEF t
<1>6. Good(OneOf(t, n > 0, "SEND_SEQ_PKTS", ModeFlags))
  BY <1>1, <1>5, OneOfGood
<1>7. Good(Paced(OneOf(t, n > 0, "SEND_SEQ_PKTS", ModeFlags)))
  BY <1>2, <1>6
<1> QED
  BY <1>3, <1>7 DEF SetSeqCnt, t

LEMMA ResetGood == ASSUME NEW s, Good(s) PROVE Good(Reset(s))
<1> DEFINE t0 == [s EXCEPT !.macFromArp = FALSE]
<1> DEFINE t1 == RangeSetup(PortDefaults(t0))
<1> DEFINE t2 == ClrFlags(t1, {"SEND_RANGE_PKTS", "SEND_SEQ_PKTS"})
<1> DEFINE t3 == [t2 EXCEPT !.rnd = {}, !.seqCnt = 0]
<1>1. Quiet(s, t0)
  BY DEF Good, IsPort, Quiet
<1>2. Quiet(t0, PortDefaults(t0))
  BY <1>1, DefaultsQuiet DEF Quiet
<1>3. Quiet(PortDefaults(t0), t1)
  BY <1>2, DefaultsQuiet DEF Quiet
<1> HIDE DEF t1, t0
<1>4. Good(t1)
  BY <1>1, <1>2, <1>3, QuietTwice, QuietGood
<1>5. Good(t2)
  BY <1>4, ClearGood
<1> HIDE DEF t2
<1>6. Quiet(t2, t3)
  BY <1>5 DEF Good, IsPort, Quiet
<1>7. Good(t3)
  BY <1>5, <1>6, QuietGood
<1> HIDE DEF t3
<1>8. Good(Paced(t3))
  BY <1>7, PacedQuiet, QuietGood DEF Good
<1> QED
  BY <1>8 DEF Reset, t0, t1, t2, t3

LEMMA FreshGood == Good(Fresh)
<1> DEFINE t == [flags |-> {}, macFromArp |-> FALSE, count |-> 0, rate |-> 0,
                 pps |-> 0, cycles |-> 0, burst |-> 0, prime |-> 0,
                 seqCnt |-> 0, rangeProto |-> "tcp",
                 range |-> [d \in Dims |-> Span(0, 0, 0, 0)], jitter |-> 50,
                 fill |-> "abc", user |-> "0123456789abcdef", rnd |-> {},
                 pkts |-> [k \in Slots |-> IF k <= Single
                               THEN [ZeroPkt EXCEPT !.srcMac = SrcMac]
                               ELSE ZeroPkt]]
<1>1. IsPort(t) /\ t.flags = {}
  BY DEF IsPort
<1>2. Fresh = RangeSetup(PortDefaults(t))
  BY DEF Fresh
<1> HIDE DEF t
<1>3. Good(t)
  BY <1>1 DEF Good, Exclusive, AtMostOne
<1>4. Quiet(t, PortDefaults(t))
  BY <1>1, DefaultsQuiet
<1>5. Quiet(PortDefaults(t), Fresh)
  BY <1>2, <1>4, DefaultsQuiet DEF Quiet
<1> QED
  BY <1>3, <1>4, <1>5, QuietTwice, QuietGood

LEMMA RequestGood ==
  ASSUME NEW s, Good(s), NEW g
  PROVE  Good(Ping4(s)) /\ Good(SendArp(s, g))
<1> DEFINE t == Put(s, Ping, [s.pkts[Single] EXCEPT !.proto = "icmp"])
<1>1. Good(t)
  BY PutQuiet, QuietGood DEF Good
<1> HIDE DEF t
<1>2. {"SEND_PING4_REQUEST"} \cap (ModeFlags \cup TagFlags \cup GreFlags) = {}
  BY DEF ModeFlags, TagFlags, GreFlags
<1>3. Good(Ping4(s))
  BY <1>1, <1>2, SwitchGood DEF Ping4, t
<1> DEFINE F == {IF g THEN "SEND_GRATUITOUS_ARP" ELSE "SEND_ARP_REQUEST"}
<1>4. F \cap (ModeFlags \cup TagFlags \cup GreFlags) = {}
  BY DEF ModeFlags, TagFlags, GreFlags
<1> HIDE DEF F
<1>5. Good(SetFlags(s, F))
  BY <1>4, SwitchGood
<1> QED
  BY <1>3, <1>5 DEF SendArp, F

(* Switches of flags that belong to no group.                              *)
Loose == {{"PROCESS_INPUT_PKTS"}, {"SEND_RANDOM_PKTS"}, {"SEND_LATENCY_PKTS"},
          {"PROCESS_RX_TAP_PKTS"}, {"PROCESS_TX_TAP_PKTS"},
          {"ICMP_ECHO_ENABLE_FLAG"}, {"CAPTURE_PKTS"}, {"BONDING_TX_PACKETS"},
          {"SEND_SHORT_PACKETS"}, {"PROCESS_GARP_PKTS", "PROCESS_INPUT_PKTS"}}

LEMMA LooseGood ==
  ASSUME NEW s, Good(s), NEW on, NEW F \in Loose PROVE Good(Switch(s, on, F))
<1>1. F \cap (ModeFlags \cup TagFlags \cup GreFlags) = {}
  BY DEF Loose, ModeFlags, TagFlags, GreFlags
<1> QED
  BY <1>1, SwitchGood

LEMMA LooseSwitches ==
  ASSUME NEW s, Good(s), NEW on
  PROVE  /\ Good(Switch(s, on, {"PROCESS_INPUT_PKTS"}))
         /\ Good(Switch(s, on, {"SEND_RANDOM_PKTS"}))
         /\ Good(Switch(s, on, {"SEND_LATENCY_PKTS"}))
         /\ Good(Switch(s, on, {"ICMP_ECHO_ENABLE_FLAG"}))
         /\ Good(Switch(s, on, {"CAPTURE_PKTS"}))
         /\ Good(Switch(s, on, {"BONDING_TX_PACKETS"}))
         /\ Good(Switch(s, on, {"SEND_SHORT_PACKETS"}))
         /\ Good(EnableGarp(s, on))
         /\ Good(EnableTap(s, on, "PROCESS_RX_TAP_PKTS"))
         /\ Good(EnableTap(s, on, "PROCESS_TX_TAP_PKTS"))
<1>1. ASSUME NEW F \in Loose PROVE Good(Switch(s, on, F))
  BY LooseGood
<1>2. /\ {"PROCESS_INPUT_PKTS"} \in Loose /\ {"SEND_RANDOM_PKTS"} \in Loose
      /\ {"SEND_LATENCY_PKTS"} \in Loose /\ {"ICMP_ECHO_ENABLE_FLAG"} \in Loose
      /\ {"CAPTURE_PKTS"} \in Loose /\ {"BONDING_TX_PACKETS"} \in Loose
      /\ {"SEND_SHORT_PACKETS"} \in Loose /\ {"PROCESS_RX_TAP_PKTS"} \in Loose
      /\ {"PROCESS_TX_TAP_PKTS"} \in Loose
      /\ {"PROCESS_GARP_PKTS", "PROCESS_INPUT_PKTS"} \in Loose
  BY DEF Loose
<1>3. Good(EnableGarp(s, on))
  BY <1>1, <1>2 DEF EnableGarp
<1>4. /\ Good(EnableTap(s, on, "PROCESS_RX_TAP_PKTS"))
      /\ Good(EnableTap(s, on, "PROCESS_TX_TAP_PKTS"))
  BY <1>1, <1>2 DEF EnableTap
<1> QED
  BY <1>1, <1>2, <1>3, <1>4
-----------------------------------------------------------------------------
(* The command line.                                                       *)
LEMMA SetCmdGood ==
  ASSUME NEW s, Good(s), NEW what, NEW v PROVE Good(SetCmd(s, what, v))
<1>1. ASSUME NEW t, Quiet(s, t) PROVE Good(t)
  BY <1>1, QuietGood
<1>2. IsPort(s)
  BY DEF Good
<1>3. \A n : /\ Good(SetTxCount(s, n)) /\ Good(SetTxRate(s, n))
             /\ Good(SetPps(s, n)) /\ Good(SetTxBurst(s, n))
             /\ Good(SetTxCycles(s, n)) /\ Good(SetPrime(s, n))
  BY <1>1, <1>2, PaceQuiet
<1>4. \A x, y :
        /\ Good(SetPktSize(s, x)) /\ Good(SetPort(s, x, y))
        /\ Good(SetProto(s, x)) /\ Good(SetPktType(s, x))
        /\ Good(SetVlanId(s, x)) /\ Good(SetCos(s, x))
        /\ Good(SetTos(s, x)) /\ Good(SetMpls(s, x))
        /\ Good(SetGreKey(s, x)) /\ Good(SetQinq(s, x, y))
        /\ Good(SetDstMac(s, x)) /\ Good(SetSrcMac(s, x))
        /\ Good(SetDstIp(s, x)) /\ Good(SetSrcIp(s, x, y))
  BY <1>1, <1>2, SingleQuiet
<1>5. \A x : /\ Good(SetJitter(s, x)) /\ Good(SetPattern(s, x))
             /\ Good(SetUserPattern(s, x)) /\ Good(EnableMacFromArp(s, x))
  BY <1>1, <1>2, FillQuiet
<1>6. Good(SetSeqCnt(s, v))
  BY ModeGood
<1> QED
  BY <1>3, <1>4, <1>5, <1>6 DEF SetCmd

LEMMA RangeDimGood ==
  ASSUME NEW s, Good(s), NEW d, NEW what, NEW v
  PROVE  Good(RangeDim(s, d, what, v))
<1>1. \A x : /\ Good(RangeMac(s, d, what, x)) /\ Good(RangeIp(s, d, what, x))
             /\ Good(RangePort(s, d, what, x)) /\ Good(RangeVlan(s, what, x))
             /\ Good(RangeTos(s, what, x)) /\ Good(RangeCos(s, what, x))
             /\ Good(RangeSize(s, what, x))
  BY RangeQuiet, QuietGood DEF Good
<1> QED
  BY <1>1 DEF RangeDim

LEMMA RangeCmdGood ==
  ASSUME NEW s, Good(s), NEW d, NEW what, NEW v
  PROVE  Good(RangeAll(s, d, v)) /\ Good(RangeOther(s, what, v))
<1>1. Good(RangeAll(s, d, v))
  BY RangeDimGood DEF RangeAll
<1>2. /\ Good(RangeProto(s, v)) /\ Good(RangeQinq(s, v[1], v[2]))
      /\ Good(SetMpls(s, v)) /\ Good(SetGreKey(s, v))
  <2>1. ASSUME NEW t, Quiet(s, t) PROVE Good(t)
    BY <2>1, QuietGood
  <2>2. Quiet(s, RangeProto(s, v)) /\ Quiet(s, RangeQinq(s, v[1], v[2]))
    BY RangeQuiet DEF Good
  <2>3. Quiet(s, SetMpls(s, v)) /\ Quiet(s, SetGreKey(s, v))
    BY SingleQuiet DEF Good
  <2> QED
    BY <2>1, <2>2, <2>3
<1> QED
  BY <1>1, <1>2 DEF RangeOther

LEMMA EnableGood ==
  ASSUME NEW s, Good(s), NEW what, NEW on PROVE Good(Enable(s, what, on))
<1>1. Good(EnableMacFromArp(s, on))
  BY FillQuiet, QuietGood DEF Good
<1> QED
  BY <1>1, LooseSwitches, GroupGood, ModeGood DEF Enable

LEMMA MiscGood ==
  ASSUME NEW s, Good(s), NEW what, NEW k, NEW q, NEW cos, NEW tos
  PROVE  /\ Good(Misc(s, what)) /\ Good(SeqCmd(s, k, q))
         /\ Good(SeqCosTos(s, k, cos, tos))
<1>1. Good(SetSeq(s, k, q)) /\ Good(SetSeqCosTos(s, k, cos, tos))
  BY SeqQuiet, QuietGood DEF Good
<1>2. Good(Misc(s, what))
  BY RequestGood, ResetGood DEF Misc
<1> QED
  BY <1>1, <1>2 DEF SeqCmd, SeqCosTos

(* A command line, accepted or not, keeps the groups exclusive.            *)
LEMMA RunGood == ASSUME NEW s, Good(s), NEW line PROVE Good(Run(s, line))
  BY SetCmdGood, RangeDimGood, RangeCmdGood, EnableGood, MiscGood DEF Run
-----------------------------------------------------------------------------
(* The Lua functions.                                                      *)
LEMMA LuaEnableGood ==
  ASSUME NEW s, Good(s), NEW f \in Switches, NEW on
  PROVE  Good(EnableCall(s, f, on))
<1>1. Good(EnableMacFromArp(s, on))
  BY FillQuiet, QuietGood DEF Good
<1>2. ASSUME f \in TagSwitches PROVE Good(TagSwitch(s, f, on))
  BY <1>2, GroupGood DEF TagSwitch, TagSwitches
<1>3. ASSUME f \in ModeSwitches PROVE Good(ModeSwitch(s, f, on))
  BY <1>3, LooseSwitches DEF ModeSwitch, ModeSwitches
<1>5. ASSUME f \in TapSwitches PROVE Good(TapSwitch(s, f, on))
  BY <1>5, LooseSwitches DEF TapSwitch, TapSwitches
<1>4. /\ Good(EnablePcap(s, on)) /\ Good(EnableGre(s, on))
      /\ Good(EnableGreEth(s, on)) /\ Good(EnableRange(s, on))
      /\ Good(Switch(s, on, {"ICMP_ECHO_ENABLE_FLAG"}))
      /\ Good(Switch(s, on, {"SEND_LATENCY_PKTS"}))
  BY LooseSwitches, GroupGood, ModeGood
<1> QED
  BY <1>1, <1>2, <1>3, <1>4, <1>5 DEF EnableCall, Switches

SingleFunctions ==
  {"set", "set_mac", "set_ipaddr", "set_proto", "set_type", "vlanid", "cos", "tos",
   "mpls_entry", "qinqids", "gre_key", "pattern", "userPattern", "jitter"}

LEMMA LuaSetGood ==
  ASSUME NEW s, Good(s), NEW what \in SetWords, NEW v
  PROVE  Good(SetValue(s, what, v))
<1>1. /\ Good(SetTxCount(s, v)) /\ Good(SetTxRate(s, v)) /\ Good(SetTxBurst(s, v))
      /\ Good(SetTxCycles(s, v)) /\ Good(SetPrime(s, v))
  BY PaceQuiet, QuietGood DEF Good
<1>2. Good(SetPktSize(s, v)) /\ Good(SetPort(s, what, v))
  BY SingleQuiet, QuietGood DEF Good
<1>3. Good(SetSeqCnt(s, v))
  BY ModeGood
<1> QED
  BY <1>1, <1>2, <1>3 DEF SetValue, SetWords

LEMMA LuaSingleGood ==
  ASSUME NEW s, Good(s), NEW call, Accepts(call), call[1] \in SingleFunctions
  PROVE  Good(SingleCall(s, call))
<1>1. ASSUME NEW t, Quiet(s, t) PROVE Good(t)
  BY <1>1, QuietGood
<1>2. IsPort(s)
  BY DEF Good
<1>3. \A x, y :
        /\ Good(SetProto(s, x)) /\ Good(SetPktType(s, x))
        /\ Good(SetVlanId(s, x)) /\ Good(SetCos(s, x))
        /\ Good(SetTos(s, x)) /\ Good(SetMpls(s, x))
        /\ Good(SetGreKey(s, x)) /\ Good(SetQinq(s, x, y))
        /\ Good(SetDstMac(s, x)) /\ Good(SetDstIp(s, x))
        /\ Good(SetSrcIp(s, x, y))
  BY <1>1, <1>2, SingleQuiet
<1>4. \A x : /\ Good(SetJitter(s, x)) /\ Good(SetPattern(s, x))
             /\ Good(SetUserPattern(s, x))
  BY <1>1, <1>2, FillQuiet
<1>5. call[1] = "set" => Good(SetValue(s, call[2], call[3]))
  BY LuaSetGood DEF Accepts
<1> QED
  BY <1>3, <1>4, <1>5
     DEF SingleCall, SingleFunctions, HeaderCall, HeaderNames, LabelCall,
         LabelNames, FillCall, FillNames

LEMMA LuaRangeGood ==
  ASSUME NEW s, Good(s), NEW call, call[1] \in Ranges
  PROVE  Good(RangeCall(s, call))
<1>1. ASSUME NEW t, Quiet(s, t) PROVE Good(t)
  BY <1>1, QuietGood
<1>2. IsPort(s)
  BY DEF Good
<1>3. \A d, what, v :
        /\ Good(RangeMac(s, d, what, v)) /\ Good(RangeIp(s, d, what, v))
        /\ Good(RangePort(s, d, what, v)) /\ Good(RangeVlan(s, what, v))
        /\ Good(RangeSize(s, what, v)) /\ Good(RangeTeid(s, what, v))
  BY <1>1, <1>2, RangeQuiet
<1> QED
  BY <1>3 DEF RangeCall, Ranges, AddressRange, AddressRanges, NumberRange, NumberRanges

LEMMA LuaOtherGood ==
  ASSUME NEW s, Good(s), NEW k, NEW q, NEW mask
  PROVE  Good(SeqTable(s, k, q)) /\ Good(Rnd(s, k, mask)) /\ Good(RangeProto(s, q))
<1>1. Good(SetSeq(s, k, q))
  BY SeqQuiet, QuietGood DEF Good
<1>2. Good(SetSeqCosTos(SetSeq(s, k, q), k, q.cos, q.tos))
  BY <1>1, SeqQuiet, QuietGood DEF Good
<1>3. Good(SeqTable(s, k, q))
  BY <1>2 DEF SeqTable
<1> DEFINE t == [s EXCEPT !.rnd = IF mask = "off" THEN @ \ {k} ELSE @ \cup {k}]
<1>4. Quiet(s, t)
  BY DEF Good, IsPort, Quiet
<1>5. Good(t)
  BY <1>4, QuietGood
<1> HIDE DEF t
<1>6. Good(Switch(t, t.rnd /= {}, {"SEND_RANDOM_PKTS"}))
  BY <1>5, LooseSwitches
<1>7. Good(Rnd(s, k, mask))
  BY <1>6 DEF Rnd, t
<1>8. Good(RangeProto(s, q))
  BY RangeQuiet, QuietGood DEF Good
<1> QED
  BY <1>3, <1>7, <1>8

(* A Lua call that raises no error keeps the groups exclusive.             *)
LEMMA CallGood ==
  ASSUME NEW s, Good(s), NEW call, Accepts(call) PROVE Good(Call(s, call))
<1>1. call[1] \in Switches => Good(EnableCall(s, call[1], On(call[2])))
  BY LuaEnableGood
<1>2. call[1] \in Ranges => Good(RangeCall(s, call))
  BY LuaRangeGood
<1>3. call[1] \in DOMAIN Arity
  <2>1. ~(\E n : n \in SeqArity)
    BY DEF SeqArity
  <2>2. call[1] = "seq" => Len(call) - 1 \in SeqArity
    BY DEF Accepts
  <2>3. call[1] \in DOMAIN Arity \cup {"seq"}
    BY DEF Accepts
  <2> QED
    BY <2>1, <2>2, <2>3
<1>4. call[1] \in Switches \cup Ranges \cup SingleFunctions
        \cup {"ip_proto", "seqTable", "compile", "rnd", "ping4", "send_arp", "reset"}
  BY <1>3 DEF Arity, Switches, TagSwitches, ModeSwitches, TapSwitches, Ranges,
              AddressRanges, NumberRanges, SingleFunctions
<1>5. call[1] \in SingleFunctions => Good(SingleCall(s, call))
  BY LuaSingleGood
<1>6. /\ Good(SeqTable(s, call[2], call[3])) /\ Good(Rnd(s, call[2], call[4]))
      /\ Good(RangeProto(s, call[2])) /\ Good(Ping4(s))
      /\ Good(SendArp(s, call[2] = "g")) /\ Good(Reset(s))
  BY LuaOtherGood, RequestGood, ResetGood
<1> QED
  BY <1>1, <1>2, <1>4, <1>5, <1>6 DEF Call
-----------------------------------------------------------------------------
(* Whatever the user types and calls, however often, and whatever is in    *)
(* the file that is loaded, a port never has two modes, two tags or two    *)
(* GRE headers at once.                                                    *)
THEOREM SettingsExclusive == Spec => []ModesExclusive
<1>1. Init => Good(port)
  BY FreshGood DEF Init
<1>2. Good(port) /\ [Next]_vars => Good(port)'
  <2> SUFFICES ASSUME Good(port), [Next]_vars PROVE Good(port')
    BY DEF Good, IsPort, Exclusive, AtMostOne
  <2>1. ASSUME NEW line \in Lines, Type(line) PROVE Good(port')
    BY <2>1, RunGood DEF Type
  <2>2. ASSUME NEW call \in Calls, MakeCall(call) PROVE Good(port')
    BY <2>2, CallGood DEF MakeCall
  <2>3. ASSUME NEW kind, SaveAndRestart(kind) PROVE Good(port')
    BY <2>3, FreshGood DEF SaveAndRestart
  <2>4. CASE LoadLine
    BY <2>4, RunGood DEF LoadLine
  <2>5. CASE LoadCall
    BY <2>5, CallGood DEF LoadCall
  <2>6. CASE EndLoad \/ UNCHANGED vars
    BY <2>6 DEF EndLoad, vars
  <2> QED
    BY <2>1, <2>2, <2>3, <2>4, <2>5, <2>6 DEF Next
<1>3. Good(port) => ModesExclusive
  BY DEF Good, ModesExclusive
<1> QED
  BY <1>1, <1>2, <1>3, PTL DEF Spec
-----------------------------------------------------------------------------
(* The order of the naturals is well founded.                              *)
Less == {ss \in Nat \X Nat : ss[1] < ss[2]}
LEMMA LessFounded == IsWellFoundedOn(Less, Nat)
BY NatLessThanWellFounded DEF OpToRel, Less

(* Induction, as a fact about a set: one that has 0 and with each number   *)
(* the next is all of the naturals.                                        *)
LEMMA NatInd ==
  ASSUME NEW S \in SUBSET Nat, 0 \in S, \A n \in S : n + 1 \in S
  PROVE  S = Nat
<1> DEFINE T == Nat \ S
<1> SUFFICES ASSUME T # {} PROVE FALSE
  OBVIOUS
<1>1. PICK x \in T : \A y \in T : <<y, x>> \notin Less
  <2>1. T \subseteq Nat
    OBVIOUS
  <2> HIDE DEF T
  <2> QED  BY <2>1, LessFounded, WFMin
<1>2. x \in Nat /\ x # 0 /\ x - 1 \in Nat /\ (x - 1) + 1 = x
  OBVIOUS
<1>3. <<x - 1, x>> \in Less
  BY <1>2 DEF Less
<1>4. x - 1 \in S
  BY <1>1, <1>2, <1>3
<1> QED  BY <1>1, <1>2, <1>4

(* f adds the numbers w up.                                                *)
Adds(f, w, N) == \A n \in 0..N : f[n] = IF n = 0 THEN 0 ELSE f[n - 1] + w[n - 1]

(* A sum of N positive numbers exists, and is no less than N.              *)
LEMMA SumExists ==
  ASSUME NEW w \in [Nat -> Nat], NEW N \in Nat
  PROVE  \E f \in [0..N -> Nat] : Adds(f, w, N)
<1> DEFINE K == {k \in Nat : \E f \in [0..k -> Nat] : Adds(f, w, k)}
<1>1. 0 \in K
  <2>1. [m \in 0..0 |-> 0] \in [0..0 -> Nat]
    OBVIOUS
  <2>2. Adds([m \in 0..0 |-> 0], w, 0)
    BY DEF Adds
  <2> QED  BY <2>1, <2>2
<1>2. ASSUME NEW k \in K PROVE k + 1 \in K
  <2>1. k \in Nat
    OBVIOUS
  <2>2. PICK f \in [0..k -> Nat] : Adds(f, w, k)
    OBVIOUS
  <2> DEFINE g == [m \in 0..(k + 1) |-> IF m = k + 1 THEN f[k] + w[k] ELSE f[m]]
  <2>3. f[k] \in Nat /\ w[k] \in Nat
    BY <2>1
  <2>4. g \in [0..(k + 1) -> Nat]
    <3>1. \A m \in 0..(k + 1) : m # k + 1 => m \in 0..k
      BY <2>1
    <3>2. \A a, b \in Nat : a + b \in Nat
      OBVIOUS
    <3>3. f[k] + w[k] \in Nat
      BY <2>3, <3>2, Zenon
    <3> QED  BY <3>1, <3>3
  <2>5. ASSUME NEW m \in 0..(k + 1)
        PROVE  g[m] = IF m = 0 THEN 0 ELSE g[m - 1] + w[m - 1]
    <3>1. CASE m = k + 1
      <4>1. m # 0 /\ m - 1 = k /\ k \in 0..(k + 1) /\ k # k + 1
        BY <2>1, <3>1
      <4> QED  BY <3>1, <4>1
    <3>2. CASE m # k + 1
      <4>1. m \in 0..k /\ g[m] = f[m]
        BY <2>1, <3>2
      <4>2. m # 0 => m - 1 \in 0..k /\ m - 1 # k + 1 /\ m - 1 \in 0..(k + 1)
        BY <2>1, <4>1
      <4>3. m # 0 => g[m - 1] = f[m - 1]
        BY <4>2
      <4> HIDE DEF g
      <4> QED  BY <2>2, <4>1, <4>3 DEF Adds
    <3> QED  BY <3>1, <3>2
  <2> HIDE DEF g
  <2>6. Adds(g, w, k + 1)
    BY <2>5 DEF Adds
  <2>7. k + 1 \in Nat
    BY <2>1
  <2> QED  BY <2>4, <2>6, <2>7
<1>3. N \in K
  <2>1. K \subseteq Nat
    OBVIOUS
  <2> HIDE DEF K
  <2> QED  BY <1>1, <1>2, <2>1, NatInd
<1> QED  BY <1>3

LEMMA SumBound ==
  ASSUME NEW w \in [Nat -> Nat], \A n \in Nat : w[n] > 0, NEW N \in Nat,
         NEW f, Adds(f, w, N), NEW n \in 0..N
  PROVE  f[n] \in Nat /\ f[n] >= n
<1> DEFINE K == {k \in Nat : k <= N => f[k] \in Nat /\ f[k] >= k}
<1>1. 0 \in K
  BY DEF Adds
<1>2. ASSUME NEW k \in K PROVE k + 1 \in K
  <2>1. k \in Nat /\ w[k] \in Nat /\ w[k] > 0
    OBVIOUS
  <2>2. CASE k + 1 <= N
    <3>1. k + 1 \in 0..N /\ k + 1 # 0 /\ (k + 1) - 1 = k /\ k <= N
      BY <2>1, <2>2
    <3>2. f[k + 1] = f[k] + w[k]
      BY <3>1 DEF Adds
    <3>3. f[k] \in Nat /\ f[k] >= k
      BY <3>1
    <3> QED  BY <2>1, <3>2, <3>3
  <2> QED  BY <2>1, <2>2
<1>3. n \in K
  <2>1. K \subseteq Nat
    OBVIOUS
  <2> HIDE DEF K
  <2> QED  BY <1>1, <1>2, <2>1, NatInd
<1> QED  BY <1>3
-----------------------------------------------------------------------------
(* The packets of a port: each has a size.                                 *)
PktFit(p) == "size" \in DOMAIN p /\ p.size \in Nat
PktsFit(pkts) == DOMAIN pkts = Slots /\ \A k \in Slots : PktFit(pkts[k])

LEMMA SeqBytesBound ==
  ASSUME NEW s, s.seqCnt \in 0..SeqSlots, PktsFit(s.pkts)
  PROVE  SeqBytes(s) \in Nat /\ SeqBytes(s) >= s.seqCnt
<1> DEFINE w == [n \in Nat |-> IF n < SeqSlots THEN s.pkts[n].size + Overhead ELSE 1]
           body(f) == [n \in 0..SeqSlots |->
                         IF n = 0 THEN 0
                         ELSE f[n - 1] + (s.pkts[n - 1].size + Overhead)]
           bytes == CHOOSE f : f = body(f)
<1>1. SeqSlots \in Nat
  BY SettingsAssumption
<1>2. \A n \in 0..SeqSlots : n < SeqSlots => s.pkts[n].size \in Nat
  BY <1>1 DEF PktsFit, PktFit, Slots, Ranged
<1>3. w \in [Nat -> Nat] /\ \A n \in Nat : w[n] > 0
  BY <1>1, <1>2 DEF Overhead
<1>4. \A n \in 1..SeqSlots : w[n - 1] = s.pkts[n - 1].size + Overhead
  BY <1>1
<1> HIDE DEF w
<1>5. PICK f \in [0..SeqSlots -> Nat] : Adds(f, w, SeqSlots)
  BY <1>1, <1>3, SumExists
<1>6. f = body(f)
  <2>1. \A n \in 0..SeqSlots : f[n] = body(f)[n]
    BY <1>1, <1>4, <1>5 DEF Adds
  <2>2. DOMAIN f = 0..SeqSlots /\ f = [n \in 0..SeqSlots |-> f[n]]
    BY <1>5
  <2> QED  BY <2>1, <2>2
<1>7. bytes = body(bytes)
  BY <1>6
<1>8. Adds(bytes, w, SeqSlots)
  <2> HIDE DEF bytes
  <2>1. \A n \in 0..SeqSlots : bytes[n] = IF n = 0 THEN 0
                         ELSE bytes[n - 1] + (s.pkts[n - 1].size + Overhead)
    BY <1>7
  <2> QED  BY <1>1, <1>4, <2>1 DEF Adds
<1>9. SeqBytes(s) = bytes[s.seqCnt]
  BY DEF SeqBytes
<1> HIDE DEF bytes
<1> QED  BY <1>1, <1>3, <1>8, <1>9, SumBound

LEMMA WireSizePositive ==
  ASSUME NEW s, s.seqCnt \in 0..SeqSlots, PktsFit(s.pkts)
  PROVE  WireSize(s) \in Nat /\ WireSize(s) > 0
<1>1. SeqSlots \in Nat /\ PcapSize \in Nat /\ s.seqCnt \in Nat
  BY SettingsAssumption
<1>2. s.pkts[Single].size \in Nat
  BY <1>1 DEF PktsFit, PktFit, Slots, Single, Ranged
<1>3. ASSUME NEW b \in Nat, NEW n \in Nat, n > 0, b >= n
      PROVE  b \div n \in Nat /\ b \div n > 0
  BY <1>3
<1>4. SeqBytes(s) \in Nat /\ SeqBytes(s) >= s.seqCnt
  BY SeqBytesBound
<1>5. CASE s.seqCnt > 0
  <2>1. SeqBytes(s) \div s.seqCnt \in Nat /\ SeqBytes(s) \div s.seqCnt > 0
    BY <1>1, <1>3, <1>4, <1>5
  <2> QED  BY <1>1, <1>5, <2>1 DEF WireSize, Overhead
<1>6. CASE ~(s.seqCnt > 0)
  BY <1>1, <1>2, <1>6 DEF WireSize, Overhead
<1> QED  BY <1>5, <1>6

LEMMA CyclesNat ==
  ASSUME NEW pps \in Nat, NEW burst \in Nat PROVE Cycles(pps, burst) \in Nat
<1>1. Hz \in Nat /\ TxQueues \in Nat
  BY SettingsAssumption
<1>2. pps > 0 => Hz \div pps \in Nat
  BY <1>1
<1>3. Hz \div 4 \in Nat
  BY <1>1
<1> DEFINE c == IF pps > 0 THEN Hz \div pps ELSE Hz \div 4
<1>4. c \in Nat
  BY <1>2, <1>3
<1> HIDE DEF c
<1>5. c * burst \in Nat
  BY <1>4
<1>6. c * burst * TxQueues \in Nat
  BY <1>1, <1>5
<1> QED  BY <1>6 DEF Cycles, c

LEMMA MinOfTwo ==
  ASSUME NEW a \in Int, NEW b \in Int
  PROVE  Min({a, b}) = IF a <= b THEN a ELSE b
<1> DEFINE m == IF a <= b THEN a ELSE b
<1>1. m \in {a, b} /\ \A y \in {a, b} : m <= y
  OBVIOUS
<1>2. ASSUME NEW x \in {a, b}, \A y \in {a, b} : x <= y PROVE x = m
  BY <1>2
<1> QED  BY <1>1, <1>2 DEF Min

LEMMA MaxOfTwo ==
  ASSUME NEW a \in Int, NEW b \in Int
  PROVE  Max({a, b}) = IF a >= b THEN a ELSE b
<1> DEFINE m == IF a >= b THEN a ELSE b
<1>1. m \in {a, b} /\ \A y \in {a, b} : m >= y
  OBVIOUS
<1>2. ASSUME NEW x \in {a, b}, \A y \in {a, b} : x >= y PROVE x = m
  BY <1>2
<1> QED  BY <1>1, <1>2 DEF Max

LEMMA MaxOfThree ==
  ASSUME NEW a \in Int, NEW b \in Int, NEW c \in Int
  PROVE  /\ Max({a, b, c}) \in {a, b, c}
         /\ \A y \in {a, b, c} : Max({a, b, c}) >= y
<1> DEFINE m == IF a >= b /\ a >= c THEN a ELSE IF b >= c THEN b ELSE c
<1>1. m \in {a, b, c} /\ \A y \in {a, b, c} : m >= y
  OBVIOUS
<1> QED  BY <1>1 DEF Max
-----------------------------------------------------------------------------
(* Settings the transmitter can send with: the parts of Sendable, and what *)
(* of the record they need.                                                *)
Fields == {"flags", "burst", "prime", "seqCnt", "pkts", "range", "rate", "pps",
           "cycles"}
Raw(s) == Fields \subseteq DOMAIN s /\ PktsFit(s.pkts)
Counted(s) ==
  s.burst \in 1..MaxBurst /\ s.prime \in 1..MaxPrime /\ s.seqCnt \in 0..SeqSlots
NotEmpty(s) == "SEND_SEQ_PKTS" \in s.flags => s.seqCnt > 0
SingleFit(s) == s.pkts[Single].size <= MaxSize
SizeSpan(span) ==
  /\ Smmi \subseteq DOMAIN span /\ span["inc"] \in Nat
  /\ \A what \in {"start", "min", "max"} : span[what] \in MinSize..MaxSize
SpansFit(s) == "size" \in DOMAIN s.range /\ SizeSpan(s.range["size"])
Timed(s) == s.rate \in Nat /\ s.pps \in Nat /\ s.cycles \in Nat

Fit(s) ==
  /\ Raw(s) /\ Counted(s) /\ NotEmpty(s) /\ SingleFit(s) /\ SpansFit(s)
  /\ Timed(s)

(* t has the fields of s that matter.                                      *)
Alike(s, t) ==
  /\ Fields \subseteq DOMAIN t
  /\ t.flags = s.flags /\ t.burst = s.burst /\ t.prime = s.prime
  /\ t.seqCnt = s.seqCnt /\ t.pkts = s.pkts /\ t.range = s.range
  /\ t.rate = s.rate /\ t.pps = s.pps /\ t.cycles = s.cycles

LEMMA AlikeFit == ASSUME NEW s, NEW t, Fit(s), Alike(s, t) PROVE Fit(t)
BY DEF Fit, Alike, Raw, Counted, NotEmpty, SingleFit, SpansFit, Timed

LEMMA FillFit ==
  ASSUME NEW s, Fit(s), NEW v
  PROVE  /\ Fit(SetTxCount(s, v)) /\ Fit(SetJitter(s, v)) /\ Fit(SetPattern(s, v))
         /\ Fit(SetUserPattern(s, v)) /\ Fit(EnableMacFromArp(s, v))
         /\ Fit([s EXCEPT !.rnd = v]) /\ Fit([s EXCEPT !.rangeProto = v])
<1>1. Fields \subseteq DOMAIN s
  BY DEF Fit, Raw
<1>2. Alike(s, SetTxCount(s, v)) /\ Alike(s, SetJitter(s, v))
  BY <1>1 DEF Alike, Fields, SetTxCount, SetJitter
<1>3. Alike(s, SetPattern(s, v)) /\ Alike(s, SetUserPattern(s, v))
  BY <1>1 DEF Alike, Fields, SetPattern, SetUserPattern
<1>4. Alike(s, EnableMacFromArp(s, v)) /\ Alike(s, [s EXCEPT !.rnd = v])
  BY <1>1 DEF Alike, Fields, EnableMacFromArp
<1>5. Alike(s, [s EXCEPT !.rangeProto = v])
  BY <1>1 DEF Alike, Fields
<1> QED  BY <1>2, <1>3, <1>4, <1>5, AlikeFit

LEMMA SlotFacts == Single \in Slots /\ Ranged \in Slots /\ Single # Ranged
BY SettingsAssumption DEF Slots, Single, Ranged

(* A packet that has a size, and a SINGLE packet that fits a mbuf.         *)
LEMMA PutFit ==
  ASSUME NEW s, Fit(s), NEW k, NEW p, k \in Slots => PktFit(p),
         k = Single => p.size <= MaxSize
  PROVE  Fit(Put(s, k, p))
<1> DEFINE pkts == [s.pkts EXCEPT ![k] = p]
           t == [s EXCEPT !.pkts = pkts]
<1>1. Fields \subseteq DOMAIN s /\ PktsFit(s.pkts) /\ SingleFit(s)
  BY DEF Fit, Raw
<1>2. PktsFit(pkts)
  BY <1>1 DEF PktsFit
<1>3. pkts[Single].size <= MaxSize
  <2>1. pkts[Single] = IF k = Single THEN p ELSE s.pkts[Single]
    BY <1>1, SlotFacts DEF PktsFit
  <2> QED  BY <1>1, <2>1 DEF SingleFit
<1> HIDE DEF pkts
<1>4. /\ Fields \subseteq DOMAIN t /\ t.pkts = pkts
      /\ t.flags = s.flags /\ t.burst = s.burst /\ t.prime = s.prime
      /\ t.seqCnt = s.seqCnt /\ t.range = s.range
      /\ t.rate = s.rate /\ t.pps = s.pps /\ t.cycles = s.cycles
  BY <1>1 DEF Fields
<1> HIDE DEF t
<1>5. Fit(t)
  BY <1>2, <1>3, <1>4
     DEF Fit, Raw, Counted, NotEmpty, SingleFit, SpansFit, Timed
<1> QED  BY <1>5 DEF Put, t, pkts

(* A field of a packet other than its size.                                *)
LEMMA PktFieldFit ==
  ASSUME NEW s, Fit(s), NEW k, NEW f, f # "size", NEW v
  PROVE  Fit([s EXCEPT !.pkts[k][f] = v])
<1> DEFINE p == [s.pkts[k] EXCEPT ![f] = v]
           pkts == [s.pkts EXCEPT ![k] = p]
           t == [s EXCEPT !.pkts = pkts]
<1>1. Fields \subseteq DOMAIN s /\ PktsFit(s.pkts) /\ SingleFit(s)
  BY DEF Fit, Raw
<1>2. PktFit(s.pkts[k]) => PktFit(p) /\ p.size = s.pkts[k].size
  BY DEF PktFit
<1> HIDE DEF p
<1>3. PktsFit(pkts)
  BY <1>1, <1>2 DEF PktsFit
<1>4. pkts[Single].size <= MaxSize
  <2>1. pkts[Single] = IF k = Single THEN p ELSE s.pkts[Single]
    BY <1>1, SlotFacts DEF PktsFit
  <2>2. PktFit(s.pkts[Single])
    BY <1>1, SlotFacts DEF PktsFit
  <2> QED  BY <1>1, <1>2, <2>1, <2>2 DEF SingleFit
<1> HIDE DEF pkts
<1>5. /\ Fields \subseteq DOMAIN t /\ t.pkts = pkts
      /\ t.flags = s.flags /\ t.burst = s.burst /\ t.prime = s.prime
      /\ t.seqCnt = s.seqCnt /\ t.range = s.range
      /\ t.rate = s.rate /\ t.pps = s.pps /\ t.cycles = s.cycles
  BY <1>1 DEF Fields
<1>6. t = [s EXCEPT !.pkts[k][f] = v]
  BY DEF pkts, p
<1> HIDE DEF t
<1>7. Fit(t)
  BY <1>3, <1>4, <1>5
     DEF Fit, Raw, Counted, NotEmpty, SingleFit, SpansFit, Timed
<1> QED  BY <1>6, <1>7

LEMMA FlagsFit ==
  ASSUME NEW s, Fit(s), NEW F
  PROVE  /\ Fit(ClrFlags(s, F))
         /\ "SEND_SEQ_PKTS" \notin F \/ s.seqCnt > 0 => Fit(SetFlags(s, F))
<1>1. Fields \subseteq DOMAIN s
  BY DEF Fit, Raw
<1>2. ASSUME NEW G, "SEND_SEQ_PKTS" \in G => s.seqCnt > 0
      PROVE  Fit([s EXCEPT !.flags = G])
  <2> DEFINE t == [s EXCEPT !.flags = G]
  <2>1. /\ Fields \subseteq DOMAIN t /\ t.pkts = s.pkts
        /\ t.flags = G /\ t.burst = s.burst /\ t.prime = s.prime
        /\ t.seqCnt = s.seqCnt /\ t.range = s.range
        /\ t.rate = s.rate /\ t.pps = s.pps /\ t.cycles = s.cycles
    BY <1>1 DEF Fields
  <2> HIDE DEF t
  <2>2. Fit(t)
    BY <1>2, <2>1 DEF Fit, Raw, Counted, NotEmpty, SingleFit, SpansFit, Timed
  <2> QED  BY <2>2 DEF t
<1>3. Fit([s EXCEPT !.flags = s.flags \ F])
  BY <1>2 DEF Fit, NotEmpty
<1>4. "SEND_SEQ_PKTS" \notin F \/ s.seqCnt > 0 => Fit([s EXCEPT !.flags = s.flags \cup F])
  BY <1>2 DEF Fit, NotEmpty
<1> QED  BY <1>3, <1>4 DEF ClrFlags, SetFlags

LEMMA SwitchFit ==
  ASSUME NEW s, Fit(s), NEW on, NEW F, "SEND_SEQ_PKTS" \notin F
  PROVE  Fit(Switch(s, on, F))
BY FlagsFit DEF Switch

LEMMA OneOfFit ==
  ASSUME NEW s, Fit(s), NEW on, NEW f, NEW group,
         f # "SEND_SEQ_PKTS" \/ s.seqCnt > 0 \/ ~on
  PROVE  Fit(OneOf(s, on, f, group))
<1>1. Fit(ClrFlags(s, group)) /\ Fit(ClrFlags(s, {f}))
  BY FlagsFit
<1>2. ClrFlags(s, group).seqCnt = s.seqCnt
  BY DEF Fit, Raw, Fields, ClrFlags
<1>3. on => Fit(SetFlags(ClrFlags(s, group), {f}))
  BY <1>1, <1>2, FlagsFit
<1> QED  BY <1>1, <1>3 DEF OneOf

(* The pace, of settings whose rate is a number.                           *)
LEMMA PacedTimed ==
  ASSUME NEW s, Raw(s), Counted(s), s.rate \in Nat
  PROVE  /\ Raw(Paced(s)) /\ Timed(Paced(s))
         /\ Paced(s).flags = s.flags /\ Paced(s).burst = s.burst
         /\ Paced(s).prime = s.prime /\ Paced(s).seqCnt = s.seqCnt
         /\ Paced(s).pkts = s.pkts /\ Paced(s).range = s.range
         /\ Paced(s).rate = s.rate
<1> DEFINE pps == ((Link \div WireSize(s)) * s.rate) \div Link
           cycles == Cycles(pps, s.burst)
           t == [s EXCEPT !.pps = pps, !.cycles = cycles]
<1>1. Fields \subseteq DOMAIN s /\ PktsFit(s.pkts) /\ s.seqCnt \in 0..SeqSlots
      /\ s.burst \in Nat
  BY DEF Raw, Counted, MaxBurst
<1>2. WireSize(s) \in Nat /\ WireSize(s) > 0 /\ Link \in Nat /\ Link > 0
  BY <1>1, WireSizePositive, SettingsAssumption
<1>3. pps \in Nat
  <2>1. Link \div WireSize(s) \in Nat
    BY <1>2
  <2>2. \A a, b \in Nat : a * b \in Nat
    OBVIOUS
  <2>3. (Link \div WireSize(s)) * s.rate \in Nat
    BY <2>1, <2>2, Zenon
  <2>4. \A a \in Nat : a \div Link \in Nat
    BY <1>2
  <2> QED  BY <2>3, <2>4, Zenon
<1> HIDE DEF pps
<1>4. cycles \in Nat
  BY <1>1, <1>3, CyclesNat
<1> HIDE DEF cycles
<1>5. /\ Fields \subseteq DOMAIN t /\ t.pkts = s.pkts
      /\ t.flags = s.flags /\ t.burst = s.burst /\ t.prime = s.prime
      /\ t.seqCnt = s.seqCnt /\ t.range = s.range
      /\ t.rate = s.rate /\ t.pps = pps /\ t.cycles = cycles
  BY <1>1 DEF Fields
<1>6. Paced(s) = t
  BY DEF Paced, pps, cycles
<1> HIDE DEF t
<1> QED  BY <1>1, <1>3, <1>4, <1>5, <1>6 DEF Raw, Timed

LEMMA PacedFit ==
  ASSUME NEW s, Raw(s), Counted(s), NotEmpty(s), SingleFit(s), SpansFit(s),
         s.rate \in Nat
  PROVE  Fit(Paced(s))
BY PacedTimed DEF Fit, Counted, NotEmpty, SingleFit, SpansFit

LEMMA FitPaced == ASSUME NEW s, Fit(s) PROVE Fit(Paced(s))
BY PacedFit DEF Fit, Timed
-----------------------------------------------------------------------------
(* The setters.                                                            *)
LEMMA SingleFacts ==
  ASSUME NEW s, Fit(s)
  PROVE  PktFit(s.pkts[Single]) /\ s.pkts[Single].size <= MaxSize
BY SlotFacts DEF Fit, Raw, PktsFit, SingleFit

(* SINGLE keeps its size.                                                  *)
LEMMA SingleKept ==
  ASSUME NEW s, Fit(s), NEW p, PktFit(p), p.size = s.pkts[Single].size
  PROVE  Fit(SinglePut(s, p))
BY PutFit, SingleFacts DEF SinglePut

LEMMA SetPktSizeFit ==
  ASSUME NEW s, Fit(s), NEW size \in Nat PROVE Fit(SetPktSize(s, size))
<1> DEFINE p == s.pkts[Single]
           least == IF "SEND_SHORT_PACKETS" \in s.flags THEN 0 ELSE MinSize
           m == Max({size - Fcs, 0, least})
           n == Min({m, MaxSize})
           z == IF p.ethType = "ipv6" THEN Max({n, MinV6Size}) ELSE n
           q == [p EXCEPT !.size = z]
<1>1. size - Fcs \in Int /\ least \in Int /\ 0 \in Int
  BY DEF Fcs, MinSize
<1> HIDE DEF least
<1>2. m \in Int /\ m >= 0
  <2>1. m \in {size - Fcs, 0, least} /\ \A y \in {size - Fcs, 0, least} : m >= y
    BY <1>1, MaxOfThree
  <2> HIDE DEF m
  <2> QED  BY <1>1, <2>1
<1> HIDE DEF m
<1>3. n \in Nat /\ n <= MaxSize
  <2>1. MaxSize \in Int /\ MaxSize >= 0
    BY DEF MaxSize
  <2>2. n = IF m <= MaxSize THEN m ELSE MaxSize
    BY <1>2, <2>1, MinOfTwo
  <2> HIDE DEF n
  <2> QED  BY <1>2, <2>1, <2>2
<1> HIDE DEF n
<1>4. z \in Nat /\ z <= MaxSize
  <2>1. MinV6Size \in Nat /\ MinV6Size <= MaxSize
    BY DEF MinV6Size, MaxSize
  <2>2. Max({n, MinV6Size}) = IF n >= MinV6Size THEN n ELSE MinV6Size
    BY <1>3, <2>1, MaxOfTwo
  <2> QED  BY <1>3, <2>1, <2>2
<1> HIDE DEF z
<1>5. PktFit(q) /\ q.size = z
  BY <1>4, SingleFacts DEF PktFit
<1> HIDE DEF q
<1>6. Fit(Put(s, Single, q))
  BY <1>4, <1>5, PutFit
<1>7. SetPktSize(s, size) = SinglePut(s, q)
  BY DEF SetPktSize, q, p, z, n, m, least
<1> QED  BY <1>6, <1>7 DEF SinglePut

LEMMA SetPktTypeFit ==
  ASSUME NEW s, Fit(s), NEW word PROVE Fit(SetPktType(s, word))
<1> DEFINE p == s.pkts[Single]
           type == IF word \in {"arp", "ipv6"} THEN word ELSE "ipv4"
           z == CASE p.ethType = "ipv6" /\ type = "ipv4" /\ p.size >= MinV6Size
                       -> p.size - (MinV6Size - MinSize)
                  [] p.ethType = "ipv4" /\ type = "ipv6" /\ p.size < MinV6Size
                       -> p.size + (MinV6Size - MinSize)
                  [] OTHER -> p.size
           q == [p EXCEPT !.ethType = type, !.size = z]
<1>1. p.size \in Nat /\ p.size <= MaxSize /\ PktFit(p)
  BY SingleFacts DEF PktFit
<1>2. MinV6Size = 74 /\ MinSize = 60 /\ MaxSize = 1514
  BY DEF MinV6Size, MinSize, MaxSize
<1> DEFINE a == p.ethType = "ipv6" /\ type = "ipv4"
           b == p.ethType = "ipv4" /\ type = "ipv6"
<1>3. z = IF a /\ p.size >= MinV6Size THEN p.size - (MinV6Size - MinSize)
          ELSE IF b /\ p.size < MinV6Size THEN p.size + (MinV6Size - MinSize)
          ELSE p.size
  OBVIOUS
<1> HIDE DEF a, b, z
<1>4. z \in Nat /\ z <= MaxSize
  BY <1>1, <1>2, <1>3
<1>5. PktFit(q) /\ q.size = z
  BY <1>1, <1>4 DEF PktFit
<1> HIDE DEF q, type
<1>6. Fit(Put(s, Single, q))
  BY <1>4, <1>5, PutFit
<1>7. SetPktType(s, word) = SinglePut(s, q)
  BY DEF SetPktType, q, p, z, type
<1> QED  BY <1>6, <1>7 DEF SinglePut

LEMMA SingleFit2 ==
  ASSUME NEW s, Fit(s), NEW v, NEW w
  PROVE  /\ Fit(SetProto(s, v)) /\ Fit(SetVlanId(s, v)) /\ Fit(SetCos(s, v))
         /\ Fit(SetTos(s, v)) /\ Fit(SetMpls(s, v)) /\ Fit(SetGreKey(s, v))
         /\ Fit(SetQinq(s, v, w)) /\ Fit(SetDstMac(s, v)) /\ Fit(SetSrcMac(s, v))
         /\ Fit(SetDstIp(s, v)) /\ Fit(SetSrcIp(s, v, w))
         /\ v # "size" => Fit(SetPort(s, v, w))
<1> DEFINE p == s.pkts[Single]
<1>1. PktFit(p)
  BY SingleFacts
<1>2. ASSUME NEW f, f # "size", NEW x
      PROVE  Fit(SinglePut(s, [p EXCEPT ![f] = x]))
  <2> DEFINE q == [p EXCEPT ![f] = x]
  <2>1. PktFit(q) /\ q.size = p.size
    BY <1>1, <1>2 DEF PktFit
  <2> HIDE DEF q
  <2>2. Fit(SinglePut(s, q))
    BY <2>1, SingleKept
  <2> QED  BY <2>2 DEF q
<1>3. Fit(SetProto(s, v))
  <2> DEFINE e == IF v = "icmp" THEN "ipv4" ELSE p.ethType
             q == [p EXCEPT !.proto = v, !.ethType = e]
  <2>1. PktFit(q) /\ q.size = p.size
    BY <1>1 DEF PktFit
  <2>2. SetProto(s, v) = SinglePut(s, q)
    BY DEF SetProto
  <2> HIDE DEF q
  <2> QED  BY <2>1, <2>2, SingleKept
<1>4. Fit(SetSrcIp(s, v, w))
  <2> DEFINE q == [p EXCEPT !.srcIp = v, !.mask = w]
  <2>1. PktFit(q) /\ q.size = p.size
    BY <1>1 DEF PktFit
  <2>2. SetSrcIp(s, v, w) = SinglePut(s, q)
    BY DEF SetSrcIp
  <2> HIDE DEF q
  <2> QED  BY <2>1, <2>2, SingleKept
<1>5. /\ Fit(SetVlanId(s, v)) /\ Fit(SetCos(s, v)) /\ Fit(SetTos(s, v))
      /\ Fit(SetMpls(s, v)) /\ Fit(SetGreKey(s, v)) /\ Fit(SetQinq(s, v, w))
  BY <1>2 DEF SetVlanId, SetCos, SetTos, SetMpls, SetGreKey, SetQinq
<1>6. /\ Fit(SetDstMac(s, v)) /\ Fit(SetSrcMac(s, v)) /\ Fit(SetDstIp(s, v))
      /\ v # "size" => Fit(SetPort(s, v, w))
  BY <1>2 DEF SetDstMac, SetSrcMac, SetDstIp, SetPort
<1> QED  BY <1>3, <1>4, <1>5, <1>6

(* Rate, burst, counts: fields of the record itself.                       *)
LEMMA SetTxRateFit ==
  ASSUME NEW s, Fit(s), NEW rate \in Nat PROVE Fit(SetTxRate(s, rate))
<1> DEFINE r == IF rate = 0 THEN LeastRate ELSE Min({rate, Link})
           t == [s EXCEPT !.rate = r]
<1>1. r \in Nat
  <2>1. Link \in Nat /\ LeastRate \in Nat
    BY SettingsAssumption
  <2>2. Min({rate, Link}) = IF rate <= Link THEN rate ELSE Link
    BY <2>1, MinOfTwo
  <2> QED  BY <2>1, <2>2
<1> HIDE DEF r
<1>2. /\ Fields \subseteq DOMAIN t /\ t.pkts = s.pkts
      /\ t.flags = s.flags /\ t.burst = s.burst /\ t.prime = s.prime
      /\ t.seqCnt = s.seqCnt /\ t.range = s.range /\ t.rate = r
  BY DEF Fit, Raw, Fields
<1> HIDE DEF t
<1>3. Fit(Paced(t))
  BY <1>1, <1>2, PacedFit DEF Fit, Raw, Counted, NotEmpty, SingleFit, SpansFit
<1> QED  BY <1>3 DEF SetTxRate, t, r

LEMMA SetPpsFit ==
  ASSUME NEW s, Fit(s), NEW pps \in Nat PROVE Fit(SetPps(s, pps))
<1> DEFINE r == pps * WireSize(s)
           c == Cycles(pps, 32)
           t == [s EXCEPT !.pps = pps, !.rate = r, !.burst = 32, !.cycles = c]
<1>1. r \in Nat
  <2>1. WireSize(s) \in Nat
    BY WireSizePositive DEF Fit, Raw, Counted
  <2>2. \A a, b \in Nat : a * b \in Nat
    OBVIOUS
  <2> QED  BY <2>1, <2>2, Zenon
<1>2. c \in Nat
  BY CyclesNat
<1> HIDE DEF r, c
<1>3. /\ Fields \subseteq DOMAIN t /\ t.pkts = s.pkts
      /\ t.flags = s.flags /\ t.burst = 32 /\ t.prime = s.prime
      /\ t.seqCnt = s.seqCnt /\ t.range = s.range
      /\ t.rate = r /\ t.pps = pps /\ t.cycles = c
  BY DEF Fit, Raw, Fields
<1> HIDE DEF t
<1>4. Fit(t)
  BY <1>1, <1>2, <1>3
     DEF Fit, Raw, Counted, NotEmpty, SingleFit, SpansFit, Timed, MaxBurst
<1> QED  BY <1>4 DEF SetPps, t, r, c

LEMMA SetCountsFit ==
  ASSUME NEW s, Fit(s), NEW n \in Nat
  PROVE  /\ Fit(SetTxBurst(s, n)) /\ Fit(SetTxCycles(s, n)) /\ Fit(SetPrime(s, n))
<1>1. Fields \subseteq DOMAIN s
  BY DEF Fit, Raw
<1> DEFINE b == Min({Max({n, 1}), MaxBurst})
           p == IF n = 0 THEN 1 ELSE Min({n, MaxPrime})
<1>2. b \in 1..MaxBurst
  <2> DEFINE x == Max({n, 1})
  <2>1. x \in Int /\ x >= 1
    <3>1. x = IF n >= 1 THEN n ELSE 1
      BY MaxOfTwo
    <3> QED  BY <3>1
  <2> HIDE DEF x
  <2>2. b = IF x <= MaxBurst THEN x ELSE MaxBurst
    BY <2>1, MinOfTwo DEF MaxBurst, x
  <2> HIDE DEF b
  <2> QED  BY <2>1, <2>2 DEF MaxBurst
<1>3. p \in 1..MaxPrime
  <2>1. Min({n, MaxPrime}) = IF n <= MaxPrime THEN n ELSE MaxPrime
    BY MinOfTwo DEF MaxPrime
  <2> QED  BY <2>1 DEF MaxPrime
<1> HIDE DEF b, p
<1>4. ASSUME NEW x \in 1..MaxBurst PROVE Fit([s EXCEPT !.burst = x])
  <2> DEFINE t == [s EXCEPT !.burst = x]
  <2>1. /\ Fields \subseteq DOMAIN t /\ t.pkts = s.pkts
        /\ t.flags = s.flags /\ t.burst = x /\ t.prime = s.prime
        /\ t.seqCnt = s.seqCnt /\ t.range = s.range
        /\ t.rate = s.rate /\ t.pps = s.pps /\ t.cycles = s.cycles
    BY <1>1 DEF Fields
  <2> HIDE DEF t
  <2>2. Fit(t)
    BY <1>4, <2>1 DEF Fit, Raw, Counted, NotEmpty, SingleFit, SpansFit, Timed
  <2> QED  BY <2>2 DEF t
<1>5. ASSUME NEW x \in 1..MaxPrime PROVE Fit([s EXCEPT !.prime = x])
  <2> DEFINE t == [s EXCEPT !.prime = x]
  <2>1. /\ Fields \subseteq DOMAIN t /\ t.pkts = s.pkts
        /\ t.flags = s.flags /\ t.burst = s.burst /\ t.prime = x
        /\ t.seqCnt = s.seqCnt /\ t.range = s.range
        /\ t.rate = s.rate /\ t.pps = s.pps /\ t.cycles = s.cycles
    BY <1>1 DEF Fields
  <2> HIDE DEF t
  <2>2. Fit(t)
    BY <1>5, <2>1 DEF Fit, Raw, Counted, NotEmpty, SingleFit, SpansFit, Timed
  <2> QED  BY <2>2 DEF t
<1>6. Fit([s EXCEPT !.cycles = n])
  <2> DEFINE t == [s EXCEPT !.cycles = n]
  <2>1. /\ Fields \subseteq DOMAIN t /\ t.pkts = s.pkts
        /\ t.flags = s.flags /\ t.burst = s.burst /\ t.prime = s.prime
        /\ t.seqCnt = s.seqCnt /\ t.range = s.range
        /\ t.rate = s.rate /\ t.pps = s.pps /\ t.cycles = n
    BY <1>1 DEF Fields
  <2> HIDE DEF t
  <2>2. Fit(t)
    BY <2>1 DEF Fit, Raw, Counted, NotEmpty, SingleFit, SpansFit, Timed
  <2> QED  BY <2>2 DEF t
<1>7. Fit([s EXCEPT !.burst = b]) /\ Fit([s EXCEPT !.prime = p])
  BY <1>2, <1>3, <1>4, <1>5
<1> QED  BY <1>6, <1>7 DEF SetTxBurst, SetTxCycles, SetPrime, b, p

LEMMA SetSeqCntFit ==
  ASSUME NEW s, Fit(s), NEW n \in Nat PROVE Fit(SetSeqCnt(s, n))
<1> DEFINE c == Min({n, SeqSlots})
           t == [s EXCEPT !.seqCnt = c]
           u == OneOf(t, n > 0, "SEND_SEQ_PKTS", ModeFlags)
<1>1. c \in 0..SeqSlots /\ (n > 0 => c > 0)
  <2>1. SeqSlots \in Nat /\ SeqSlots > 0
    BY SettingsAssumption
  <2>2. c = IF n <= SeqSlots THEN n ELSE SeqSlots
    BY <2>1, MinOfTwo
  <2> HIDE DEF c
  <2> QED  BY <2>1, <2>2
<1> HIDE DEF c
<1>2. /\ Fields \subseteq DOMAIN t /\ t.pkts = s.pkts
      /\ t.flags = s.flags /\ t.burst = s.burst /\ t.prime = s.prime
      /\ t.seqCnt = c /\ t.range = s.range
      /\ t.rate = s.rate /\ t.pps = s.pps /\ t.cycles = s.cycles
  BY DEF Fit, Raw, Fields
<1> HIDE DEF t
<1>3. \E G : /\ u = [t EXCEPT !.flags = G]
             /\ "SEND_SEQ_PKTS" \in G => n > 0
  <2>1. CASE n > 0
    <3>1. u = SetFlags(ClrFlags(t, ModeFlags), {"SEND_SEQ_PKTS"})
      BY <2>1 DEF OneOf
    <3>2. u = [t EXCEPT !.flags = (t.flags \ ModeFlags) \cup {"SEND_SEQ_PKTS"}]
      BY <1>2, <3>1 DEF SetFlags, ClrFlags, Fields
    <3> HIDE DEF u
    <3> QED  BY <2>1, <3>2
  <2>2. CASE ~(n > 0)
    <3>1. u = [t EXCEPT !.flags = t.flags \ {"SEND_SEQ_PKTS"}]
      BY <2>2 DEF OneOf, ClrFlags
    <3>2. "SEND_SEQ_PKTS" \notin t.flags \ {"SEND_SEQ_PKTS"}
      OBVIOUS
    <3> HIDE DEF u
    <3> QED  BY <3>1, <3>2, Zenon
  <2> QED  BY <2>1, <2>2
<1> HIDE DEF u
<1>4. PICK G : u = [t EXCEPT !.flags = G] /\ ("SEND_SEQ_PKTS" \in G => n > 0)
  BY <1>3
<1>5. /\ Fields \subseteq DOMAIN u /\ u.pkts = s.pkts
      /\ u.flags = G /\ u.burst = s.burst /\ u.prime = s.prime
      /\ u.seqCnt = c /\ u.range = s.range /\ u.rate = s.rate
  BY <1>2, <1>4 DEF Fields
<1>6. Fit(Paced(u))
  BY <1>1, <1>4, <1>5, PacedFit
     DEF Fit, Raw, Counted, NotEmpty, SingleFit, SpansFit, Timed
<1> QED  BY <1>6 DEF SetSeqCnt, u, t, c
-----------------------------------------------------------------------------
(* Switches, ranges, the sequence and the requests.                        *)
LEMMA SwitchesFit ==
  ASSUME NEW s, Fit(s), NEW on, NEW f, f # "SEND_SEQ_PKTS"
  PROVE  /\ Fit(EnableTap(s, on, f)) /\ Fit(EnableGarp(s, on))
         /\ Fit(EnableVlan(s, on)) /\ Fit(EnableMpls(s, on))
         /\ Fit(EnableQinq(s, on)) /\ Fit(EnableGre(s, on))
         /\ Fit(EnableGreEth(s, on)) /\ Fit(EnableRange(s, on))
         /\ Fit(EnablePcap(s, on))
<1>1. Fit(EnableTap(s, on, f)) /\ Fit(EnableGarp(s, on))
  BY SwitchFit DEF EnableTap, EnableGarp
<1>2. ASSUME NEW g, g # "SEND_SEQ_PKTS", NEW group PROVE Fit(OneOf(s, on, g, group))
  BY <1>2, OneOfFit
<1>3. Fit(EnableVlan(s, on)) /\ Fit(EnableMpls(s, on)) /\ Fit(EnableQinq(s, on))
  BY <1>2 DEF EnableVlan, EnableMpls, EnableQinq
<1>4. Fit(EnableGre(s, on)) /\ Fit(EnableGreEth(s, on))
  BY <1>2 DEF EnableGre, EnableGreEth
<1>5. Fit(EnableRange(s, on)) /\ Fit(EnablePcap(s, on))
  BY <1>2, FitPaced DEF EnableRange, EnablePcap
<1> QED  BY <1>1, <1>3, <1>4, <1>5

LEMMA RequestFit ==
  ASSUME NEW s, Fit(s), NEW g PROVE Fit(Ping4(s)) /\ Fit(SendArp(s, g))
<1> DEFINE p == [s.pkts[Single] EXCEPT !.proto = "icmp"]
<1>1. PktFit(p) /\ p.size <= MaxSize
  BY SingleFacts DEF PktFit
<1> HIDE DEF p
<1>2. Fit(Put(s, Ping, p))
  BY <1>1, PutFit
<1>3. Fit(Ping4(s))
  BY <1>2, FlagsFit DEF Ping4, p
<1>4. Fit(SendArp(s, g))
  BY FlagsFit DEF SendArp
<1> QED  BY <1>3, <1>4

(* One value of one range.                                                 *)
LEMMA SetSpanFit ==
  ASSUME NEW s, Fit(s), NEW d, NEW what, NEW v,
         d = "size" => /\ what = "inc" => v \in Nat
                       /\ what \in {"start", "min", "max"} => v \in MinSize..MaxSize
  PROVE  Fit(SetSpan(s, d, what, v))
<1> DEFINE span == [s.range[d] EXCEPT ![what] = v]
           range == [s.range EXCEPT ![d] = span]
           t == [s EXCEPT !.range = range]
<1>1. Fields \subseteq DOMAIN s /\ SpansFit(s)
  BY DEF Fit, Raw
<1>2. d = "size" => SizeSpan(span)
  BY <1>1 DEF SpansFit, SizeSpan, Smmi
<1> HIDE DEF span
<1>3. "size" \in DOMAIN range /\ SizeSpan(range["size"])
  BY <1>1, <1>2 DEF SpansFit
<1> HIDE DEF range
<1>4. /\ Fields \subseteq DOMAIN t /\ t.pkts = s.pkts
      /\ t.flags = s.flags /\ t.burst = s.burst /\ t.prime = s.prime
      /\ t.seqCnt = s.seqCnt /\ t.range = range
      /\ t.rate = s.rate /\ t.pps = s.pps /\ t.cycles = s.cycles
  BY <1>1 DEF Fields
<1> HIDE DEF t
<1>5. Fit(t)
  BY <1>3, <1>4 DEF Fit, Raw, Counted, NotEmpty, SingleFit, SpansFit, Timed
<1>6. SetSpan(s, d, what, v) = t
  BY DEF SetSpan, t, range, span
<1> QED  BY <1>5, <1>6

LEMMA RangesFit ==
  ASSUME NEW s, Fit(s), NEW d, d # "size", NEW what, NEW v
  PROVE  /\ Fit(RangeMac(s, d, what, v)) /\ Fit(RangeIp(s, d, what, v))
         /\ Fit(RangePort(s, d, what, v)) /\ Fit(RangeTeid(s, what, v))
         /\ Fit(RangeVlan(s, what, v)) /\ Fit(RangeTos(s, what, v))
         /\ Fit(RangeCos(s, what, v))
<1>1. ASSUME NEW e, e # "size", NEW x PROVE Fit(SetSpan(s, e, what, x))
  BY <1>1, SetSpanFit
<1>2. Fit(RangeMac(s, d, what, v))
  <2> DEFINE t == SetSpan(s, d, what, v)
             f == IF d = "dst mac" THEN "dstMac" ELSE "srcMac"
  <2>1. Fit(t) /\ f # "size"
    BY <1>1
  <2> HIDE DEF t, f
  <2>2. Fit([t EXCEPT !.pkts[Ranged][f] = v])
    BY <2>1, PktFieldFit
  <2> QED  BY <2>1, <2>2 DEF RangeMac, t, f
<1>3. Fit(RangeTeid(s, what, v))
  <2> DEFINE t == SetSpan(s, "teid", what, v)
             u == [t EXCEPT !.pkts[Ranged].teid = v]
  <2>1. Fit(t)
    BY <1>1
  <2>2. Fit(u)
    <3> HIDE DEF t
    <3> DEFINE f == "teid"
    <3>1. f # "size"
      OBVIOUS
    <3> HIDE DEF f
    <3>2. Fit([t EXCEPT !.pkts[Ranged][f] = v])
      BY <2>1, <3>1, PktFieldFit
    <3> QED  BY <3>2 DEF f
  <2>3. RangeTeid(s, what, v) = s \/ RangeTeid(s, what, v) = u
        \/ RangeTeid(s, what, v) = t
    BY Zenon DEF RangeTeid
  <2> HIDE DEF t, u
  <2> QED  BY <2>1, <2>2, <2>3
<1>4. Fit(RangeIp(s, d, what, v)) /\ Fit(RangePort(s, d, what, v))
  BY <1>1 DEF RangeIp, RangePort
<1>5. /\ Fit(RangeVlan(s, what, v)) /\ Fit(RangeTos(s, what, v))
      /\ Fit(RangeCos(s, what, v))
  BY <1>1 DEF RangeVlan, RangeTos, RangeCos
<1> QED  BY <1>2, <1>3, <1>4, <1>5

LEMMA RangeSizeFit ==
  ASSUME NEW s, Fit(s), NEW what, NEW n \in Nat PROVE Fit(RangeSize(s, what, n))
<1> DEFINE v == IF what = "inc" THEN Min({n, MinSize + Fcs})
                ELSE CASE n < MinSize + Fcs -> MinSize
                       [] n > MaxSize + Fcs -> MaxSize
                       [] OTHER             -> n - Fcs
<1>1. MinSize = 60 /\ Fcs = 4 /\ MaxSize = 1514
  BY DEF MinSize, Fcs, MaxSize
<1>2. what = "inc" => v \in Nat
  <2>1. Min({n, MinSize + Fcs}) = IF n <= MinSize + Fcs THEN n ELSE MinSize + Fcs
    BY <1>1, MinOfTwo
  <2> QED  BY <1>1, <2>1
<1>3. what \in {"start", "min", "max"} => v \in MinSize..MaxSize
  <2>1. what \in {"start", "min", "max"} =>
          v = IF n < MinSize + Fcs THEN MinSize
              ELSE IF n > MaxSize + Fcs THEN MaxSize ELSE n - Fcs
    BY <1>1
  <2> HIDE DEF v
  <2> QED  BY <1>1, <2>1
<1> HIDE DEF v
<1>4. Fit(SetSpan(s, "size", what, v))
  BY <1>2, <1>3, SetSpanFit
<1> QED  BY <1>4 DEF RangeSize, v

LEMMA RangeOthersFit ==
  ASSUME NEW s, Fit(s), NEW v, NEW w
  PROVE  Fit(RangeProto(s, v)) /\ Fit(RangeQinq(s, v, w))
<1>1. Fit(RangeQinq(s, v, w))
  <2> DEFINE f == "qinq"
             x == <<v, w>>
  <2>1. f # "size"
    OBVIOUS
  <2> HIDE DEF f, x
  <2>2. Fit([s EXCEPT !.pkts[Ranged][f] = x])
    BY <2>1, PktFieldFit
  <2> QED  BY <2>2 DEF RangeQinq, f, x
<1>2. Fit(RangeProto(s, v))
  <2> DEFINE p == s.pkts[Ranged]
             e == IF v = "icmp" THEN "ipv4" ELSE p.ethType
             q == [p EXCEPT !.proto = v, !.ethType = e]
             t == [s EXCEPT !.rangeProto = v]
  <2>1. Fit(t)
    BY FillFit
  <2>2. PktFit(p)
    BY SlotFacts DEF Fit, Raw, PktsFit
  <2>3. PktFit(q)
    BY <2>2 DEF PktFit
  <2>5. RangeProto(s, v) = Put(t, Ranged, q)
    BY DEF RangeProto
  <2> HIDE DEF q
  <2> HIDE DEF t
  <2>6. Fit(Put(t, Ranged, q))
    BY <2>1, <2>3, PutFit, SlotFacts
  <2> QED  BY <2>5, <2>6
<1> QED  BY <1>1, <1>2

(* A slot of the sequence.                                                 *)
LEMMA SeqFit ==
  ASSUME NEW s, Fit(s), NEW k, ~(k >= SeqSlots), NEW q, q.size \in Nat
  PROVE  Fit(SetSeq(s, k, q))
<1>1. k # Single
  BY SettingsAssumption DEF Single
<1> DEFINE p == s.pkts[k]
           z == (q.size - Fcs) % 2^16
           r == [p EXCEPT !.dstMac = q.dstMac, !.srcMac = q.srcMac, !.mask = q.mask,
            !.srcIp = Stored(q.type, q.srcIp), !.dstIp = Stored(q.type, q.dstIp),
            !.sport = q.sport, !.dport = q.dport, !.proto = q.proto,
            !.ethType = IF q.type = "ipv6" /\ q.proto /= "icmp" THEN "ipv6" ELSE "ipv4",
            !.size = z, !.vlanid = q.vlanid,
            !.teid = q.teid]
<1>2. z \in Nat
  BY DEF Fcs
<1> HIDE DEF z
<1>3. PktFit(p) => PktFit(r)
  BY <1>2 DEF PktFit
<1>4. SetSeq(s, k, q) = Put(s, k, r)
  BY DEF SetSeq, SeqPkt, z
<1> HIDE DEF r
<1>5. k \in Slots => PktFit(p)
  BY DEF Fit, Raw, PktsFit
<1> QED  BY <1>1, <1>3, <1>4, <1>5, PutFit

LEMMA SeqCosTosFit ==
  ASSUME NEW s, Fit(s), NEW k, NEW cos, NEW tos
  PROVE  Fit(SetSeqCosTos(s, k, cos, tos))
<1> DEFINE p == s.pkts[k]
           r == [p EXCEPT !.cos = cos, !.tos = tos]
<1>1. PktFit(p) => PktFit(r) /\ r.size = p.size
  BY DEF PktFit
<1>2. SetSeqCosTos(s, k, cos, tos) = Put(s, k, r)
  BY DEF SetSeqCosTos
<1> HIDE DEF r
<1>3. k \in Slots => PktFit(p)
  BY DEF Fit, Raw, PktsFit
<1> QED  BY <1>1, <1>2, <1>3, PutFit, SingleFacts
-----------------------------------------------------------------------------
(* The first settings and a reset.                                         *)

(* pktgen_port_defaults leaves flags and ranges alone, and everything else *)
(* fit to be sent.                                                         *)
LEMMA DefaultsFit ==
  ASSUME NEW s, Raw(s)
  PROVE  /\ Raw(PortDefaults(s)) /\ Counted(PortDefaults(s))
         /\ SingleFit(PortDefaults(s)) /\ Timed(PortDefaults(s))
         /\ PortDefaults(s).flags = s.flags /\ PortDefaults(s).range = s.range
<1> DEFINE pkts == [k \in Slots |-> DefaultPkt(s.pkts[k], PeerMac)]
           t == [s EXCEPT !.pkts = pkts,
                          !.count = 0, !.rate = Default.rate, !.burst = MaxBurst,
                          !.seqCnt = 0, !.prime = 1]
<1>1. ASSUME NEW p, PktFit(p)
      PROVE  PktFit(DefaultPkt(p, PeerMac)) /\ DefaultPkt(p, PeerMac).size = MinSize
  <2> DEFINE q == DefaultPkt(p, PeerMac)
  <2>1. "size" \in DOMAIN q
    BY <1>1 DEF PktFit, DefaultPkt
  <2>2. q.size = MinSize
    BY <1>1 DEF PktFit, DefaultPkt
  <2> QED  BY <2>1, <2>2 DEF PktFit, MinSize
<1>2. PktsFit(pkts) /\ pkts[Single].size = MinSize
  BY <1>1, SlotFacts DEF Raw, PktsFit
<1> HIDE DEF pkts
<1>3. Default.rate \in Nat
  BY SettingsAssumption DEF Default
<1>4. /\ Fields \subseteq DOMAIN t /\ t.pkts = pkts
      /\ t.flags = s.flags /\ t.burst = MaxBurst /\ t.prime = 1
      /\ t.seqCnt = 0 /\ t.range = s.range /\ t.rate = Default.rate
  BY DEF Raw, Fields
<1> HIDE DEF t
<1>5. SeqSlots \in Nat
  BY SettingsAssumption
<1>6. Raw(t) /\ Counted(t) /\ SingleFit(t)
  BY <1>2, <1>4, <1>5
     DEF Raw, Counted, SingleFit, MaxBurst, MaxPrime, MinSize, MaxSize
<1>7. t.rate \in Nat
  BY <1>3, <1>4
<1>8. PortDefaults(s) = Paced(t)
  BY DEF PortDefaults, t, pkts
<1> HIDE DEF t
<1> QED  BY <1>4, <1>6, <1>7, <1>8, PacedTimed DEF Counted, SingleFit

LEMMA RangeSetupFit ==
  ASSUME NEW s, Raw(s), Counted(s), SingleFit(s), Timed(s)
  PROVE  /\ Raw(RangeSetup(s)) /\ Counted(RangeSetup(s))
         /\ SingleFit(RangeSetup(s)) /\ Timed(RangeSetup(s))
         /\ SpansFit(RangeSetup(s)) /\ RangeSetup(s).flags = s.flags
<1> DEFINE p == [s.pkts[Ranged] EXCEPT !.size = MinSize]
           pkts == [s.pkts EXCEPT ![Ranged] = p]
           range == [d \in Dims |-> FirstSpan(s, d)]
           t == [s EXCEPT !.range = range, !.rangeProto = "tcp", !.pkts = pkts]
<1>1. PktFit(s.pkts[Ranged]) => PktFit(p)
  BY DEF PktFit, MinSize
<1> HIDE DEF p
<1>2. PktsFit(pkts) /\ pkts[Single] = s.pkts[Single]
  BY <1>1, SlotFacts DEF Raw, PktsFit
<1> HIDE DEF pkts
<1>3. "size" \in Dims
  BY DEF Dims
<1>4. FirstSpan(s, "size") = Span(MinSize, MinSize, MaxSize, 0)
  BY DEF FirstSpan
<1>5. SizeSpan(Span(MinSize, MinSize, MaxSize, 0))
  BY DEF SizeSpan, Span, Smmi, MinSize, MaxSize
<1>6. "size" \in DOMAIN range /\ SizeSpan(range["size"])
  BY <1>3, <1>4, <1>5
<1> HIDE DEF range
<1>7. /\ Fields \subseteq DOMAIN t /\ t.pkts = pkts
      /\ t.flags = s.flags /\ t.burst = s.burst /\ t.prime = s.prime
      /\ t.seqCnt = s.seqCnt /\ t.range = range
      /\ t.rate = s.rate /\ t.pps = s.pps /\ t.cycles = s.cycles
  BY DEF Raw, Fields
<1>8. RangeSetup(s) = t
  BY DEF RangeSetup, t, range, pkts, p
<1> HIDE DEF t
<1> QED  BY <1>2, <1>6, <1>7, <1>8 DEF Raw, Counted, SingleFit, Timed, SpansFit

LEMMA ResetFit == ASSUME NEW s, Fit(s) PROVE Fit(Reset(s))
<1> DEFINE a == [s EXCEPT !.macFromArp = FALSE]
           t == RangeSetup(PortDefaults(a))
           F == {"SEND_RANGE_PKTS", "SEND_SEQ_PKTS"}
           u == ClrFlags(t, F)
           v == [u EXCEPT !.rnd = {}, !.seqCnt = 0]
<1>1. Raw(a)
  BY DEF Fit, Raw, Fields
<1> HIDE DEF a
<1>2. Raw(t) /\ Counted(t) /\ SingleFit(t) /\ Timed(t) /\ SpansFit(t)
  BY <1>1, DefaultsFit, RangeSetupFit
<1> HIDE DEF t
<1>3. /\ Fields \subseteq DOMAIN u /\ u.pkts = t.pkts
      /\ u.flags = t.flags \ F /\ u.burst = t.burst /\ u.prime = t.prime
      /\ u.seqCnt = t.seqCnt /\ u.range = t.range /\ u.rate = t.rate
  BY <1>2 DEF Raw, Fields, ClrFlags
<1> HIDE DEF u
<1>4. /\ Fields \subseteq DOMAIN v /\ v.pkts = t.pkts
      /\ v.flags = t.flags \ F /\ v.burst = t.burst /\ v.prime = t.prime
      /\ v.seqCnt = 0 /\ v.range = t.range /\ v.rate = t.rate
  BY <1>3 DEF Fields
<1>5. SeqSlots \in Nat
  BY SettingsAssumption
<1> HIDE DEF v
<1>6. Fit(Paced(v))
  BY <1>2, <1>4, <1>5, PacedFit
     DEF Raw, Counted, NotEmpty, SingleFit, SpansFit, Timed
<1> QED  BY <1>6 DEF Reset, v, u, t, a, F

LEMMA FreshFit == Fit(Fresh)
<1> DEFINE pkts == [k \in Slots |-> IF k <= Single
                               THEN [ZeroPkt EXCEPT !.srcMac = SrcMac]
                               ELSE ZeroPkt]
           z == [flags |-> {}, macFromArp |-> FALSE, count |-> 0, rate |-> 0,
                 pps |-> 0, cycles |-> 0, burst |-> 0, prime |-> 0,
                 seqCnt |-> 0, rangeProto |-> "tcp",
                 range |-> [d \in Dims |-> Span(0, 0, 0, 0)], jitter |-> 50,
                 fill |-> "abc", user |-> "0123456789abcdef", rnd |-> {},
                 pkts |-> pkts]
<1>1. PktFit(ZeroPkt) /\ PktFit([ZeroPkt EXCEPT !.srcMac = SrcMac])
  BY DEF PktFit, ZeroPkt
<1>2. PktsFit(pkts)
  BY <1>1 DEF PktsFit
<1> HIDE DEF pkts
<1>3. Raw(z) /\ z.flags = {}
  BY <1>2 DEF Raw, Fields
<1>4. Fresh = RangeSetup(PortDefaults(z))
  BY DEF Fresh, pkts
<1> HIDE DEF z
<1>5. PortDefaults(z).flags = {}
  BY <1>3, DefaultsFit
<1> QED  BY <1>3, <1>4, <1>5, DefaultsFit, RangeSetupFit DEF Fit, NotEmpty
-----------------------------------------------------------------------------
(* The command line.                                                       *)
LEMMA ValidSizeNat ==
  ASSUME NEW s, NEW n \in Nat PROVE ValidSize(s, n) \in Nat
<1> DEFINE least == IF "SEND_SHORT_PACKETS" \in s.flags THEN 0 ELSE MinSize + Fcs
           m == Max({n, least})
<1>1. least \in Nat /\ MaxSize + Fcs \in Nat
  BY DEF MinSize, Fcs, MaxSize
<1> HIDE DEF least
<1>2. m \in Nat
  <2>1. m = IF n >= least THEN n ELSE least
    BY <1>1, MaxOfTwo
  <2> HIDE DEF m
  <2> QED  BY <1>1, <2>1
<1> HIDE DEF m
<1>3. Min({m, MaxSize + Fcs}) = IF m <= MaxSize + Fcs THEN m ELSE MaxSize + Fcs
  BY <1>1, <1>2, MinOfTwo
<1>4. Min({m, MaxSize + Fcs}) \in Nat
  BY <1>1, <1>2, <1>3
<1> QED  BY <1>4 DEF ValidSize, m, least

LEMMA SetCmdFit ==
  ASSUME NEW s, Fit(s), NEW what, NEW v, what \in Counts => v \in Nat
  PROVE  Fit(SetCmd(s, what, v))
<1>1. \A x : /\ Fit(SetTxCount(s, x)) /\ Fit(SetJitter(s, x))
             /\ Fit(SetPattern(s, x)) /\ Fit(SetUserPattern(s, x))
  BY FillFit
<1>2. \A x, y : /\ Fit(SetProto(s, x)) /\ Fit(SetVlanId(s, x)) /\ Fit(SetCos(s, x))
                /\ Fit(SetTos(s, x)) /\ Fit(SetQinq(s, x, y))
                /\ Fit(SetDstMac(s, x)) /\ Fit(SetSrcMac(s, x))
                /\ Fit(SetDstIp(s, x)) /\ Fit(SetSrcIp(s, x, y))
                /\ x # "size" => Fit(SetPort(s, x, y))
  BY SingleFit2
<1>3. \A x : Fit(SetPktType(s, x))
  BY SetPktTypeFit
<1>4. what \in Counts =>
        /\ Fit(SetPktSize(s, ValidSize(s, v))) /\ Fit(SetTxRate(s, v))
        /\ Fit(SetPps(s, v)) /\ Fit(SetTxBurst(s, v)) /\ Fit(SetTxCycles(s, v))
        /\ Fit(SetSeqCnt(s, v)) /\ Fit(SetPrime(s, v))
  BY ValidSizeNat, SetPktSizeFit, SetTxRateFit, SetPpsFit, SetCountsFit,
     SetSeqCntFit
<1>5. what \in {"size", "rate", "pps", "burst", "tx_cycles", "seq_cnt", "seqCnt",
                "prime"} => what \in Counts
  BY DEF Counts
<1> QED  BY <1>1, <1>2, <1>3, <1>4, <1>5 DEF SetCmd

LEMMA RangeDimFit ==
  ASSUME NEW s, Fit(s), NEW d, NEW what, NEW v, d = "size" => v \in Nat
  PROVE  Fit(RangeDim(s, d, what, v))
<1>1. d # "size" => \A x : /\ Fit(RangeMac(s, d, what, x))
             /\ Fit(RangeIp(s, d, what, x)) /\ Fit(RangePort(s, d, what, x))
  BY RangesFit
<1>2. /\ Fit(RangeVlan(s, what, v)) /\ Fit(RangeTos(s, what, v))
      /\ Fit(RangeCos(s, what, v))
  <2>1. "vlan" # "size"
    OBVIOUS
  <2> QED  BY <2>1, RangesFit
<1>3. d = "size" => Fit(RangeSize(s, what, ValidSize(s, v)))
  BY ValidSizeNat, RangeSizeFit
<1> QED  BY <1>1, <1>2, <1>3 DEF RangeDim

LEMMA RangeCmdFit ==
  ASSUME NEW s, Fit(s), NEW d, NEW what, NEW v,
         d = "size" => \A n \in 1..4 : v[n] \in Nat
  PROVE  Fit(RangeAll(s, d, v)) /\ Fit(RangeOther(s, what, v))
<1>1. Fit(RangeAll(s, d, v))
  <2> DEFINE a == RangeDim(s, d, "start", v[1])
             b == RangeDim(a, d, "min", v[2])
             c == RangeDim(b, d, "max", v[3])
             e == RangeDim(c, d, "inc", v[4])
  <2>1. d = "size" => v[1] \in Nat /\ v[2] \in Nat /\ v[3] \in Nat /\ v[4] \in Nat
    OBVIOUS
  <2>2. Fit(a)
    BY <2>1, RangeDimFit
  <2> HIDE DEF a
  <2>3. Fit(b)
    BY <2>1, <2>2, RangeDimFit
  <2> HIDE DEF b
  <2>4. Fit(c)
    BY <2>1, <2>3, RangeDimFit
  <2> HIDE DEF c
  <2>5. Fit(e)
    BY <2>1, <2>4, RangeDimFit
  <2> QED  BY <2>5 DEF RangeAll, a, b, c
<1>2. /\ Fit(RangeProto(s, v)) /\ Fit(RangeQinq(s, v[1], v[2]))
      /\ Fit(SetMpls(s, v)) /\ Fit(SetGreKey(s, v))
  BY RangeOthersFit, SingleFit2
<1> QED  BY <1>1, <1>2 DEF RangeOther

LEMMA LooseFit ==
  ASSUME NEW s, Fit(s), NEW on
  PROVE  /\ Fit(Switch(s, on, {"PROCESS_INPUT_PKTS"}))
         /\ Fit(Switch(s, on, {"SEND_RANDOM_PKTS"}))
         /\ Fit(Switch(s, on, {"SEND_LATENCY_PKTS"}))
         /\ Fit(Switch(s, on, {"ICMP_ECHO_ENABLE_FLAG"}))
         /\ Fit(Switch(s, on, {"CAPTURE_PKTS"}))
         /\ Fit(Switch(s, on, {"BONDING_TX_PACKETS"}))
         /\ Fit(Switch(s, on, {"SEND_SHORT_PACKETS"}))
         /\ Fit(EnableTap(s, on, "PROCESS_RX_TAP_PKTS"))
         /\ Fit(EnableTap(s, on, "PROCESS_TX_TAP_PKTS"))
<1>1. ASSUME NEW f, f # "SEND_SEQ_PKTS"
      PROVE  Fit(Switch(s, on, {f})) /\ Fit(EnableTap(s, on, f))
  BY <1>1, SwitchFit, SwitchesFit
<1> QED  BY <1>1

LEMMA EnableFit ==
  ASSUME NEW s, Fit(s), NEW what, NEW on PROVE Fit(Enable(s, what, on))
<1>1. Fit(EnableMacFromArp(s, on))
  BY FillFit
<1>2. /\ Fit(EnableGarp(s, on)) /\ Fit(EnableVlan(s, on)) /\ Fit(EnableMpls(s, on))
      /\ Fit(EnableQinq(s, on)) /\ Fit(EnableGre(s, on))
      /\ Fit(EnableGreEth(s, on)) /\ Fit(EnableRange(s, on))
      /\ Fit(EnablePcap(s, on))
  <2>1. "SEND_VLAN_ID" # "SEND_SEQ_PKTS"
    OBVIOUS
  <2> QED  BY <2>1, SwitchesFit
<1> QED  BY <1>1, <1>2, LooseFit DEF Enable

LEMMA MiscFit ==
  ASSUME NEW s, Fit(s), NEW what PROVE Fit(Misc(s, what))
BY RequestFit, ResetFit DEF Misc

(* A command line, accepted or not.                                        *)
LEMMA RunFit == ASSUME NEW s, Fit(s), NEW line, Numeric(line) PROVE Fit(Run(s, line))
<1>1. line[1] = "set" => Fit(SetCmd(s, line[2], line[3]))
  BY SetCmdFit DEF Numeric
<1>2. line[1] = "range" /\ Len(line) = 4 => Fit(RangeDim(s, line[2], line[3], line[4]))
  BY RangeDimFit DEF Numeric
<1>3. line[1] = "range" /\ Len(line) = 3 => Fit(RangeAll(s, line[2], line[3]))
  <2>1. line[1] = "range" /\ Len(line) = 3 /\ line[2] = "size" =>
          \A n \in 1..4 : line[3][n] \in Nat
    BY DEF Numeric
  <2> QED  BY <2>1, RangeCmdFit
<1>4. Fit(RangeOther(s, line[2], line[3]))
  <2>1. "vlan" # "size"
    OBVIOUS
  <2> QED  BY <2>1, RangeCmdFit
<1>5. line[1] = "seq" => Fit(SeqCmd(s, line[2], line[3]))
  BY SeqFit DEF SeqCmd, Numeric
<1>6. Fit(SeqCosTos(s, line[2], line[3], line[4]))
  BY SeqCosTosFit DEF SeqCosTos
<1> QED  BY <1>1, <1>2, <1>3, <1>4, <1>5, <1>6, EnableFit, MiscFit DEF Run
-----------------------------------------------------------------------------
(* The Lua functions.                                                      *)
LEMMA LuaEnableFit ==
  ASSUME NEW s, Fit(s), NEW f \in Switches, NEW on
  PROVE  Fit(EnableCall(s, f, on))
<1>1. Fit(EnableMacFromArp(s, on))
  BY FillFit
<1>2. /\ Fit(EnableGarp(s, on)) /\ Fit(EnableVlan(s, on)) /\ Fit(EnableMpls(s, on))
      /\ Fit(EnableQinq(s, on)) /\ Fit(EnableGre(s, on))
      /\ Fit(EnableGreEth(s, on)) /\ Fit(EnableRange(s, on))
      /\ Fit(EnablePcap(s, on))
  <2>1. "SEND_VLAN_ID" # "SEND_SEQ_PKTS"
    OBVIOUS
  <2> QED  BY <2>1, SwitchesFit
<1>3. f \in TagSwitches => Fit(TagSwitch(s, f, on))
  BY <1>2 DEF TagSwitch, TagSwitches
<1>4. f \in ModeSwitches => Fit(ModeSwitch(s, f, on))
  BY LooseFit DEF ModeSwitch, ModeSwitches
<1>5. f \in TapSwitches => Fit(TapSwitch(s, f, on))
  BY <1>2, LooseFit DEF TapSwitch, TapSwitches
<1> QED  BY <1>1, <1>2, <1>3, <1>4, <1>5, LooseFit DEF EnableCall, Switches

LEMMA LuaSetFit ==
  ASSUME NEW s, Fit(s), NEW what \in SetWords, NEW v, what \in Counts => v \in Nat
  PROVE  Fit(SetValue(s, what, v))
<1>1. Fit(SetTxCount(s, v))
  BY FillFit
<1>2. what # "size" => Fit(SetPort(s, what, v))
  BY SingleFit2
<1>3. what \in Counts =>
        /\ Fit(SetPktSize(s, v)) /\ Fit(SetTxRate(s, v)) /\ Fit(SetTxBurst(s, v))
        /\ Fit(SetTxCycles(s, v)) /\ Fit(SetSeqCnt(s, v)) /\ Fit(SetPrime(s, v))
  BY SetPktSizeFit, SetTxRateFit, SetCountsFit, SetSeqCntFit
<1>4. what \in {"count", "sport", "dport"} \/ what \in Counts
  BY DEF SetWords, Counts
<1> QED  BY <1>1, <1>2, <1>3, <1>4 DEF SetValue, SetWords, Counts

LEMMA LuaSingleFit ==
  ASSUME NEW s, Fit(s), NEW call, Accepts(call), Numeric(call),
         call[1] \in SingleFunctions
  PROVE  Fit(SingleCall(s, call))
<1>1. \A x, y : /\ Fit(SetProto(s, x)) /\ Fit(SetVlanId(s, x)) /\ Fit(SetCos(s, x))
                /\ Fit(SetTos(s, x)) /\ Fit(SetMpls(s, x)) /\ Fit(SetGreKey(s, x))
                /\ Fit(SetQinq(s, x, y)) /\ Fit(SetDstMac(s, x))
                /\ Fit(SetDstIp(s, x)) /\ Fit(SetSrcIp(s, x, y))
  BY SingleFit2
<1>2. \A x : /\ Fit(SetPktType(s, x)) /\ Fit(SetJitter(s, x))
             /\ Fit(SetPattern(s, x)) /\ Fit(SetUserPattern(s, x))
  BY SetPktTypeFit, FillFit
<1>3. call[1] = "set" => Fit(SetValue(s, call[2], call[3]))
  BY LuaSetFit DEF Accepts, Numeric
<1> QED
  BY <1>1, <1>2, <1>3
     DEF SingleCall, SingleFunctions, HeaderCall, HeaderNames, LabelCall,
         LabelNames, FillCall, FillNames

LEMMA LuaRangeFit ==
  ASSUME NEW s, Fit(s), NEW call, Numeric(call), call[1] \in Ranges
  PROVE  Fit(RangeCall(s, call))
<1>1. ASSUME NEW d, d # "size"
      PROVE  \A what, v :
        /\ Fit(RangeMac(s, d, what, v)) /\ Fit(RangeIp(s, d, what, v))
        /\ Fit(RangePort(s, d, what, v)) /\ Fit(RangeVlan(s, what, v))
        /\ Fit(RangeTeid(s, what, v))
  BY <1>1, RangesFit
<1>2. call[1] = "pkt_size" => Fit(RangeSize(s, call[2], call[3]))
  BY RangeSizeFit DEF Numeric
<1> QED
  BY <1>1, <1>2 DEF RangeCall, Ranges, AddressRange, AddressRanges, NumberRange,
                    NumberRanges

LEMMA SeqTableFit ==
  ASSUME NEW s, Fit(s), NEW k, NEW q, q.size \in Nat
  PROVE  Fit(SeqTable(s, k, q))
<1>1. ~(k >= SeqSlots) => Fit(SetSeqCosTos(SetSeq(s, k, q), k, q.cos, q.tos))
  BY SeqFit, SeqCosTosFit
<1> QED  BY <1>1 DEF SeqTable

LEMMA RndFit == ASSUME NEW s, Fit(s), NEW idx, NEW mask PROVE Fit(Rnd(s, idx, mask))
<1> DEFINE x == IF mask = "off" THEN s.rnd \ {idx} ELSE s.rnd \cup {idx}
           t == [s EXCEPT !.rnd = x]
<1>1. Fit(t)
  BY FillFit
<1>2. Rnd(s, idx, mask) = Switch(t, t.rnd /= {}, {"SEND_RANDOM_PKTS"})
  BY DEF Rnd
<1> HIDE DEF t
<1> QED  BY <1>1, <1>2, LooseFit

(* A call the library takes.                                               *)
LEMMA CallFit ==
  ASSUME NEW s, Fit(s), NEW call, Accepts(call), Numeric(call)
  PROVE  Fit(Call(s, call))
<1>1. call[1] \in Switches => Fit(EnableCall(s, call[1], On(call[2])))
  BY LuaEnableFit
<1>2. call[1] \in Ranges => Fit(RangeCall(s, call))
  BY LuaRangeFit
<1>3. call[1] \in DOMAIN Arity
  <2>1. ~(\E n : n \in SeqArity)
    BY DEF SeqArity
  <2>2. call[1] = "seq" => Len(call) - 1 \in SeqArity
    BY DEF Accepts
  <2>3. call[1] \in DOMAIN Arity \cup {"seq"}
    BY DEF Accepts
  <2> QED  BY <2>1, <2>2, <2>3
<1>4. call[1] \in Switches \cup Ranges \cup SingleFunctions
        \cup {"ip_proto", "seqTable", "compile", "rnd", "ping4", "send_arp", "reset"}
  BY <1>3 DEF Arity, Switches, TagSwitches, ModeSwitches, TapSwitches, Ranges,
              AddressRanges, NumberRanges, SingleFunctions
<1>5. call[1] \in SingleFunctions => Fit(SingleCall(s, call))
  BY LuaSingleFit
<1>6. call[1] \in {"seqTable", "compile"} => Fit(SeqTable(s, call[2], call[3]))
  BY SeqTableFit DEF Numeric
<1>7. /\ Fit(Rnd(s, call[2], call[4])) /\ Fit(RangeProto(s, call[2]))
      /\ Fit(Ping4(s)) /\ Fit(SendArp(s, call[2] = "g")) /\ Fit(Reset(s))
  BY RndFit, RangeOthersFit, RequestFit, ResetFit
<1> QED  BY <1>1, <1>2, <1>4, <1>5, <1>6, <1>7 DEF Call
-----------------------------------------------------------------------------
(* The files.  What is written of settings that can be sent are numbers    *)
(* where numbers are read.                                                 *)
AllNumeric(lines) ==
  \E S : lines \in Seq(S) /\ \A line \in S : Numeric(line)

LEMMA JoinNumeric ==
  ASSUME NEW a, NEW b, AllNumeric(a), AllNumeric(b) PROVE AllNumeric(a \o b)
<1>1. PICK S : a \in Seq(S) /\ \A line \in S : Numeric(line)
  BY DEF AllNumeric
<1>2. PICK T : b \in Seq(T) /\ \A line \in T : Numeric(line)
  BY DEF AllNumeric
<1>3. a \in Seq(S \cup T) /\ b \in Seq(S \cup T)
  BY <1>1, <1>2
<1>4. a \o b \in Seq(S \cup T)
  BY <1>3
<1>5. \A line \in S \cup T : Numeric(line)
  BY <1>1, <1>2
<1> QED  BY <1>4, <1>5 DEF AllNumeric

LEMMA NoneNumeric == AllNumeric(<<>>)
<1> DEFINE S == {}
<1>1. <<>> \in Seq(S) /\ \A line \in S : Numeric(line)
  OBVIOUS
<1> HIDE DEF S
<1> QED  BY <1>1 DEF AllNumeric

LEMMA OneNumeric == ASSUME NEW a, Numeric(a) PROVE AllNumeric(<<a>>)
<1> DEFINE S == {a}
<1>1. <<a>> \in Seq(S) /\ \A line \in S : Numeric(line)
  OBVIOUS
<1> HIDE DEF S
<1> QED  BY <1>1 DEF AllNumeric

LEMMA ReadNumeric ==
  ASSUME NEW lines, AllNumeric(lines)
  PROVE  Len(lines) \in Nat /\ \A n \in 1..Len(lines) : Numeric(lines[n])
<1>1. PICK S : lines \in Seq(S) /\ \A line \in S : Numeric(line)
  BY DEF AllNumeric
<1> QED  BY <1>1

(* A list written out one line for each number up to N.                    *)
LEMMA ListNumeric ==
  ASSUME NEW lines, NEW N \in Nat, DOMAIN lines = 1..N,
         lines = [n \in 1..N |-> lines[n]],
         \A n \in 1..N : Numeric(lines[n])
  PROVE  AllNumeric(lines)
<1> DEFINE S == {lines[n] : n \in 1..N}
<1>1. lines \in [1..N -> S]
  OBVIOUS
<1>2. \A line \in S : Numeric(line)
  OBVIOUS
<1> HIDE DEF S
<1>3. lines \in Seq(S)
  BY <1>1
<1> QED  BY <1>2, <1>3 DEF AllNumeric

(* Lines with these words are numeric whatever stands behind them.         *)
LEMMA WordsNumeric ==
  ASSUME NEW word, NEW v, NEW w, NEW x
  PROVE  /\ word \notin {"set", "pkt_size", "range", "seq", "seqTable", "compile"}
              => Numeric(<<word, v>>) /\ Numeric(<<word, v, w>>)
         /\ word \notin Counts => Numeric(<<"set", word, v>>)
         /\ v \in Nat => Numeric(<<"set", word, v>>)
         /\ word # "size" \/ x \in Nat => Numeric(<<"range", word, w, x>>)
         /\ word # "size" => Numeric(<<"range", word, w>>)
         /\ v \in Nat => Numeric(<<"pkt_size", w, v>>)
BY DEF Numeric

LEMMA FifteenNumeric ==
  ASSUME NEW a, NEW b, NEW c, NEW d, NEW e, NEW f, NEW g, NEW h, NEW i,
         NEW j, NEW k, NEW l, NEW m, NEW n, NEW o,
         Numeric(a), Numeric(b), Numeric(c), Numeric(d), Numeric(e),
         Numeric(f), Numeric(g), Numeric(h), Numeric(i), Numeric(j),
         Numeric(k), Numeric(l), Numeric(m), Numeric(n), Numeric(o)
  PROVE  AllNumeric(<<a, b, c, d, e, f, g, h, i, j, k, l, m, n, o>>)
<1> DEFINE S == {a, b, c, d, e, f, g, h, i, j, k, l, m, n, o}
<1>1. <<a, b, c, d, e, f, g, h, i, j, k, l, m, n, o>> \in Seq(S) /\ \A line \in S : Numeric(line)
  OBVIOUS
<1> HIDE DEF S
<1> QED  BY <1>1 DEF AllNumeric

LEMMA SixteenNumeric ==
  ASSUME NEW a, NEW b, NEW c, NEW d, NEW e, NEW f, NEW g, NEW h, NEW i,
         NEW j, NEW k, NEW l, NEW m, NEW n, NEW o, NEW p,
         Numeric(a), Numeric(b), Numeric(c), Numeric(d), Numeric(e),
         Numeric(f), Numeric(g), Numeric(h), Numeric(i), Numeric(j),
         Numeric(k), Numeric(l), Numeric(m), Numeric(n), Numeric(o),
         Numeric(p)
  PROVE  AllNumeric(<<a, b, c, d, e, f, g, h, i, j, k, l, m, n, o, p>>)
<1> DEFINE S == {a, b, c, d, e, f, g, h, i, j, k, l, m, n, o, p}
<1>1. <<a, b, c, d, e, f, g, h, i, j, k, l, m, n, o, p>> \in Seq(S) /\ \A line \in S : Numeric(line)
  OBVIOUS
<1> HIDE DEF S
<1> QED  BY <1>1 DEF AllNumeric

LEMMA SeventeenNumeric ==
  ASSUME NEW a, NEW b, NEW c, NEW d, NEW e, NEW f, NEW g, NEW h, NEW i,
         NEW j, NEW k, NEW l, NEW m, NEW n, NEW o, NEW p, NEW q,
         Numeric(a), Numeric(b), Numeric(c), Numeric(d), Numeric(e),
         Numeric(f), Numeric(g), Numeric(h), Numeric(i), Numeric(j),
         Numeric(k), Numeric(l), Numeric(m), Numeric(n), Numeric(o),
         Numeric(p), Numeric(q)
  PROVE  AllNumeric(<<a, b, c, d, e, f, g, h, i, j, k, l, m, n, o, p, q>>)
<1> DEFINE S == {a, b, c, d, e, f, g, h, i, j, k, l, m, n, o, p, q}
<1>1. <<a, b, c, d, e, f, g, h, i, j, k, l, m, n, o, p, q>> \in Seq(S) /\ \A line \in S : Numeric(line)
  OBVIOUS
<1> HIDE DEF S
<1> QED  BY <1>1 DEF AllNumeric

LEMMA SingleNumeric == ASSUME NEW s, Fit(s) PROVE AllNumeric(SingleLines(s))
<1> DEFINE a == <<IF s.macFromArp THEN "enable" ELSE "disable", "mac_from_arp">>
           b == <<"set", "count", s.count>>
           c == <<"set", "size", s.pkts[Single].size + Fcs>>
           d == <<"set", "rate", s.rate>>
           e == <<"set", "pps", s.pps>>
           f == <<"set", "burst", s.burst>>
           g == <<"set", "sport", s.pkts[Single].sport>>
           h == <<"set", "dport", s.pkts[Single].dport>>
           i == <<"set", "prime", s.prime>>
           j == <<"set", "type", s.pkts[Single].ethType>>
           k == <<"set", "proto", s.pkts[Single].proto>>
           l == <<"set", "dst ip", s.pkts[Single].dstIp>>
           m == <<"set", "src ip", <<s.pkts[Single].srcIp, s.pkts[Single].mask>>>>
           n == <<"set", "dst mac", s.pkts[Single].dstMac>>
           o == <<"set", "src mac", s.pkts[Single].srcMac>>
           p == <<"set", "vlanid", s.pkts[Single].vlanid>>
           q == <<"set", "pattern", s.fill>>
<1>1. /\ s.pkts[Single].size + Fcs \in Nat /\ s.rate \in Nat /\ s.pps \in Nat
      /\ s.burst \in Nat /\ s.prime \in Nat
  BY SingleFacts DEF Fit, Timed, Counted, MaxBurst, MaxPrime, Fcs, PktFit
<1>2. Numeric(a) /\ Numeric(b) /\ Numeric(c)
  BY <1>1 DEF Numeric, Counts
<1>3. Numeric(d) /\ Numeric(e) /\ Numeric(f)
  BY <1>1 DEF Numeric, Counts
<1>4. Numeric(g) /\ Numeric(h) /\ Numeric(i)
  BY <1>1 DEF Numeric, Counts
<1>5. Numeric(j) /\ Numeric(k) /\ Numeric(l)
  BY <1>1 DEF Numeric, Counts
<1>6. Numeric(m) /\ Numeric(n) /\ Numeric(o)
  BY <1>1 DEF Numeric, Counts
<1>7. Numeric(p) /\ Numeric(q)
  BY <1>1 DEF Numeric, Counts
<1> HIDE DEF a, b, c, d, e, f, g, h, i, j, k, l, m, n, o, p, q
<1>8. AllNumeric(<<a, b, c, d, e, f, g, h, i, j, k, l, m, n, o, p, q>>)
  BY <1>2, <1>3, <1>4, <1>5, <1>6, <1>7, SeventeenNumeric
<1> DEFINE u == IF s.fill = "user" THEN << <<"set", "user pattern", s.user>> >> ELSE <<>>
           t == << <<"set", "jitter", s.jitter>> >>
<1>9. AllNumeric(u)
  <2>1. Numeric(<<"set", "user pattern", s.user>>)
    BY DEF Numeric, Counts
  <2> QED  BY <2>1, OneNumeric, NoneNumeric
<1>10. AllNumeric(t)
  <2>1. Numeric(<<"set", "jitter", s.jitter>>)
    BY DEF Numeric, Counts
  <2> QED  BY <2>1, OneNumeric
<1>11. SingleLines(s) = <<a, b, c, d, e, f, g, h, i, j, k, l, m, n, o, p, q>> \o u \o t
  BY DEF SingleLines, a, b, c, d, e, f, g, h, i, j, k, l, m, n, o, p, q
<1> HIDE DEF u, t
<1> QED  BY <1>8, <1>9, <1>10, <1>11, JoinNumeric

LEMMA LuaSingleNumeric == ASSUME NEW s, Fit(s) PROVE AllNumeric(LuaSingle(s))
<1> DEFINE a == <<"mac_from_arp", IF s.macFromArp THEN "enable" ELSE "disable">>
           b == <<"set", "count", s.count>>
           c == <<"set", "size", s.pkts[Single].size + Fcs>>
           d == <<"set", "rate", s.rate>>
           e == <<"set", "burst", s.burst>>
           f == <<"set", "sport", s.pkts[Single].sport>>
           g == <<"set", "dport", s.pkts[Single].dport>>
           h == <<"set", "prime", s.prime>>
           i == <<"set_type", s.pkts[Single].ethType>>
           j == <<"set_proto", s.pkts[Single].proto>>
           k == <<"set_ipaddr", "dst", s.pkts[Single].dstIp>>
           l == <<"set_ipaddr", "src", <<s.pkts[Single].srcIp, s.pkts[Single].mask>>>>
           m == <<"set_mac", s.pkts[Single].dstMac>>
           n == <<"vlanid", s.pkts[Single].vlanid>>
           o == <<"pattern", s.fill>>
<1>1. /\ s.pkts[Single].size + Fcs \in Nat /\ s.rate \in Nat /\ s.pps \in Nat
      /\ s.burst \in Nat /\ s.prime \in Nat
  BY SingleFacts DEF Fit, Timed, Counted, MaxBurst, MaxPrime, Fcs, PktFit
<1>2. Numeric(a) /\ Numeric(b) /\ Numeric(c)
  BY <1>1 DEF Numeric, Counts
<1>3. Numeric(d) /\ Numeric(e) /\ Numeric(f)
  BY <1>1 DEF Numeric, Counts
<1>4. Numeric(g) /\ Numeric(h) /\ Numeric(i)
  BY <1>1 DEF Numeric, Counts
<1>5. Numeric(j) /\ Numeric(k) /\ Numeric(l)
  BY <1>1 DEF Numeric, Counts
<1>6. Numeric(m) /\ Numeric(n) /\ Numeric(o)
  BY <1>1 DEF Numeric, Counts
<1> HIDE DEF a, b, c, d, e, f, g, h, i, j, k, l, m, n, o
<1>7. AllNumeric(<<a, b, c, d, e, f, g, h, i, j, k, l, m, n, o>>)
  BY <1>2, <1>3, <1>4, <1>5, <1>6, FifteenNumeric
<1> DEFINE u == IF s.fill = "user" THEN << <<"userPattern", s.user>> >> ELSE <<>>
           t == << <<"jitter", s.jitter>> >>
<1>8. AllNumeric(u)
  <2>1. Numeric(<<"userPattern", s.user>>)
    BY DEF Numeric, Counts
  <2> QED  BY <2>1, OneNumeric, NoneNumeric
<1>9. AllNumeric(t)
  <2>1. Numeric(<<"jitter", s.jitter>>)
    BY DEF Numeric, Counts
  <2> QED  BY <2>1, OneNumeric
<1>10. LuaSingle(s) = <<a, b, c, d, e, f, g, h, i, j, k, l, m, n, o>> \o u \o t
  BY DEF LuaSingle, a, b, c, d, e, f, g, h, i, j, k, l, m, n, o
<1> HIDE DEF u, t
<1> QED  BY <1>7, <1>8, <1>9, <1>10, JoinNumeric

LEMMA FlagsNumeric == ASSUME NEW s, Fit(s) PROVE AllNumeric(FlagLines(s))
<1> DEFINE a == <<EnDis(s, "SEND_MPLS_LABEL"), "mpls">>
           b == <<"set", "mpls_entry", s.pkts[Single].mpls>>
           c == <<EnDis(s, "SEND_Q_IN_Q_IDS"), "qinq">>
           d == <<"set", "qinqids", s.pkts[Single].qinq>>
           e == <<EnDis(s, "SEND_GRE_IPv4_HEADER"), "gre">>
           f == <<EnDis(s, "SEND_GRE_ETHER_HEADER"), "gre_eth">>
           g == <<"set", "gre_key", s.pkts[Single].greKey>>
           h == <<EnDis(s, "ICMP_ECHO_ENABLE_FLAG"), "icmp">>
           i == <<EnDis(s, "SEND_PCAP_PKTS"), "pcap">>
           j == <<EnDis(s, "SEND_RANGE_PKTS"), "range">>
           k == <<EnDis(s, "SEND_LATENCY_PKTS"), "latency">>
           l == <<EnDis(s, "PROCESS_INPUT_PKTS"), "process">>
           m == <<EnDis(s, "CAPTURE_PKTS"), "capture">>
           n == <<EnDis(s, "PROCESS_RX_TAP_PKTS"), "rx_tap">>
           o == <<EnDis(s, "PROCESS_TX_TAP_PKTS"), "tx_tap">>
           p == <<EnDis(s, "SEND_VLAN_ID"), "vlan">>
<1>1. Numeric(a) /\ Numeric(b) /\ Numeric(c)
  BY DEF Numeric, Counts, EnDis
<1>2. Numeric(d) /\ Numeric(e) /\ Numeric(f)
  BY DEF Numeric, Counts, EnDis
<1>3. Numeric(g) /\ Numeric(h) /\ Numeric(i)
  BY DEF Numeric, Counts, EnDis
<1>4. Numeric(j) /\ Numeric(k) /\ Numeric(l)
  BY DEF Numeric, Counts, EnDis
<1>5. Numeric(m) /\ Numeric(n) /\ Numeric(o)
  BY DEF Numeric, Counts, EnDis
<1>6. Numeric(p)
  BY DEF Numeric, Counts, EnDis
<1> HIDE DEF a, b, c, d, e, f, g, h, i, j, k, l, m, n, o, p
<1>7. AllNumeric(<<a, b, c, d, e, f, g, h, i, j, k, l, m, n, o, p>>)
  BY <1>1, <1>2, <1>3, <1>4, <1>5, <1>6, SixteenNumeric
<1>8. FlagLines(s) = <<a, b, c, d, e, f, g, h, i, j, k, l, m, n, o, p>>
  BY DEF FlagLines, a, b, c, d, e, f, g, h, i, j, k, l, m, n, o, p
<1> QED  BY <1>7, <1>8

LEMMA LuaFlagsNumeric == ASSUME NEW s, Fit(s) PROVE AllNumeric(LuaFlags(s))
<1> DEFINE a == <<"mpls", EnDis(s, "SEND_MPLS_LABEL")>>
           b == <<"mpls_entry", s.pkts[Single].mpls>>
           c == <<"qinq", EnDis(s, "SEND_Q_IN_Q_IDS")>>
           d == <<"qinqids", s.pkts[Single].qinq[1], s.pkts[Single].qinq[2]>>
           e == <<"gre", EnDis(s, "SEND_GRE_IPv4_HEADER")>>
           f == <<"gre_eth", EnDis(s, "SEND_GRE_ETHER_HEADER")>>
           g == <<"gre_key", s.pkts[Single].greKey>>
           h == <<"icmp_echo", EnDis(s, "ICMP_ECHO_ENABLE_FLAG")>>
           i == <<"pcap", EnDis(s, "SEND_PCAP_PKTS")>>
           j == <<"set_range", EnDis(s, "SEND_RANGE_PKTS")>>
           k == <<"latency", EnDis(s, "SEND_LATENCY_PKTS")>>
           l == <<"process", EnDis(s, "PROCESS_INPUT_PKTS")>>
           m == <<"capture", EnDis(s, "CAPTURE_PKTS")>>
           n == <<"rxtap", EnDis(s, "PROCESS_RX_TAP_PKTS")>>
           o == <<"txtap", EnDis(s, "PROCESS_TX_TAP_PKTS")>>
           p == <<"vlan", EnDis(s, "SEND_VLAN_ID")>>
<1>1. Numeric(a) /\ Numeric(b) /\ Numeric(c)
  BY DEF Numeric, Counts
<1>2. Numeric(d) /\ Numeric(e) /\ Numeric(f)
  BY DEF Numeric, Counts
<1>3. Numeric(g) /\ Numeric(h) /\ Numeric(i)
  BY DEF Numeric, Counts
<1>4. Numeric(j) /\ Numeric(k) /\ Numeric(l)
  BY DEF Numeric, Counts
<1>5. Numeric(m) /\ Numeric(n) /\ Numeric(o)
  BY DEF Numeric, Counts
<1>6. Numeric(p)
  BY DEF Numeric, Counts
<1> HIDE DEF a, b, c, d, e, f, g, h, i, j, k, l, m, n, o, p
<1>7. AllNumeric(<<a, b, c, d, e, f, g, h, i, j, k, l, m, n, o, p>>)
  BY <1>1, <1>2, <1>3, <1>4, <1>5, <1>6, SixteenNumeric
<1>8. LuaFlags(s) = <<a, b, c, d, e, f, g, h, i, j, k, l, m, n, o, p>>
  BY DEF LuaFlags, a, b, c, d, e, f, g, h, i, j, k, l, m, n, o, p
<1> QED  BY <1>7, <1>8

LEMMA RangeNumeric ==
  ASSUME NEW s, NEW d, NEW word, word # "size"
  PROVE  AllNumeric(RangeLines(s, d, word))
<1>1. \A n \in 1..4 : Numeric(<<"range", word, SmmiSeq[n], s.range[d][SmmiSeq[n]]>>)
  BY WordsNumeric
<1> QED  BY <1>1, ListNumeric DEF RangeLines

LEMMA LuaRangeNumeric ==
  ASSUME NEW s, NEW d, NEW f,
         f \notin {"set", "pkt_size", "range", "seq", "seqTable", "compile"}
  PROVE  AllNumeric(LuaRange(s, d, f))
<1>1. \A n \in 1..4 : Numeric(<<f, SmmiSeq[n], s.range[d][SmmiSeq[n]]>>)
  BY WordsNumeric
<1> QED  BY <1>1, ListNumeric DEF LuaRange

LEMMA SizeTextNat ==
  ASSUME NEW s, Fit(s), NEW n \in 1..4 PROVE SizeText(s, SmmiSeq[n]) \in Nat
<1>1. SmmiSeq[n] \in {"start", "min", "max", "inc"}
  BY DEF SmmiSeq
<1>2. MinSize = 60 /\ MaxSize = 1514 /\ Fcs = 4
  BY DEF MinSize, MaxSize, Fcs
<1>3. /\ s.range["size"]["inc"] \in Nat
      /\ \A what \in {"start", "min", "max"} : s.range["size"][what] \in MinSize..MaxSize
  BY DEF Fit, SpansFit, SizeSpan
<1> DEFINE w == SmmiSeq[n]
           x == s.range["size"][w]
<1>4. CASE w = "inc"
  BY <1>3, <1>4 DEF SizeText
<1>5. CASE w # "inc"
  <2>1. w \in {"start", "min", "max"}
    BY <1>1, <1>5
  <2>2. x \in MinSize..MaxSize
    BY <1>3, <2>1
  <2>3. SizeText(s, w) = x + 4
    BY <1>2, <1>5 DEF SizeText
  <2> HIDE DEF x
  <2>4. x + 4 \in Nat
    BY <1>2, <2>2
  <2>5. SizeText(s, w) \in Nat
    BY <2>3, <2>4
  <2> QED  BY <2>5 DEF w
<1> QED  BY <1>4, <1>5

LEMMA SizeNumeric ==
  ASSUME NEW s, Fit(s)
  PROVE  /\ AllNumeric([n \in 1..4 |->
                <<"range", "size", SmmiSeq[n], SizeText(s, SmmiSeq[n])>>])
         /\ AllNumeric([n \in 1..4 |-> <<"pkt_size", SmmiSeq[n], SizeText(s, SmmiSeq[n])>>])
<1>1. \A n \in 1..4 : Numeric(<<"range", "size", SmmiSeq[n], SizeText(s, SmmiSeq[n])>>)
  BY SizeTextNat, WordsNumeric
<1>2. \A n \in 1..4 : Numeric(<<"pkt_size", SmmiSeq[n], SizeText(s, SmmiSeq[n])>>)
  BY SizeTextNat, WordsNumeric
<1> QED  BY <1>1, <1>2, ListNumeric

LEMMA AllRangesNumeric == ASSUME NEW s, Fit(s) PROVE AllNumeric(AllRangeLines(s))
<1>1. \A d, word : word # "size" => AllNumeric(RangeLines(s, d, word))
  BY RangeNumeric
<1>2. AllNumeric(<< <<"range", "proto", s.rangeProto>> >>)
  BY WordsNumeric, OneNumeric
<1> DEFINE a == RangeLines(s, "src mac", "mac src") \o RangeLines(s, "dst mac", "mac dst")
           b == a \o RangeLines(s, "src ip", "src ip")
           c == b \o RangeLines(s, "dst ip", "dst ip")
           d == c \o << <<"range", "proto", s.rangeProto>> >>
           e == d \o RangeLines(s, "src port", "sport")
           f == e \o RangeLines(s, "dst port", "dport")
           g == f \o RangeLines(s, "vlan", "vlan")
           h == g \o RangeLines(s, "cos", "cos")
           i == h \o RangeLines(s, "tos", "tos")
           j == i \o [n \in 1..4 |-> <<"range", "size", SmmiSeq[n],
                                      SizeText(s, SmmiSeq[n])>>]
<1>3. AllNumeric(b)
  BY <1>1, JoinNumeric
<1> HIDE DEF b
<1>4. AllNumeric(d)
  BY <1>1, <1>2, <1>3, JoinNumeric
<1> HIDE DEF d
<1>5. AllNumeric(f)
  BY <1>1, <1>4, JoinNumeric
<1> HIDE DEF f
<1>6. AllNumeric(h)
  BY <1>1, <1>5, JoinNumeric
<1> HIDE DEF h
<1>7. AllNumeric(j)
  BY <1>1, <1>6, SizeNumeric, JoinNumeric
<1> QED  BY <1>7 DEF AllRangeLines, b, d, f, h

LEMMA AllLuaRangesNumeric == ASSUME NEW s, Fit(s) PROVE AllNumeric(LuaRanges(s))
<1>1. \A d, w :
        w \notin {"set", "pkt_size", "range", "seq", "seqTable", "compile"}
          => AllNumeric(LuaRange(s, d, w))
  BY LuaRangeNumeric
<1>2. AllNumeric(<< <<"ip_proto", s.rangeProto>> >>)
  BY WordsNumeric, OneNumeric
<1> DEFINE a == LuaRange(s, "src mac", "src_mac") \o LuaRange(s, "dst mac", "dst_mac")
           b == a \o LuaRange(s, "src ip", "src_ip")
           c == b \o LuaRange(s, "dst ip", "dst_ip")
           d == c \o << <<"ip_proto", s.rangeProto>> >>
           e == d \o LuaRange(s, "src port", "src_port")
           f == e \o LuaRange(s, "dst port", "dst_port")
           g == f \o LuaRange(s, "vlan", "vlan_id")
           h == g \o LuaRange(s, "cos", "cos")
           i == h \o LuaRange(s, "tos", "tos")
           j == i \o [n \in 1..4 |-> <<"pkt_size", SmmiSeq[n], SizeText(s, SmmiSeq[n])>>]
<1>3. AllNumeric(b)
  BY <1>1, JoinNumeric
<1> HIDE DEF b
<1>4. AllNumeric(d)
  BY <1>1, <1>2, <1>3, JoinNumeric
<1> HIDE DEF d
<1>5. AllNumeric(f)
  BY <1>1, <1>4, JoinNumeric
<1> HIDE DEF f
<1>6. AllNumeric(h)
  BY <1>1, <1>5, JoinNumeric
<1> HIDE DEF h
<1>7. AllNumeric(j)
  BY <1>1, <1>6, SizeNumeric, JoinNumeric
<1> QED  BY <1>7 DEF LuaRanges, b, d, f, h

LEMMA SeqNumeric ==
  ASSUME NEW s, Fit(s)
  PROVE  AllNumeric(<< <<"set", "seq_cnt", s.seqCnt>> >>) /\ AllNumeric(SeqLines(s))
<1>1. s.seqCnt \in Nat /\ s.seqCnt <= SeqSlots /\ SeqSlots \in Nat
  BY SettingsAssumption DEF Fit, Counted
<1>2. AllNumeric(<< <<"set", "seq_cnt", s.seqCnt>> >>)
  BY <1>1, WordsNumeric, OneNumeric
<1> DEFINE lines == [j \in 1..s.seqCnt |-> <<"seq", j - 1, SeqText(s.pkts[j - 1])>>]
<1>3. ASSUME NEW j \in 1..s.seqCnt
      PROVE  Numeric(<<"seq", j - 1, SeqText(s.pkts[j - 1])>>)
  <2>1. j - 1 \in Slots
    BY <1>1 DEF Slots, Ranged
  <2>2. s.pkts[j - 1].size \in Nat
    BY <2>1 DEF Fit, Raw, PktsFit, PktFit
  <2>3. SeqText(s.pkts[j - 1]).size = s.pkts[j - 1].size + Fcs
    BY DEF SeqText
  <2>4. SeqText(s.pkts[j - 1]).size \in Nat
    BY <2>2, <2>3 DEF Fcs
  <2> DEFINE q == SeqText(s.pkts[j - 1])
  <2> HIDE DEF q
  <2>5. Numeric(<<"seq", j - 1, q>>)
    BY <2>4 DEF Numeric, q
  <2> QED  BY <2>5 DEF q
<1>4. AllNumeric(lines)
  BY <1>1, <1>3, ListNumeric
<1> HIDE DEF lines
<1>5. AllNumeric(<< <<"set", "seq_cnt", s.seqCnt>> >> \o lines)
  BY <1>2, <1>4, JoinNumeric
<1> QED  BY <1>2, <1>5 DEF SeqLines, lines

LEMMA FileNumeric ==
  ASSUME NEW s, Fit(s) PROVE AllNumeric(ScriptOf(s)) /\ AllNumeric(LuaScriptOf(s))
<1>1. AllNumeric(SingleLines(s) \o FlagLines(s))
  BY SingleNumeric, FlagsNumeric, JoinNumeric
<1>2. AllNumeric((SingleLines(s) \o FlagLines(s)) \o AllRangeLines(s))
  BY <1>1, AllRangesNumeric, JoinNumeric
<1>3. AllNumeric(ScriptOf(s))
  BY <1>2, SeqNumeric, JoinNumeric DEF ScriptOf
<1>4. AllNumeric(LuaSingle(s) \o LuaFlags(s))
  BY LuaSingleNumeric, LuaFlagsNumeric, JoinNumeric
<1>5. AllNumeric((LuaSingle(s) \o LuaFlags(s)) \o LuaRanges(s))
  BY <1>4, AllLuaRangesNumeric, JoinNumeric
<1>6. AllNumeric(LuaScriptOf(s))
  BY <1>5, SeqNumeric, JoinNumeric DEF LuaScriptOf
<1> QED  BY <1>3, <1>6
-----------------------------------------------------------------------------
(* What the steps preserve: settings that can be sent, and a file that     *)
(* gives numbers where they are read, up to its last line.                 *)
FileInv == AllNumeric(file.lines) /\ next \in Nat /\ next > 0

(* Whatever the user types and calls, however often, and whatever settings *)
(* are saved and loaded again, the transmitter can send with them.         *)
THEOREM SettingsSendable == Spec => []Sendable
<1> DEFINE Inv == Fit(port) /\ FileInv
<1>1. Init => Inv
  <2> SUFFICES ASSUME Init PROVE Inv
    OBVIOUS
  <2>1. Fit(port)
    BY FreshFit DEF Init
  <2>2. file.lines = <<>> /\ next = 1
    BY DEF Init
  <2>3. FileInv
    BY <2>2, NoneNumeric DEF FileInv
  <2> QED  BY <2>1, <2>3
<1>2. Inv /\ [Next]_vars => Inv'
  <2> SUFFICES ASSUME Fit(port), FileInv, [Next]_vars
               PROVE  Fit(port') /\ FileInv'
    BY DEF Fit, Raw, Counted, NotEmpty, SingleFit, SpansFit, Timed
  <2>1. ASSUME NEW line \in Lines, Type(line) PROVE Fit(port') /\ FileInv'
    <3>1. Numeric(line)
      BY InputAssumption
    <3>2. Fit(port')
      BY <2>1, <3>1, RunFit DEF Type
    <3> QED  BY <2>1, <3>2 DEF Type, FileInv, AllNumeric
  <2>2. ASSUME NEW call \in Calls, MakeCall(call) PROVE Fit(port') /\ FileInv'
    <3>1. Numeric(call)
      BY InputAssumption
    <3>2. Fit(port')
      BY <2>2, <3>1, CallFit DEF MakeCall
    <3> QED  BY <2>2, <3>2 DEF MakeCall, FileInv, AllNumeric
  <2>3. ASSUME NEW kind, SaveAndRestart(kind) PROVE Fit(port') /\ FileInv'
    <3>1. file'.lines = LuaScriptOf(port) \/ file'.lines = ScriptOf(port)
      BY <2>3 DEF SaveAndRestart
    <3>2. AllNumeric(file'.lines)
      BY <3>1, FileNumeric
    <3> QED  BY <2>3, <3>2, FreshFit DEF SaveAndRestart, FileInv
  <2>4. CASE LoadLine
    <3>1. Numeric(file.lines[next])
      BY <2>4, ReadNumeric DEF LoadLine, FileInv
    <3>2. Fit(port')
      BY <2>4, <3>1, RunFit DEF LoadLine
    <3> QED  BY <2>4, <3>2 DEF LoadLine, FileInv, AllNumeric
  <2>5. CASE LoadCall
    <3>1. Numeric(file.lines[next])
      BY <2>5, ReadNumeric DEF LoadCall, FileInv
    <3>2. Fit(port')
      BY <2>5, <3>1, CallFit DEF LoadCall
    <3> QED  BY <2>5, <3>2 DEF LoadCall, FileInv, AllNumeric
  <2>6. CASE EndLoad \/ UNCHANGED vars
    BY <2>6 DEF EndLoad, vars, FileInv, AllNumeric
  <2> QED  BY <2>1, <2>2, <2>3, <2>4, <2>5, <2>6 DEF Next
<1>3. Inv /\ ModesExclusive => Sendable
  <2> SUFFICES ASSUME Fit(port), ModesExclusive PROVE Sendable
    OBVIOUS
  <2>1. WireSize(port) > 0
    BY WireSizePositive DEF Fit, Raw, Counted
  <2>2. port.pkts[Single].size \in 0..MaxSize
    <3> DEFINE x == port.pkts[Single].size
    <3>1. PktFit(port.pkts[Single]) /\ x <= MaxSize
      BY SingleFacts
    <3>2. x \in Nat
      BY <3>1 DEF PktFit
    <3>3. MaxSize = 1514
      BY DEF MaxSize
    <3> HIDE DEF x
    <3>4. x \in 0..MaxSize
      BY <3>1, <3>2, <3>3
    <3> QED  BY <3>4 DEF x
  <2> QED  BY <2>1, <2>2 DEF Sendable, Fit, Counted, NotEmpty, SpansFit, SizeSpan, Timed
<1>4. Spec => []ModesExclusive
  BY SettingsExclusive
<1> QED  BY <1>1, <1>2, <1>3, <1>4, PTL DEF Spec
=============================================================================

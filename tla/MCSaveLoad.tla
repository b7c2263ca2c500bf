----------------------------- MODULE MCSaveLoad -----------------------------
(* Instance: commands that give every setting a value of its own.  Two     *)
(* inputs in a row reach the settings that one changes behind another.     *)
EXTENDS SaveLoad, TLC

MCIp == <<10, 0, 0, 9>>

SeqQ(type, proto) ==
  [dstMac |-> 8, srcMac |-> 7, dstIp |-> MCIp, srcIp |-> <<10, 1, 0, 9>>,
   mask |-> 16, sport |-> 5, dport |-> 2152, type |-> type, proto |-> proto,
   vlanid |-> 9, size |-> 102, teid |-> 3]

MCLines ==
  { <<"set", "count", 5>>, <<"set", "size", 102>>, <<"set", "size", 20>>,
    <<"set", "rate", 3528>>, <<"set", "rate", 0>>, <<"set", "pps", 20>>,
    <<"set", "burst", 16>>, <<"set", "burst", 0>>, <<"set", "burst", 100>>,
    <<"set", "tx_cycles", 7>>, <<"set", "sport", 5>>, <<"set", "dport", 2152>>,
    <<"set", "prime", 9>>, <<"set", "seq_cnt", 2>>, <<"set", "seqCnt", 0>>,
    <<"set", "vlan", 5>>, <<"set", "cos", 3>>, <<"set", "tos", 9>>,
    <<"set", "type", "arp">>, <<"set", "type", "ipv4">>, <<"set", "type", "ipv6">>,
    <<"set", "proto", "udp">>, <<"set", "proto", "icmp">>,
    <<"set", "src mac", 7>>, <<"set", "dst mac", 8>>, <<"set", "pattern", "none">>,
    <<"set", "user pattern", "xyzzy">>, <<"set", "src ip", <<MCIp, 8>>>>,
    <<"set", "dst ip", MCIp>>, <<"set", "qinqids", <<5, 6>>>>,
    <<"set", "jitter", 70>>,
    <<"range", "src ip", "min", MCIp>>, <<"range", "dst ip", "inc", MCIp>>,
    <<"range", "dst mac", "start", 8>>, <<"range", "src mac", "max", 9>>,
    <<"range", "src port", <<1, 1, 9, 2>>>>, <<"range", "dst port", "inc", 99>>,
    <<"range", "vlan", "max", 5000>>, <<"range", "cos", "max", 3>>,
    <<"range", "tos", "start", 260>>, <<"range", "size", <<128, 64, 256, 8>>>>,
    <<"range", "proto", "udp">>, <<"range", "mpls entry", 77>>,
    <<"range", "qinq index", <<3, 4>>>>, <<"range", "gre key", 12>>,
    <<"seq", 0, SeqQ("ipv4", "udp")>>, <<"seq", 1, SeqQ("ipv6", "tcp")>>,
    <<"seq", 1, SeqQ("ipv4", "icmp")>>, <<"seq cos", 0, 2, 9>>,
    <<"misc", "arp request">>, <<"misc", "arp gratuitous">>, <<"misc", "ping4">>,
    <<"misc", "reset">> }
  \cup ({"enable"} \X {"mpls", "qinq", "vlan", "gre", "gre_eth", "garp",
                        "random", "latency", "pcap", "range", "rx_tap", "tx_tap",
                        "process", "capture", "bonding", "icmp", "short",
                        "mac_from_arp"})
  \cup ({"disable"} \X {"vlan", "gre", "garp", "range", "pcap", "tx_tap"})

MCCalls ==
  { <<"set", "size", 20>>, <<"set", "rate", 0>>, <<"set", "cycles", 3>>,
    <<"set", "seqCnt", 1>>, <<"set", "pps", 5>>, <<"set_range", "enable">>,
    <<"pcap", "enable">>, <<"qinq", "enable">>, <<"gre", "enable">>,
    <<"userPattern", "xyzzy">>, <<"mpls_entry", 77>>, <<"gre_key", 4>>,
    <<"qinqids", 0, 12>>, <<"ip_proto", "icmp">>, <<"pkt_size", "inc", 0>>,
    <<"gtpu_teid", "start", 6>>, <<"src_mac", "start", 6>>, <<"vlanid", 0>>,
    <<"cos", 9>>, <<"cos", "start", 1>>, <<"tos", 5>>, <<"send_arp", "g">>,
    <<"reset">>, <<"rnd", 0, 2, "xx">>, <<"rnd", 0, 2, "off">>,
    <<"seqTable", 0, [SeqQ("ipv4", "tcp") EXCEPT !.size = 64]
                     @@ [cos |-> 1, tos |-> 2]>> }
=============================================================================

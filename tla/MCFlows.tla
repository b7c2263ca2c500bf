------------------------------ MODULE MCFlows ------------------------------
(* Instances of the flows for TLC: a test with GTP-U whose second command  *)
(* file has fewer flows; one without, whose second file is not written     *)
(* because user_input.cfg lacks a key; and one the program refuses, whose  *)
(* UE addresses are fewer than the flows.                                  *)
EXTENDS Flows

MCConfig ==
  [network |-> 0, test_duration |-> 30, enable_gtpu |-> 1, no_of_enb |-> 2,
   enb_ip_range |-> <<9, 12>>, flows |-> 3, ue_ip_range |-> <<3, 9>>,
   app_srvr_ip_range |-> <<1, 1>>, s1u_sgw_ip |-> 2, enb_teid |-> 1,
   s1u_teid |-> 14, pps |-> 1, pkt_size |-> 128, proto_type |-> "ipv4",
   macs |-> 0, protocol |-> "udp"]
Without(cfg, keys) == [k \in DOMAIN cfg \ keys |-> cfg[k]]
MCTests ==
  {<<MCConfig, [MCConfig EXCEPT !.flows = 2]>>,
   <<[Without(MCConfig, GtpuKeys) EXCEPT !.enable_gtpu = 0, !.flows = 2],
     Without([MCConfig EXCEPT !.flows = 3], {"pps"})>>,
   <<[MCConfig EXCEPT !.ue_ip_range = <<3, 4>>]>>}
=============================================================================

----------------------------- MODULE MCTransmit -----------------------------
(* Instances of the transmit engine for TLC; each cfg gives the constants. *)
EXTENDS Transmit

\* A mode whose mempool is rebuilt at a start and one whose is not.
RangePcap == {"SEND_RANGE_PKTS", "SEND_PCAP_PKTS"}
Random    == {"SEND_RANDOM_PKTS"}
Usr       == {"usr"}
Alrm      == {"alrm"}
=============================================================================

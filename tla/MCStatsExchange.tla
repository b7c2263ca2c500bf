-------------------------- MODULE MCStatsExchange --------------------------
(* Instances of the statistics exchange for TLC. *)
EXTENDS StatsExchange

\* More to learn of the responder than of the generator.
MCPkts == [gen |-> 1, resp |-> 2]
=============================================================================

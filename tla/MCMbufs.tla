------------------------------ MODULE MCMbufs ------------------------------
(* Instances of the mbuf ownership model for TLC. *)
EXTENDS Mbufs
=============================================================================

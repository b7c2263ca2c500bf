----------------------------- MODULE MCRxDebug -----------------------------
(* Instances of the packet dump and capture model for TLC. *)
EXTENDS RxDebug
=============================================================================

------------------------------ MODULE Mapping ------------------------------
(***************************************************************************)
(* The lcores that come up and go down (Lifecycle) go through the ports    *)
(* that the -m option names for them (L2p): main parses it before the      *)
(* ports are configured and the lcores are launched.                       *)
(***************************************************************************)
EXTENDS Lifecycle, L2p

CONSTANTS
  Matrix,     \* what -m says
  Matrices    \* what else it might have said

ASSUME MappingAssumption ==
  /\ \A m \in Matrices : m \in Seq(ToSet(m))
  /\ \A l \in Lcores :
       /\ l \in Lids
       /\ RxPorts[l] = RxPortsOf(Parsed(Matrix), l)
       /\ TxPorts[l] = TxPortsOf(Parsed(Matrix), l)

(* When the lcores are launched, each queue the ports were given has its   *)
(* lcore, whatever -m said, and however the entries and the lcores of a    *)
(* port are mixed (l2p_connect against port_map_info).                     *)
EachQueueServed ==
  master = "launch" /\ todo = Lcores /\ nsig = 0 =>
    \A m \in Matrices : Consistent(m) => QueuesServed(Parsed(m))
=============================================================================

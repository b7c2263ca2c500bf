---------------------------- MODULE MCLifecycle ----------------------------
(* A port whose one lcore does both, and a port with an lcore for each     *)
(* direction, one of them late: "-m 1.0,[2:3].1", with lcore 4 left over.  *)
EXTENDS Mapping

MCMatrix ==
  <<[lcores |-> <<{<<1, 1>>}>>, ports |-> <<{<<0, 0>>}>>],
    [lcores |-> <<{<<2, 2>>}, {<<3, 3>>}>>, ports |-> <<{<<1, 1>>}>>]>>
MCRxPorts == <<{0}, {1}, {}, {}>>
MCTxPorts == <<{0}, {}, {1}, {}>>

(* Matrices of one and of two entries: one lcore, two, a range and a range *)
(* written backwards, alone or in pairs, for one port or two.              *)
MCLists == {{<<1, 1>>}, {<<2, 2>>}, {<<1, 2>>}, {<<3, 1>>, <<2, 2>>}}
MCEntries ==
  [lcores : {<<a>> : a \in MCLists} \cup {<<a, b>> : a \in MCLists, b \in MCLists},
   ports : {<<{<<0, 0>>}>>, <<{<<1, 1>>}>>, <<{<<0, 1>>}>>, <<{<<0, 0>>}, {<<1, 1>>}>>}]
MCMatrices == {<<e>> : e \in MCEntries} \cup (MCEntries \X MCEntries)
=============================================================================

--------------------------------- MODULE L2p ---------------------------------
(***************************************************************************)
(* Which lcore serves which queue of which port: how the -m option of the  *)
(* command line becomes the l2p table (lib/common/l2p.c, l2p.h), how many  *)
(* queues the ports then get (pktgen_config_ports) and which of them the   *)
(* loops of the lcores use (port_map_info in app/pktgen.c).                *)
(* A matrix is a sequence of <lcore-list>.<port-list> entries.  Both are   *)
(* one list, or a pair of lists for receiving and transmitting; a list is  *)
(* a set of ranges, a range a pair of numbers.                             *)
(***************************************************************************)
EXTENDS Naturals, FiniteSets, SequencesExt

CONSTANTS
  NbLids,   \* RTE_MAX_LCORE
  NbPids    \* RTE_MAX_ETHPORTS

ASSUME L2pAssumption == NbLids \in Nat /\ NbPids \in Nat

Lids == 0..(NbLids - 1)
Pids == 0..(NbPids - 1)

RX == 1
TX == 2

(* pg_parse_rt_list: the first number of a range is there in any case.     *)
Listed(list) == UNION {{r[1]} \cup (r[1]..r[2]) : r \in list}

(* pg_parse_lcore_list, pg_parse_port_list: one list is for both.          *)
Side(lists, dir) == Listed(lists[IF Len(lists) = 1 THEN 1 ELSE dir])

(* An lcore's type is that of its numbers; a port is connected in both     *)
(* directions, whichever of its lists it is in.                            *)
Types(entry, lid) == {dir \in {RX, TX} : lid \in Side(entry.lcores, dir)}
PortsOf(entry) == Side(entry.ports, RX) \cup Side(entry.ports, TX)

(***************************************************************************)
(* The table.                                                              *)
(***************************************************************************)
(* l2p_create: no lcore has a type or a port, no port a queue.             *)
Created ==
  [type |-> [l \in Lids |-> {}],
   pids |-> [dir \in {RX, TX} |-> [l \in Lids |-> <<>>]],
   qids |-> [dir \in {RX, TX} |-> [l \in Lids |-> [p \in Pids |-> 0]]],
   next |-> [dir \in {RX, TX} |-> [p \in Pids |-> 0]],
   lids |-> [p \in Pids |-> <<>>],
   map  |-> [dir \in {RX, TX} |-> [p \in Pids |-> [l \in Lids |-> 0]]]]

(* One direction of l2p_connect: the port is added to those of the lcore,  *)
(* and its next queue becomes the lcore's.  Mutant: the queue is as many   *)
(* as the port has lcores.                                                 *)
Take_lids(s, dir, pid, lid) ==
  [type |-> s.type, lids |-> s.lids,
   pids |-> [s.pids EXCEPT ![dir][lid] = Append(@, pid)],
   qids |-> [s.qids EXCEPT ![dir][lid][pid] = Len(s.lids[pid])],
   next |-> [s.next EXCEPT ![dir][pid] = @ + 1],
   map  |-> [s.map EXCEPT ![dir][pid][lid] = @ + 1]]
Take(s, dir, pid, lid) ==
  [type |-> s.type, lids |-> s.lids,
   pids |-> [s.pids EXCEPT ![dir][lid] = Append(@, pid)],
   qids |-> [s.qids EXCEPT ![dir][lid][pid] = s.next[dir][pid]],
   next |-> [s.next EXCEPT ![dir][pid] = @ + 1],
   map  |-> [s.map EXCEPT ![dir][pid][lid] = @ + 1]]

(* l2p_connect: the type is the one of the entry that came last.           *)
Connect(s, pid, lid, types) ==
  LET typed == [s EXCEPT !.type[lid] = types]
      rx == IF RX \in types THEN Take(typed, RX, pid, lid) ELSE typed
      tx == IF TX \in types THEN Take(rx, TX, pid, lid) ELSE rx
  IN [tx EXCEPT !.lids[pid] = Append(@, lid)]

(* pg_parse_matrix: entry after entry, for each the lcores in the order of *)
(* their numbers, and for each of these the ports in that of theirs.       *)
ConnectPorts(s, entry, lid) ==
  LET before[n \in 0..NbPids] ==
        IF n = 0 THEN s
        ELSE IF n - 1 \in PortsOf(entry)
             THEN Connect(before[n - 1], n - 1, lid, Types(entry, lid))
             ELSE before[n - 1]
  IN before[NbPids]
ConnectLcores(s, entry) ==
  LET before[n \in 0..NbLids] ==
        IF n = 0 THEN s
        ELSE IF Types(entry, n - 1) # {} THEN ConnectPorts(before[n - 1], entry, n - 1)
             ELSE before[n - 1]
  IN before[NbLids]
Parsed(matrix) ==
  LET after[n \in 0..Len(matrix)] ==
        IF n = 0 THEN Created ELSE ConnectLcores(after[n - 1], matrix[n])
  IN after[Len(matrix)]

(***************************************************************************)
(* Its use.                                                                *)
(***************************************************************************)
(* pktgen_config_ports: as many queues as lcores are counted for the port. *)
Queues(s, dir, pid) == Cardinality({l \in Lids : s.map[dir][pid][l] > 0})

(* port_map_info: the ports the loop of an lcore goes through.  An lcore   *)
(* that does both goes through as many of its RX ports as it has TX ports. *)
Loop(s, dir, lid) ==
  CASE s.type[lid] = {RX, TX} -> SubSeq(s.pids[RX][lid], 1, Len(s.pids[TX][lid]))
    [] s.type[lid] = {dir} -> s.pids[dir][lid]
    [] OTHER -> <<>>
RxPortsOf(s, lid) == ToSet(Loop(s, RX, lid))
TxPortsOf(s, lid) == ToSet(Loop(s, TX, lid))

(* The lcores that serve a queue, with the places of their loops they do   *)
(* so at.                                                                  *)
Served(s, dir, pid, q) ==
  UNION {{<<l, k>> : k \in {n \in DOMAIN Loop(s, dir, l) : Loop(s, dir, l)[n] = pid}} :
           l \in {m \in Lids : s.qids[dir][m][pid] = q}}

(***************************************************************************)
(* Properties                                                              *)
(***************************************************************************)
(* What is asked of a matrix: the entries that name an lcore agree about   *)
(* what it does, and each names other ports.                               *)
Consistent(matrix) ==
  \A i, j \in DOMAIN matrix : \A l \in Lids :
    i # j /\ Types(matrix[i], l) # {} /\ Types(matrix[j], l) # {} =>
      /\ Types(matrix[i], l) = Types(matrix[j], l)
      /\ PortsOf(matrix[i]) \cap PortsOf(matrix[j]) = {}

(* Every queue a port is given is served by one lcore, in one place of its *)
(* loop, and no lcore uses a queue that the port was not given.            *)
QueuesServed(s) ==
  \A dir \in {RX, TX}, pid \in Pids, q \in 0..Cardinality(Lids) :
    Cardinality(Served(s, dir, pid, q)) = IF q < Queues(s, dir, pid) THEN 1 ELSE 0
=============================================================================

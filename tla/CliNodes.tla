------------------------------ MODULE CliNodes ------------------------------
(***************************************************************************)
(* The nodes of the command line: the tree of directories, commands,       *)
(* aliases and files of lib/cli/cli.c, and the searches of                 *)
(* lib/cli/cli_search.c.  A tree is a record c with                        *)
(*   node   type, name, parent and function of every node of node_mem      *)
(*   items  the nodes of a directory, the newest first                     *)
(*   free   free_nodes: the nodes in no directory                          *)
(*   root   the node "/"                                                   *)
(*   bins   bins: the working directory, then the executable path          *)
(* Names are sequences of symbols, because cli_add_dir puts names together *)
(* to one; a path is a record of a flag, for a leading "/", and the names. *)
(***************************************************************************)
EXTENDS Naturals, FiniteSets, SequencesExt, FiniteSetsExt

CONSTANTS
  NbNodes,   \* nb_nodes: 256 unless cli_init is asked for others
  MaxBins    \* CLI_MAX_BINS

ASSUME PoolAssumption == NbNodes \in Nat \ {0} /\ MaxBins \in Nat \ {0}

Null == 0
Nodes == 1..NbNodes
Here == <<".">>
Up == <<".", ".">>
RootName == <<"/">>
Exe == {"cmd", "alias"}
All == Exe \cup {"dir", "file"}
Abs(names) == [abs |-> TRUE, names |-> names]
Rel(names) == [abs |-> FALSE, names |-> names]

IsDir(c, n) == n # Null /\ c.node[n].type = "dir"
Cwd(c) == c.bins[1]

(***************************************************************************)
(* cli_search.c                                                            *)
(***************************************************************************)
(* cli_search_dir: the newest entry of that name and type.                 *)
SearchDir(c, dir, name, types) ==
  LET d == IF dir = Null THEN Cwd(c) ELSE dir
      hits == {k \in DOMAIN c.items[d] :
                 LET n == c.node[c.items[d][k]] IN n.name = name /\ n.type \in types}
  IN IF name = <<>> \/ (dir # Null /\ ~IsDir(c, dir)) THEN Null
     ELSE IF name = Up THEN c.node[d].parent
     ELSE IF name = Here THEN d
     ELSE IF hits = {} THEN Null ELSE c.items[d][Min(hits)]

(* The loop of cli_find_node and cli_last_node_in_path: it stops at the    *)
(* first name that is not there or not a directory.                        *)
Walk(c, path) ==
  FoldLeft(LAMBDA at, name :
      LET n == SearchDir(c, at.dir, name, All)
      IN IF at.done THEN at
         ELSE IF IsDir(c, n) THEN [dir |-> n, node |-> n, done |-> FALSE]
         ELSE [at EXCEPT !.node = n, !.done = TRUE],
    [dir |-> IF path.abs THEN c.root ELSE Cwd(c), node |-> Null, done |-> FALSE],
    path.names)

FindNode(c, path) ==
  IF path = Abs(<<>>) THEN c.root ELSE Walk(c, path).node

(* cli_find_cmd: whatever the path leads to, else a command of that name   *)
(* in the working directory or in one of the bin directories.  Mutant:    *)
(* only what is in the working directory is found.                         *)
FindCmd_cwdOnly(c, path) == FindNode(c, path)
FindCmd(c, path) ==
  LET named(k) == IF c.bins[k] = Null \/ path.abs \/ Len(path.names) # 1 THEN Null
                  ELSE SearchDir(c, c.bins[k], path.names[1], Exe)
      hits == {k \in 1..MaxBins : named(k) # Null}
  IN IF FindNode(c, path) # Null THEN FindNode(c, path)
     ELSE IF hits = {} THEN Null ELSE named(Min(hits))

(* cli_node_list_with_type, without a directory and with every type: what  *)
(* Tab looks at to complete a first word without a "/".                    *)
NodeList(c) ==
  LET dirs == {k \in 1..MaxBins : c.bins[k] # Null /\ (k > 1 => c.bins[k] # Cwd(c))}
  IN UNION {ToSet(c.items[c.bins[k]]) : k \in dirs}

(* What _print_nodes finds for it.                                         *)
Matching(c, part) == {n \in NodeList(c) : IsPrefix(part, c.node[n].name)}

(***************************************************************************)
(* cli.c                                                                   *)
(***************************************************************************)
(* __add_node: the new node, or Null; it comes first in its directory.     *)
AddNode(c, parent, new) ==
  IF c.free = <<>> \/ (new.type = "dir" /\ new.name = RootName)
  THEN [cli |-> c, node |-> Null]
  ELSE LET n == Head(c.free) IN
       [cli |-> [c EXCEPT !.free = Tail(@), !.node[n] = [new EXCEPT !.parent = parent],
                          !.items[parent] = <<n>> \o @],
        node |-> n]

Dir(name) == [type |-> "dir", name |-> name, parent |-> Null, func |-> "none", alias |-> <<>>]

(* cli_add_dir: the directories of a path that are not there.  What it     *)
(* searches for is made of the names up to this one with no "/" between.   *)
AddDir(c, path, start) ==
  LET dir == IF path.abs \/ start = Null THEN c.root ELSE start
      Step(s, name) ==
        LET search == s.search \o name
            found == FindNode(s.cli, [path EXCEPT !.names = <<search>>])
            new == AddNode(s.cli, s.dir, Dir(name))
        IN CASE s.stop -> s
             [] ~s.stop /\ found # Null -> [s EXCEPT !.search = search, !.dir = found]
             [] OTHER -> [cli |-> new.cli, search |-> search, dir |-> new.node,
                          node |-> new.node, stop |-> new.node = Null]
      made == FoldLeft(Step, [cli |-> c, search |-> <<>>, dir |-> dir,
                              node |-> Null, stop |-> FALSE], path.names)
  IN IF FindNode(c, path) # Null THEN [cli |-> c, node |-> FindNode(c, path)]
     ELSE [cli |-> made.cli, node |-> made.node]

(* cli_add_bin: behind the working directory, once.                        *)
AddBin(c, dir) ==
  LET room == {k \in 2..MaxBins : c.bins[k] = Null} IN
  IF ~IsDir(c, dir) \/ room = {} \/ \E k \in 2..MaxBins : c.bins[k] = dir THEN c
  ELSE [c EXCEPT !.bins[Min(room)] = dir]

(* cli_del_bin: the first entry with this directory goes, be it the        *)
(* working directory, and the list is compressed.                          *)
DelBin(c, dir) ==
  LET at == {k \in 1..MaxBins : c.bins[k] = dir} IN
  IF at = {} THEN c
  ELSE [c EXCEPT !.bins = Append(RemoveAt(@, Min(at)), Null)]

(* A node and all below it, in the order cli_remove_node frees them: the   *)
(* entries of a directory before it, the newest first.                     *)
Subtree(c, n) ==
  LET order[m \in Nodes] ==
        Append(FoldLeft(LAMBDA before, k : before \o order[k], <<>>, c.items[m]), m)
  IN order[n]

(* cli_remove_node: a directory with all that is in it, but not the root.  *)
Removed(c, n) ==
  LET gone == IF IsDir(c, n) THEN DelBin(c, n) ELSE c IN
  [gone EXCEPT !.items[c.node[n].parent] = RemoveFirst(@, n),
               !.free = Append(@, n)]

(* Mutant: a directory goes without its entries. *)
RemoveNode_flat(c, n) == IF n = Null \/ n = c.root THEN c ELSE Removed(c, n)
RemoveNode(c, n) ==
  IF n = Null \/ n = c.root THEN c ELSE FoldLeft(Removed, c, Subtree(c, n))
=============================================================================

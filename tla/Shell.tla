-------------------------------- MODULE Shell --------------------------------
(***************************************************************************)
(* What the command line promises of its directories: a tree of places, a  *)
(* working directory and a path of directories to find commands in, as in  *)
(* a shell.  A place is the sequence of names that leads to it from the    *)
(* root.                                                                   *)
(***************************************************************************)
EXTENDS Naturals, FiniteSets, SequencesExt

CONSTANTS
  Aliases,   \* the names that stand for another line
  Size       \* how many entries fit in the tree, the root included

VARIABLES
  tree,      \* the entries: the place each is at, and whether it is a
             \* directory or what it does
  cwd,       \* the working directory, a place
  path,      \* the places commands are looked for, in order
  env,       \* the variables that are set, and what they stand for
  line       \* the line typed last: a path to a command and its arguments

vars == <<tree, cwd, path, env>>

Parent(place) == IF place = <<>> THEN <<<<"nowhere">>>> ELSE Front(place)
Places == {e.at : e \in tree}

(* Where a path leads to from the working directory.                       *)
Place(p) ==
  FoldLeft(LAMBDA at, name : IF name = <<".">> THEN at
                             ELSE IF name = <<".", ".">> THEN Parent(at)
                             ELSE Append(at, name),
    IF p.abs THEN <<>> ELSE cwd, p.names)

(* The commands a name may stand for: the entry of that name in the        *)
(* working directory, or else those in the first directory of the path     *)
(* that has one.                                                           *)
Commands(p) ==
  LET at(k) == {e \in tree : e.at = Append(path[k], p.names[1]) /\ e.is # "dir"}
      first == {k \in DOMAIN path : at(k) # {} /\ \A j \in 1..(k - 1) : at(j) = {}}
  IN IF Place(p) \in Places THEN {e.is : e \in {t \in tree : t.at = Place(p)}}
     ELSE IF p.abs \/ Len(p.names) # 1 THEN {}
     ELSE UNION {{e.is : e \in at(k)} : k \in first}

(* A variable stands for its value; one that is not set for a path to      *)
(* nowhere.                                                                *)
Value(word) ==
  IF "var" \notin DOMAIN word THEN word
  ELSE IF word.var \in DOMAIN env THEN env[word.var]
  ELSE [abs |-> FALSE, names |-> <<<<"oops">>>>]

(* mkdir: the directories that lead to the place, as many as fit.          *)
MkDir(place) ==
  LET lack == {n \in 1..Len(place) : SubSeq(place, 1, n) \notin Places}
      fit == {n \in lack : Cardinality({k \in lack : k <= n}) + Cardinality(tree) <= Size}
  IN /\ tree' = tree \cup {[at |-> SubSeq(place, 1, n), is |-> "dir"] : n \in fit}
     /\ UNCHANGED <<cwd, path, env>>

(* rm: the place, and all below it.                                        *)
Rm(place) ==
  LET gone == {p \in Places : place # <<>> /\ IsPrefix(place, p)} IN
  /\ tree' = {e \in tree : e.at \notin gone}
  /\ path' = SelectSeq(path, LAMBDA p : p \notin gone)
  /\ UNCHANGED <<cwd, env>>

Cd(place) ==
  /\ cwd' = IF place \in Places THEN place ELSE cwd
  /\ UNCHANGED <<tree, path, env>>

EnvSet(var, value) ==
  /\ env' = [v \in DOMAIN env \cup {var} |-> IF v = var THEN value ELSE env[v]]
  /\ UNCHANGED <<tree, cwd, path>>
EnvDel(var) ==
  /\ env' = [v \in DOMAIN env \ {var} |-> env[v]]
  /\ UNCHANGED <<tree, cwd, path>>

Run(does, args) ==
  \/ does = "mkdir" /\ Len(args) = 1 /\ MkDir(Place(args[1]))
  \/ does = "rm" /\ Len(args) = 1 /\ Rm(Place(args[1]))
  \/ does = "cd" /\ Len(args) = 1 /\ Cd(Place(args[1]))
  \/ does = "env" /\ Len(args) = 3 /\ EnvSet(args[2], args[3])
  \/ does = "env" /\ Len(args) = 2 /\ EnvDel(args[2])
Type(l) ==
  LET args == [k \in DOMAIN l.args |-> Value(l.args[k])] IN
  \E does \in Commands(Value(l.cmd)) :
    IF does # "alias" THEN Run(does, args)
    ELSE LET a == Aliases[Last(Value(l.cmd).names)]
         IN \E other \in Commands(a.cmd) : Run(other, a.args \o args)

Spec == [][Type(line')]_vars
=============================================================================

----------------------------- MODULE CommandTree -----------------------------
(***************************************************************************)
(* The command line from a line to what it does to the tree of commands:   *)
(* cli_execute, the commands of lib/cli/cli_cmds.c that change the tree,   *)
(* the working directory or the environment (cli_env.c), and the tables    *)
(* the tree is built from.  What is typed is in LineEditor; what the other *)
(* commands do is in Console and in the modules of the ports.              *)
(***************************************************************************)
EXTENDS CliNodes

CONSTANTS
  Lines,       \* the lines that may be typed
  SbinCmds,    \* the commands of cli_default_tree: name -> function
  BinCmds,     \* the commands and aliases of default_tree, name -> function
  Aliases,     \* for the aliases among them, the line they stand for
  Careful,     \* the user types only what Sane allows
  MaxDepth     \* bound: how deep directories are made

(* What is typed: words that are paths, and variables.                     *)
Path == [abs : BOOLEAN, names : Seq(Seq(STRING))]
Words == Path \cup [var : Path]
ASSUME LinesAssumption == Lines \subseteq [cmd : Words, args : Seq(Words)]

(* The tables are finite, no command is called ".." or ".", and cli_init   *)
(* is asked for nodes enough for them.                                     *)
ASSUME TablesAssumption ==
  /\ \A cmds \in {SbinCmds, BinCmds} :
       /\ IsFiniteSet(DOMAIN cmds) /\ DOMAIN cmds \subseteq Seq(STRING) \ {Up, Here}
       /\ \A name \in DOMAIN cmds : cmds[name] \in STRING
  /\ \A name \in DOMAIN Aliases : Aliases[name] \in [cmd : Path, args : Seq(Path)]
ASSUME RoomAssumption ==
  Cardinality(DOMAIN SbinCmds) + Cardinality(DOMAIN BinCmds) + 5 <= NbNodes

VARIABLES
  cli,   \* this_cli: the tree
  env,   \* this_cli->env: the variables, the newest last
  line   \* history: the line typed last

treeVars == <<cli, env, line>>

Word(name) == Rel(<<<<name>>>>)

(***************************************************************************)
(* The tables of cli_cmds.c and cli-functions.c, and how they are read.    *)
(***************************************************************************)
CmdNode(name, does) ==
  [type |-> IF name \in DOMAIN Aliases THEN "alias" ELSE "cmd", name |-> name,
   parent |-> Null, func |-> does,
   alias |-> IF name \in DOMAIN Aliases THEN <<Aliases[name]>> ELSE <<>>]
File(name) == [type |-> "file", name |-> name, parent |-> Null, func |-> "file", alias |-> <<>>]

(* cli_add_tree: an entry goes into the directory that was added last.     *)
AddTree(c, table) ==
  FoldLeft(LAMBDA s, t :
      CASE t.type = "dir" ->
             LET made == AddDir(s.cli, t.path, s.parent) IN
             [cli |-> IF t.bin THEN AddBin(made.cli, FindNode(made.cli, t.path)) ELSE made.cli,
              parent |-> made.node]
        [] OTHER -> [s EXCEPT !.cli = AddNode(s.cli, s.parent, t.node).cli],
    [cli |-> c, parent |-> c.root], table).cli

Entries(cmds) ==
  LET names == SetToSeq(DOMAIN cmds) IN
  [k \in DOMAIN names |-> [type |-> "node", node |-> CmdNode(names[k], cmds[names[k]])]]
cli_default_tree ==
  <<[type |-> "node", node |-> File(<<"copyright">>)],
    [type |-> "dir", path |-> Abs(<<<<"sbin">>>>), bin |-> TRUE]>> \o Entries(SbinCmds)
default_tree ==
  <<[type |-> "dir", path |-> Abs(<<<<"pktgen">>, <<"bin">>>>), bin |-> FALSE]>>
  \o Entries(BinCmds)

(* cli_init and cli_create_root: the root is the first node of the pool.   *)
Created ==
  [node |-> [n \in Nodes |-> Dir(IF n = 1 THEN RootName ELSE <<>>)],
   items |-> [n \in Nodes |-> <<>>], free |-> [n \in 1..(NbNodes - 1) |-> n + 1],
   root |-> 1, bins |-> [k \in 1..MaxBins |-> IF k = 1 THEN 1 ELSE Null]]

(* init_tree.                                                              *)
InitTree ==
  LET c == AddTree(AddTree(Created, cli_default_tree), default_tree)
  IN AddBin(c, FindNode(c, Abs(<<<<"pktgen">>, <<"bin">>>>)))

(***************************************************************************)
(* cli_env.c                                                               *)
(***************************************************************************)
Found(e, var) == {k \in DOMAIN e : e[k].var = var}

(* cli_env_set of a variable that is there renames it to its new value and *)
(* frees the old one.                                                      *)
Freed == Word("freed")
EnvSet(e, var, val) ==
  IF Found(e, var) = {} THEN Append(e, [var |-> var, val |-> val])
  ELSE [e EXCEPT ![Min(Found(e, var))] = [var |-> val, val |-> Freed]]
EnvDel(e, var) ==
  IF Found(e, var) = {} THEN e ELSE RemoveAt(e, Min(Found(e, var)))

(* cli_env_substitution of a word "${var}".                                *)
Substituted(e, word) ==
  IF "var" \notin DOMAIN word THEN word
  ELSE IF Found(e, word.var) = {} THEN Word("oops")
  ELSE e[Min(Found(e, word.var))].val

(***************************************************************************)
(* The commands.                                                           *)
(***************************************************************************)
mkdir_cmd(args) ==
  /\ cli' = IF Len(args) = 1 THEN AddDir(cli, args[1], Cwd(cli)).cli ELSE cli
  /\ UNCHANGED env

rm_cmd(args) ==
  /\ cli' = IF Len(args) = 1 THEN RemoveNode(cli, FindNode(cli, args[1])) ELSE cli
  /\ UNCHANGED env

(* Whatever the path leads to becomes the working directory.  Mutant: it   *)
(* is looked for as a command.                                             *)
cd_cmd_path(args) ==
  /\ cli' = IF Len(args) > 0 /\ FindCmd(cli, args[1]) # Null
            THEN [cli EXCEPT !.bins[1] = FindCmd(cli, args[1])] ELSE cli
  /\ UNCHANGED env
cd_cmd(args) ==
  /\ cli' = IF Len(args) > 0 /\ FindNode(cli, args[1]) # Null
            THEN [cli EXCEPT !.bins[1] = FindNode(cli, args[1])] ELSE cli
  /\ UNCHANGED env

env_cmd(args) ==
  /\ CASE Len(args) = 3 /\ args[1] = Word("set") -> env' = EnvSet(env, args[2], args[3])
       [] Len(args) = 2 /\ args[1] = Word("del") -> env' = EnvDel(env, args[2])
       [] OTHER -> UNCHANGED env
  /\ UNCHANGED cli

Does(func, args) ==
  CASE func = "mkdir" -> mkdir_cmd(args)
    [] func = "rm" -> rm_cmd(args)
    [] func = "cd" -> cd_cmd(args)
    [] func = "env" -> env_cmd(args)
    [] OTHER -> UNCHANGED <<cli, env>>

(* cli_execute: the variables are replaced before the words are looked at. *)
(* An alias is replaced by its line, and the arguments come after it.      *)
Resolved(l) ==
  [cmd |-> Substituted(env, l.cmd),
   args |-> [k \in DOMAIN l.args |-> Substituted(env, l.args[k])]]
Expanded(l) ==
  LET n == FindCmd(cli, l.cmd) IN
  IF n # Null /\ cli.node[n].type = "alias"
  THEN LET a == cli.node[n].alias[1] IN [cmd |-> a.cmd, args |-> a.args \o l.args]
  ELSE l
Execute(l) ==
  LET ran == Expanded(Resolved(l))
      n == FindCmd(cli, ran.cmd)
  IN IF n # Null /\ cli.node[n].type = "cmd" THEN Does(cli.node[n].func, ran.args)
     ELSE UNCHANGED <<cli, env>>

(* cli_path_string: the names from the root to a node of the tree.         *)
PathString ==
  LET path[n \in Nodes] == IF cli.node[n].parent = Null THEN <<>>
                           ELSE Append(path[cli.node[n].parent], cli.node[n].name)
  IN path

(***************************************************************************)
(* What the code gets wrong, each of which the user may leave alone.       *)
(***************************************************************************)
Below(n) == ToSet(Subtree(cli, n))
Through(p) ==                          \* a file in the middle of a path
  \E k \in 1..Len(p.names) :
    LET n == FindNode(cli, [p EXCEPT !.names = SubSeq(p.names, 1, k)])
    IN n # Null /\ ~IsDir(cli, n) /\ k < Len(p.names)
Missing(p) ==                          \* the first name that is not there
  {k \in 1..Len(p.names) : FindNode(cli, [p EXCEPT !.names = SubSeq(p.names, 1, k)]) = Null}
Joined(p) ==                           \* mkdir looks for names put together
  Missing(p) # {} =>
    /\ Min(Missing(p)) <= 2
    /\ ToSet(p.names) \cap {Up, Here} = {}
    /\ \A k \in 2..Len(p.names) :
         FindNode(cli, [p EXCEPT !.names = <<FlattenSeq(SubSeq(p.names, 1, k))>>]) = Null
Sane(func, args) ==
  /\ Len(args) = 1 => ~Through(args[1])
  /\ func = "cd" => \A n \in {FindNode(cli, args[1])} \ {Null} : IsDir(cli, n)
  /\ func = "rm" => \A n \in {FindNode(cli, args[1])} \ {Null, cli.root} : Cwd(cli) \notin Below(n)
  /\ func = "mkdir" => Joined(args[1])
  /\ func = "env" /\ Len(args) = 3 => Found(env, args[2]) = {}

Depth(p) == Len(p.names) + IF p.abs THEN 0 ELSE Len(PathString[Cwd(cli)])
Typed(l) ==
  /\ LET ran == Expanded(Resolved(l))
         n == FindCmd(cli, ran.cmd)
     IN /\ Careful /\ n # Null => Sane(cli.node[n].func, ran.args)
        /\ n # Null /\ cli.node[n].func = "mkdir" => Depth(ran.args[1]) <= MaxDepth
  /\ Execute(l) /\ line' = l

TreeInit == cli = InitTree /\ env = <<>> /\ line = [cmd |-> Rel(<<>>), args |-> <<>>]
TreeNext == \E l \in Lines : Typed(l)
TreeSpec == TreeInit /\ [][TreeNext]_treeVars

(***************************************************************************)
(* Properties                                                              *)
(***************************************************************************)
Live == Subtree(cli, cli.root)

(* Every node is in the tree once or in the pool once, where its parent    *)
(* says; the working directory and the executable path, which are pointers *)
(* to nodes, point to directories that are in the tree.                    *)
TreeSound ==
  /\ IsInjective(Live \o cli.free) /\ ToSet(Live \o cli.free) = Nodes
  /\ \A n \in ToSet(Live) \ {cli.root} :
       LET p == cli.node[n].parent IN IsDir(cli, p) /\ Contains(cli.items[p], n)
  /\ \A k \in 1..MaxBins : cli.bins[k] # Null =>
       IsDir(cli, cli.bins[k]) /\ Contains(Live, cli.bins[k])
  /\ Cwd(cli) # Null

(* A command that Tab completes, because nothing else where commands are   *)
(* looked for begins like that, is the command that is then run.           *)
CompletedRuns ==
  \A n \in NodeList(cli) :
    LET name == cli.node[n].name IN
    /\ cli.node[n].type \in Exe
    /\ \E k \in 1..Len(name) : Matching(cli, SubSeq(name, 1, k)) = {n}
    => FindCmd(cli, Rel(<<name>>)) = n

(* What "ls -lr /" lists.                                                  *)
Listed == {[at |-> PathString[n], is |-> IF IsDir(cli, n) THEN "dir" ELSE cli.node[n].func] :
             n \in ToSet(Live)}

(* What is listed and displayed is a tree of places, and the commands do   *)
(* to it what a shell would, whatever nodes the entries are in.            *)
Sh == INSTANCE Shell WITH
  Size <- NbNodes,
  tree <- Listed,
  cwd <- PathString[Cwd(cli)],
  path <- LET bins == SelectSeq(Tail(cli.bins), LAMBDA n : n # Null)
          IN [k \in DOMAIN bins |-> PathString[bins[k]]],
  env <- [v \in {env[k].var : k \in DOMAIN env} |-> env[Min(Found(env, v))].val]
ImplementsShell == Sh!Spec
=============================================================================

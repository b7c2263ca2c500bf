--------------------------- MODULE MCCommandTree ---------------------------
(* Instances of the command tree for TLC.                                  *)
EXTENDS CommandTree

Cmd(name) == Rel(<<name>>)
N(x) == <<x>>
MCSbin == <<"m", "k">> :> "mkdir" @@ <<"r", "m">> :> "rm" @@ N("c") :> "cd" @@ N("e") :> "env"
MCBin == N("h") :> "help" @@ <<"u", "p">> :> "alias"
MCAliases == <<"u", "p">> :> [cmd |-> Cmd(N("c")), args |-> <<Rel(<<Up>>)>>]

Var == [var |-> Word("V")]
(* Paths that stay, climb, meet a file, and lead through what is there and *)
(* what is not; one that ends in the name of a command.                    *)
A == Rel(<<N("a")>>)
AB == Rel(<<N("a"), N("b")>>)
SbinA == Abs(<<N("sbin"), N("a")>>)
Bin == Abs(<<N("pktgen"), N("bin")>>)
Rm == Rel(<<<<"r", "m">>>>)
Made == {A, AB, SbinA, Rm}
Gone == {A, AB, SbinA, Bin, Rel(<<Here>>), Abs(<<N("copyright")>>)}
Entered == {A, Bin, SbinA, Rm, Rel(<<Up>>), Abs(<<>>), Var}
MCLines ==
  [cmd : {Cmd(<<"m", "k">>)}, args : {<<p>> : p \in Made}]
  \cup [cmd : {Rm}, args : {<<p>> : p \in Gone}]
  \cup [cmd : {Cmd(N("c"))}, args : {<<p>> : p \in Entered}]
  \cup {[cmd |-> Abs(<<N("sbin"), <<"r", "m">>>>), args |-> <<Rm>>],
        [cmd |-> Cmd(<<"u", "p">>), args |-> <<>>],
        [cmd |-> Cmd(N("e")), args |-> <<Word("set"), Word("V"), A>>],
        [cmd |-> Cmd(N("e")), args |-> <<Word("del"), Word("V")>>]}

(* Which nodes the entries are in makes no difference to what can happen.  *)
MCView ==
  <<Listed, [k \in 1..MaxBins |-> IF cli.bins[k] = Null THEN <<"none">>
                                  ELSE IF Contains(Live, cli.bins[k]) THEN PathString[cli.bins[k]]
                                  ELSE <<"gone">>],
    Len(Live), Len(cli.free), env>>
=============================================================================

------------------------------ MODULE TxBudget ------------------------------
(***************************************************************************)
(* What a port's transmit counter promises, whatever the number of lcores  *)
(* that draw from it: a command loads a number of packets, and every grant *)
(* to a lcore takes at most one burst out of what is left.                 *)
(***************************************************************************)
EXTENDS Naturals

CONSTANT TxBurst      \* info->tx_burst, the packets of one full burst

VARIABLES loaded,     \* packets the last start or prime command asked for
          remaining,  \* packets nobody has been granted yet
          granted     \* packets handed out to lcores since that command

vars == <<loaded, remaining, granted>>

Init == loaded = 0 /\ remaining = 0 /\ granted = 0

Load(n) == /\ loaded' = n
           /\ remaining' = n
           /\ granted' = 0

Grant(n) == /\ n \in 1..TxBurst
            /\ n <= remaining
            /\ remaining' = remaining - n
            /\ granted' = granted + n
            /\ UNCHANGED loaded

\* A grant is quantified through its effect, so that a checker need not
\* enumerate the packet counts.
Next == \/ Load(loaded')
        \/ Grant(remaining - remaining')

Spec == Init /\ [][Next]_vars
=============================================================================

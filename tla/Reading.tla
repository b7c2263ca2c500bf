------------------------------- MODULE Reading -------------------------------
(***************************************************************************)
(* What a display of remote counters promises: it never shows more than    *)
(* has been counted, and it never goes back.                               *)
(***************************************************************************)
EXTENDS Naturals

CONSTANT Totals     \* the names of the totals shown

VARIABLES counted,  \* what each of them has come to where it is counted
          shown     \* what the display says

vars == <<counted, shown>>

Zero == [d \in Totals |-> 0]

Init == counted = Zero /\ shown = Zero

\* Counting and showing are quantified through their effects, so that a
\* checker need not enumerate the counts.
Count == /\ \A d \in Totals : counted'[d] >= counted[d]
         /\ UNCHANGED shown

Show == /\ \A d \in Totals : shown'[d] \in shown[d]..counted[d]
        /\ UNCHANGED counted

Next == Count \/ Show

Spec == Init /\ [][Next]_vars
=============================================================================

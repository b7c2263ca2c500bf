-------------------------------- MODULE Line --------------------------------
(***************************************************************************)
(* What the user of a line editor expects: a text, a cursor between two of *)
(* its characters, and keys that do what their names say.  A key is        *)
(* [name, str]; str is what it puts in the line.                           *)
(***************************************************************************)
EXTENDS Integers, Sequences

VARIABLES
  text, cursor,
  key           \* the last key

vars == <<text, cursor, key>>

Before(n) == SubSeq(text, 1, n)
After(n)  == SubSeq(text, n + 1, Len(text))

Become(t, c) == text' = t /\ cursor' = c
MoveTo(c) == Become(text, c)
Insert(str) == Become(Before(cursor) \o str \o After(cursor), cursor + Len(str))

(* The cursor after the blank before the last word, before the next blank. *)
WordStart ==
  LET starts == {n \in 0..(cursor - 1) : n = 0 \/ text[n] = " "} IN
  IF starts = {} THEN 0 ELSE CHOOSE n \in starts : \A m \in starts : m <= n
WordEnd ==
  LET ends == {n \in (cursor + 1)..Len(text) : n = Len(text) \/ text[n + 1] = " "}
  IN IF ends = {} THEN Len(text)
     ELSE CHOOSE n \in ends : \A m \in ends : n <= m

Does(k) ==
  \/ k.name = "insert" /\ Insert(k.str)
  \/ k.name = "backspace" /\ IF cursor = 0 THEN MoveTo(0)
       ELSE Become(Before(cursor - 1) \o After(cursor), cursor - 1)
  \/ k.name = "suppr" /\ Become(Before(cursor) \o After(cursor + 1), cursor)
  \/ k.name = "kill" /\ Become(Before(cursor), cursor)
  \/ k.name = "left"  /\ MoveTo(IF cursor = 0 THEN 0 ELSE cursor - 1)
  \/ k.name = "right" /\ MoveTo(IF cursor = Len(text) THEN cursor ELSE cursor + 1)
  \/ k.name = "start" /\ MoveTo(0)
  \/ k.name = "end"   /\ MoveTo(Len(text))
  \/ k.name = "word_left"  /\ MoveTo(WordStart)
  \/ k.name = "word_right" /\ MoveTo(WordEnd)
  \/ k.name = "redraw" /\ MoveTo(cursor)
  \* completes the word at the cursor, or shows help and the line again
  \/ k.name = "tab" /\ \/ Insert(k.str)
                       \/ MoveTo(Len(text))
  \/ k.name = "replace" /\ Become(k.str, Len(k.str))

Init == text = <<>> /\ cursor = 0 /\ key = [name |-> "replace", str |-> <<>>]
Next == Does(key')
Spec == Init /\ [][Next]_vars
=============================================================================

--------------------------- MODULE MCLineEditor ---------------------------
(* Instances of the line editor for TLC.                                   *)
EXTENDS LineEditor
Does(bytes, name) == [bytes |-> bytes, does |-> name]
MCKeyboard ==
  { Does(<<97>>, "insert"), Does(<<32>>, "insert"), Does(<<9>>, "tab"),
    Does(<<27, 91, 65>>, "replace"), Does(<<27, 91, 66>>, "replace"),
    Does(<<16>>, "replace"), Does(<<14>>, "replace"), Does(<<3>>, "replace"),
    Does(<<10>>, "replace"), Does(<<13>>, "replace"),
    Does(<<27, 91, 67>>, "right"), Does(<<27, 91, 68>>, "left"),
    Does(<<6>>, "right"), Does(<<2>>, "left"), Does(<<1>>, "start"),
    Does(<<5>>, "end"), Does(<<27, 98>>, "word_left"), Does(<<27, 102>>, "word_right"),
    Does(<<127>>, "backspace"), Does(<<27, 91, 51, 126>>, "suppr"),
    Does(<<11>>, "kill"), Does(<<12>>, "redraw"), Does(<<4>>, "redraw"),
    Does(<<27, 127>>, "redraw"), Does(<<23>>, "redraw"), Does(<<27, 100>>, "redraw") }
(* What the proofs of InputProofs assume of a keyboard, this one keeps.    *)
ASSUME MCKeysServe == KeysServe

MCGlyph == 97 :> "a" @@ 32 :> " "
MCEndings == {<<"a", " ">>}
MCHelp == <<"?">>
MCAliases == <<"a", "a">> :> <<"a">>

(* Two states that differ in the bytes of the gap and beyond the buffer,   *)
(* which no key of the instance reads as text, or in the key that led to   *)
(* them, have the same futures.                                            *)
MCView == <<Text(gb), [gb EXCEPT !.mem = DOMAIN @], hist, curr, lost>>
=============================================================================

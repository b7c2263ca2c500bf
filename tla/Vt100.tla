------------------------------- MODULE Vt100 -------------------------------
(***************************************************************************)
(* What the bytes of the terminal mean (lib/cli/cli_vt100.c).  A byte is a *)
(* number; an escape sequence is collected in a buffer until a byte may    *)
(* end it, and looked up in vt100_cmd_list.                                *)
(***************************************************************************)
EXTENDS Naturals, SequencesExt

BufSize == 8                    \* VT100_BUF_SIZE
Esc == 27   OpenSquare == 91   Delete == 127
Arrow(last) == <<Esc, OpenSquare, last>>
Ctrl(n) == <<n>>                \* with the n-th letter of the alphabet

vt100_cmd_list ==
  << <<Arrow(65), "up_arr">>, <<Arrow(66), "down_arr">>,
     <<Arrow(67), "right_arr">>, <<Arrow(68), "left_arr">>,
     <<<<Delete>>, "backspace">>, <<Ctrl(10), "return">>, <<Ctrl(1), "ctrl_a">>,
     <<Ctrl(5), "ctrl_e">>, <<Ctrl(11), "ctrl_k">>, <<Ctrl(25), "ctrl_y">>,
     <<Ctrl(3), "ctrl_c">>, <<Ctrl(6), "ctrl_f">>, <<Ctrl(2), "ctrl_b">>,
     <<<<Esc, OpenSquare, 51, 126>>, "suppr">>, <<Ctrl(9), "tab">>,
     <<Ctrl(4), "ctrl_d">>, <<Ctrl(12), "ctrl_l">>, <<Ctrl(13), "return2">>,
     <<<<Esc, Delete>>, "meta_backspace">>, <<<<Esc, 98>>, "word_left">>,
     <<<<Esc, 102>>, "word_right">>, <<Ctrl(23), "ctrl_w">>,
     <<Ctrl(16), "ctrl_p">>, <<Ctrl(14), "ctrl_n">>,
     <<<<Esc, 100>>, "meta_d">>, <<Ctrl(24), "ctrl_x">> >>

\* What a byte can be besides the end of a command: VT100_CONTINUE, which
\* waits for more, and VT100_DONE, a byte for the line.
Continue == "continue"
Done     == "done"

(* vt100_find_cmd.  The entry "Invalid" is no sequence a terminal sends.   *)
FindCmd(buf) ==
  LET hits == {k \in DOMAIN vt100_cmd_list : vt100_cmd_list[k][1] = buf} IN
  IF hits = {} THEN Done ELSE vt100_cmd_list[CHOOSE k \in hits : TRUE][2]

(* The parser before the first byte, and after the end of a sequence.      *)
Initialize == [state |-> "init", buf |-> <<>>, ret |-> Continue]

(* The bytes that end a sequence in a state of the parser.                 *)
Ends(state, c) ==
  CASE state = "init"       -> c # Esc
    [] state = "escape"     -> c # OpenSquare /\ c \in 48..Delete
    [] state = "escape_csi" -> c \in 64..126

(* vt100_parse_input: a buffer that is full is thrown away.                *)
ParseInput(vt, c) ==
  LET from == IF Len(vt.buf) >= BufSize THEN Initialize ELSE vt
      buf  == Append(from.buf, c)
  IN IF Ends(from.state, c) THEN [Initialize EXCEPT !.ret = FindCmd(buf)]
     ELSE [state |-> CASE from.state = "init" -> "escape"
                       [] from.state = "escape" /\ c = OpenSquare -> "escape_csi"
                       [] OTHER -> from.state,
           buf |-> buf, ret |-> Continue]

(* What a key is taken for that sends these bytes.                         *)
Meant(bytes) == FoldLeft(ParseInput, Initialize, bytes).ret
=============================================================================

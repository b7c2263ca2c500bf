----------------------------- MODULE LineEditor -----------------------------
(***************************************************************************)
(* The command line while it is typed: cli_input, the functions of the     *)
(* keys in lib/cli/cli_vt100.c, the history of cli_history.c, and what     *)
(* cli_auto_complete.c and cli_execute do to both.  The kill buffer, which *)
(* cli_vt100.c says is not supported, is left out, and so is ctrl-x, which *)
(* ends the program.                                                       *)
(***************************************************************************)
EXTENDS GapBuffer, Vt100

CONSTANTS
  Keyboard,   \* the keys: the bytes each sends, and what Line expects of it
  Glyph,      \* the characters the keys type, by their bytes
  Endings,    \* what Tab may find to complete a word
  Help,       \* "-?", which Tab puts after a blank
  Aliases,    \* the words that name an alias, and the line each stands for
  NbHist,     \* nb_hist: lines of history
  Careful,    \* the user does not delete where there is nothing to delete
  MaxLen      \* bound: the length of a line

ASSUME EditorAssumption ==
  /\ NbHist \in Nat \ {0} /\ MaxLen \in Nat /\ Careful \in BOOLEAN
  /\ \A k \in Keyboard : Meant(k.bytes) # Continue
  /\ \A s \in Endings \cup DOMAIN Aliases \cup Range(Aliases) \cup {Help} :
       s \in Seq(Range(s))

VARIABLES
  gb,     \* this_cli->gb
  hist,   \* hd_hist
  curr,   \* position of curr_hist in hist, or 0 if it is NULL
  lost,   \* how many entries of hist_mem are in neither hist nor free_hist
  meant,  \* history: what the user meant by the last key,
  put     \* and what the key put in the line

vars == <<gb, hist, curr, lost, meant, put>>

Edit(str, g) == put' = str /\ gb' = g /\ UNCHANGED <<hist, curr, lost>>

(***************************************************************************)
(* History.                                                                *)
(***************************************************************************)
History == [lines |-> hist, curr |-> curr, lost |-> lost]
Becomes(h) == hist' = h.lines /\ curr' = h.curr /\ lost' = h.lost

(* cli_hist_alloc: how many entries are left, those in use included.       *)
Room(h) == NbHist - h.lost

(* cli_history_add: not twice in a row; the oldest line makes room.  As    *)
(* curr_hist is a pointer, that entry becomes the newest.                  *)
WithLine(h, line) ==
  LET full == Len(h.lines) = Room(h) IN
  IF h.lines # <<>> /\ Last(h.lines) = line THEN h
  ELSE [h EXCEPT !.lines = Append(IF full THEN Tail(@) ELSE @, line),
                 !.curr = IF ~full \/ @ = 0 THEN @ ELSE IF @ = 1 THEN Room(h) ELSE @ - 1]

(* cli_history_del: the newest line, whose entry goes to no list.          *)
WithoutLast(h) == [h EXCEPT !.lines = Front(@), !.lost = @ + 1]

(* cli_history_prev, cli_history_next.                                     *)
Prev == IF hist = <<>> THEN 0 ELSE IF curr = 0 THEN Len(hist)
        ELSE IF curr = 1 THEN 1 ELSE curr - 1
Following == IF curr = Len(hist) THEN curr ELSE curr + 1

(* The line of an entry, with the point behind it.                         *)
Show(line) ==
  /\ LET g == StrInsert(Reset(gb), line) IN gb' = SetPoint(g, Len(line))
  /\ put' = line

Up ==
  /\ Prev # 0
  /\ Show(hist[Prev]) /\ curr' = Prev
  /\ UNCHANGED <<hist, lost>>
Down ==
  /\ curr # 0
  /\ Show(IF curr = Len(hist) THEN <<>> ELSE hist[Following])
  /\ curr' = Following
  /\ UNCHANGED <<hist, lost>>

(***************************************************************************)
(* The keys that edit the line.                                            *)
(***************************************************************************)
(* handle_input_display: a byte that can be printed goes into the line.    *)
Type(c) ==
  IF c \in 32..126
  THEN /\ Len(Text(gb)) < MaxLen
       /\ Edit(<<Glyph[c]>>, Insert(gb, Glyph[c]))
  ELSE Edit(<<>>, gb)

Right(g) == IF Eof(g) THEN g ELSE MoveRight(g)
Left(g)  == IF AtStart(g) THEN g ELSE MoveLeft(g)

KeyRight == Edit(<<>>, Right(gb))
KeyLeft  == Edit(<<>>, Left(gb))
CtrlA    == Edit(<<>>, SetPoint(gb, 0))
CtrlE    == Edit(<<>>, SetPoint(gb, -1))
CtrlL    == Edit(<<>>, MoveGap(gb))        \* cli_redisplay_line

(* key_backspace looks at the point, not at the cursor: with the gap at    *)
(* the start of the buffer the point may be behind it.                     *)
KeyBackspace ==
  /\ Careful => Cursor(gb) > 0
  /\ Edit(<<>>, IF AtStart(gb) THEN gb ELSE Del(MoveLeft(gb), 1))

(* key_suppr does not look at all.                                         *)
KeySuppr ==
  /\ Careful => Cursor(gb) < Len(Text(gb))
  /\ Edit(<<>>, Del(gb, 1))

CtrlK == LET g == MoveGap(gb) IN Edit(<<>>, Del(g, RightSize(g)))

(* key_word_left, key_word_right: the loops, in at most as many rounds as  *)
(* the line has characters.                                                *)
Rounds == 0..(Len(Text(gb)) + 1)
Loop(Round(_)) ==
  LET at[n \in Rounds] == IF n = 0 THEN [g |-> gb, done |-> FALSE]
                          ELSE IF at[n - 1].done THEN at[n - 1]
                          ELSE Round(at[n - 1].g)
  IN at[Len(Text(gb)) + 1].g
WordLeft ==
  Edit(<<>>, Loop(LAMBDA g :
    LET l == GetPrev(Left(g)) IN
    [g |-> l, done |-> PrevChar(Left(g)) = Blank \/ AtStart(l)]))
WordRight ==
  Edit(<<>>, Loop(LAMBDA g :
    IF AtEnd(g) THEN [g |-> g, done |-> TRUE]
    ELSE LET r == Get(Right(g)) IN [g |-> r, done |-> Char(Right(g)) = Blank]))

(***************************************************************************)
(* The keys that execute the line or look at its words.                    *)
(***************************************************************************)
(* rte_strtrim.                                                            *)
Trim(line) ==
  LET full == {n \in 1..Len(line) : line[n] # Blank} IN
  IF full = {} THEN <<>>
  ELSE SubSeq(line, CHOOSE n \in full : \A m \in full : n <= m,
                    CHOOSE n \in full : \A m \in full : m <= n)
FirstWord(line) == SelectInSeq(line \o <<Blank>>, LAMBDA c : c = Blank) - 1

(* cli_execute: the line goes into the history.  That of an alias comes    *)
(* out again, and is executed as the line it stands for with what is typed *)
(* behind as many characters as its name has.                              *)
AliasOf(line) == {w \in DOMAIN Aliases : w = SubSeq(Trim(line), 1, FirstWord(Trim(line)))}
StandsFor(line) ==
  LET w == CHOOSE w \in AliasOf(line) : TRUE
  IN Aliases[w] \o SubSeq(line, Len(w) + 1, Len(line))
Executed(h, line) ==
  IF Trim(line) = <<>> THEN h
  ELSE IF AliasOf(line) = {} THEN WithLine(h, Trim(line))
  ELSE WithLine(WithoutLast(WithLine(h, Trim(line))), Trim(StandsFor(line)))
Buffer(g) ==
  IF AliasOf(Text(g)) = {} THEN g ELSE StrInsert(Reset(g), StandsFor(Text(g)))

(* Bound: the last entry of the history is not lost.  With no entry left   *)
(* cli_history_add takes the head of the list for one.                     *)
Executable(line) == AliasOf(line) # {} => lost < NbHist - 1

(* key_return: the buffer is reset after the command.                      *)
KeyReturn ==
  /\ Executable(Text(gb))
  /\ Becomes([Executed(History, Text(gb)) EXCEPT !.curr = 0])
  /\ gb' = Reset(Buffer(gb)) /\ put' = <<>>

CtrlC ==
  /\ gb' = Reset(gb) /\ curr' = 0 /\ put' = <<>>
  /\ UNCHANGED <<hist, lost>>

(* cli_auto_complete, where something is found: one node completes the     *)
(* word, several are listed.  The rest goes in at the cursor.              *)
Complete(str) ==
  /\ Trim(Text(gb)) # <<>>
  /\ PrevChar(gb) # Blank
  /\ Len(Text(gb)) + Len(str) <= MaxLen
  /\ Edit(str, MoveGap(StrInsert(GetPrev(gb), str)))

(* After a blank the line is executed with "-?", and typed in again.       *)
ShowHelp ==
  /\ Trim(Text(gb)) # <<>>
  /\ PrevChar(gb) = Blank
  /\ Len(Text(gb)) + Len(Help) <= MaxLen
  /\ LET asked == StrInsert(GetPrev(gb), Help) IN
     /\ Executable(Text(asked))
     /\ LET h == Executed(History, Text(asked)) IN
        \/ AliasOf(Text(asked)) = {} /\ Becomes(h)         \* command not found
        \/ Becomes([h EXCEPT !.curr = 1])                  \* cli_history_reset
     /\ gb' = MoveGap(StrInsert(Reset(Buffer(asked)), Text(gb)))
  /\ put' = <<>>

(* The functions without an effect on the line.                            *)
CtrlD         == Edit(<<>>, gb)      \* gb_dump
MetaBackspace == Edit(<<>>, gb)
MetaD         == Edit(<<>>, gb)

(* The functions that call another's.                                      *)
CtrlF      == KeyRight
CtrlB      == KeyLeft
CtrlP      == Up
CtrlN      == Down
CtrlW      == MetaBackspace
KeyReturn2 == KeyReturn

(* vt100_do_cmd.                                                           *)
DoCmd(func) ==
  \/ func = "up_arr"     /\ Up
  \/ func = "down_arr"   /\ Down
  \/ func = "right_arr"  /\ KeyRight
  \/ func = "left_arr"   /\ KeyLeft
  \/ func = "return"     /\ KeyReturn
  \/ func = "return2"    /\ KeyReturn2
  \/ func = "backspace"  /\ KeyBackspace
  \/ func = "suppr"      /\ KeySuppr
  \/ func = "ctrl_a"     /\ CtrlA
  \/ func = "ctrl_b"     /\ CtrlB
  \/ func = "ctrl_c"     /\ CtrlC
  \/ func = "ctrl_d"     /\ CtrlD
  \/ func = "ctrl_e"     /\ CtrlE
  \/ func = "ctrl_f"     /\ CtrlF
  \/ func = "ctrl_k"     /\ CtrlK
  \/ func = "ctrl_l"     /\ CtrlL
  \/ func = "ctrl_n"     /\ CtrlN
  \/ func = "ctrl_p"     /\ CtrlP
  \/ func = "ctrl_w"     /\ CtrlW
  \/ func = "word_left"  /\ WordLeft
  \/ func = "word_right" /\ WordRight
  \/ func = "meta_d"     /\ MetaD
  \/ func = "meta_backspace" /\ MetaBackspace
  \/ func = "tab" /\ \/ \E str \in Endings \cup {<<>>} : Complete(str)
                     \/ ShowHelp

(* cli_input: the key the user presses is taken for what its bytes mean.   *)
Func == [k \in Keyboard |-> Meant(k.bytes)]
Press(k) ==
  /\ meant' = k.does
  /\ \/ Func[k] = Done /\ Type(Last(k.bytes))
     \/ DoCmd(Func[k])

Init ==
  /\ gb = Create /\ hist = <<>> /\ curr = 0 /\ lost = 0
  /\ meant = "replace" /\ put = <<>>

Next == \E k \in Keyboard : Press(k)

Spec == Init /\ [][Next]_vars

(***************************************************************************)
(* Properties                                                              *)
(***************************************************************************)
(* The pointers of the gap buffer stay in order and in memory; curr_hist   *)
(* is one of the lines of the history.                                     *)
EditorSound == Ordered(gb) /\ curr \in 0..Len(hist) /\ Len(hist) + lost <= NbHist

(* What the function of a key is for.                                      *)
Serves(func, name) ==
  /\ func = Done => name = "insert"
  /\ func \in {"up_arr", "down_arr", "ctrl_p", "ctrl_n", "return", "return2",
               "ctrl_c"} => name = "replace"
  /\ func \in {"right_arr", "ctrl_f"} => name = "right"
  /\ func \in {"left_arr", "ctrl_b"} => name = "left"
  /\ func \in {"ctrl_l", "ctrl_d", "ctrl_w", "meta_d", "meta_backspace"} => name = "redraw"
  /\ func = "ctrl_a" => name = "start"
  /\ func = "ctrl_e" => name = "end"
  /\ func = "ctrl_k" => name = "kill"
  /\ func \in {"word_left", "word_right", "backspace", "suppr", "tab"} => name = func

(* The keyboard sends for each key the bytes of a function that serves.    *)
KeysServe == \A k \in Keyboard : Serves(Func[k], k.does)

(* Whatever sequences its bytes are, and wherever the gap and the point    *)
(* are, a key does to the line what its name says.                         *)
L == INSTANCE Line WITH text <- Text(gb), cursor <- Cursor(gb),
                        key <- [name |-> meant, str |-> put]
ImplementsLine == L!Spec
=============================================================================

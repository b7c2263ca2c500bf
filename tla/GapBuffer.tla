----------------------------- MODULE GapBuffer -----------------------------
(***************************************************************************)
(* The gap buffer that holds the line being typed: lib/cli/cli_gapbuf.h    *)
(* and cli_gapbuf.c.  Pointers are offsets from buf, and mem is the memory *)
(* allocated at buf, which may be longer than the buffer: mem[ebuf] and    *)
(* beyond belong to no line.                                               *)
(***************************************************************************)
EXTENDS Integers, Sequences, SequencesExt

CONSTANT GapSize      \* GB_DEFAULT_GAP_SIZE

ASSUME GapBufferAssumption == GapSize \in Nat \ {0}

Junk  == "junk"       \* a byte nothing has been written to
Blank == " "

Bytes(g, from, to) == [n \in 1..(to - from) |-> g.mem[from + n - 1]]

(* gb_copy_to_buf: the line.                                               *)
Text(g) == Bytes(g, 0, g.gap) \o Bytes(g, g.egap, g.ebuf)

(* gb_reset_buf and gb_create.                                             *)
Reset(g) ==
  [g EXCEPT !.mem = [k \in DOMAIN @ |-> IF k < g.ebuf THEN Blank ELSE @[k]],
            !.point = 0, !.gap = 0, !.egap = g.ebuf]
Create == [mem |-> [k \in 0..(GapSize - 1) |-> Blank],
           point |-> 0, gap |-> 0, egap |-> GapSize, ebuf |-> GapSize]

AtStart(g) == g.point = 0                                 \* gb_point_at_start
AtEnd(g)   == g.point = g.ebuf                            \* gb_point_at_end
Eof(g) == IF g.point = g.gap THEN g.egap = g.ebuf ELSE AtEnd(g)      \* gb_eof
RightSize(g) == IF Eof(g) THEN 0 ELSE g.ebuf - g.egap   \* gb_right_data_size

(* gb_set_point; -1 is the end of the line.                                *)
SetPoint(g, idx) ==
  [g EXCEPT !.point = IF idx = -1 THEN g.ebuf
                      ELSE IF idx > g.gap THEN idx + (g.egap - g.gap) ELSE idx]

(* gb_move_right, gb_move_left: over the gap first.                        *)
MoveRight(g) ==
  LET from == IF g.point = g.gap THEN g.egap ELSE g.point IN
  [g EXCEPT !.point = IF from + 1 > g.ebuf THEN g.ebuf ELSE from + 1]
MoveLeft(g) ==
  LET from == IF g.point = g.egap THEN g.gap ELSE g.point IN
  [g EXCEPT !.point = IF from = 0 THEN 0 ELSE from - 1]

(* gb_get and gb_get_prev move the point over the gap, too.                *)
Get(g)     == [g EXCEPT !.point = IF @ = g.gap THEN g.egap ELSE @]
GetPrev(g) == [g EXCEPT !.point = IF @ = g.egap THEN g.gap ELSE @]
Char(g)     == LET p == Get(g).point IN
               IF p \in DOMAIN g.mem THEN g.mem[p] ELSE Junk
PrevChar(g) == LET p == GetPrev(g).point IN
               IF p # 0 THEN g.mem[p - 1]
               ELSE IF p = g.gap THEN Junk ELSE g.mem[0]

Memmove(mem, to, from, cnt) ==
  [k \in DOMAIN mem |-> IF k \in to..(to + cnt - 1) THEN mem[from + k - to]
                        ELSE mem[k]]

(* Mutant: the bytes are moved to the wrong end of the gap.                *)
GapLeft_wrongEnd(g) ==
  LET cnt == g.gap - g.point IN
  [g EXCEPT !.mem = Memmove(@, g.egap, g.point, cnt),
            !.egap = @ - cnt, !.gap = g.point]
(* gb_move_gap_to_point.                                                   *)
GapLeft(g) ==
  LET cnt == g.gap - g.point IN
  [g EXCEPT !.mem = Memmove(@, g.egap - cnt, g.point, cnt),
            !.egap = @ - cnt, !.gap = g.point]
GapRight(g, from) ==
  LET cnt == g.point - from IN
  [g EXCEPT !.mem = Memmove(@, g.gap, g.egap, cnt), !.gap = @ + cnt,
            !.egap = @ + cnt, !.point = g.gap + cnt]
MoveGap(g) ==
  IF g.point = g.gap THEN g
  ELSE IF g.point = g.egap THEN [g EXCEPT !.point = g.gap]
  ELSE IF g.point < g.gap THEN GapLeft(g)
  ELSE GapRight(g, IF g.point > g.egap THEN g.egap ELSE g.gap)

(* gb_expand_buf: more bytes after the buffer, and a reserve.              *)
ExpandBuf(g, more) ==
  [g EXCEPT !.mem = [k \in 0..(g.ebuf + more + GapSize - 1) |->
                       IF k \in DOMAIN @ THEN @[k] ELSE Junk]]

(* Mutant: the end of the buffer stays where it was.                       *)
ExpandGap_end(g, size) ==
  IF size <= g.egap - g.gap THEN g
  ELSE LET more == size + GapSize IN
       [ExpandBuf(g, more) EXCEPT
          !.mem = Memmove(@, g.egap + more, g.egap, g.ebuf - g.egap),
          !.egap = @ + more]
(* gb_expand_gap.                                                          *)
ExpandGap(g, size) ==
  IF size <= g.egap - g.gap THEN g
  ELSE LET more == size + GapSize IN
       [ExpandBuf(g, more) EXCEPT
          !.mem = Memmove(@, g.egap + more, g.egap, g.ebuf - g.egap),
          !.egap = @ + more, !.ebuf = @ + more]

(* gb_putc.                                                                *)
Putc(g0, c) ==
  LET g1 == MoveGap(g0)
      g == IF AtEnd(g1) THEN [ExpandBuf(g1, 1) EXCEPT !.ebuf = @ + 1] ELSE g1
  IN [g EXCEPT !.mem[g.gap] = c, !.gap = @ + 1, !.point = @ + 1]

(* gb_insert and gb_str_insert.                                            *)
Insert(g, c) ==
  LET m == MoveGap(g) IN
  Putc(IF m.gap = m.egap THEN ExpandGap(m, 1) ELSE m, c)
StrInsert(g, str) ==
  LET at[n \in 0..Len(str)] ==
        IF n = 0 THEN ExpandGap(MoveGap(g), Len(str)) ELSE Putc(at[n - 1], str[n])
  IN  IF str = <<>> THEN g ELSE at[Len(str)]

(* gb_del takes cnt on trust: it may lead past the end of the buffer.      *)
Del(g, cnt) == [MoveGap(g) EXCEPT !.egap = @ + cnt]

(* Where the point is in the text.                                         *)
Cursor(g) == IF g.point < g.egap THEN g.point ELSE g.point - (g.egap - g.gap)

(* The pointers in order, the point outside the gap, and all in memory.    *)
Ordered(g) ==
  /\ 0 <= g.gap /\ g.gap <= g.egap /\ g.egap <= g.ebuf
  /\ g.point \in 0..g.gap \cup g.egap..g.ebuf
  /\ 0..(g.ebuf - 1) \subseteq DOMAIN g.mem
=============================================================================

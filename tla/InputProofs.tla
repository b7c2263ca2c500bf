---------------------------- MODULE InputProofs ----------------------------
(***************************************************************************)
(* What a user gives the program: proofs about the keys typed at its       *)
(* command line (LineEditor) and about the files of a test that say which  *)
(* flows to send (Flows).                                                  *)
(*                                                                         *)
(* The line editor, for any keyboard, history, aliases, and sizes of the   *)
(* buffer and of the line: the gap buffer stays in order and its gap never *)
(* overlaps the text, and each key does to the line what its name says     *)
(* (LineEditor implements Line).  First what the functions of the gap      *)
(* buffer do to the line a buffer holds, then the loops of the word keys,  *)
(* then the history, then the keys.                                        *)
(*                                                                         *)
(* The flows, for any files, queues and mempools: the counters of each     *)
(* user's packets, which the command thread allocates while the lcores of  *)
(* all queues already count, and the packets built of each flow.           *)
(***************************************************************************)
EXTENDS LineEditor, Flows, SequenceTheorems, FiniteSetTheorems, WellFoundedInduction,
        TLAPS

(* Sequences of anything.                                                  *)
IsStr(s) == \E S : s \in Seq(S)

LEMMA StrLen == ASSUME NEW s, IsStr(s)
  PROVE Len(s) \in Nat /\ DOMAIN s = 1..Len(s) /\ s = [n \in 1..Len(s) |-> s[n]]
BY DEF IsStr

LEMMA StrMade ==
  ASSUME NEW s, NEW N \in Nat, s = [n \in 1..N |-> s[n]]
  PROVE  IsStr(s) /\ Len(s) = N
<1> DEFINE S == {s[n] : n \in 1..N}
<1>1. s \in [1..N -> S]
  OBVIOUS
<1>2. s \in Seq(S)
  BY <1>1
<1>3. Len(s) = N
  <2>1. DOMAIN s = 1..N
    BY <1>1
  <2> HIDE DEF S
  <2> QED  BY <1>2, <2>1
<1> QED  BY <1>2, <1>3 DEF IsStr

LEMMA StrSame ==
  ASSUME NEW s, NEW t, IsStr(s), IsStr(t), Len(s) = Len(t),
         \A n \in 1..Len(s) : s[n] = t[n]
  PROVE  s = t
<1>1. s = [n \in 1..Len(s) |-> s[n]]
  BY StrLen
<1>2. t = [n \in 1..Len(s) |-> t[n]]
  BY StrLen
<1> QED  BY <1>1, <1>2

LEMMA StrJoin ==
  ASSUME NEW s, NEW t, IsStr(s), IsStr(t)
  PROVE  /\ IsStr(s \o t) /\ Len(s \o t) = Len(s) + Len(t)
         /\ \A n \in 1..Len(s) : (s \o t)[n] = s[n]
         /\ \A n \in 1..Len(t) : (s \o t)[Len(s) + n] = t[n]
<1>1. PICK S : s \in Seq(S)
  BY DEF IsStr
<1>2. PICK T : t \in Seq(T)
  BY DEF IsStr
<1>3. s \in Seq(S \cup T) /\ t \in Seq(S \cup T)
  BY <1>1, <1>2
<1>4. s \o t \in Seq(S \cup T)
  BY <1>3
<1> QED  BY <1>3, <1>4 DEF IsStr

LEMMA StrPart ==
  ASSUME NEW s, IsStr(s), NEW i \in Nat, NEW j \in Nat, i >= 1, j <= Len(s), i <= j + 1
  PROVE  /\ IsStr(SubSeq(s, i, j)) /\ Len(SubSeq(s, i, j)) = j - i + 1
         /\ \A n \in 1..(j - i + 1) : SubSeq(s, i, j)[n] = s[i + n - 1]
<1>1. PICK S : s \in Seq(S)
  BY DEF IsStr
<1>2. SubSeq(s, i, j) = [n \in 1..(j - i + 1) |-> s[i + n - 1]]
  BY DEF SubSeq
<1>3. j - i + 1 \in Nat
  OBVIOUS
<1> DEFINE t == [n \in 1..(j - i + 1) |-> s[i + n - 1]]
<1>4. t = [n \in 1..(j - i + 1) |-> t[n]]
  OBVIOUS
<1>5. IsStr(t) /\ Len(t) = j - i + 1
  <2> HIDE DEF t
  <2> QED  BY <1>3, <1>4, StrMade
<1> QED  BY <1>2, <1>5
-----------------------------------------------------------------------------
(* A buffer that is in order, as a record.                                 *)
Fields == {"mem", "point", "gap", "egap", "ebuf"}
Sound(g) ==
  /\ Fields \subseteq DOMAIN g
  /\ g.point \in Nat /\ g.gap \in Nat /\ g.egap \in Nat /\ g.ebuf \in Nat
  /\ Ordered(g)

(* The n-th character of the line and the length of the line.              *)
At(g, n) == IF n <= g.gap THEN g.mem[n - 1] ELSE g.mem[n - 1 + (g.egap - g.gap)]
Size(g) == g.gap + (g.ebuf - g.egap)

(* What the pointers of a buffer are to each other.                        *)
LEMMA SoundFacts ==
  ASSUME NEW g, Sound(g)
  PROVE  /\ g.point \in Nat /\ g.gap \in Nat /\ g.egap \in Nat /\ g.ebuf \in Nat
         /\ g.gap <= g.egap /\ g.egap <= g.ebuf
         /\ g.point <= g.gap \/ (g.egap <= g.point /\ g.point <= g.ebuf)
         /\ 0..(g.ebuf - 1) \subseteq DOMAIN g.mem
         /\ Size(g) \in Nat /\ Cursor(g) \in 0..Size(g)
<1>1. /\ g.point \in Nat /\ g.gap \in Nat /\ g.egap \in Nat /\ g.ebuf \in Nat
      /\ g.gap <= g.egap /\ g.egap <= g.ebuf
      /\ g.point <= g.gap \/ (g.egap <= g.point /\ g.point <= g.ebuf)
      /\ 0..(g.ebuf - 1) \subseteq DOMAIN g.mem
  BY DEF Sound, Ordered
<1>2. Size(g) \in Nat
  BY <1>1 DEF Size
<1>3. Cursor(g) \in 0..Size(g)
  BY <1>1 DEF Size, Cursor
<1> QED  BY <1>1, <1>2, <1>3

LEMMA TextFacts ==
  ASSUME NEW g, Sound(g)
  PROVE  /\ IsStr(Text(g)) /\ Len(Text(g)) = Size(g)
         /\ \A n \in 1..Size(g) : Text(g)[n] = At(g, n)
<1>1. /\ g.gap \in Nat /\ g.egap \in Nat /\ g.ebuf \in Nat
      /\ g.gap <= g.egap /\ g.egap <= g.ebuf
  BY SoundFacts
<1> DEFINE a == Bytes(g, 0, g.gap)  b == Bytes(g, g.egap, g.ebuf)
<1>2. a = [n \in 1..g.gap |-> g.mem[n - 1]]
  BY <1>1 DEF Bytes
<1>3. b = [n \in 1..(g.ebuf - g.egap) |-> g.mem[g.egap + n - 1]]
  BY <1>1 DEF Bytes
<1> HIDE DEF a, b
<1>4. IsStr(a) /\ Len(a) = g.gap
  BY <1>1, <1>2, StrMade
<1>5. IsStr(b) /\ Len(b) = g.ebuf - g.egap
  <2>1. g.ebuf - g.egap \in Nat
    BY <1>1
  <2>2. b = [n \in 1..(g.ebuf - g.egap) |-> b[n]]
    BY <1>3
  <2> QED  BY <2>1, <2>2, StrMade
<1>6. Text(g) = a \o b
  BY DEF Text, a, b
<1>7. IsStr(Text(g)) /\ Len(Text(g)) = Size(g)
  <2>1. IsStr(a \o b) /\ Len(a \o b) = Len(a) + Len(b)
    BY <1>4, <1>5, StrJoin
  <2> QED  BY <1>4, <1>5, <1>6, <2>1 DEF Size
<1>8. ASSUME NEW n \in 1..Size(g) PROVE Text(g)[n] = At(g, n)
  <2>1. CASE n <= g.gap
    <3>1. n \in 1..g.gap
      BY <1>1, <2>1
    <3>2. (a \o b)[n] = a[n]
      BY <1>4, <1>5, <3>1, StrJoin
    <3> QED  BY <1>2, <1>6, <2>1, <3>1, <3>2 DEF At
  <2>2. CASE ~(n <= g.gap)
    <3> DEFINE m == n - g.gap
    <3>1. m \in 1..(g.ebuf - g.egap) /\ g.gap + m = n
          /\ g.egap + m - 1 = n - 1 + (g.egap - g.gap)
      BY <1>1, <2>2 DEF Size
    <3> HIDE DEF m
    <3>2. (a \o b)[g.gap + m] = b[m]
      BY <1>4, <1>5, <3>1, StrJoin
    <3> QED  BY <1>3, <1>6, <2>2, <3>1, <3>2 DEF At
  <2> QED  BY <2>1, <2>2
<1> QED  BY <1>7, <1>8

(* Two buffers that hold the same line.                                    *)
Alike(g, h) == Size(h) = Size(g) /\ \A n \in 1..Size(g) : At(h, n) = At(g, n)
LEMMA SameText ==
  ASSUME NEW g, NEW h, Sound(g), Sound(h), Alike(g, h)
  PROVE  Text(h) = Text(g)
BY TextFacts, StrSame DEF Alike

(* The point moves.                                                        *)
LEMMA PointMoved ==
  ASSUME NEW g, Sound(g), NEW p \in Nat, p <= g.gap \/ (g.egap <= p /\ p <= g.ebuf)
  PROVE  LET h == [g EXCEPT !.point = p] IN
         /\ Sound(h) /\ Alike(g, h) /\ h.point = p
         /\ h.mem = g.mem /\ h.gap = g.gap /\ h.egap = g.egap /\ h.ebuf = g.ebuf
<1> DEFINE h == [g EXCEPT !.point = p]
<1>1. /\ DOMAIN h = DOMAIN g /\ h.point = p
      /\ h.mem = g.mem /\ h.gap = g.gap /\ h.egap = g.egap /\ h.ebuf = g.ebuf
  BY DEF Sound, Fields
<1> HIDE DEF h
<1>2. Sound(h)
  BY <1>1 DEF Sound, Ordered
<1>3. Alike(g, h)
  BY <1>1 DEF Alike, Size, At
<1> QED  BY <1>1, <1>2, <1>3 DEF h

(* The gap comes to the point.                                             *)
Moved(g, h) ==
  /\ Sound(h) /\ Alike(g, h) /\ h.point = h.gap /\ h.gap = Cursor(g)
  /\ h.ebuf = g.ebuf /\ h.egap - h.gap = g.egap - g.gap

LEMMA GapLeftMoves ==
  ASSUME NEW g, Sound(g), g.point < g.gap PROVE Moved(g, GapLeft(g))
<1> DEFINE cnt == g.gap - g.point
           mem == Memmove(g.mem, g.egap - cnt, g.point, cnt)
           h == GapLeft(g)
<1>1. /\ g.point \in Nat /\ g.gap \in Nat /\ g.egap \in Nat /\ g.ebuf \in Nat
      /\ g.gap <= g.egap /\ g.egap <= g.ebuf
      /\ 0..(g.ebuf - 1) \subseteq DOMAIN g.mem
  BY SoundFacts
<1>2. /\ DOMAIN h = DOMAIN g /\ h.point = g.point /\ h.gap = g.point
      /\ h.egap = g.egap - cnt /\ h.ebuf = g.ebuf /\ h.mem = mem
  <2> HIDE DEF cnt
  <2> QED  BY DEF Sound, Fields, GapLeft, cnt
<1>3. DOMAIN mem = DOMAIN g.mem
  BY DEF Memmove
<1>4. \A k \in 0..(g.ebuf - 1) : mem[k] =
         IF k \in (g.egap - cnt)..(g.egap - 1) THEN g.mem[g.point + k - (g.egap - cnt)]
         ELSE g.mem[k]
  BY <1>1 DEF Memmove
<1> HIDE DEF mem, h
<1>5. Sound(h)
  BY <1>1, <1>2, <1>3 DEF Sound, Ordered
<1>6. Size(h) = Size(g)
  BY <1>1, <1>2 DEF Size
<1>7. ASSUME NEW n \in 1..Size(g) PROVE At(h, n) = At(g, n)
  <2>1. CASE n <= g.point
    <3>1. n - 1 \in 0..(g.ebuf - 1) /\ ~(n - 1 \in (g.egap - cnt)..(g.egap - 1))
      BY <1>1, <2>1
    <3>2. mem[n - 1] = g.mem[n - 1]
      BY <1>4, <3>1
    <3> QED  BY <1>1, <1>2, <2>1, <3>2 DEF At
  <2> DEFINE k == n - 1 + (g.egap - g.gap)
  <2>2. CASE n > g.point /\ n <= g.gap
    <3>1. k \in 0..(g.ebuf - 1) /\ k \in (g.egap - cnt)..(g.egap - 1)
          /\ g.point + k - (g.egap - cnt) = n - 1
      BY <1>1, <2>2
    <3>2. mem[k] = g.mem[n - 1]
      BY <1>4, <3>1
    <3> QED  BY <1>1, <1>2, <2>2, <3>2 DEF At
  <2>3. CASE n > g.gap
    <3>1. k \in 0..(g.ebuf - 1) /\ ~(k \in (g.egap - cnt)..(g.egap - 1))
      BY <1>1, <2>3 DEF Size
    <3>2. mem[k] = g.mem[k]
      BY <1>4, <3>1
    <3> QED  BY <1>1, <1>2, <2>3, <3>2 DEF At
  <2> QED  BY <1>1, <2>1, <2>2, <2>3
<1>8. Cursor(g) = g.point
  BY <1>1 DEF Cursor
<1> QED  BY <1>1, <1>2, <1>5, <1>6, <1>7, <1>8 DEF Moved, Alike, h
LEMMA GapRightMoves ==
  ASSUME NEW g, Sound(g), g.point > g.egap PROVE Moved(g, GapRight(g, g.egap))
<1> DEFINE cnt == g.point - g.egap
           mem == Memmove(g.mem, g.gap, g.egap, cnt)
           h == GapRight(g, g.egap)
<1>1. /\ g.point \in Nat /\ g.gap \in Nat /\ g.egap \in Nat /\ g.ebuf \in Nat
      /\ g.gap <= g.egap /\ g.egap <= g.ebuf /\ g.point <= g.ebuf
      /\ 0..(g.ebuf - 1) \subseteq DOMAIN g.mem
  BY SoundFacts
<1>2. /\ DOMAIN h = DOMAIN g /\ h.point = g.gap + cnt /\ h.gap = g.gap + cnt
      /\ h.egap = g.egap + cnt /\ h.ebuf = g.ebuf /\ h.mem = mem
  <2> HIDE DEF cnt
  <2> QED  BY DEF Sound, Fields, GapRight, cnt
<1>3. DOMAIN mem = DOMAIN g.mem
  BY DEF Memmove
<1>4. \A k \in 0..(g.ebuf - 1) : mem[k] =
         IF k \in g.gap..(g.gap + cnt - 1) THEN g.mem[g.egap + k - g.gap] ELSE g.mem[k]
  BY <1>1 DEF Memmove
<1> HIDE DEF mem, h
<1>5. Sound(h)
  BY <1>1, <1>2, <1>3 DEF Sound, Ordered
<1>6. Size(h) = Size(g)
  BY <1>1, <1>2 DEF Size
<1>7. ASSUME NEW n \in 1..Size(g) PROVE At(h, n) = At(g, n)
  <2>1. CASE n <= g.gap
    <3>1. n - 1 \in 0..(g.ebuf - 1) /\ ~(n - 1 \in g.gap..(g.gap + cnt - 1))
      BY <1>1, <2>1
    <3>2. mem[n - 1] = g.mem[n - 1]
      BY <1>4, <3>1
    <3> QED  BY <1>1, <1>2, <2>1, <3>2 DEF At
  <2> DEFINE k == n - 1 + (g.egap - g.gap)
  <2>2. CASE n > g.gap /\ n <= g.gap + cnt
    <3>1. n - 1 \in 0..(g.ebuf - 1) /\ n - 1 \in g.gap..(g.gap + cnt - 1)
          /\ g.egap + (n - 1) - g.gap = k
      BY <1>1, <2>2
    <3>2. mem[n - 1] = g.mem[k]
      BY <1>4, <3>1
    <3> QED  BY <1>1, <1>2, <2>2, <3>2 DEF At
  <2>3. CASE n > g.gap + cnt
    <3>1. k \in 0..(g.ebuf - 1) /\ ~(k \in g.gap..(g.gap + cnt - 1))
      BY <1>1, <2>3 DEF Size
    <3>2. mem[k] = g.mem[k]
      BY <1>4, <3>1
    <3>3. n - 1 + (h.egap - h.gap) = k /\ ~(n <= h.gap) /\ ~(n <= g.gap)
      BY <1>1, <1>2, <2>3
    <3> QED  BY <1>2, <3>2, <3>3 DEF At
  <2> QED  BY <1>1, <2>1, <2>2, <2>3
<1>8. Cursor(g) = g.gap + cnt
  BY <1>1 DEF Cursor
<1> QED  BY <1>1, <1>2, <1>5, <1>6, <1>7, <1>8 DEF Moved, Alike, h

LEMMA MoveGapMoves == ASSUME NEW g, Sound(g) PROVE Moved(g, MoveGap(g))
<1>1. /\ g.point \in Nat /\ g.gap \in Nat /\ g.egap \in Nat /\ g.ebuf \in Nat
      /\ g.gap <= g.egap /\ g.egap <= g.ebuf
      /\ g.point <= g.gap \/ (g.egap <= g.point /\ g.point <= g.ebuf)
  BY SoundFacts
<1>2. CASE g.point = g.gap
  <2>1. MoveGap(g) = g
    BY <1>2 DEF MoveGap
  <2>2. Cursor(g) = g.gap
    BY <1>1, <1>2 DEF Cursor
  <2> QED  BY <1>1, <1>2, <2>1, <2>2 DEF Moved, Alike
<1>3. CASE g.point = g.egap /\ g.point # g.gap
  <2> DEFINE h == [g EXCEPT !.point = g.gap]
  <2>1. MoveGap(g) = h
    BY <1>3 DEF MoveGap
  <2>2. Cursor(g) = g.gap
    BY <1>1, <1>3 DEF Cursor
  <2>3. /\ Sound(h) /\ Alike(g, h) /\ h.point = g.gap
        /\ h.gap = g.gap /\ h.egap = g.egap /\ h.ebuf = g.ebuf
    BY <1>1, PointMoved
  <2> QED  BY <2>1, <2>2, <2>3 DEF Moved
<1>4. CASE g.point < g.gap
  BY <1>1, <1>4, GapLeftMoves DEF MoveGap
<1>5. CASE g.point > g.egap
  BY <1>1, <1>5, GapRightMoves DEF MoveGap
<1> QED  BY <1>1, <1>2, <1>3, <1>4, <1>5

(* The gap becomes longer where it is too short.                           *)
LEMMA GapExpanded ==
  ASSUME NEW g, Sound(g), NEW size \in Nat, g.point = g.gap
  PROVE  LET h == ExpandGap(g, size) IN
         /\ Sound(h) /\ Alike(g, h) /\ h.point = h.gap /\ h.gap = g.gap
         /\ size <= h.egap - h.gap
<1>1. /\ g.point \in Nat /\ g.gap \in Nat /\ g.egap \in Nat /\ g.ebuf \in Nat
      /\ g.gap <= g.egap /\ g.egap <= g.ebuf /\ GapSize \in Nat /\ GapSize > 0
      /\ 0..(g.ebuf - 1) \subseteq DOMAIN g.mem
  BY SoundFacts, GapBufferAssumption
<1>2. CASE size <= g.egap - g.gap
  <2>1. ExpandGap(g, size) = g
    BY <1>2 DEF ExpandGap
  <2> QED  BY <1>2, <2>1 DEF Alike
<1>3. CASE ~(size <= g.egap - g.gap)
  <2> DEFINE more == size + GapSize
             mem0 == [k \in 0..(g.ebuf + more + GapSize - 1) |->
                        IF k \in DOMAIN g.mem THEN g.mem[k] ELSE Junk]
             g0 == [g EXCEPT !.mem = mem0]
             mem == Memmove(mem0, g.egap + more, g.egap, g.ebuf - g.egap)
             h == [g0 EXCEPT !.mem = mem, !.egap = g.egap + more, !.ebuf = g.ebuf + more]
  <2>0. more \in Nat /\ more >= size
    BY <1>1
  <2>1. ExpandBuf(g, more) = g0
    <3> HIDE DEF more
    <3> QED  BY DEF ExpandBuf, Sound, Fields
  <2> HIDE DEF mem0
  <2>2. DOMAIN g0 = DOMAIN g /\ g0.mem = mem0 /\ g0.egap = g.egap /\ g0.ebuf = g.ebuf
        /\ g0.gap = g.gap /\ g0.point = g.point
    BY DEF Sound, Fields
  <2> HIDE DEF g0
  <2>3. ExpandGap(g, size) = h
    <3>1. ExpandGap(g, size) =
            [ExpandBuf(g, more) EXCEPT
               !.mem = Memmove(ExpandBuf(g, more).mem, g.egap + more, g.egap, g.ebuf - g.egap),
               !.egap = ExpandBuf(g, more).egap + more,
               !.ebuf = ExpandBuf(g, more).ebuf + more]
      BY <1>3 DEF ExpandGap
    <3> HIDE DEF more
    <3> QED  BY <2>1, <2>2, <3>1
  <2>4. /\ DOMAIN h = DOMAIN g /\ h.point = g.point /\ h.gap = g.gap
        /\ h.egap = g.egap + more /\ h.ebuf = g.ebuf + more /\ h.mem = mem
    <3> HIDE DEF more, mem
    <3> QED  BY <2>2 DEF Sound, Fields
  <2> HIDE DEF more, h
  <2>5. DOMAIN mem = 0..(g.ebuf + more + GapSize - 1)
    BY DEF Memmove, mem0
  <2>6. \A k \in 0..(g.ebuf + more + GapSize - 1) : mem[k] =
          IF k \in (g.egap + more)..(g.ebuf + more - 1) THEN mem0[k - more] ELSE mem0[k]
    <3>1. \A k \in Int : g.egap + k - (g.egap + more) = k - more
      BY <1>1, <2>0
    <3>2. g.egap + more + (g.ebuf - g.egap) - 1 = g.ebuf + more - 1
      BY <1>1, <2>0
    <3> QED  BY <3>1, <3>2 DEF Memmove, mem0
  <2>7. \A k \in 0..(g.ebuf - 1) : mem0[k] = g.mem[k]
    BY <1>1, <2>0 DEF mem0
  <2> HIDE DEF mem
  <2>8. Sound(h)
    <3>1. 0..(h.ebuf - 1) \subseteq DOMAIN h.mem
      BY <1>1, <2>0, <2>4, <2>5
    <3> QED  BY <1>1, <2>0, <2>4, <3>1 DEF Sound, Ordered
  <2>9. Size(h) = Size(g)
    BY <1>1, <2>0, <2>4 DEF Size
  <2>10. ASSUME NEW n \in 1..Size(g) PROVE At(h, n) = At(g, n)
    <3>1. CASE n <= g.gap
      <4>1. /\ n - 1 \in 0..(g.ebuf - 1) /\ n - 1 \in 0..(g.ebuf + more + GapSize - 1)
            /\ ~(n - 1 \in (g.egap + more)..(g.ebuf + more - 1))
        BY <1>1, <2>0, <3>1
      <4>2. mem[n - 1] = g.mem[n - 1]
        BY <2>6, <2>7, <4>1
      <4> QED  BY <2>4, <3>1, <4>2 DEF At
    <3>2. CASE ~(n <= g.gap)
      <4> DEFINE k == n - 1 + (g.egap - g.gap)
      <4>1. /\ k \in 0..(g.ebuf - 1) /\ k + more \in 0..(g.ebuf + more + GapSize - 1)
            /\ k + more \in (g.egap + more)..(g.ebuf + more - 1)
            /\ (k + more) - more = k
            /\ n - 1 + (g.egap + more - g.gap) = k + more
        BY <1>1, <2>0, <3>2 DEF Size
      <4>2. mem[k + more] = mem0[(k + more) - more]
        <5> HIDE DEF k
        <5> QED  BY <2>6, <4>1
      <4>3. mem[k + more] = g.mem[k]
        <5> HIDE DEF k
        <5> QED  BY <2>7, <4>1, <4>2
      <4>4. At(h, n) = mem[n - 1 + (g.egap + more - g.gap)]
        <5>1. ~(n <= h.gap)
          BY <2>4, <3>2
        <5>2. h.egap - h.gap = g.egap + more - g.gap
          <6>1. h.egap = g.egap + more /\ h.gap = g.gap
            BY <2>4
          <6> QED  BY <1>1, <2>0, <6>1
        <5>3. At(h, n) = h.mem[n - 1 + (h.egap - h.gap)]
          BY <5>1 DEF At
        <5> QED  BY <2>4, <5>2, <5>3
      <4>5. At(g, n) = g.mem[k]
        BY <3>2 DEF At
      <4> QED  BY <4>1, <4>3, <4>4, <4>5
    <3> QED  BY <3>1, <3>2
  <2>11. size <= h.egap - h.gap
    BY <1>1, <2>0, <2>4
  <2> QED  BY <2>3, <2>4, <2>8, <2>9, <2>10, <2>11 DEF Alike
<1> QED  BY <1>2, <1>3
(* h is g with the first k characters of str put at the cursor, and room   *)
(* in its gap for the others.                                              *)
Has(g, h, str, k) ==
  /\ Sound(h) /\ h.point = h.gap /\ h.gap = Cursor(g) + k
  /\ Len(str) - k <= h.egap - h.gap /\ Size(h) = Size(g) + k
  /\ \A n \in 1..Cursor(g) : At(h, n) = At(g, n)
  /\ \A n \in 1..k : At(h, Cursor(g) + n) = str[n]
  /\ \A n \in (Cursor(g) + 1)..Size(g) : At(h, n + k) = At(g, n)

(* A character that finds room is put at the point.                        *)
LEMMA PutcPuts ==
  ASSUME NEW g, Sound(g), g.point = g.gap, g.gap < g.egap, NEW c
  PROVE  LET h == Putc(g, c) IN
         /\ Sound(h) /\ h.point = h.gap /\ h.gap = g.gap + 1
         /\ h.egap = g.egap /\ h.ebuf = g.ebuf /\ Size(h) = Size(g) + 1
         /\ \A n \in 1..g.gap : At(h, n) = At(g, n)
         /\ At(h, g.gap + 1) = c
         /\ \A n \in (g.gap + 1)..Size(g) : At(h, n + 1) = At(g, n)
<1> DEFINE h == Putc(g, c)
           mem == [g.mem EXCEPT ![g.gap] = c]
<1>1. /\ g.point \in Nat /\ g.gap \in Nat /\ g.egap \in Nat /\ g.ebuf \in Nat
      /\ g.gap <= g.egap /\ g.egap <= g.ebuf
      /\ 0..(g.ebuf - 1) \subseteq DOMAIN g.mem
  BY SoundFacts
<1>2. MoveGap(g) = g /\ ~AtEnd(g)
  BY <1>1 DEF MoveGap, AtEnd
<1>3. h = [g EXCEPT !.mem[g.gap] = c, !.gap = @ + 1, !.point = @ + 1]
  BY <1>2 DEF Putc
<1>4. /\ DOMAIN h = DOMAIN g /\ h.point = g.gap + 1 /\ h.gap = g.gap + 1
      /\ h.egap = g.egap /\ h.ebuf = g.ebuf /\ h.mem = mem
  BY <1>3 DEF Sound, Fields
<1>5. DOMAIN mem = DOMAIN g.mem /\ \A k \in DOMAIN mem : mem[k] = IF k = g.gap THEN c ELSE g.mem[k]
  OBVIOUS
<1> HIDE DEF h, mem
<1>6. Sound(h)
  BY <1>1, <1>4, <1>5 DEF Sound, Ordered
<1>7. Size(h) = Size(g) + 1
  BY <1>1, <1>4 DEF Size
<1>8. ASSUME NEW n \in 1..g.gap PROVE At(h, n) = At(g, n)
  <2>1. n - 1 \in 0..(g.ebuf - 1) /\ n - 1 # g.gap /\ n <= g.gap /\ n <= g.gap + 1
    BY <1>1
  <2>2. mem[n - 1] = g.mem[n - 1]
    BY <1>1, <1>5, <2>1
  <2> QED  BY <1>4, <2>1, <2>2 DEF At
<1>9. At(h, g.gap + 1) = c
  <2>1. g.gap \in 0..(g.ebuf - 1) /\ g.gap + 1 - 1 = g.gap /\ g.gap + 1 <= g.gap + 1
    BY <1>1
  <2>2. mem[g.gap] = c
    BY <1>1, <1>5, <2>1
  <2> QED  BY <1>4, <2>1, <2>2 DEF At
<1>10. ASSUME NEW n \in (g.gap + 1)..Size(g) PROVE At(h, n + 1) = At(g, n)
  <2> DEFINE k == n - 1 + (g.egap - g.gap)
  <2>1. /\ k \in 0..(g.ebuf - 1) /\ k # g.gap /\ ~(n <= g.gap) /\ ~(n + 1 <= g.gap + 1)
        /\ n + 1 - 1 + (g.egap - (g.gap + 1)) = k
    BY <1>1 DEF Size
  <2>2. mem[k] = g.mem[k]
    BY <1>1, <1>5, <2>1
  <2>3. At(g, n) = g.mem[k]
    BY <2>1 DEF At
  <2>4. At(h, n + 1) = mem[n + 1 - 1 + (g.egap - (g.gap + 1))]
    <3>1. ~(n + 1 <= h.gap) /\ h.egap - h.gap = g.egap - (g.gap + 1)
      BY <1>4, <2>1
    <3>2. At(h, n + 1) = h.mem[n + 1 - 1 + (h.egap - h.gap)]
      BY <3>1 DEF At
    <3> QED  BY <1>4, <3>1, <3>2
  <2> QED  BY <2>1, <2>2, <2>3, <2>4
<1> QED  BY <1>4, <1>6, <1>7, <1>8, <1>9, <1>10 DEF h

LEMMA PutcHas ==
  ASSUME NEW g, Sound(g), NEW h, NEW str, IsStr(str), NEW k \in 1..Len(str),
         Has(g, h, str, k - 1)
  PROVE  Has(g, Putc(h, str[k]), str, k)
<1> DEFINE m == Putc(h, str[k])
<1>0. Len(str) \in Nat /\ k \in Nat /\ k >= 1 /\ k <= Len(str)
  BY StrLen
<1>1. /\ h.gap \in Nat /\ h.egap \in Nat /\ h.ebuf \in Nat /\ Sound(h) /\ h.point = h.gap
      /\ Size(g) \in Nat /\ Cursor(g) \in Nat /\ Cursor(g) <= Size(g)
  BY SoundFacts DEF Has
<1>2. h.gap = Cursor(g) + (k - 1) /\ Size(h) = Size(g) + (k - 1)
      /\ Len(str) - (k - 1) <= h.egap - h.gap
  BY DEF Has
<1>3. h.gap < h.egap
  BY <1>0, <1>1, <1>2
<1>4. /\ Sound(m) /\ m.point = m.gap /\ m.gap = h.gap + 1
      /\ m.egap = h.egap /\ m.ebuf = h.ebuf /\ Size(m) = Size(h) + 1
      /\ \A n \in 1..h.gap : At(m, n) = At(h, n)
      /\ At(m, h.gap + 1) = str[k]
      /\ \A n \in (h.gap + 1)..Size(h) : At(m, n + 1) = At(h, n)
  BY <1>1, <1>3, PutcPuts
<1> HIDE DEF m
<1>5. ASSUME NEW n \in 1..Cursor(g) PROVE At(m, n) = At(g, n)
  <2>1. n \in 1..h.gap
    BY <1>0, <1>1, <1>2
  <2> QED  BY <1>4, <2>1 DEF Has
<1>6. ASSUME NEW n \in 1..k PROVE At(m, Cursor(g) + n) = str[n]
  <2>1. CASE n = k
    <3>1. Cursor(g) + n = h.gap + 1
      BY <1>0, <1>1, <1>2, <2>1
    <3> QED  BY <1>4, <2>1, <3>1
  <2>2. CASE n # k
    <3>1. n \in Nat /\ n >= 1 /\ n <= k - 1 /\ k - 1 \in Nat
      BY <1>0, <2>2
    <3>2. n \in 1..(k - 1)
      BY <3>1
    <3>3. Cursor(g) + n >= 1 /\ Cursor(g) + n <= h.gap /\ Cursor(g) + n \in Nat
      <4> DEFINE c == Cursor(g)
                 p == k - 1
      <4>1. c \in Nat /\ p \in Nat /\ n \in Nat /\ n >= 1 /\ n <= p /\ h.gap = c + p
        BY <1>1, <1>2, <3>1
      <4> HIDE DEF c, p
      <4>2. c + n >= 1 /\ c + n <= c + p /\ c + n \in Nat
        BY <4>1
      <4> QED  BY <4>1, <4>2 DEF c
    <3>4. Cursor(g) + n \in 1..h.gap
      BY <1>1, <3>3
    <3> QED  BY <1>4, <3>2, <3>4 DEF Has
  <2> QED  BY <2>1, <2>2
<1>7. ASSUME NEW n \in (Cursor(g) + 1)..Size(g) PROVE At(m, n + k) = At(g, n)
  <2>0. n \in Nat /\ n >= Cursor(g) + 1 /\ n <= Size(g) /\ k - 1 \in Nat
    BY <1>0, <1>1
  <2>1. n + (k - 1) \in (h.gap + 1)..Size(h) /\ (n + (k - 1)) + 1 = n + k
    <3> DEFINE c == Cursor(g)
               z == Size(g)
               p == k - 1
    <3>1. n + p \in (c + p + 1)..(z + p)
      <4>1. c \in Nat /\ z \in Nat /\ p \in Nat /\ n >= c + 1 /\ n <= z /\ n \in Nat
        BY <1>1, <2>0
      <4> HIDE DEF c, z, p
      <4> QED  BY <4>1
    <3>2. (n + (k - 1)) + 1 = n + k
      BY <1>0, <2>0
    <3> QED  BY <1>2, <3>1, <3>2
  <2>2. At(h, n + (k - 1)) = At(g, n)
    BY DEF Has
  <2>3. At(m, (n + (k - 1)) + 1) = At(h, n + (k - 1))
    BY <1>4, <2>1
  <2> QED  BY <2>1, <2>2, <2>3
<1>8. m.gap = Cursor(g) + k /\ Size(m) = Size(g) + k /\ Len(str) - k <= m.egap - m.gap
  <2>1. m.gap = Cursor(g) + k /\ Size(m) = Size(g) + k
    BY <1>0, <1>1, <1>2, <1>4
  <2>2. m.egap - m.gap = (h.egap - h.gap) - 1
    BY <1>1, <1>4
  <2>3. Len(str) - k = (Len(str) - (k - 1)) - 1
    BY <1>0
  <2> DEFINE room == h.egap - h.gap
             left == Len(str) - (k - 1)
  <2>4. room \in Int /\ left \in Int /\ left <= room
    BY <1>0, <1>1, <1>2
  <2> HIDE DEF room, left
  <2>5. left - 1 <= room - 1
    BY <2>4
  <2> QED  BY <2>1, <2>2, <2>3, <2>5 DEF room, left
<1> QED  BY <1>4, <1>5, <1>6, <1>7, <1>8 DEF Has, m
-----------------------------------------------------------------------------
(* The order of the naturals is well founded.                              *)
Less == {ss \in Nat \X Nat : ss[1] < ss[2]}
LEMMA LessFounded == IsWellFoundedOn(Less, Nat)
BY NatLessThanWellFounded DEF OpToRel, Less

(* Induction, as a fact about a set: one that has 0 and with each number   *)
(* the next is all of the naturals.                                        *)
LEMMA NatInd ==
  ASSUME NEW S \in SUBSET Nat, 0 \in S, \A n \in S : n + 1 \in S
  PROVE  S = Nat
<1> DEFINE T == Nat \ S
<1> SUFFICES ASSUME T # {} PROVE FALSE
  OBVIOUS
<1>1. PICK x \in T : \A y \in T : <<y, x>> \notin Less
  <2>1. T \subseteq Nat
    OBVIOUS
  <2> HIDE DEF T
  <2> QED  BY <2>1, LessFounded, WFMin
<1>2. x \in Nat /\ x # 0 /\ x - 1 \in Nat /\ (x - 1) + 1 = x
  OBVIOUS
<1>3. <<x - 1, x>> \in Less
  BY <1>2 DEF Less
<1>4. x - 1 \in S
  BY <1>1, <1>2, <1>3
<1> QED  BY <1>1, <1>2, <1>4

(* One round of the loop over a string, or of those of key_word_left and   *)
(* key_word_right, which stop when they are done.                          *)
Round(way, g) ==
  IF way = "left"
  THEN LET l == GetPrev(Left(g)) IN
       [g |-> l, done |-> PrevChar(Left(g)) = Blank \/ AtStart(l)]
  ELSE IF AtEnd(g) THEN [g |-> g, done |-> TRUE]
  ELSE LET r == Get(Right(g)) IN [g |-> r, done |-> Char(Right(g)) = Blank]
StepTo(way, str, x, n) ==
  IF way = "put" THEN Putc(x, str[n])
  ELSE IF x.done THEN x ELSE Round(way, x.g)

(* f is what the rounds of a loop come to, one after the other.            *)
Runs(f, way, from, str, N) ==
  f = [n \in 0..N |-> IF n = 0 THEN from ELSE StepTo(way, str, f[n - 1], n)]

LEMMA RunsExists ==
  ASSUME NEW way, NEW from, NEW str, NEW N \in Nat
  PROVE  \E f : Runs(f, way, from, str, N)
<1> DEFINE K == {k \in Nat : \E f : Runs(f, way, from, str, k)}
<1>1. 0 \in K
  <2> DEFINE f == [n \in 0..0 |-> from]
  <2>1. f = [n \in 0..0 |-> IF n = 0 THEN from ELSE StepTo(way, str, f[n - 1], n)]
    OBVIOUS
  <2>2. Runs(f, way, from, str, 0)
    BY <2>1 DEF Runs
  <2> QED  BY <2>2
<1>2. ASSUME NEW k \in K PROVE k + 1 \in K
  <2>1. k \in Nat
    OBVIOUS
  <2>2. PICK f : Runs(f, way, from, str, k)
    OBVIOUS
  <2> DEFINE step(h, n) == StepTo(way, str, h, n)
             f2 == [n \in 0..(k + 1) |-> IF n = k + 1 THEN step(f[k], n) ELSE f[n]]
             f3 == [n \in 0..(k + 1) |-> IF n = 0 THEN from ELSE step(f2[n - 1], n)]
  <2>3. \A n \in 0..k : f[n] = IF n = 0 THEN from ELSE step(f[n - 1], n)
    BY <2>2 DEF Runs
  <2> HIDE DEF step
  <2>4. ASSUME NEW n \in 0..(k + 1) PROVE f2[n] = f3[n]
    <3>1. CASE n = k + 1
      <4>1. f2[n] = step(f[k], n) /\ n # 0 /\ n - 1 = k /\ k \in 0..(k + 1) /\ k # k + 1
        BY <2>1, <3>1
      <4>2. f2[k] = f[k]
        BY <4>1
      <4> QED  BY <4>1, <4>2
    <3>2. CASE n # k + 1
      <4>1. n \in 0..k /\ f2[n] = f[n]
        BY <2>1, <3>2
      <4>2. CASE n = 0
        BY <2>3, <4>1, <4>2
      <4>3. CASE n # 0
        <5>1. n - 1 \in 0..(k + 1) /\ n - 1 # k + 1
          BY <2>1, <4>1, <4>3
        <5>2. f2[n - 1] = f[n - 1]
          BY <5>1
        <5>3. f3[n] = step(f2[n - 1], n)
          BY <4>3
        <5> QED  BY <2>3, <4>1, <4>3, <5>2, <5>3
      <4> QED  BY <4>2, <4>3
    <3> QED  BY <3>1, <3>2
  <2>5. f2 = f3
    <3>1. f2 = [n \in 0..(k + 1) |-> f2[n]] /\ f3 = [n \in 0..(k + 1) |-> f3[n]]
      OBVIOUS
    <3> HIDE DEF f2, f3
    <3> QED  BY <2>4, <3>1
  <2>6. Runs(f2, way, from, str, k + 1)
    <3>1. f3 = [n \in 0..(k + 1) |-> IF n = 0 THEN from ELSE StepTo(way, str, f2[n - 1], n)]
      <4> HIDE DEF f2
      <4> QED  BY DEF step
    <3> HIDE DEF f2, f3
    <3> QED  BY <2>5, <3>1 DEF Runs
  <2>7. k + 1 \in Nat
    BY <2>1
  <2> HIDE DEF f2, f3
  <2> QED  BY <2>6, <2>7
<1>3. K \in SUBSET Nat
  OBVIOUS
<1> HIDE DEF K
<1>4. N \in K
  BY <1>1, <1>2, <1>3, NatInd
<1> QED  BY <1>4 DEF K

(* What StrInsert does: h holds the line of g with str at the cursor, and  *)
(* the point is behind it.                                                 *)
Inserted(g, h, str) ==
  /\ Sound(h) /\ Size(h) = Size(g) + Len(str)
  /\ Text(h) = SubSeq(Text(g), 1, Cursor(g)) \o str
                 \o SubSeq(Text(g), Cursor(g) + 1, Len(Text(g)))
  /\ Cursor(h) = Cursor(g) + Len(str)

(* A buffer that has all the characters holds the longer line.             *)
LEMMA HasAll ==
  ASSUME NEW g, Sound(g), NEW h, NEW str, IsStr(str), Has(g, h, str, Len(str))
  PROVE  Inserted(g, h, str)
<1> DEFINE c == Cursor(g)
           a == SubSeq(Text(g), 1, c)
           b == SubSeq(Text(g), c + 1, Len(Text(g)))
           l == Len(str)
<1>1. /\ Sound(h) /\ c \in Nat /\ c <= Size(g) /\ Size(g) \in Nat /\ l \in Nat
      /\ h.gap = c + l /\ h.point = h.gap /\ Size(h) = Size(g) + l
  BY SoundFacts, StrLen DEF Has
<1>2. IsStr(Text(g)) /\ Len(Text(g)) = Size(g)
  BY TextFacts
<1>3. /\ \A n \in 1..c : Text(h)[n] = Text(g)[n]
      /\ \A n \in 1..l : Text(h)[c + n] = str[n]
      /\ \A n \in (c + 1)..Size(g) : Text(h)[n + l] = Text(g)[n]
      /\ IsStr(Text(h)) /\ Len(Text(h)) = Size(g) + l
  <2>1. \A n \in 1..Size(g) : Text(g)[n] = At(g, n)
    BY TextFacts
  <2>2. \A n \in 1..Size(h) : Text(h)[n] = At(h, n)
    BY <1>1, TextFacts
  <2>3. ASSUME NEW n \in 1..c PROVE Text(h)[n] = Text(g)[n]
    <3>1. n \in 1..Size(g) /\ n \in 1..Size(h)
      BY <1>1
    <3> QED  BY <2>1, <2>2, <3>1 DEF Has
  <2>4. ASSUME NEW n \in 1..l PROVE Text(h)[c + n] = str[n]
    <3>1. c + n \in 1..Size(h)
      BY <1>1
    <3> QED  BY <2>2, <3>1 DEF Has
  <2>5. ASSUME NEW n \in (c + 1)..Size(g) PROVE Text(h)[n + l] = Text(g)[n]
    <3>1. n + l \in 1..Size(h) /\ n \in 1..Size(g)
      BY <1>1
    <3> QED  BY <2>1, <2>2, <3>1 DEF Has
  <2> QED  BY <1>1, <2>3, <2>4, <2>5, TextFacts
<1> HIDE DEF c, l
<1>4. IsStr(a) /\ Len(a) = c /\ \A n \in 1..c : a[n] = Text(g)[n]
  <2>1. /\ IsStr(a) /\ Len(a) = c - 1 + 1
        /\ \A n \in 1..(c - 1 + 1) : a[n] = Text(g)[1 + n - 1]
    BY <1>1, <1>2, StrPart
  <2>2. c - 1 + 1 = c /\ \A n \in 1..c : 1 + n - 1 = n
    BY <1>1
  <2> HIDE DEF a
  <2> QED  BY <2>1, <2>2
<1>5. IsStr(b) /\ Len(b) = Size(g) - c /\ \A n \in 1..(Size(g) - c) : b[n] = Text(g)[c + n]
  <2>1. /\ IsStr(b) /\ Len(b) = Size(g) - (c + 1) + 1
        /\ \A n \in 1..(Size(g) - (c + 1) + 1) : b[n] = Text(g)[c + 1 + n - 1]
    BY <1>1, <1>2, StrPart
  <2>2. Size(g) - (c + 1) + 1 = Size(g) - c /\ \A n \in Nat : c + 1 + n - 1 = c + n
    BY <1>1
  <2> HIDE DEF b
  <2> QED  BY <2>1, <2>2
<1> HIDE DEF a, b
<1>6. /\ IsStr(a \o str) /\ Len(a \o str) = c + l
      /\ \A n \in 1..c : (a \o str)[n] = a[n]
      /\ \A n \in 1..l : (a \o str)[c + n] = str[n]
  BY <1>1, <1>4, StrJoin DEF l
<1> DEFINE s == a \o str \o b
<1>7. /\ IsStr(s) /\ Len(s) = c + l + (Size(g) - c)
      /\ \A n \in 1..(c + l) : s[n] = (a \o str)[n]
      /\ \A n \in 1..(Size(g) - c) : s[c + l + n] = b[n]
  BY <1>5, <1>6, StrJoin
<1> HIDE DEF s
<1>8. Len(s) = Len(Text(h))
  BY <1>1, <1>3, <1>7
<1>9. ASSUME NEW n \in 1..Len(Text(h)) PROVE Text(h)[n] = s[n]
  <2>1. CASE n <= c
    <3>1. n \in 1..c /\ n \in 1..(c + l)
      BY <1>1, <2>1
    <3> QED  BY <1>3, <1>4, <1>6, <1>7, <3>1
  <2>2. CASE n > c /\ n <= c + l
    <3> DEFINE m == n - c
    <3>1. m \in 1..l /\ c + m = n /\ n \in 1..(c + l)
      BY <1>1, <2>2
    <3> HIDE DEF m
    <3>2. Text(h)[c + m] = (a \o str)[c + m]
      BY <1>3, <1>6, <3>1
    <3> QED  BY <1>7, <3>1, <3>2
  <2>3. CASE n > c + l
    <3> DEFINE m == n - l  j == n - (c + l)
    <3>1. /\ m \in (c + 1)..Size(g) /\ m + l = n
          /\ j \in 1..(Size(g) - c) /\ c + l + j = n /\ c + j = m
      BY <1>1, <1>3, <2>3
    <3> HIDE DEF m, j
    <3>2. Text(h)[m + l] = Text(g)[m] /\ s[c + l + j] = b[j] /\ b[j] = Text(g)[c + j]
      BY <1>3, <1>5, <1>7, <3>1
    <3> QED  BY <3>1, <3>2
  <2> QED  BY <1>1, <1>3, <2>1, <2>2, <2>3
<1>10. Text(h) = s
  BY <1>3, <1>7, <1>8, <1>9, StrSame
<1>11. Cursor(h) = c + l
  <2>1. h.egap \in Nat /\ h.gap \in Nat /\ h.gap <= h.egap
    BY <1>1, SoundFacts
  <2> QED  BY <1>1, <2>1 DEF Cursor
<1> QED  BY <1>1, <1>10, <1>11 DEF Inserted, s, a, b, c, l

(* With the gap at the cursor and long enough, nothing is put in yet.      *)
LEMMA HasNone ==
  ASSUME NEW g, Sound(g), NEW m, Moved(g, m), NEW h, NEW str, IsStr(str),
         Sound(h), Alike(m, h), h.point = h.gap, h.gap = m.gap,
         Len(str) <= h.egap - h.gap
  PROVE  Has(g, h, str, 0)
<1>1. Size(g) \in Nat /\ Cursor(g) \in Nat /\ Cursor(g) <= Size(g) /\ Len(str) \in Nat
  BY SoundFacts, StrLen
<1>2. Alike(g, h) /\ h.gap = Cursor(g)
  BY DEF Alike, Moved
<1>3. /\ Size(h) = Size(g) + 0 /\ h.gap = Cursor(g) + 0
      /\ Len(str) - 0 <= h.egap - h.gap
  BY <1>1, <1>2 DEF Alike
<1>4. \A n \in 1..Cursor(g) : At(h, n) = At(g, n)
  BY <1>1, <1>2 DEF Alike
<1>5. ASSUME NEW n \in (Cursor(g) + 1)..Size(g) PROVE At(h, n + 0) = At(g, n)
  <2>1. n \in 1..Size(g) /\ n + 0 = n
    BY <1>1
  <2> QED  BY <1>2, <2>1 DEF Alike
<1>6. \A n \in 1..0 : At(h, Cursor(g) + n) = str[n]
  OBVIOUS
<1> QED  BY <1>3, <1>4, <1>5, <1>6 DEF Has

LEMMA StrInsertInserts ==
  ASSUME NEW g, Sound(g), NEW str, IsStr(str)
  PROVE  Inserted(g, StrInsert(g, str), str)
<1> DEFINE e == ExpandGap(MoveGap(g), Len(str))
<1>0. Len(str) \in Nat
  BY StrLen
<1>1. Has(g, e, str, 0)
  <2> DEFINE m == MoveGap(g)
  <2>1. Moved(g, m)
    BY MoveGapMoves
  <2> HIDE DEF m
  <2> DEFINE h == ExpandGap(m, Len(str))
  <2>2. /\ Sound(h) /\ Alike(m, h) /\ h.point = h.gap /\ h.gap = m.gap
        /\ Len(str) <= h.egap - h.gap
    BY <1>0, <2>1, GapExpanded DEF Moved
  <2> HIDE DEF h
  <2>3. Has(g, h, str, 0)
    BY <2>1, <2>2, HasNone
  <2> QED  BY <2>3 DEF h, m
<1>2. CASE str = <<>>
  <2>1. StrInsert(g, str) = g /\ Len(str) = 0
    BY <1>2 DEF StrInsert
  <2>2. Has(g, e, str, Len(str))
    BY <1>1, <2>1
  <2>3. Inserted(g, e, str)
    <3> HIDE DEF e
    <3> QED  BY <2>2, HasAll
  <2>4. Alike(g, e) /\ Cursor(e) = Cursor(g)
    <3>1. Size(g) \in Nat /\ Cursor(g) \in Nat
      BY SoundFacts
    <3>2. Size(e) = Size(g)
      BY <1>1, <3>1 DEF Has
    <3>3. Cursor(e) = Cursor(g)
      BY <2>1, <2>3, <3>1 DEF Inserted
    <3>4. ASSUME NEW n \in 1..Size(g) PROVE At(e, n) = At(g, n)
      <4>1. CASE n <= Cursor(g)
        BY <1>1, <3>1, <4>1 DEF Has
      <4>2. CASE n > Cursor(g)
        <5>1. n \in (Cursor(g) + 1)..Size(g) /\ n + 0 = n
          BY <3>1, <4>2
        <5> QED  BY <1>1, <5>1 DEF Has
      <4> QED  BY <3>1, <4>1, <4>2
    <3> HIDE DEF e
    <3> QED  BY <3>2, <3>3, <3>4 DEF Alike
  <2>5. Text(e) = Text(g)
    BY <1>1, <2>4, SameText DEF Has
  <2> HIDE DEF e
  <2> QED  BY <2>1, <2>3, <2>4, <2>5 DEF Inserted, Alike
<1>3. CASE str # <<>>
  <2> DEFINE N == Len(str)
             run == CHOOSE f : f = [n \in 0..N |-> IF n = 0 THEN e ELSE Putc(f[n - 1], str[n])]
  <2>1. StrInsert(g, str) = run[N]
    BY <1>3 DEF StrInsert
  <2>2. run = [n \in 0..N |-> IF n = 0 THEN e ELSE Putc(run[n - 1], str[n])]
    <3> HIDE DEF e
    <3>1. PICK f : Runs(f, "put", e, str, N)
      BY <1>0, RunsExists
    <3>2. f = [n \in 0..N |-> IF n = 0 THEN e ELSE Putc(f[n - 1], str[n])]
      BY <3>1 DEF Runs, StepTo
    <3> QED  BY <3>2
  <2> HIDE DEF run, e
  <2> DEFINE K == {k \in Nat : k <= N => Has(g, run[k], str, k)}
  <2>3. 0 \in K
    <3>1. run[0] = e
      BY <1>0, <2>2
    <3> QED  BY <1>1, <3>1
  <2>4. ASSUME NEW k \in K PROVE k + 1 \in K
    <3>1. k \in Nat /\ k + 1 \in Nat /\ (k + 1) - 1 = k
      OBVIOUS
    <3> SUFFICES ASSUME k + 1 <= N PROVE Has(g, run[k + 1], str, k + 1)
      BY <3>1
    <3>2. k + 1 \in 1..N /\ k + 1 \in 0..N /\ k + 1 # 0 /\ k <= N
      BY <1>0, <3>1
    <3>3. run[k + 1] = Putc(run[(k + 1) - 1], str[k + 1])
      BY <2>2, <3>2
    <3>4. Has(g, run[k], str, (k + 1) - 1)
      BY <3>1, <3>2
    <3> QED  BY <3>1, <3>2, <3>3, <3>4, PutcHas
  <2>5. N \in K
    <3>1. K \in SUBSET Nat
      OBVIOUS
    <3> HIDE DEF K
    <3> QED  BY <1>0, <2>3, <2>4, <3>1, NatInd
  <2>6. Has(g, run[N], str, N)
    BY <1>0, <2>5
  <2> QED  BY <2>1, <2>6, HasAll
<1> QED  BY <1>2, <1>3
-----------------------------------------------------------------------------
(* Buffers that hold the same line, the cursor of the second at c.         *)
Goes(g, h, c) == Sound(h) /\ Text(h) = Text(g) /\ Size(h) = Size(g) /\ Cursor(h) = c

(* The point is set behind c characters of the line.                       *)
LEMMA PointGoes ==
  ASSUME NEW g, Sound(g), NEW p \in Nat, p <= g.gap \/ (g.egap <= p /\ p <= g.ebuf),
         NEW c, c = (IF p < g.egap THEN p ELSE p - (g.egap - g.gap))
  PROVE  Goes(g, [g EXCEPT !.point = p], c)
<1> DEFINE h == [g EXCEPT !.point = p]
<1>1. Sound(h) /\ Alike(g, h) /\ h.point = p /\ h.gap = g.gap /\ h.egap = g.egap
  BY PointMoved
<1> HIDE DEF h
<1>2. Text(h) = Text(g)
  BY <1>1, SameText
<1>3. Cursor(h) = c
  BY <1>1 DEF Cursor
<1> QED  BY <1>1, <1>2, <1>3 DEF Goes, Alike, h

LEMMA GoesNowhere == ASSUME NEW g, Sound(g) PROVE Goes(g, g, Cursor(g))
BY DEF Goes

LEMMA MoveGapGoes == ASSUME NEW g, Sound(g) PROVE Goes(g, MoveGap(g), Cursor(g))
<1> DEFINE h == MoveGap(g)
<1>1. Moved(g, h)
  BY MoveGapMoves
<1> HIDE DEF h
<1>2. Text(h) = Text(g)
  BY <1>1, SameText DEF Moved
<1>3. Cursor(h) = Cursor(g)
  <2>1. h.point \in Nat /\ h.gap \in Nat /\ h.egap \in Nat /\ h.gap <= h.egap
    BY <1>1, SoundFacts DEF Moved
  <2> QED  BY <1>1, <2>1 DEF Moved, Cursor
<1> QED  BY <1>1, <1>2, <1>3 DEF Goes, Moved, Alike, h

LEMMA GetGoes == ASSUME NEW g, Sound(g) PROVE Goes(g, Get(g), Cursor(g))
<1>1. /\ g.point \in Nat /\ g.gap \in Nat /\ g.egap \in Nat /\ g.ebuf \in Nat
      /\ g.gap <= g.egap /\ g.egap <= g.ebuf
      /\ g.point <= g.gap \/ (g.egap <= g.point /\ g.point <= g.ebuf)
  BY SoundFacts
<1> DEFINE p == IF g.point = g.gap THEN g.egap ELSE g.point
<1>2. Get(g) = [g EXCEPT !.point = p]
  BY DEF Get
<1>3. p \in Nat /\ (p <= g.gap \/ (g.egap <= p /\ p <= g.ebuf))
      /\ Cursor(g) = (IF p < g.egap THEN p ELSE p - (g.egap - g.gap))
  BY <1>1 DEF Cursor
<1> HIDE DEF p
<1> QED  BY <1>2, <1>3, PointGoes

LEMMA GetPrevGoes == ASSUME NEW g, Sound(g) PROVE Goes(g, GetPrev(g), Cursor(g))
<1>1. /\ g.point \in Nat /\ g.gap \in Nat /\ g.egap \in Nat /\ g.ebuf \in Nat
      /\ g.gap <= g.egap /\ g.egap <= g.ebuf
      /\ g.point <= g.gap \/ (g.egap <= g.point /\ g.point <= g.ebuf)
  BY SoundFacts
<1> DEFINE p == IF g.point = g.egap THEN g.gap ELSE g.point
<1>2. GetPrev(g) = [g EXCEPT !.point = p]
  BY DEF GetPrev
<1>3. p \in Nat /\ (p <= g.gap \/ (g.egap <= p /\ p <= g.ebuf))
      /\ Cursor(g) = (IF p < g.egap THEN p ELSE p - (g.egap - g.gap))
  BY <1>1 DEF Cursor
<1> HIDE DEF p
<1> QED  BY <1>2, <1>3, PointGoes

(* gb_eof and gb_point_at_start see the ends of the line.                  *)
LEMMA EofAtEnd == ASSUME NEW g, Sound(g) PROVE Eof(g) <=> Cursor(g) = Size(g)
BY SoundFacts DEF Eof, AtEnd, Cursor, Size

LEMMA StartIsStart == ASSUME NEW g, Sound(g), AtStart(g) PROVE Cursor(g) = 0
BY SoundFacts DEF AtStart, Cursor

LEMMA RightGoes ==
  ASSUME NEW g, Sound(g)
  PROVE  Goes(g, Right(g), IF Cursor(g) = Size(g) THEN Cursor(g) ELSE Cursor(g) + 1)
<1>1. /\ g.point \in Nat /\ g.gap \in Nat /\ g.egap \in Nat /\ g.ebuf \in Nat
      /\ g.gap <= g.egap /\ g.egap <= g.ebuf
      /\ g.point <= g.gap \/ (g.egap <= g.point /\ g.point <= g.ebuf)
  BY SoundFacts
<1>2. CASE Eof(g)
  BY <1>2, EofAtEnd, GoesNowhere DEF Right
<1>3. CASE ~Eof(g)
  <2> DEFINE p == IF g.point = g.gap THEN g.egap + 1 ELSE g.point + 1
             q == IF g.point = g.gap THEN g.egap ELSE g.point
  <2>0. q + 1 = p /\ ~(p > g.ebuf)
    BY <1>1, <1>3 DEF Eof, AtEnd
  <2>1. Right(g) = [g EXCEPT !.point = p]
    <3>1. Right(g) = [g EXCEPT !.point = IF q + 1 > g.ebuf THEN g.ebuf ELSE q + 1]
      BY <1>3 DEF Right, MoveRight
    <3> HIDE DEF p, q
    <3> QED  BY <2>0, <3>1
  <2>2. p \in Nat /\ (p <= g.gap \/ (g.egap <= p /\ p <= g.ebuf))
        /\ Cursor(g) + 1 = (IF p < g.egap THEN p ELSE p - (g.egap - g.gap))
    BY <1>1, <2>0 DEF Cursor
  <2> HIDE DEF p
  <2> QED  BY <1>3, <2>1, <2>2, EofAtEnd, PointGoes
<1> QED  BY <1>2, <1>3

LEMMA MoveLeftGoes ==
  ASSUME NEW g, Sound(g)
  PROVE  Goes(g, MoveLeft(g), IF Cursor(g) = 0 THEN 0 ELSE Cursor(g) - 1)
<1>1. /\ g.point \in Nat /\ g.gap \in Nat /\ g.egap \in Nat /\ g.ebuf \in Nat
      /\ g.gap <= g.egap /\ g.egap <= g.ebuf
      /\ g.point <= g.gap \/ (g.egap <= g.point /\ g.point <= g.ebuf)
  BY SoundFacts
<1> DEFINE q == IF g.point = g.egap THEN g.gap ELSE g.point
           p == IF q = 0 THEN 0 ELSE q - 1
           c == IF Cursor(g) = 0 THEN 0 ELSE Cursor(g) - 1
<1>2. MoveLeft(g) = [g EXCEPT !.point = p]
  BY DEF MoveLeft
<1>3. p \in Nat /\ (p <= g.gap \/ (g.egap <= p /\ p <= g.ebuf))
      /\ c = (IF p < g.egap THEN p ELSE p - (g.egap - g.gap))
  BY <1>1 DEF Cursor
<1> HIDE DEF p, c
<1>4. Goes(g, MoveLeft(g), c)
  BY <1>2, <1>3, PointGoes
<1> QED  BY <1>4 DEF c

LEMMA LeftGoes ==
  ASSUME NEW g, Sound(g)
  PROVE  Goes(g, Left(g), IF Cursor(g) = 0 THEN 0 ELSE Cursor(g) - 1)
<1>1. CASE AtStart(g)
  BY <1>1, StartIsStart, GoesNowhere DEF Left
<1>2. CASE ~AtStart(g)
  BY <1>2, MoveLeftGoes DEF Left
<1> QED  BY <1>1, <1>2

LEMMA SetPointGoes ==
  ASSUME NEW g, Sound(g), NEW idx \in Int, idx = -1 \/ idx \in 0..Size(g)
  PROVE  Goes(g, SetPoint(g, idx), IF idx = -1 THEN Size(g) ELSE idx)
<1>1. /\ g.point \in Nat /\ g.gap \in Nat /\ g.egap \in Nat /\ g.ebuf \in Nat
      /\ g.gap <= g.egap /\ g.egap <= g.ebuf
  BY SoundFacts
<1> DEFINE p == IF idx = -1 THEN g.ebuf
                ELSE IF idx > g.gap THEN idx + (g.egap - g.gap) ELSE idx
           c == IF idx = -1 THEN Size(g) ELSE idx
<1>2. SetPoint(g, idx) = [g EXCEPT !.point = p]
  BY DEF SetPoint
<1>3. p \in Nat /\ (p <= g.gap \/ (g.egap <= p /\ p <= g.ebuf))
      /\ c = (IF p < g.egap THEN p ELSE p - (g.egap - g.gap))
  BY <1>1 DEF Size
<1> HIDE DEF p, c
<1>4. Goes(g, SetPoint(g, idx), c)
  BY <1>2, <1>3, PointGoes
<1> QED  BY <1>4 DEF c

(* gb_reset_buf empties the line.                                          *)
LEMMA ResetClears ==
  ASSUME NEW g, Sound(g)
  PROVE  LET h == Reset(g) IN
         Sound(h) /\ Size(h) = 0 /\ Text(h) = <<>> /\ Cursor(h) = 0
<1> DEFINE mem == [k \in DOMAIN g.mem |-> IF k < g.ebuf THEN Blank ELSE g.mem[k]]
           h == Reset(g)
<1>1. g.ebuf \in Nat /\ 0..(g.ebuf - 1) \subseteq DOMAIN g.mem
  BY SoundFacts
<1>2. /\ DOMAIN h = DOMAIN g /\ h.mem = mem /\ h.point = 0 /\ h.gap = 0
      /\ h.egap = g.ebuf /\ h.ebuf = g.ebuf
  <2>1. h = [g EXCEPT !.mem = mem, !.point = 0, !.gap = 0, !.egap = g.ebuf]
    BY DEF Reset
  <2> HIDE DEF mem, h
  <2> QED  BY <2>1 DEF Sound, Fields
<1>3. DOMAIN mem = DOMAIN g.mem
  OBVIOUS
<1> HIDE DEF mem, h
<1>4. Sound(h)
  BY <1>1, <1>2, <1>3 DEF Sound, Ordered
<1>5. Size(h) = 0 /\ Cursor(h) = 0
  BY <1>1, <1>2 DEF Size, Cursor
<1>6. Text(h) = <<>>
  <2>1. IsStr(Text(h)) /\ Len(Text(h)) = 0
    BY <1>4, <1>5, TextFacts
  <2> QED  BY <2>1 DEF IsStr
<1> QED  BY <1>4, <1>5, <1>6 DEF h

(* gb_insert puts one character in the line.                               *)
LEMMA OneStr == ASSUME NEW c PROVE IsStr(<<c>>) /\ Len(<<c>>) = 1 /\ <<c>>[1] = c
<1>1. <<c>> \in Seq({c})
  OBVIOUS
<1> QED  BY <1>1 DEF IsStr

LEMMA InsertInserts ==
  ASSUME NEW g, Sound(g), NEW c PROVE Inserted(g, Insert(g, c), <<c>>)
<1> DEFINE m == MoveGap(g)
           e == IF m.gap = m.egap THEN ExpandGap(m, 1) ELSE m
<1>1. Moved(g, m)
  BY MoveGapMoves
<1>2. Insert(g, c) = Putc(e, c)
  BY DEF Insert
<1> HIDE DEF m
<1>3. Sound(e) /\ Alike(m, e) /\ e.point = e.gap /\ e.gap = m.gap /\ 1 <= e.egap - e.gap
  <2>1. m.gap \in Nat /\ m.egap \in Nat /\ m.gap <= m.egap /\ Sound(m) /\ m.point = m.gap
    BY <1>1, SoundFacts DEF Moved
  <2>2. CASE m.gap = m.egap
    BY <2>1, <2>2, GapExpanded
  <2>3. CASE m.gap # m.egap
    BY <2>1, <2>3 DEF Alike
  <2> QED  BY <2>2, <2>3
<1> HIDE DEF e
<1>4. Has(g, e, <<c>>, 0)
  BY <1>1, <1>3, OneStr, HasNone
<1>5. Has(g, Putc(e, c), <<c>>, 1)
  <2>1. 1 \in 1..Len(<<c>>) /\ Has(g, e, <<c>>, 1 - 1) /\ IsStr(<<c>>) /\ <<c>>[1] = c
    BY <1>4, OneStr
  <2>2. Has(g, Putc(e, <<c>>[1]), <<c>>, 1)
    BY <2>1, PutcHas
  <2> QED  BY <2>1, <2>2
<1>6. Inserted(g, Putc(e, c), <<c>>)
  BY <1>5, OneStr, HasAll
<1> QED  BY <1>2, <1>6

(* gb_del takes characters behind the cursor out of the line.              *)
Deleted(g, h, cnt) ==
  /\ Sound(h) /\ Size(h) = Size(g) - cnt /\ Cursor(h) = Cursor(g)
  /\ Text(h) = SubSeq(Text(g), 1, Cursor(g))
                 \o SubSeq(Text(g), Cursor(g) + cnt + 1, Len(Text(g)))

LEMMA DelDeletes ==
  ASSUME NEW g, Sound(g), NEW cnt \in Nat, Cursor(g) + cnt <= Size(g)
  PROVE  Deleted(g, Del(g, cnt), cnt)
<1> DEFINE m == MoveGap(g)
           h == Del(g, cnt)
           c == Cursor(g)
           a == SubSeq(Text(g), 1, c)
           b == SubSeq(Text(g), c + cnt + 1, Len(Text(g)))
<1>1. /\ Sound(m) /\ Alike(g, m) /\ m.point = m.gap /\ m.gap = c
      /\ m.ebuf = g.ebuf
  BY MoveGapMoves DEF Moved
<1>2. h = [m EXCEPT !.egap = m.egap + cnt]
  BY DEF Del
<1> HIDE DEF m, h
<1>3. /\ DOMAIN h = DOMAIN m /\ h.mem = m.mem /\ h.point = m.point /\ h.gap = m.gap
      /\ h.egap = m.egap + cnt /\ h.ebuf = m.ebuf
  BY <1>1, <1>2 DEF Sound, Fields
<1>4. /\ m.gap \in Nat /\ m.egap \in Nat /\ m.ebuf \in Nat /\ m.gap <= m.egap
      /\ m.egap <= m.ebuf /\ 0..(m.ebuf - 1) \subseteq DOMAIN m.mem /\ c \in Nat
      /\ Size(g) \in Nat /\ c <= Size(g) /\ Size(g) = m.gap + (m.ebuf - m.egap)
  BY <1>1, SoundFacts DEF Alike, Size
<1>5. c + cnt <= Size(g)
  OBVIOUS
<1> HIDE DEF c
<1>6. Sound(h)
  BY <1>1, <1>3, <1>4, <1>5 DEF Sound, Ordered
<1>7. Size(h) = Size(g) - cnt /\ Cursor(h) = c
  BY <1>1, <1>3, <1>4, <1>5 DEF Size, Cursor
<1>8. IsStr(Text(h)) /\ Len(Text(h)) = Size(g) - cnt
      /\ \A n \in 1..(Size(g) - cnt) : Text(h)[n] = At(h, n)
  BY <1>6, <1>7, TextFacts
<1>9. IsStr(Text(g)) /\ Len(Text(g)) = Size(g) /\ \A n \in 1..Size(g) : Text(g)[n] = At(m, n)
  BY <1>1, TextFacts DEF Alike
<1>10. \A n \in 1..c : At(h, n) = At(m, n)
  BY <1>1, <1>3, <1>4 DEF At
<1>11. ASSUME NEW n \in 1..(Size(g) - cnt), n > c PROVE At(h, n) = At(m, n + cnt)
  <2>1. /\ ~(n <= h.gap) /\ ~(n + cnt <= m.gap)
        /\ n - 1 + (h.egap - h.gap) = n + cnt - 1 + (m.egap - m.gap)
    BY <1>1, <1>3, <1>4, <1>11
  <2>2. At(h, n) = h.mem[n - 1 + (h.egap - h.gap)]
    BY <2>1 DEF At
  <2>3. At(m, n + cnt) = m.mem[n + cnt - 1 + (m.egap - m.gap)]
    BY <2>1 DEF At
  <2> QED  BY <1>3, <2>1, <2>2, <2>3
<1>12. IsStr(a) /\ Len(a) = c /\ \A n \in 1..c : a[n] = Text(g)[n]
  <2>1. /\ IsStr(a) /\ Len(a) = c - 1 + 1
        /\ \A n \in 1..(c - 1 + 1) : a[n] = Text(g)[1 + n - 1]
    BY <1>4, <1>9, StrPart
  <2>2. c - 1 + 1 = c /\ \A n \in 1..c : 1 + n - 1 = n
    BY <1>4
  <2> HIDE DEF a
  <2> QED  BY <2>1, <2>2
<1>13. IsStr(b) /\ Len(b) = Size(g) - (c + cnt)
       /\ \A n \in 1..(Size(g) - (c + cnt)) : b[n] = Text(g)[c + cnt + n]
  <2>0. /\ c + cnt + 1 \in Nat /\ Size(g) \in Nat /\ c + cnt + 1 >= 1
        /\ Size(g) <= Len(Text(g)) /\ c + cnt + 1 <= Size(g) + 1 /\ IsStr(Text(g))
        /\ Len(Text(g)) = Size(g)
    BY <1>4, <1>5, <1>9
  <2>1. /\ IsStr(b) /\ Len(b) = Size(g) - (c + cnt + 1) + 1
        /\ \A n \in 1..(Size(g) - (c + cnt + 1) + 1) : b[n] = Text(g)[c + cnt + 1 + n - 1]
    BY <2>0, StrPart
  <2>2. /\ Size(g) - (c + cnt + 1) + 1 = Size(g) - (c + cnt)
        /\ \A n \in Nat : c + cnt + 1 + n - 1 = c + cnt + n
    BY <1>4
  <2> HIDE DEF b
  <2> QED  BY <2>1, <2>2
<1> HIDE DEF a, b
<1>14. /\ IsStr(a \o b) /\ Len(a \o b) = Len(a) + Len(b)
       /\ \A n \in 1..c : (a \o b)[n] = a[n]
       /\ \A n \in 1..(Size(g) - (c + cnt)) : (a \o b)[c + n] = b[n]
  <2>1. IsStr(a) /\ IsStr(b) /\ Len(a) = c /\ Len(b) = Size(g) - (c + cnt)
    BY <1>12, <1>13
  <2>2. /\ IsStr(a \o b) /\ Len(a \o b) = Len(a) + Len(b)
        /\ \A n \in 1..Len(a) : (a \o b)[n] = a[n]
        /\ \A n \in 1..Len(b) : (a \o b)[Len(a) + n] = b[n]
    BY <2>1, StrJoin
  <2> QED  BY <2>1, <2>2
<1>15. Len(a \o b) = Size(g) - cnt
  BY <1>4, <1>12, <1>13, <1>14
<1>16. ASSUME NEW n \in 1..(Size(g) - cnt) PROVE Text(h)[n] = (a \o b)[n]
  <2>1. CASE n <= c
    <3>1. n \in 1..c /\ n \in 1..Size(g)
      BY <1>4, <2>1
    <3> QED  BY <1>8, <1>9, <1>10, <1>12, <1>14, <3>1
  <2>2. CASE n > c
    <3> DEFINE j == n - c
    <3>1. /\ j \in 1..(Size(g) - (c + cnt)) /\ c + j = n /\ c + cnt + j = n + cnt
          /\ n + cnt \in 1..Size(g)
      BY <1>4, <1>5, <2>2
    <3> HIDE DEF j
    <3>2. (a \o b)[c + j] = b[j] /\ b[j] = Text(g)[c + cnt + j]
      BY <1>13, <1>14, <3>1
    <3>3. Text(g)[n + cnt] = At(m, n + cnt) /\ Text(h)[n] = At(m, n + cnt)
      BY <1>8, <1>9, <1>11, <2>2, <3>1
    <3> QED  BY <3>1, <3>2, <3>3
  <2>3. n <= c \/ n > c
    BY <1>4
  <2> QED  BY <2>1, <2>2, <2>3
<1>17. Text(h) = a \o b
  BY <1>8, <1>14, <1>15, <1>16, StrSame
<1> QED  BY <1>6, <1>7, <1>17 DEF Deleted, h, a, b, c
-----------------------------------------------------------------------------
(* The characters on both sides of the cursor.                             *)
LEMMA CharIs ==
  ASSUME NEW g, Sound(g), Cursor(g) < Size(g)
  PROVE  Char(g) = Text(g)[Cursor(g) + 1]
<1>1. /\ g.point \in Nat /\ g.gap \in Nat /\ g.egap \in Nat /\ g.ebuf \in Nat
      /\ g.gap <= g.egap /\ g.egap <= g.ebuf
      /\ g.point <= g.gap \/ (g.egap <= g.point /\ g.point <= g.ebuf)
      /\ 0..(g.ebuf - 1) \subseteq DOMAIN g.mem
      /\ Cursor(g) \in Nat /\ Size(g) \in Nat
  BY SoundFacts
<1> DEFINE p == IF g.point = g.gap THEN g.egap ELSE g.point
<1>2. Get(g).point = p
  BY DEF Get, Sound, Fields
<1>3. p \in 0..(g.ebuf - 1)
  BY <1>1 DEF Cursor, Size
<1>4. Char(g) = g.mem[p]
  <2> HIDE DEF p
  <2> QED  BY <1>1, <1>2, <1>3 DEF Char
<1>5. At(g, Cursor(g) + 1) = g.mem[p]
  <2>1. CASE g.point < g.gap
    <3>1. Cursor(g) + 1 <= g.gap /\ (Cursor(g) + 1) - 1 = p
      BY <1>1, <2>1 DEF Cursor
    <3> QED  BY <3>1 DEF At
  <2>2. CASE ~(g.point < g.gap)
    <3>1. ~(Cursor(g) + 1 <= g.gap) /\ (Cursor(g) + 1) - 1 + (g.egap - g.gap) = p
      BY <1>1, <2>2 DEF Cursor
    <3> QED  BY <3>1 DEF At
  <2> QED  BY <2>1, <2>2
<1>6. Cursor(g) + 1 \in 1..Size(g)
  BY <1>1
<1> QED  BY <1>4, <1>5, <1>6, TextFacts

LEMMA PrevCharIs ==
  ASSUME NEW g, Sound(g), Cursor(g) # 0
  PROVE  PrevChar(g) = Text(g)[Cursor(g)]
<1>1. /\ g.point \in Nat /\ g.gap \in Nat /\ g.egap \in Nat /\ g.ebuf \in Nat
      /\ g.gap <= g.egap /\ g.egap <= g.ebuf
      /\ g.point <= g.gap \/ (g.egap <= g.point /\ g.point <= g.ebuf)
      /\ Cursor(g) \in Nat /\ Size(g) \in Nat /\ Cursor(g) <= Size(g)
  BY SoundFacts
<1> DEFINE p == IF g.point = g.egap THEN g.gap ELSE g.point
<1>2. GetPrev(g).point = p
  BY DEF GetPrev, Sound, Fields
<1>3. p # 0
  BY <1>1 DEF Cursor
<1>4. PrevChar(g) = g.mem[p - 1]
  <2> HIDE DEF p
  <2> QED  BY <1>2, <1>3 DEF PrevChar
<1>5. At(g, Cursor(g)) = g.mem[p - 1]
  <2>1. CASE g.point <= g.gap \/ g.point = g.egap
    <3>1. Cursor(g) = p /\ p <= g.gap
      BY <1>1, <2>1 DEF Cursor
    <3> HIDE DEF p
    <3> QED  BY <3>1 DEF At
  <2>2. CASE ~(g.point <= g.gap \/ g.point = g.egap)
    <3>1. ~(Cursor(g) <= g.gap) /\ Cursor(g) - 1 + (g.egap - g.gap) = p - 1
      BY <1>1, <2>2 DEF Cursor
    <3> QED  BY <3>1 DEF At
  <2> QED  BY <2>1, <2>2
<1>6. Cursor(g) \in 1..Size(g)
  BY <1>1
<1> QED  BY <1>4, <1>5, <1>6, TextFacts

(* Where the point is between words.                                       *)
IsStart(t, n) == n = 0 \/ t[n] = Blank
IsEnd(t, n)   == n = Len(t) \/ t[n + 1] = Blank

(* One round of key_word_left: a character back; it ends at a start.       *)
LEMMA LeftRound ==
  ASSUME NEW g, Sound(g)
  PROVE  LET l == GetPrev(Left(g))
             c == IF Cursor(g) = 0 THEN 0 ELSE Cursor(g) - 1 IN
         /\ Goes(g, l, c)
         /\ (PrevChar(Left(g)) = Blank \/ AtStart(l)) <=> IsStart(Text(g), c)
<1> DEFINE h == Left(g)
           l == GetPrev(h)
           c == IF Cursor(g) = 0 THEN 0 ELSE Cursor(g) - 1
<1>1. Goes(g, h, c)
  BY LeftGoes
<1> HIDE DEF h, c
<1>2. Goes(h, l, c)
  BY <1>1, GetPrevGoes DEF Goes
<1>3. Goes(g, l, c)
  BY <1>1, <1>2 DEF Goes
<1>4. CASE c = 0
  <2>1. l.point = 0
    <3>1. /\ h.point \in Nat /\ h.gap \in Nat /\ h.egap \in Nat /\ h.gap <= h.egap
          /\ Cursor(h) = 0 /\ (h.point <= h.gap \/ h.egap <= h.point) /\ Sound(h)
      BY <1>1, <1>4, SoundFacts DEF Goes
    <3>2. l.point = IF h.point = h.egap THEN h.gap ELSE h.point
      BY <3>1 DEF GetPrev, Sound, Fields
    <3> QED  BY <3>1, <3>2 DEF Cursor
  <2> HIDE DEF l
  <2> QED  BY <1>3, <1>4, <2>1 DEF AtStart, IsStart, l, h, c
<1>5. CASE c # 0
  <2>1. PrevChar(h) = Text(g)[c]
    BY <1>1, <1>5, PrevCharIs DEF Goes
  <2> HIDE DEF l
  <2>2. ~AtStart(l)
    BY <1>2, <1>5, StartIsStart DEF Goes
  <2> QED  BY <1>3, <1>5, <2>1, <2>2 DEF IsStart, l, h, c
<1> QED  BY <1>4, <1>5

(* One round of key_word_right: a character on; short of the end of the    *)
(* line it ends before a blank.                                            *)
LEMMA RightRound ==
  ASSUME NEW g, Sound(g)
  PROVE  LET r == Get(Right(g))
             c == IF Cursor(g) = Size(g) THEN Cursor(g) ELSE Cursor(g) + 1 IN
         /\ Goes(g, r, c)
         /\ c # Size(g) => (Char(Right(g)) = Blank <=> Text(g)[c + 1] = Blank)
<1> DEFINE h == Right(g)
           r == Get(h)
           c == IF Cursor(g) = Size(g) THEN Cursor(g) ELSE Cursor(g) + 1
<1>0. c \in Nat /\ c <= Size(g) /\ Size(g) \in Nat
  BY SoundFacts
<1>1. Goes(g, h, c)
  BY RightGoes
<1> HIDE DEF h, c
<1>2. Goes(g, r, c)
  BY <1>1, GetGoes DEF Goes
<1>3. ASSUME c # Size(g) PROVE Char(h) = Text(g)[c + 1]
  <2>1. Sound(h) /\ Cursor(h) = c /\ Size(h) = Size(g) /\ Text(h) = Text(g)
    BY <1>1 DEF Goes
  <2>2. Cursor(h) < Size(h)
    BY <1>0, <1>3, <2>1
  <2> QED  BY <2>1, <2>2, CharIs
<1> QED  BY <1>2, <1>3 DEF h, r, c

LEMMA EndIsEnd == ASSUME NEW g, Sound(g), AtEnd(g) PROVE Cursor(g) = Size(g)
BY SoundFacts DEF AtEnd, Cursor, Size

(* The loops of key_word_left and key_word_right, round by round.          *)
LoopRuns(f, way) ==
  /\ f[0] = [g |-> gb, done |-> FALSE]
  /\ \A n \in 1..(Len(Text(gb)) + 1) :
       f[n] = IF f[n - 1].done THEN f[n - 1] ELSE Round(way, f[n - 1].g)

LEMMA LoopIs ==
  ASSUME NEW f, Sound(gb), NEW way \in {"left", "right"}, 
         f = [n \in Rounds |-> IF n = 0 THEN [g |-> gb, done |-> FALSE]
                               ELSE IF f[n - 1].done THEN f[n - 1]
                               ELSE Round(way, f[n - 1].g)]
  PROVE  LoopRuns(f, way)
<1>1. Len(Text(gb)) \in Nat
  BY TextFacts, StrLen
<1>2. 0 \in Rounds /\ \A n \in 1..(Len(Text(gb)) + 1) : n \in Rounds /\ n # 0
  BY <1>1 DEF Rounds
<1> DEFINE b(n) == IF n = 0 THEN [g |-> gb, done |-> FALSE]
                   ELSE IF f[n - 1].done THEN f[n - 1]
                   ELSE Round(way, f[n - 1].g)
<1>3. \A n \in Rounds : f[n] = b(n)
  <2> DEFINE h == [n \in Rounds |-> b(n)]
  <2>1. f = h
    OBVIOUS
  <2>2. \A n \in Rounds : h[n] = b(n)
    <3> HIDE DEF b
    <3> QED  OBVIOUS
  <2> HIDE DEF h, b
  <2> QED  BY <2>1, <2>2
<1> QED  BY <1>2, <1>3 DEF LoopRuns

LEMMA LoopExists ==
  ASSUME Sound(gb), NEW way \in {"left", "right"}
  PROVE  \E f : f = [n \in Rounds |-> IF n = 0 THEN [g |-> gb, done |-> FALSE]
                                      ELSE IF f[n - 1].done THEN f[n - 1]
                                      ELSE Round(way, f[n - 1].g)]
<1>1. Len(Text(gb)) + 1 \in Nat
  BY TextFacts, StrLen
<1>2. PICK f : Runs(f, way, [g |-> gb, done |-> FALSE], <<>>, Len(Text(gb)) + 1)
  BY <1>1, RunsExists
<1>3. f = [n \in 0..(Len(Text(gb)) + 1) |->
             IF n = 0 THEN [g |-> gb, done |-> FALSE]
             ELSE IF f[n - 1].done THEN f[n - 1] ELSE Round(way, f[n - 1].g)]
  <2>1. way # "put"
    OBVIOUS
  <2> QED  BY <1>2, <2>1 DEF Runs, StepTo
<1> QED  BY <1>3 DEF Rounds

(* Where the words begin and end.                                          *)
LEMMA WordStartIs ==
  ASSUME NEW c \in Nat, Cursor(gb) \in Nat, c < Cursor(gb), IsStart(Text(gb), c),
         \A m \in (c + 1)..(Cursor(gb) - 1) : ~IsStart(Text(gb), m)
  PROVE  L!WordStart = c
<1> DEFINE starts == {n \in 0..(Cursor(gb) - 1) : n = 0 \/ Text(gb)[n] = Blank}
<1>1. c \in starts
  BY DEF IsStart
<1>2. \A m \in starts : m <= c
  <2>1. \A m \in starts : m \in Nat /\ m <= Cursor(gb) - 1 /\ IsStart(Text(gb), m)
    BY DEF IsStart
  <2> HIDE DEF starts
  <2> QED  BY <2>1
<1>3. \A n \in starts : (\A m \in starts : m <= n) => n = c
  <2>1. \A n \in starts : n \in Nat
    OBVIOUS
  <2> HIDE DEF starts
  <2> QED  BY <1>1, <1>2, <2>1
<1>4. L!WordStart = IF starts = {} THEN 0 ELSE CHOOSE n \in starts : \A m \in starts : m <= n
  BY Zenon DEF L!WordStart, Blank
<1> HIDE DEF starts
<1>5. (CHOOSE n \in starts : \A m \in starts : m <= n) = c
  BY <1>1, <1>2, <1>3
<1> QED  BY <1>1, <1>4, <1>5

LEMMA WordStartNone == ASSUME Cursor(gb) = 0 PROVE L!WordStart = 0
BY DEF L!WordStart

LEMMA WordEndIs ==
  ASSUME NEW c \in Nat, Cursor(gb) \in Nat, Cursor(gb) <= c, Len(Text(gb)) \in Nat,
         c <= Len(Text(gb)), c # Len(Text(gb)) => c > Cursor(gb),
         IsEnd(Text(gb), c),
         \A m \in (Cursor(gb) + 1)..(c - 1) : ~IsEnd(Text(gb), m)
  PROVE  L!WordEnd = c
<1> DEFINE ends == {n \in (Cursor(gb) + 1)..Len(Text(gb)) :
                      n = Len(Text(gb)) \/ Text(gb)[n + 1] = Blank}
<1>1. L!WordEnd = IF ends = {} THEN Len(Text(gb))
                  ELSE CHOOSE n \in ends : \A m \in ends : n <= m
  BY Zenon DEF L!WordEnd, Blank
<1>2. CASE c = Cursor(gb)
  <2>1. ends = {} /\ c = Len(Text(gb))
    BY <1>2
  <2> HIDE DEF ends
  <2> QED  BY <1>1, <2>1
<1>3. CASE c # Cursor(gb)
  <2>1. c \in ends
    BY <1>3 DEF IsEnd
  <2>2. \A m \in ends : m \in Nat /\ c <= m
    <3>1. \A m \in ends : m \in Nat /\ m >= Cursor(gb) + 1 /\ IsEnd(Text(gb), m)
      BY DEF IsEnd
    <3> HIDE DEF ends
    <3> QED  BY <3>1
  <2> HIDE DEF ends
  <2>3. \A n \in ends : (\A m \in ends : n <= m) => n = c
    BY <2>1, <2>2
  <2>4. (CHOOSE n \in ends : \A m \in ends : n <= m) = c
    BY <2>1, <2>2, <2>3
  <2> QED  BY <1>1, <2>1, <2>4
<1> QED  BY <1>2, <1>3

(* After n rounds of key_word_left.                                        *)
BackN(x, n) ==
  \/ x.done = TRUE /\ Goes(gb, x.g, L!WordStart)
  \/ /\ x.done = FALSE /\ n <= Cursor(gb) /\ Goes(gb, x.g, Cursor(gb) - n)
     /\ \A m \in (Cursor(gb) - n)..(Cursor(gb) - 1) : ~IsStart(Text(gb), m)

LEMMA BackStep ==
  ASSUME Sound(gb), NEW x, NEW n \in Nat, BackN(x, n)
  PROVE  BackN(IF x.done THEN x ELSE Round("left", x.g), n + 1)
<1>1. CASE x.done = TRUE
  BY <1>1 DEF BackN
<1>2. CASE x.done = FALSE
  <2> DEFINE l == GetPrev(Left(x.g))
             c0 == Cursor(gb)
             c == IF Cursor(x.g) = 0 THEN 0 ELSE Cursor(x.g) - 1
             y == Round("left", x.g)
  <2>1. /\ n <= c0 /\ Goes(gb, x.g, c0 - n)
        /\ \A m \in (c0 - n)..(c0 - 1) : ~IsStart(Text(gb), m)
    BY <1>2 DEF BackN
  <2>2. /\ Goes(x.g, l, c)
        /\ (PrevChar(Left(x.g)) = Blank \/ AtStart(l)) <=> IsStart(Text(x.g), c)
    BY <2>1, LeftRound DEF Goes
  <2>3. y.g = l /\ y.done = (PrevChar(Left(x.g)) = Blank \/ AtStart(l))
    BY DEF Round
  <2> HIDE DEF l, y
  <2>4. Goes(gb, y.g, c) /\ y.done \in BOOLEAN /\ (y.done <=> IsStart(Text(gb), c))
    <3>1. Text(x.g) = Text(gb)
      BY <2>1 DEF Goes
    <3> HIDE DEF c
    <3>2. Goes(gb, y.g, c)
      BY <2>1, <2>2, <2>3 DEF Goes
    <3> QED  BY <2>2, <2>3, <3>1, <3>2 DEF IsStart
  <2>5. c0 \in Nat /\ Cursor(x.g) = c0 - n
    BY <2>1, SoundFacts DEF Goes
  <2>6. CASE IsStart(Text(gb), c)
    <3>1. c = L!WordStart
      <4>1. CASE c0 = 0
        <5>1. c = 0
          BY <2>1, <2>5, <4>1
        <5> QED  BY <4>1, <5>1, WordStartNone
      <4>2. CASE c0 # 0
        <5>1. n < c0
          <6>1. n # c0
            <7> SUFFICES ASSUME n = c0 PROVE FALSE
              OBVIOUS
            <7>1. 0 \in (c0 - n)..(c0 - 1)
              BY <2>5, <4>2
            <7>2. IsStart(Text(gb), 0)
              BY DEF IsStart
            <7> HIDE DEF c0
            <7> QED  BY <2>1, <7>1, <7>2
          <6> QED  BY <2>1, <2>5, <6>1
        <5>2. c \in Nat /\ c < c0 /\ c + 1 = c0 - n
          BY <2>5, <5>1
        <5> HIDE DEF c
        <5>3. \A m \in (c + 1)..(Cursor(gb) - 1) : ~IsStart(Text(gb), m)
          BY <2>1, <5>2
        <5> QED  BY <2>5, <2>6, <5>2, <5>3, WordStartIs
      <4> QED  BY <4>1, <4>2
    <3> HIDE DEF c
    <3> QED  BY <1>2, <2>4, <2>6, <3>1 DEF BackN, y
  <2>7. CASE ~IsStart(Text(gb), c)
    <3>1. c # 0 /\ Cursor(x.g) # 0
      BY <2>7 DEF IsStart
    <3>2. c = c0 - (n + 1) /\ n + 1 <= c0
      BY <2>1, <2>5, <3>1
    <3> HIDE DEF c
    <3>3. ASSUME NEW m \in (c0 - (n + 1))..(c0 - 1) PROVE ~IsStart(Text(gb), m)
      <4>1. m = c \/ m \in (c0 - n)..(c0 - 1)
        BY <2>5, <3>2
      <4> QED  BY <2>1, <2>7, <4>1
    <3> QED  BY <1>2, <2>4, <2>7, <3>2, <3>3 DEF BackN, y
  <2> QED  BY <2>6, <2>7
<1> QED  BY <1>1, <1>2 DEF BackN

(* Mutatis mutandis, of key_word_right.                                    *)
OnN(x, n) ==
  \/ x.done = TRUE /\ Goes(gb, x.g, L!WordEnd)
  \/ /\ x.done = FALSE
     /\ \E c \in Nat :
          /\ c = (IF Cursor(gb) + n <= Size(gb) THEN Cursor(gb) + n ELSE Size(gb))
          /\ Goes(gb, x.g, c)
          /\ \A m \in (Cursor(gb) + 1)..c : m # Size(gb) => ~IsEnd(Text(gb), m)

LEMMA OnStep ==
  ASSUME Sound(gb), NEW x, NEW n \in Nat, OnN(x, n)
  PROVE  OnN(IF x.done THEN x ELSE Round("right", x.g), n + 1)
<1>0. /\ Len(Text(gb)) = Size(gb) /\ Size(gb) \in Nat /\ Cursor(gb) \in Nat
      /\ Cursor(gb) <= Size(gb)
  BY TextFacts, SoundFacts
<1>1. CASE x.done = TRUE
  BY <1>1 DEF OnN
<1>2. CASE x.done = FALSE
  <2> DEFINE r == Get(Right(x.g))
             c0 == Cursor(gb)
             d == IF Cursor(x.g) = Size(x.g) THEN Cursor(x.g) ELSE Cursor(x.g) + 1
             y == Round("right", x.g)
  <2>1. PICK c \in Nat :
          /\ c = (IF c0 + n <= Size(gb) THEN c0 + n ELSE Size(gb))
          /\ Goes(gb, x.g, c)
          /\ \A m \in (c0 + 1)..c : m # Size(gb) => ~IsEnd(Text(gb), m)
    BY <1>2 DEF OnN
  <2>2. Sound(x.g) /\ Cursor(x.g) = c /\ Size(x.g) = Size(gb) /\ Text(x.g) = Text(gb)
    BY <2>1 DEF Goes
  <2>3. IsEnd(Text(gb), Size(gb))
    BY <1>0 DEF IsEnd
  <2>4. CASE AtEnd(x.g)
    <3>1. y = [g |-> x.g, done |-> TRUE]
      BY <2>4 DEF Round
    <3>2. c = Size(gb)
      BY <2>2, <2>4, EndIsEnd
    <3>3. L!WordEnd = c
      <4>1. \A m \in (c0 + 1)..(c - 1) : ~IsEnd(Text(gb), m)
        BY <1>0, <2>1, <3>2
      <4> QED  BY <1>0, <2>3, <3>2, <4>1, WordEndIs
    <3>4. y.done = TRUE /\ Goes(gb, y.g, L!WordEnd)
      BY <2>1, <3>1, <3>3
    <3> HIDE DEF y
    <3> QED  BY <1>2, <3>4 DEF OnN, y
  <2>5. CASE ~AtEnd(x.g)
    <3>1. /\ Goes(x.g, r, d)
          /\ d # Size(x.g) => (Char(Right(x.g)) = Blank <=> Text(x.g)[d + 1] = Blank)
      BY <2>2, RightRound
    <3>2. y = [g |-> r, done |-> Char(Right(x.g)) = Blank]
      BY <2>5 DEF Round
    <3>3. d \in Nat /\ d <= Size(gb)
          /\ d = (IF c0 + (n + 1) <= Size(gb) THEN c0 + (n + 1) ELSE Size(gb))
          /\ (d # Size(gb) => d = c + 1 /\ d > c0) /\ c0 <= d
          /\ (d = c + 1 \/ (d = c /\ c = Size(gb)))
      <4>1. d = IF c = Size(gb) THEN c ELSE c + 1
        BY <2>2
      <4> HIDE DEF d
      <4> QED  BY <1>0, <2>1, <4>1
    <3> HIDE DEF r, d, y
    <3>4. Goes(gb, y.g, d) /\ y.done \in BOOLEAN
          /\ (d # Size(gb) => (y.done <=> IsEnd(Text(gb), d)))
      <4>1. y.g = r /\ y.done = (Char(Right(x.g)) = Blank)
        BY <3>2
      <4>2. Goes(gb, r, d)
        BY <2>2, <3>1 DEF Goes
      <4>3. ASSUME d # Size(gb) PROVE y.done <=> IsEnd(Text(gb), d)
        BY <1>0, <2>2, <3>1, <4>1, <4>3 DEF IsEnd
      <4> QED  BY <4>1, <4>2, <4>3
    <3>5. \A m \in (c0 + 1)..(d - 1) : ~IsEnd(Text(gb), m)
      <4>1. ASSUME NEW m \in (c0 + 1)..(d - 1) PROVE ~IsEnd(Text(gb), m)
        <5>1. m \in (c0 + 1)..c /\ m # Size(gb)
          BY <1>0, <2>1, <3>3
        <5> QED  BY <2>1, <5>1
      <4> QED  BY <4>1
    <3>6. CASE y.done = TRUE
      <4>1. IsEnd(Text(gb), d)
        BY <2>3, <3>4, <3>6
      <4>2. L!WordEnd = d
        BY <1>0, <3>3, <3>5, <4>1, WordEndIs
      <4> QED  BY <1>2, <3>4, <3>6, <4>2 DEF OnN, y
    <3>7. CASE y.done = FALSE
      <4>1. ASSUME NEW m \in (c0 + 1)..d, m # Size(gb) PROVE ~IsEnd(Text(gb), m)
        <5>1. m = d \/ m \in (c0 + 1)..(d - 1)
          BY <1>0, <3>3
        <5> QED  BY <3>4, <3>5, <3>7, <4>1, <5>1
      <4>2. OnN(y, n + 1)
        BY <3>3, <3>4, <3>7, <4>1 DEF OnN
      <4> QED  BY <1>2, <4>2 DEF y
    <3> QED  BY <3>4, <3>6, <3>7
  <2> QED  BY <2>4, <2>5
<1> QED  BY <1>1, <1>2 DEF OnN

(* Both keys go where Line says.                                           *)
LEMMA WordLeftGoes ==
  ASSUME Sound(gb), WordLeft
  PROVE  Goes(gb, gb', L!WordStart) /\ put' = <<>>
<1> DEFINE N == Len(Text(gb)) + 1
           run == CHOOSE f : f = [n \in Rounds |-> IF n = 0 THEN [g |-> gb, done |-> FALSE]
                                 ELSE IF f[n - 1].done THEN f[n - 1]
                                 ELSE Round("left", f[n - 1].g)]
<1>0. N \in Nat /\ Len(Text(gb)) = Size(gb) /\ Cursor(gb) \in Nat /\ Cursor(gb) < N
  BY TextFacts, SoundFacts
<1>1. gb' = run[N].g /\ put' = <<>>
  BY DEF WordLeft, Edit, Loop, Round
<1>2. run = [n \in Rounds |-> IF n = 0 THEN [g |-> gb, done |-> FALSE]
              ELSE IF run[n - 1].done THEN run[n - 1] ELSE Round("left", run[n - 1].g)]
  BY LoopExists
<1> HIDE DEF run
<1>3. LoopRuns(run, "left")
  BY <1>2, LoopIs
<1> DEFINE K == {n \in Nat : n <= N => BackN(run[n], n)}
<1>4. 0 \in K
  <2>1. run[0] = [g |-> gb, done |-> FALSE]
    BY <1>3 DEF LoopRuns
  <2>2. run[0].g = gb /\ run[0].done = FALSE
    BY <2>1
  <2>3. Goes(gb, gb, Cursor(gb) - 0)
    BY <1>0, GoesNowhere
  <2>4. \A m \in (Cursor(gb) - 0)..(Cursor(gb) - 1) : ~IsStart(Text(gb), m)
    BY <1>0
  <2>5. BackN(run[0], 0)
    BY <1>0, <2>2, <2>3, <2>4 DEF BackN
  <2> QED  BY <2>5
<1>5. ASSUME NEW n \in K PROVE n + 1 \in K
  <2>1. n \in Nat /\ n + 1 \in Nat /\ (n + 1) - 1 = n
    OBVIOUS
  <2> SUFFICES ASSUME n + 1 <= N PROVE BackN(run[n + 1], n + 1)
    BY <2>1
  <2>2. n + 1 \in 1..(Len(Text(gb)) + 1) /\ n <= N
    BY <1>0, <2>1
  <2>3. run[n + 1] = IF run[(n + 1) - 1].done THEN run[(n + 1) - 1]
                    ELSE Round("left", run[(n + 1) - 1].g)
    BY <1>3, <2>2 DEF LoopRuns
  <2>4. BackN(run[n], n)
    BY <2>2
  <2> QED  BY <2>1, <2>3, <2>4, BackStep
<1>6. BackN(run[N], N)
  <2>1. K \in SUBSET Nat
    OBVIOUS
  <2> HIDE DEF K
  <2>2. N \in K
    BY <1>0, <1>4, <1>5, <2>1, NatInd
  <2> QED  BY <1>0, <2>2 DEF K
<1>7. Goes(gb, run[N].g, L!WordStart)
  BY <1>0, <1>6 DEF BackN
<1> QED  BY <1>1, <1>7

LEMMA WordRightGoes ==
  ASSUME Sound(gb), WordRight
  PROVE  Goes(gb, gb', L!WordEnd) /\ put' = <<>>
<1> DEFINE N == Len(Text(gb)) + 1
           run == CHOOSE f : f = [n \in Rounds |-> IF n = 0 THEN [g |-> gb, done |-> FALSE]
                                 ELSE IF f[n - 1].done THEN f[n - 1]
                                 ELSE Round("right", f[n - 1].g)]
<1>0. N \in Nat /\ Len(Text(gb)) = Size(gb) /\ Cursor(gb) \in Nat /\ Cursor(gb) < N
      /\ Cursor(gb) <= Size(gb) /\ Size(gb) \in Nat
  BY TextFacts, SoundFacts
<1>1. gb' = run[N].g /\ put' = <<>>
  BY DEF WordRight, Edit, Loop, Round
<1>2. run = [n \in Rounds |-> IF n = 0 THEN [g |-> gb, done |-> FALSE]
              ELSE IF run[n - 1].done THEN run[n - 1] ELSE Round("right", run[n - 1].g)]
  BY LoopExists
<1> HIDE DEF run
<1>3. LoopRuns(run, "right")
  BY <1>2, LoopIs
<1> DEFINE K == {n \in Nat : n <= N => OnN(run[n], n)}
<1>4. 0 \in K
  <2>1. run[0] = [g |-> gb, done |-> FALSE]
    BY <1>3 DEF LoopRuns
  <2>2. run[0].g = gb /\ run[0].done = FALSE
    BY <2>1
  <2>3. Goes(gb, gb, Cursor(gb))
    BY GoesNowhere
  <2>4. /\ \A m \in (Cursor(gb) + 1)..Cursor(gb) : m # Size(gb) => ~IsEnd(Text(gb), m)
        /\ Cursor(gb) = (IF Cursor(gb) + 0 <= Size(gb) THEN Cursor(gb) + 0 ELSE Size(gb))
    BY <1>0
  <2>5. OnN(run[0], 0)
    BY <1>0, <2>2, <2>3, <2>4 DEF OnN
  <2> QED  BY <2>5
<1>5. ASSUME NEW n \in K PROVE n + 1 \in K
  <2>1. n \in Nat /\ n + 1 \in Nat /\ (n + 1) - 1 = n
    OBVIOUS
  <2> SUFFICES ASSUME n + 1 <= N PROVE OnN(run[n + 1], n + 1)
    BY <2>1
  <2>2. n + 1 \in 1..(Len(Text(gb)) + 1) /\ n <= N
    BY <1>0, <2>1
  <2>3. run[n + 1] = IF run[(n + 1) - 1].done THEN run[(n + 1) - 1]
                    ELSE Round("right", run[(n + 1) - 1].g)
    BY <1>3, <2>2 DEF LoopRuns
  <2>4. OnN(run[n], n)
    BY <2>2
  <2> QED  BY <2>1, <2>3, <2>4, OnStep
<1>6. OnN(run[N], N)
  <2>1. K \in SUBSET Nat
    OBVIOUS
  <2> HIDE DEF K
  <2>2. N \in K
    BY <1>0, <1>4, <1>5, <2>1, NatInd
  <2> QED  BY <1>0, <2>2 DEF K
<1>7. Goes(gb, run[N].g, L!WordEnd)
  <2>1. CASE run[N].done = FALSE
    <3>1. PICK c \in Nat :
            /\ c = (IF Cursor(gb) + N <= Size(gb) THEN Cursor(gb) + N ELSE Size(gb))
            /\ Goes(gb, run[N].g, c)
            /\ \A m \in (Cursor(gb) + 1)..c : m # Size(gb) => ~IsEnd(Text(gb), m)
      BY <1>6, <2>1 DEF OnN
    <3>2. c = Size(gb)
      BY <1>0, <3>1
    <3>3. \A m \in (Cursor(gb) + 1)..(c - 1) : ~IsEnd(Text(gb), m)
      <4>1. \A m \in (Cursor(gb) + 1)..(c - 1) : m \in (Cursor(gb) + 1)..c /\ m # Size(gb)
        BY <1>0, <3>2
      <4> QED  BY <3>1, <4>1
    <3>4. IsEnd(Text(gb), c)
      BY <1>0, <3>2 DEF IsEnd
    <3> HIDE DEF N
    <3>5. L!WordEnd = c
      BY <1>0, <3>2, <3>3, <3>4, WordEndIs
    <3> QED  BY <3>1, <3>5
  <2> HIDE DEF N
  <2> QED  BY <1>6, <2>1 DEF OnN
<1> QED  BY <1>1, <1>7
-----------------------------------------------------------------------------
(* A part of a string is a string, whatever its ends.                      *)
LEMMA AnyPart ==
  ASSUME NEW s, NEW i \in Int, NEW j \in Int PROVE IsStr(SubSeq(s, i, j))
<1> DEFINE N == IF j - i + 1 \in Nat THEN j - i + 1 ELSE 0
           t == SubSeq(s, i, j)
<1>1. N \in Nat /\ 1..(j - i + 1) = 1..N
  OBVIOUS
<1>2. t = [n \in 1..(j - i + 1) |-> s[i + n - 1]]
  BY DEF SubSeq
<1> HIDE DEF N, t
<1>3. t = [n \in 1..N |-> t[n]]
  BY <1>1, <1>2
<1>4. IsStr(t)
  BY <1>1, <1>3, StrMade
<1> QED  BY <1>4 DEF t

LEMMA NoStr == IsStr(<<>>) /\ Len(<<>>) = 0
BY DEF IsStr

LEMMA EmptyStr == ASSUME NEW s, IsStr(s), Len(s) = 0 PROVE s = <<>>
BY DEF IsStr

(* A set of numbers up to N that is not empty has a least and a greatest.  *)
LEMMA LeastAndGreatest ==
  ASSUME NEW N \in Nat, NEW S \in SUBSET 1..N, S # {}
  PROVE  /\ \E n \in S : \A m \in S : n <= m
         /\ \E n \in S : \A m \in S : m <= n
<1>1. PICK x \in S : \A y \in S : <<y, x>> \notin Less
  <2>1. S \subseteq Nat
    OBVIOUS
  <2> QED  BY <2>1, LessFounded, WFMin
<1>2. \A y \in S : x <= y
  <2> SUFFICES ASSUME NEW y \in S PROVE x <= y
    OBVIOUS
  <2>1. x \in Nat /\ y \in Nat
    OBVIOUS
  <2>2. ~(y < x)
    BY <1>1, <2>1 DEF Less
  <2> QED  BY <2>1, <2>2
<1> DEFINE T == {N - n : n \in S}
<1>3. T \subseteq Nat /\ T # {}
  <2>1. ASSUME NEW n \in S PROVE N - n \in Nat
    OBVIOUS
  <2>2. PICK n \in S : TRUE
    OBVIOUS
  <2>3. N - n \in T
    OBVIOUS
  <2> QED  BY <2>1, <2>3
<1>4. PICK z \in T : \A y \in T : <<y, z>> \notin Less
  <2> HIDE DEF T
  <2> QED  BY <1>3, LessFounded, WFMin
<1>5. PICK n \in S : z = N - n
  OBVIOUS
<1>6. ASSUME NEW m \in S PROVE m <= n
  <2>1. N - m \in T /\ N - m \in Nat /\ N - n \in Nat
    OBVIOUS
  <2>2. ~(N - m < N - n)
    <3> HIDE DEF T
    <3> QED  BY <1>4, <1>5, <2>1 DEF Less
  <2> QED  BY <2>2
<1> QED  BY <1>2, <1>6

(* rte_strtrim: what is left is a string, and there is something left of   *)
(* a line that is not blank.                                               *)
LEMMA TrimStr == ASSUME NEW s, IsStr(s) PROVE IsStr(Trim(s))
<1> DEFINE full == {n \in 1..Len(s) : s[n] # Blank}
           a == CHOOSE n \in full : \A m \in full : n <= m
           b == CHOOSE n \in full : \A m \in full : m <= n
<1>1. Trim(s) = IF full = {} THEN <<>> ELSE SubSeq(s, a, b)
  BY DEF Trim
<1>2. CASE full = {}
  BY <1>1, <1>2, NoStr
<1>3. CASE full # {}
  <2>1. Len(s) \in Nat /\ full \in SUBSET (1..Len(s))
    BY StrLen
  <2> HIDE DEF full
  <2>2. /\ \E n \in full : \A m \in full : n <= m
        /\ \E n \in full : \A m \in full : m <= n
    BY <1>3, <2>1, LeastAndGreatest
  <2>3. a \in full /\ b \in full
    BY <2>2
  <2>4. a \in Int /\ b \in Int
    <3> HIDE DEF a, b
    <3> QED  BY <2>1, <2>3
  <2> HIDE DEF a, b
  <2> QED  BY <1>1, <1>3, <2>4, AnyPart
<1> QED  BY <1>2, <1>3

LEMMA TrimSome ==
  ASSUME NEW s, IsStr(s), NEW k \in 1..Len(s), s[k] # Blank
  PROVE  Trim(s) # <<>>
<1> DEFINE full == {n \in 1..Len(s) : s[n] # Blank}
           a == CHOOSE n \in full : \A m \in full : n <= m
           b == CHOOSE n \in full : \A m \in full : m <= n
<1>1. Trim(s) = IF full = {} THEN <<>> ELSE SubSeq(s, a, b)
  BY DEF Trim
<1>2. Len(s) \in Nat /\ full \in SUBSET (1..Len(s)) /\ full # {}
  BY StrLen
<1> HIDE DEF full
<1>3. /\ \E n \in full : \A m \in full : n <= m
      /\ \E n \in full : \A m \in full : m <= n
  BY <1>2, LeastAndGreatest
<1>4. a \in full /\ b \in full /\ a <= b
  BY <1>3
<1> HIDE DEF a, b
<1>5. a \in Nat /\ b \in Nat /\ a >= 1 /\ b <= Len(s) /\ a <= b + 1
  BY <1>2, <1>4
<1>6. Len(SubSeq(s, a, b)) = b - a + 1
  BY <1>5, StrPart
<1>7. b - a + 1 # 0
  BY <1>4, <1>5
<1> QED  BY <1>1, <1>2, <1>6, <1>7, NoStr

LEMMA TrimNone ==
  ASSUME NEW s, IsStr(s), Trim(s) # <<>>
  PROVE  \E k \in 1..Len(s) : s[k] # Blank
BY DEF Trim

(* What is not blank in a line is still there when more is put in.         *)
LEMMA InsertedSome ==
  ASSUME NEW g, Sound(g), NEW h, NEW str, IsStr(str), Inserted(g, h, str),
         Trim(Text(g)) # <<>>
  PROVE  Trim(Text(h)) # <<>>
<1> DEFINE c == Cursor(g)
           a == SubSeq(Text(g), 1, c)
           b == SubSeq(Text(g), c + 1, Len(Text(g)))
           l == Len(str)
<1>1. /\ c \in Nat /\ c <= Size(g) /\ Size(g) \in Nat /\ l \in Nat
      /\ IsStr(Text(g)) /\ Len(Text(g)) = Size(g)
  BY SoundFacts, TextFacts, StrLen
<1>2. Text(h) = a \o str \o b /\ IsStr(Text(h)) /\ Len(Text(h)) = Size(g) + l
  BY TextFacts DEF Inserted
<1>3. PICK k \in 1..Size(g) : Text(g)[k] # Blank
  BY <1>1, TrimNone
<1> HIDE DEF c, l
<1>4. IsStr(a) /\ Len(a) = c /\ \A n \in 1..c : a[n] = Text(g)[n]
  <2>1. /\ IsStr(a) /\ Len(a) = c - 1 + 1
        /\ \A n \in 1..(c - 1 + 1) : a[n] = Text(g)[1 + n - 1]
    BY <1>1, StrPart
  <2>2. c - 1 + 1 = c /\ \A n \in 1..c : 1 + n - 1 = n
    BY <1>1
  <2> HIDE DEF a
  <2> QED  BY <2>1, <2>2
<1>5. IsStr(b) /\ Len(b) = Size(g) - c /\ \A n \in 1..(Size(g) - c) : b[n] = Text(g)[c + n]
  <2>1. /\ IsStr(b) /\ Len(b) = Size(g) - (c + 1) + 1
        /\ \A n \in 1..(Size(g) - (c + 1) + 1) : b[n] = Text(g)[c + 1 + n - 1]
    BY <1>1, StrPart
  <2>2. Size(g) - (c + 1) + 1 = Size(g) - c /\ \A n \in Nat : c + 1 + n - 1 = c + n
    BY <1>1
  <2> HIDE DEF b
  <2> QED  BY <2>1, <2>2
<1> HIDE DEF a, b
<1>6. /\ IsStr(a \o str) /\ Len(a \o str) = c + l
      /\ \A n \in 1..c : (a \o str)[n] = a[n]
  BY <1>1, <1>4, StrJoin DEF l
<1>7. /\ \A n \in 1..(c + l) : (a \o str \o b)[n] = (a \o str)[n]
      /\ \A n \in 1..(Size(g) - c) : (a \o str \o b)[c + l + n] = b[n]
  BY <1>5, <1>6, StrJoin
<1>8. CASE k <= c
  <2>1. k \in 1..c /\ k \in 1..(c + l) /\ k \in 1..Len(Text(h))
    BY <1>1, <1>2, <1>8
  <2>2. Text(h)[k] = Text(g)[k]
    BY <1>2, <1>4, <1>6, <1>7, <2>1
  <2> QED  BY <1>2, <1>3, <2>1, <2>2, TrimSome
<1>9. CASE k > c
  <2> DEFINE j == k - c
  <2>1. j \in 1..(Size(g) - c) /\ c + j = k /\ c + l + j \in 1..Len(Text(h))
    BY <1>1, <1>2, <1>9
  <2> HIDE DEF j
  <2>2. Text(h)[c + l + j] = b[j] /\ b[j] = Text(g)[c + j]
    BY <1>2, <1>5, <1>7, <2>1
  <2> QED  BY <1>2, <1>3, <2>1, <2>2, TrimSome
<1>10. k <= c \/ k > c
  BY <1>1
<1> QED  BY <1>8, <1>9, <1>10

(* What goes in around nothing, and where nothing is, or is taken.         *)
LEMMA JoinNothing ==
  ASSUME NEW s, IsStr(s) PROVE <<>> \o s = s /\ s \o <<>> = s
BY DEF IsStr

LEMMA PartNone == ASSUME NEW s, NEW i \in Nat, NEW j \in Nat, i = j + 1
  PROVE SubSeq(s, i, j) = <<>>
<1>1. SubSeq(s, i, j) = [n \in 1..(j - i + 1) |-> s[i + n - 1]]
  BY DEF SubSeq
<1>2. j - i + 1 = 0
  OBVIOUS
<1> QED  BY <1>1, <1>2

LEMMA InsertedAlone ==
  ASSUME NEW g, Sound(g), NEW h, NEW str, IsStr(str), Inserted(g, h, str), Size(g) = 0
  PROVE  Sound(h) /\ Text(h) = str /\ Cursor(h) = Len(str) /\ Size(h) = Len(str)
<1>1. Text(g) = <<>> /\ Cursor(g) = 0 /\ Len(str) \in Nat
  BY TextFacts, SoundFacts, EmptyStr, StrLen
<1>2. SubSeq(<<>>, 1, 0) = <<>> /\ SubSeq(<<>>, 0 + 1, Len(<<>>)) = <<>>
  BY PartNone, NoStr
<1>3. Text(h) = <<>> \o str \o <<>>
  <2>1. Text(h) = SubSeq(<<>>, 1, 0) \o str \o SubSeq(<<>>, 0 + 1, Len(<<>>))
    BY <1>1 DEF Inserted
  <2> QED  BY <1>2, <2>1
<1> QED  BY <1>1, <1>3, JoinNothing DEF Inserted

LEMMA InsertedNothing ==
  ASSUME NEW s, IsStr(s), NEW c \in Nat, c <= Len(s)
  PROVE  SubSeq(s, 1, c) \o <<>> \o SubSeq(s, c + 1, Len(s)) = s
<1> DEFINE a == SubSeq(s, 1, c)
           b == SubSeq(s, c + 1, Len(s))
<1>0. Len(s) \in Nat
  BY StrLen
<1>1. IsStr(a) /\ Len(a) = c /\ \A n \in 1..c : a[n] = s[n]
  <2>1. /\ IsStr(a) /\ Len(a) = c - 1 + 1
        /\ \A n \in 1..(c - 1 + 1) : a[n] = s[1 + n - 1]
    BY <1>0, StrPart
  <2>2. c - 1 + 1 = c /\ \A n \in 1..c : 1 + n - 1 = n
    OBVIOUS
  <2> HIDE DEF a
  <2> QED  BY <2>1, <2>2
<1>2. IsStr(b) /\ Len(b) = Len(s) - c /\ \A n \in 1..(Len(s) - c) : b[n] = s[c + n]
  <2>1. /\ IsStr(b) /\ Len(b) = Len(s) - (c + 1) + 1
        /\ \A n \in 1..(Len(s) - (c + 1) + 1) : b[n] = s[c + 1 + n - 1]
    BY <1>0, StrPart
  <2>2. Len(s) - (c + 1) + 1 = Len(s) - c /\ \A n \in Nat : c + 1 + n - 1 = c + n
    BY <1>0
  <2> HIDE DEF b
  <2> QED  BY <2>1, <2>2
<1> HIDE DEF a, b
<1>3. a \o <<>> = a
  BY <1>1, JoinNothing
<1>4. /\ IsStr(a \o b) /\ Len(a \o b) = c + (Len(s) - c)
      /\ \A n \in 1..c : (a \o b)[n] = a[n]
      /\ \A n \in 1..(Len(s) - c) : (a \o b)[c + n] = b[n]
  BY <1>1, <1>2, StrJoin
<1>5. Len(a \o b) = Len(s)
  BY <1>0, <1>4
<1>6. ASSUME NEW n \in 1..Len(s) PROVE s[n] = (a \o b)[n]
  <2>1. CASE n <= c
    BY <1>1, <1>4, <2>1
  <2>2. CASE ~(n <= c)
    <3> DEFINE m == n - c
    <3>1. m \in 1..(Len(s) - c) /\ c + m = n
      BY <1>0, <2>2
    <3> HIDE DEF m
    <3> QED  BY <1>2, <1>4, <3>1
  <2> QED  BY <2>1, <2>2
<1>7. s = a \o b
  BY <1>4, <1>5, <1>6, StrSame
<1> QED  BY <1>3, <1>7 DEF a, b

-----------------------------------------------------------------------------
(* The history: strings, and with the lost entries as many as there are.   *)
HistoryOk(h) ==
  /\ IsStr(h.lines) /\ \A n \in 1..Len(h.lines) : IsStr(h.lines[n])
  /\ h.lost \in Nat /\ h.lost < NbHist /\ Len(h.lines) + h.lost <= NbHist
IsHistory(h) == {"lines", "curr", "lost"} \subseteq DOMAIN h

LEMMA StrAppend ==
  ASSUME NEW s, IsStr(s), NEW x
  PROVE  /\ IsStr(Append(s, x)) /\ Len(Append(s, x)) = Len(s) + 1
         /\ \A n \in 1..Len(s) : Append(s, x)[n] = s[n]
         /\ Append(s, x)[Len(s) + 1] = x
<1>1. PICK S : s \in Seq(S)
  BY DEF IsStr
<1>2. s \in Seq(S \cup {x}) /\ Append(s, x) \in Seq(S \cup {x})
  BY <1>1
<1> QED  BY <1>2 DEF IsStr

LEMMA StrTail ==
  ASSUME NEW s, IsStr(s), Len(s) # 0
  PROVE  /\ IsStr(Tail(s)) /\ Len(Tail(s)) = Len(s) - 1
         /\ \A n \in 1..(Len(s) - 1) : Tail(s)[n] = s[n + 1]
<1>1. PICK S : s \in Seq(S)
  BY DEF IsStr
<1>2. Len(s) \in Nat /\ s # <<>>
  BY <1>1
<1>3. Tail(s) \in Seq(S) /\ Len(Tail(s)) = Len(s) - 1
  BY <1>1, <1>2
<1>4. \A n \in 1..(Len(s) - 1) : Tail(s)[n] = s[n + 1]
  BY <1>1, <1>2
<1> QED  BY <1>3, <1>4 DEF IsStr

LEMMA WithLineOk ==
  ASSUME NEW h, IsHistory(h), HistoryOk(h), NEW words, IsStr(words)
  PROVE  LET w == WithLine(h, words) IN
         /\ IsHistory(w) /\ HistoryOk(w) /\ w.lost = h.lost /\ Len(w.lines) # 0
         /\ h.curr \in 0..Len(h.lines) => w.curr \in 0..Len(w.lines)
<1> DEFINE full == Len(h.lines) = Room(h)
           rest == IF full THEN Tail(h.lines) ELSE h.lines
           cur == IF ~full \/ h.curr = 0 THEN h.curr
                  ELSE IF h.curr = 1 THEN Room(h) ELSE h.curr - 1
           w == [h EXCEPT !.lines = Append(rest, words), !.curr = cur]
<1>0. /\ NbHist \in Nat /\ h.lost \in Nat /\ h.lost < NbHist /\ Len(h.lines) \in Nat
      /\ Len(h.lines) + h.lost <= NbHist /\ Room(h) = NbHist - h.lost
      /\ IsStr(h.lines) /\ \A n \in 1..Len(h.lines) : IsStr(h.lines[n])
  BY EditorAssumption, StrLen DEF HistoryOk, Room
<1>1. CASE h.lines # <<>> /\ Last(h.lines) = words
  <2>1. WithLine(h, words) = h
    BY <1>1 DEF WithLine
  <2>2. Len(h.lines) # 0
    BY <1>0, <1>1, EmptyStr
  <2> QED  BY <2>1, <2>2
<1>2. CASE ~(h.lines # <<>> /\ Last(h.lines) = words)
  <2>1. WithLine(h, words) = w
    BY <1>2 DEF WithLine
  <2> HIDE DEF full, rest, cur
  <2>2. /\ DOMAIN w = DOMAIN h /\ w.lines = Append(rest, words) /\ w.curr = cur
        /\ w.lost = h.lost
    BY DEF IsHistory
  <2>3. /\ IsStr(rest) /\ \A n \in 1..Len(rest) : IsStr(rest[n])
        /\ Len(rest) = IF full THEN Len(h.lines) - 1 ELSE Len(h.lines)
    <3>1. CASE full
      <4>1. Len(h.lines) # 0
        BY <1>0, <3>1 DEF full
      <4>2. /\ IsStr(rest) /\ Len(rest) = Len(h.lines) - 1
            /\ \A n \in 1..(Len(h.lines) - 1) : rest[n] = h.lines[n + 1]
        BY <1>0, <3>1, <4>1, StrTail DEF rest
      <4>3. ASSUME NEW n \in 1..Len(rest) PROVE IsStr(rest[n])
        <5>1. n \in 1..(Len(h.lines) - 1) /\ n + 1 \in 1..Len(h.lines)
          BY <1>0, <4>2
        <5> QED  BY <1>0, <4>2, <5>1
      <4> QED  BY <3>1, <4>2, <4>3
    <3>2. CASE ~full
      BY <1>0, <3>2 DEF rest
    <3> QED  BY <3>1, <3>2
  <2>4. /\ IsStr(w.lines) /\ Len(w.lines) = Len(rest) + 1
        /\ \A n \in 1..Len(rest) : w.lines[n] = rest[n]
        /\ w.lines[Len(rest) + 1] = words
    BY <2>2, <2>3, StrAppend
  <2>5. Len(rest) \in Nat
    BY <2>3, StrLen
  <2> HIDE DEF w
  <2>6. ASSUME NEW n \in 1..Len(w.lines) PROVE IsStr(w.lines[n])
    <3>1. n \in 1..Len(rest) \/ n = Len(rest) + 1
      BY <2>4, <2>5
    <3> QED  BY <2>3, <2>4, <3>1
  <2>7. Len(w.lines) + w.lost <= NbHist /\ Len(w.lines) # 0
        /\ Len(w.lines) = IF full THEN Len(h.lines) ELSE Len(h.lines) + 1
    BY <1>0, <2>2, <2>3, <2>4, <2>5 DEF full
  <2>8. ASSUME h.curr \in 0..Len(h.lines) PROVE w.curr \in 0..Len(w.lines)
    <3>1. w.curr = IF ~full \/ h.curr = 0 THEN h.curr
                   ELSE IF h.curr = 1 THEN NbHist - h.lost ELSE h.curr - 1
      BY <1>0, <2>2 DEF cur
    <3>2. full => Len(h.lines) = NbHist - h.lost
      BY <1>0 DEF full
    <3> QED  BY <1>0, <2>7, <2>8, <3>1, <3>2
  <2>9. IsHistory(w) /\ HistoryOk(w)
    BY <1>0, <2>2, <2>4, <2>6, <2>7 DEF IsHistory, HistoryOk
  <2> QED  BY <2>1, <2>2, <2>7, <2>8, <2>9
<1> QED  BY <1>1, <1>2

LEMMA WithoutLastOk ==
  ASSUME NEW h, IsHistory(h), HistoryOk(h), Len(h.lines) # 0, h.lost < NbHist - 1
  PROVE  IsHistory(WithoutLast(h)) /\ HistoryOk(WithoutLast(h))
<1> DEFINE w == WithoutLast(h)
<1>0. /\ NbHist \in Nat /\ h.lost \in Nat /\ Len(h.lines) \in Nat
      /\ Len(h.lines) + h.lost <= NbHist
      /\ IsStr(h.lines) /\ \A n \in 1..Len(h.lines) : IsStr(h.lines[n])
  BY EditorAssumption, StrLen DEF HistoryOk
<1>1. DOMAIN w = DOMAIN h /\ w.lines = Front(h.lines) /\ w.lost = h.lost + 1
  BY DEF WithoutLast, IsHistory
<1> HIDE DEF w
<1>2. /\ IsStr(Front(h.lines)) /\ Len(Front(h.lines)) = Len(h.lines) - 1
      /\ \A n \in 1..(Len(h.lines) - 1) : Front(h.lines)[n] = h.lines[n]
  <2> DEFINE N == Len(h.lines) - 1
  <2>1. N \in Nat /\ N <= Len(h.lines) /\ 1 <= N + 1
    BY <1>0
  <2>2. N - 1 + 1 = N /\ \A n \in 1..N : 1 + n - 1 = n
    BY <2>1
  <2> HIDE DEF N
  <2>3. /\ IsStr(SubSeq(h.lines, 1, N)) /\ Len(SubSeq(h.lines, 1, N)) = N - 1 + 1
        /\ \A n \in 1..(N - 1 + 1) : SubSeq(h.lines, 1, N)[n] = h.lines[1 + n - 1]
    BY <1>0, <2>1, StrPart
  <2>4. Front(h.lines) = SubSeq(h.lines, 1, N)
    BY DEF Front, N
  <2>5. /\ IsStr(Front(h.lines)) /\ Len(Front(h.lines)) = N
        /\ \A n \in 1..N : Front(h.lines)[n] = h.lines[n]
    BY <2>2, <2>3, <2>4
  <2> QED  BY <2>5 DEF N
<1>3. ASSUME NEW n \in 1..Len(w.lines) PROVE IsStr(w.lines[n])
  <2>1. n \in 1..(Len(h.lines) - 1) /\ n \in 1..Len(h.lines)
    BY <1>0, <1>1, <1>2
  <2> QED  BY <1>0, <1>1, <1>2, <2>1
<1>4. w.lost \in Nat /\ w.lost < NbHist /\ Len(w.lines) + w.lost <= NbHist
  BY <1>0, <1>1, <1>2
<1>5. IsHistory(w) /\ HistoryOk(w)
  BY <1>1, <1>2, <1>3, <1>4 DEF IsHistory, HistoryOk
<1> QED  BY <1>5 DEF w

(* The lines aliases stand for are strings.                                *)
LEMMA StandsStr ==
  ASSUME NEW s, IsStr(s), AliasOf(s) # {}
  PROVE  IsStr(StandsFor(s))
<1> DEFINE w == CHOOSE w \in AliasOf(s) : TRUE
<1>1. w \in DOMAIN Aliases
  BY DEF AliasOf
<1>2. StandsFor(s) = Aliases[w] \o SubSeq(s, Len(w) + 1, Len(s))
  BY DEF StandsFor
<1> HIDE DEF w
<1>3. IsStr(w) /\ IsStr(Aliases[w])
  <2>1. Aliases[w] \in Range(Aliases)
    BY <1>1 DEF Range
  <2>2. w \in Seq(Range(w)) /\ Aliases[w] \in Seq(Range(Aliases[w]))
    BY <1>1, <2>1, EditorAssumption
  <2> QED  BY <2>2 DEF IsStr
<1>4. IsStr(SubSeq(s, Len(w) + 1, Len(s)))
  BY <1>3, StrLen, AnyPart
<1> QED  BY <1>2, <1>3, <1>4, StrJoin

LEMMA ExecutedOk ==
  ASSUME NEW h, IsHistory(h), HistoryOk(h), NEW words, IsStr(words),
         AliasOf(words) # {} => h.lost < NbHist - 1
  PROVE  /\ IsHistory(Executed(h, words)) /\ HistoryOk(Executed(h, words))
         /\ Trim(words) # <<>> => Len(Executed(h, words).lines) # 0
         /\ AliasOf(words) = {} /\ h.curr \in 0..Len(h.lines) =>
              Executed(h, words).curr \in 0..Len(Executed(h, words).lines)
<1> DEFINE w == WithLine(h, Trim(words))
<1>1. CASE Trim(words) = <<>>
  BY <1>1 DEF Executed
<1>2. CASE Trim(words) # <<>> /\ AliasOf(words) = {}
  <2>1. Executed(h, words) = w
    BY <1>2 DEF Executed
  <2>2. IsStr(Trim(words))
    BY TrimStr
  <2> QED  BY <1>2, <2>1, <2>2, WithLineOk
<1>3. CASE Trim(words) # <<>> /\ AliasOf(words) # {}
  <2> DEFINE x == WithoutLast(w)
  <2>1. Executed(h, words) = WithLine(x, Trim(StandsFor(words)))
    BY <1>3 DEF Executed
  <2>2. IsStr(Trim(words)) /\ IsStr(Trim(StandsFor(words)))
    BY <1>3, TrimStr, StandsStr
  <2>3. IsHistory(w) /\ HistoryOk(w) /\ w.lost = h.lost /\ Len(w.lines) # 0
    BY <2>2, WithLineOk
  <2> HIDE DEF w
  <2>4. IsHistory(x) /\ HistoryOk(x)
    BY <1>3, <2>3, WithoutLastOk
  <2> HIDE DEF x
  <2> QED  BY <1>3, <2>1, <2>2, <2>4, WithLineOk
<1> QED  BY <1>1, <1>2, <1>3
-----------------------------------------------------------------------------
(* The inductive invariant: besides EditorSound, that the buffer has its   *)
(* fields, that the lines of the history are strings, and that an entry of *)
(* the history is left.                                                    *)
EditorInv ==
  /\ Sound(gb)
  /\ HistoryOk(History) /\ curr \in 0..Len(hist)

LEMMA HistoryIs ==
  /\ IsHistory(History) /\ History.lines = hist /\ History.curr = curr
  /\ History.lost = lost
BY DEF IsHistory, History

LEMMA HistoryPrime ==
  /\ History'.lines = hist' /\ History'.lost = lost'
BY DEF History

LEMMA InvFacts ==
  ASSUME EditorInv
  PROVE  /\ Sound(gb) /\ IsStr(hist) /\ Len(hist) \in Nat /\ curr \in 0..Len(hist)
         /\ \A n \in 1..Len(hist) : IsStr(hist[n])
         /\ lost \in Nat /\ lost < NbHist /\ Len(hist) + lost <= NbHist
         /\ IsStr(Text(gb)) /\ Len(Text(gb)) = Size(gb) /\ Size(gb) \in Nat
         /\ Cursor(gb) \in Nat /\ Cursor(gb) <= Size(gb)
<1>1. /\ Sound(gb) /\ IsStr(hist) /\ curr \in 0..Len(hist)
      /\ \A n \in 1..Len(hist) : IsStr(hist[n])
      /\ lost \in Nat /\ lost < NbHist /\ Len(hist) + lost <= NbHist
  BY HistoryIs DEF EditorInv, HistoryOk
<1> QED  BY <1>1, TextFacts, SoundFacts, StrLen

(* A step that leaves the history alone, or of which all is known.         *)
LEMMA SameHistory ==
  ASSUME EditorInv, Sound(gb'), UNCHANGED <<hist, curr, lost>>
  PROVE  EditorInv'
BY DEF EditorInv, HistoryOk, History

LEMMA NewHistory ==
  ASSUME Sound(gb'), NEW h, HistoryOk(h), hist' = h.lines, lost' = h.lost,
         curr' \in 0..Len(h.lines)
  PROVE  EditorInv'
<1>1. HistoryOk(History)'
  BY DEF HistoryOk, History
<1> QED  BY <1>1 DEF EditorInv

(* The functions of the keys, one by one.  Each keeps the invariant and    *)
(* does to the line what Line says.                                        *)
KeyDoes(name) == EditorInv' /\ L!Does([name |-> name, str |-> put'])

LEMMA GoesTo ==
  ASSUME EditorInv, NEW c, Goes(gb, gb', c), UNCHANGED <<hist, curr, lost>>
  PROVE  EditorInv' /\ L!MoveTo(c)
<1>1. Sound(gb') /\ Text(gb') = Text(gb) /\ Cursor(gb') = c
  BY DEF Goes
<1>2. EditorInv'
  BY <1>1, SameHistory
<1> QED  BY <1>1, <1>2 DEF L!MoveTo, L!Become

LEMMA ShowShows ==
  ASSUME EditorInv, NEW words, IsStr(words), Show(words)
  PROVE  Sound(gb') /\ L!Become(words, Len(words)) /\ put' = words
<1>1. Sound(gb)
  BY InvFacts
<1> DEFINE e == Reset(gb)
           g == StrInsert(e, words)
<1>2. gb' = SetPoint(g, Len(words)) /\ put' = words
  BY DEF Show
<1>3. Sound(e) /\ Size(e) = 0
  BY <1>1, ResetClears
<1> HIDE DEF e
<1>4. Inserted(e, g, words)
  BY <1>3, StrInsertInserts
<1> HIDE DEF g
<1>5. Sound(g) /\ Text(g) = words /\ Size(g) = Len(words)
  BY <1>3, <1>4, InsertedAlone
<1>6. Len(words) \in Nat
  BY StrLen
<1>7. Goes(g, gb', Len(words))
  <2>1. Len(words) \in Int /\ Len(words) \in 0..Size(g) /\ Len(words) # -1
    BY <1>5, <1>6
  <2> QED  BY <1>2, <1>5, <2>1, SetPointGoes
<1> QED  BY <1>2, <1>5, <1>7 DEF Goes, L!Become

LEMMA UpDoes == ASSUME EditorInv, Up PROVE KeyDoes("replace")
<1>1. /\ Sound(gb) /\ IsStr(hist) /\ Len(hist) \in Nat /\ curr \in 0..Len(hist)
      /\ \A n \in 1..Len(hist) : IsStr(hist[n])
  BY InvFacts
<1>2. Prev # 0 /\ Show(hist[Prev]) /\ curr' = Prev /\ UNCHANGED <<hist, lost>>
  BY DEF Up
<1>3. Prev \in 1..Len(hist)
  BY <1>1, <1>2 DEF Prev
<1>4. Sound(gb') /\ L!Become(hist[Prev], Len(hist[Prev])) /\ put' = hist[Prev]
  BY <1>1, <1>2, <1>3, ShowShows
<1>5. EditorInv'
  BY <1>1, <1>2, <1>3, <1>4, HistoryIs, NewHistory DEF EditorInv
<1> QED  BY <1>4, <1>5 DEF KeyDoes, L!Does

LEMMA DownDoes == ASSUME EditorInv, Down PROVE KeyDoes("replace")
<1> DEFINE words == IF curr = Len(hist) THEN <<>> ELSE hist[Following]
<1>1. /\ Sound(gb) /\ IsStr(hist) /\ Len(hist) \in Nat /\ curr \in 0..Len(hist)
      /\ \A n \in 1..Len(hist) : IsStr(hist[n])
  BY InvFacts
<1>2. curr # 0 /\ Show(words) /\ curr' = Following /\ UNCHANGED <<hist, lost>>
  BY DEF Down
<1>3. Following \in 1..Len(hist)
  BY <1>1, <1>2 DEF Following
<1>4. IsStr(words)
  BY <1>1, <1>3, NoStr
<1> HIDE DEF words
<1>5. Sound(gb') /\ L!Become(words, Len(words)) /\ put' = words
  BY <1>2, <1>4, ShowShows
<1>6. EditorInv'
  BY <1>1, <1>2, <1>3, <1>5, HistoryIs, NewHistory DEF EditorInv
<1> QED  BY <1>5, <1>6 DEF KeyDoes, L!Does

LEMMA RightDoes == ASSUME EditorInv, KeyRight PROVE KeyDoes("right")
<1>1. gb' = Right(gb) /\ UNCHANGED <<hist, curr, lost>>
  BY DEF KeyRight, Edit
<1>2. Goes(gb, gb', IF Cursor(gb) = Size(gb) THEN Cursor(gb) ELSE Cursor(gb) + 1)
  BY <1>1, InvFacts, RightGoes
<1>3. EditorInv' /\ L!MoveTo(IF Cursor(gb) = Len(Text(gb)) THEN Cursor(gb) ELSE Cursor(gb) + 1)
  BY <1>1, <1>2, InvFacts, GoesTo
<1> QED  BY <1>3 DEF KeyDoes, L!Does

LEMMA LeftDoes == ASSUME EditorInv, KeyLeft PROVE KeyDoes("left")
<1>1. gb' = Left(gb) /\ UNCHANGED <<hist, curr, lost>>
  BY DEF KeyLeft, Edit
<1>2. Goes(gb, gb', IF Cursor(gb) = 0 THEN 0 ELSE Cursor(gb) - 1)
  BY <1>1, InvFacts, LeftGoes
<1>3. EditorInv' /\ L!MoveTo(IF Cursor(gb) = 0 THEN 0 ELSE Cursor(gb) - 1)
  BY <1>1, <1>2, GoesTo
<1> QED  BY <1>3 DEF KeyDoes, L!Does

LEMMA StartDoes == ASSUME EditorInv, CtrlA PROVE KeyDoes("start")
<1>1. gb' = SetPoint(gb, 0) /\ UNCHANGED <<hist, curr, lost>>
  BY DEF CtrlA, Edit
<1>2. 0 \in Int /\ 0 \in 0..Size(gb) /\ 0 # -1 /\ Sound(gb)
  BY InvFacts
<1>3. Goes(gb, gb', 0)
  BY <1>1, <1>2, SetPointGoes
<1> QED  BY <1>1, <1>3, GoesTo DEF KeyDoes, L!Does

LEMMA EndDoes == ASSUME EditorInv, CtrlE PROVE KeyDoes("end")
<1>1. gb' = SetPoint(gb, -1) /\ UNCHANGED <<hist, curr, lost>>
  BY DEF CtrlE, Edit
<1>2. Sound(gb) /\ Len(Text(gb)) = Size(gb)
  BY InvFacts
<1>3. Goes(gb, gb', Size(gb))
  <2>1. -1 \in Int
    OBVIOUS
  <2> QED  BY <1>1, <1>2, <2>1, SetPointGoes
<1>4. EditorInv' /\ L!MoveTo(Len(Text(gb)))
  BY <1>1, <1>2, <1>3, GoesTo
<1> QED  BY <1>4 DEF KeyDoes, L!Does

LEMMA WordLeftDoes == ASSUME EditorInv, WordLeft PROVE KeyDoes("word_left")
<1>1. Goes(gb, gb', L!WordStart)
  BY InvFacts, WordLeftGoes
<1>2. UNCHANGED <<hist, curr, lost>>
  BY DEF WordLeft, Edit
<1> QED  BY <1>1, <1>2, GoesTo DEF KeyDoes, L!Does

LEMMA WordRightDoes == ASSUME EditorInv, WordRight PROVE KeyDoes("word_right")
<1>1. Goes(gb, gb', L!WordEnd)
  BY InvFacts, WordRightGoes
<1>2. UNCHANGED <<hist, curr, lost>>
  BY DEF WordRight, Edit
<1> QED  BY <1>1, <1>2, GoesTo DEF KeyDoes, L!Does

(* ctrl-l moves the gap, the other four functions do nothing.              *)
LEMMA RedrawDoes ==
  ASSUME EditorInv, CtrlL \/ CtrlD \/ CtrlW \/ MetaD \/ MetaBackspace
  PROVE  KeyDoes("redraw")
<1>1. (gb' = MoveGap(gb) \/ gb' = gb) /\ UNCHANGED <<hist, curr, lost>>
  BY DEF CtrlL, CtrlD, CtrlW, MetaD, MetaBackspace, Edit
<1>2. Goes(gb, gb', Cursor(gb))
  BY <1>1, InvFacts, MoveGapGoes, GoesNowhere
<1> QED  BY <1>1, <1>2, GoesTo DEF KeyDoes, L!Does

LEMMA BackspaceDoes == ASSUME EditorInv, KeyBackspace, Careful PROVE KeyDoes("backspace")
<1> DEFINE m == MoveLeft(gb)
           c == Cursor(gb)
<1>1. /\ Sound(gb) /\ Size(gb) \in Nat /\ c \in Nat /\ c <= Size(gb) /\ c > 0
      /\ gb' = (IF AtStart(gb) THEN gb ELSE Del(m, 1)) /\ UNCHANGED <<hist, curr, lost>>
  BY InvFacts DEF KeyBackspace, Edit
<1>2. ~AtStart(gb)
  BY <1>1, StartIsStart
<1>3. Goes(gb, m, c - 1)
  BY <1>1, MoveLeftGoes
<1> HIDE DEF m, c
<1>4. Sound(m) /\ Cursor(m) = c - 1 /\ Size(m) = Size(gb) /\ Text(m) = Text(gb)
  BY <1>3 DEF Goes
<1>5. Cursor(m) + 1 <= Size(m) /\ (c - 1) + 1 + 1 = c + 1
  BY <1>1, <1>4
<1>6. Deleted(m, gb', 1)
  BY <1>1, <1>2, <1>4, <1>5, DelDeletes
<1>7. /\ Sound(gb') /\ Cursor(gb') = c - 1
      /\ Text(gb') = SubSeq(Text(gb), 1, c - 1) \o SubSeq(Text(gb), c + 1, Len(Text(gb)))
  BY <1>4, <1>5, <1>6 DEF Deleted
<1>8. EditorInv'
  BY <1>1, <1>7, SameHistory
<1>9. L!Become(L!Before(c - 1) \o L!After(c), c - 1)
  BY <1>7 DEF L!Become, L!Before, L!After
<1>10. c # 0
  BY <1>1
<1> QED  BY <1>8, <1>9, <1>10 DEF KeyDoes, L!Does, c

LEMMA SupprDoes == ASSUME EditorInv, KeySuppr, Careful PROVE KeyDoes("suppr")
<1> DEFINE c == Cursor(gb)
<1>1. /\ Sound(gb) /\ Size(gb) \in Nat /\ c \in Nat /\ c < Size(gb)
      /\ gb' = Del(gb, 1) /\ UNCHANGED <<hist, curr, lost>>
  BY InvFacts DEF KeySuppr, Edit
<1>2. c + 1 <= Size(gb)
  BY <1>1
<1>3. Deleted(gb, gb', 1)
  BY <1>1, <1>2, DelDeletes
<1>4. EditorInv'
  BY <1>1, <1>3, SameHistory DEF Deleted
<1>5. L!Become(L!Before(c) \o L!After(c + 1), c)
  BY <1>3 DEF Deleted, L!Become, L!Before, L!After
<1> QED  BY <1>4, <1>5 DEF KeyDoes, L!Does

LEMMA KillDoes == ASSUME EditorInv, CtrlK PROVE KeyDoes("kill")
<1> DEFINE m == MoveGap(gb)
           c == Cursor(gb)
           cnt == RightSize(m)
<1>1. /\ Sound(gb) /\ Size(gb) \in Nat /\ c \in Nat /\ c <= Size(gb)
      /\ gb' = Del(m, cnt) /\ UNCHANGED <<hist, curr, lost>>
      /\ Len(Text(gb)) = Size(gb) /\ IsStr(Text(gb))
  BY InvFacts DEF CtrlK, Edit
<1>2. /\ Sound(m) /\ Text(m) = Text(gb) /\ Size(m) = Size(gb) /\ Cursor(m) = c
      /\ m.point = m.gap
  BY <1>1, MoveGapGoes, MoveGapMoves DEF Goes, Moved
<1> HIDE DEF m, c
<1>3. cnt = Size(gb) - c
  <2>1. /\ m.gap \in Nat /\ m.egap \in Nat /\ m.ebuf \in Nat /\ m.gap <= m.egap
        /\ m.egap <= m.ebuf
    BY <1>2, SoundFacts
  <2>2. Size(gb) = m.gap + (m.ebuf - m.egap) /\ c = m.gap
    BY <1>2, <2>1 DEF Size, Cursor
  <2> QED  BY <1>2, <2>1, <2>2 DEF RightSize, Eof
<1> HIDE DEF cnt
<1>4. cnt \in Nat /\ Cursor(m) + cnt <= Size(m) /\ c + cnt + 1 = Size(gb) + 1
  BY <1>1, <1>2, <1>3
<1>5. Deleted(m, gb', cnt)
  BY <1>1, <1>2, <1>4, DelDeletes
<1>6. SubSeq(Text(gb), c + cnt + 1, Len(Text(gb))) = <<>>
  BY <1>1, <1>4, PartNone
<1>7. SubSeq(Text(gb), 1, c) \o <<>> = SubSeq(Text(gb), 1, c)
  BY <1>1, AnyPart, JoinNothing
<1>8. Sound(gb') /\ Cursor(gb') = c /\ Text(gb') = SubSeq(Text(gb), 1, c)
  BY <1>2, <1>5, <1>6, <1>7 DEF Deleted
<1>9. EditorInv'
  BY <1>1, <1>8, SameHistory
<1>10. L!Become(L!Before(c), c)
  BY <1>8 DEF L!Become, L!Before
<1> QED  BY <1>9, <1>10 DEF KeyDoes, L!Does, c

LEMMA TypeDoes == ASSUME EditorInv, NEW c, Type(c) PROVE KeyDoes("insert")
<1>1. CASE c \in 32..126
  <2>1. /\ gb' = Insert(gb, Glyph[c]) /\ put' = <<Glyph[c]>> /\ UNCHANGED <<hist, curr, lost>>
    BY <1>1 DEF Type, Edit
  <2>2. Inserted(gb, gb', <<Glyph[c]>>)
    BY <2>1, InvFacts, InsertInserts
  <2>3. EditorInv'
    BY <2>1, <2>2, SameHistory DEF Inserted
  <2>4. L!Insert(put')
    BY <2>1, <2>2 DEF Inserted, L!Insert, L!Become, L!Before, L!After
  <2> QED  BY <2>3, <2>4 DEF KeyDoes, L!Does
<1>2. CASE c \notin 32..126
  <2>1. gb' = gb /\ put' = <<>> /\ UNCHANGED <<hist, curr, lost>>
    BY <1>2 DEF Type, Edit
  <2>2. EditorInv'
    BY <2>1, InvFacts, SameHistory
  <2>3. Cursor(gb) + 0 = Cursor(gb)
    BY InvFacts
  <2>4. SubSeq(Text(gb), 1, Cursor(gb)) \o <<>>
          \o SubSeq(Text(gb), Cursor(gb) + 1, Len(Text(gb))) = Text(gb)
    <3>1. Cursor(gb) \in Nat /\ Cursor(gb) <= Len(Text(gb)) /\ IsStr(Text(gb))
      BY InvFacts
    <3> QED  BY <3>1, InsertedNothing
  <2>5. L!Insert(put')
    BY <2>1, <2>3, <2>4, NoStr DEF L!Insert, L!Become, L!Before, L!After
  <2> QED  BY <2>2, <2>5 DEF KeyDoes, L!Does
<1> QED  BY <1>1, <1>2

(* The buffer with what an alias stands for.                               *)
LEMMA BufferSound == ASSUME NEW g, Sound(g) PROVE Sound(Buffer(g))
<1>1. CASE AliasOf(Text(g)) = {}
  BY <1>1 DEF Buffer
<1>2. CASE AliasOf(Text(g)) # {}
  <2>1. IsStr(StandsFor(Text(g)))
    BY <1>2, TextFacts, StandsStr
  <2>2. Sound(Reset(g))
    BY ResetClears
  <2>3. Inserted(Reset(g), StrInsert(Reset(g), StandsFor(Text(g))), StandsFor(Text(g)))
    BY <2>1, <2>2, StrInsertInserts
  <2> QED  BY <1>2, <2>3 DEF Buffer, Inserted
<1> QED  BY <1>1, <1>2

LEMMA ReturnDoes == ASSUME EditorInv, KeyReturn PROVE KeyDoes("replace")
<1> DEFINE h == Executed(History, Text(gb))
<1>1. /\ hist' = h.lines /\ curr' = 0 /\ lost' = h.lost
  <2>1. IsHistory(h)
    BY HistoryIs, InvFacts, ExecutedOk DEF KeyReturn, Executable, EditorInv
  <2> HIDE DEF h
  <2>2. Becomes([h EXCEPT !.curr = 0])
    BY DEF KeyReturn, h
  <2> QED  BY <2>1, <2>2 DEF Becomes, IsHistory
<1>2. HistoryOk(h)
  BY HistoryIs, InvFacts, ExecutedOk DEF KeyReturn, Executable, EditorInv
<1> HIDE DEF h
<1>3. gb' = Reset(Buffer(gb)) /\ put' = <<>>
  BY DEF KeyReturn
<1>4. Sound(gb') /\ Text(gb') = <<>> /\ Cursor(gb') = 0
  BY <1>3, InvFacts, BufferSound, ResetClears
<1>5. EditorInv'
  <2>1. 0 \in 0..Len(h.lines)
    BY <1>2, StrLen DEF HistoryOk
  <2> QED  BY <1>1, <1>2, <1>4, <2>1, NewHistory
<1>6. L!Become(put', Len(put'))
  BY <1>3, <1>4, NoStr DEF L!Become
<1> QED  BY <1>5, <1>6 DEF KeyDoes, L!Does

LEMMA CtrlCDoes == ASSUME EditorInv, CtrlC PROVE KeyDoes("replace")
<1>1. gb' = Reset(gb) /\ curr' = 0 /\ put' = <<>> /\ hist' = hist /\ lost' = lost
  BY DEF CtrlC
<1>2. Sound(gb') /\ Text(gb') = <<>> /\ Cursor(gb') = 0
  BY <1>1, InvFacts, ResetClears
<1>3. EditorInv'
  <2>1. 0 \in 0..Len(hist) /\ HistoryOk(History)
    BY InvFacts DEF EditorInv
  <2> QED  BY <1>1, <1>2, <2>1, HistoryIs, NewHistory
<1>4. L!Become(put', Len(put'))
  BY <1>1, <1>2, NoStr DEF L!Become
<1> QED  BY <1>3, <1>4 DEF KeyDoes, L!Does

LEMMA CompleteDoes ==
  ASSUME EditorInv, NEW str, IsStr(str), Complete(str) PROVE KeyDoes("tab")
<1> DEFINE p == GetPrev(gb)
           g == StrInsert(p, str)
<1>1. gb' = MoveGap(g) /\ put' = str /\ UNCHANGED <<hist, curr, lost>>
  BY DEF Complete, Edit
<1>2. Sound(p) /\ Text(p) = Text(gb) /\ Cursor(p) = Cursor(gb)
  BY InvFacts, GetPrevGoes DEF Goes
<1> HIDE DEF p
<1>3. Inserted(p, g, str)
  BY <1>2, StrInsertInserts
<1> HIDE DEF g
<1>4. Goes(g, gb', Cursor(g))
  BY <1>1, <1>3, MoveGapGoes DEF Inserted
<1>5. /\ Sound(gb') /\ Cursor(gb') = Cursor(gb) + Len(str)
      /\ Text(gb') = SubSeq(Text(gb), 1, Cursor(gb)) \o str
                       \o SubSeq(Text(gb), Cursor(gb) + 1, Len(Text(gb)))
  BY <1>2, <1>3, <1>4 DEF Goes, Inserted
<1>6. EditorInv'
  BY <1>1, <1>5, SameHistory
<1>7. L!Insert(put')
  BY <1>1, <1>5 DEF L!Insert, L!Become, L!Before, L!After
<1> QED  BY <1>6, <1>7 DEF KeyDoes, L!Does

LEMMA ShowHelpDoes == ASSUME EditorInv, ShowHelp PROVE KeyDoes("tab")
<1> DEFINE p == GetPrev(gb)
           asked == StrInsert(p, Help)
           h == Executed(History, Text(asked))
           e == Reset(Buffer(asked))
           g == StrInsert(e, Text(gb))
<1>1. /\ Trim(Text(gb)) # <<>> /\ Executable(Text(asked))
      /\ \/ AliasOf(Text(asked)) = {} /\ Becomes(h)
         \/ Becomes([h EXCEPT !.curr = 1])
      /\ gb' = MoveGap(g) /\ put' = <<>>
  BY DEF ShowHelp
<1>2. /\ Sound(p) /\ Text(p) = Text(gb) /\ Cursor(p) = Cursor(gb)
  BY InvFacts, GetPrevGoes DEF Goes
<1> HIDE DEF p
<1>3. IsStr(Help)
  <2>1. Help \in Seq(Range(Help))
    BY EditorAssumption
  <2> QED  BY <2>1 DEF IsStr
<1>4. Inserted(p, asked, Help)
  BY <1>2, <1>3, StrInsertInserts
<1> HIDE DEF asked
<1>5. Sound(asked) /\ IsStr(Text(asked)) /\ Trim(Text(asked)) # <<>>
  <2>1. Trim(Text(asked)) # <<>>
    BY <1>1, <1>2, <1>3, <1>4, InsertedSome
  <2> QED  BY <1>4, <2>1, TextFacts DEF Inserted
<1>6. /\ IsHistory(h) /\ HistoryOk(h) /\ Len(h.lines) # 0
      /\ AliasOf(Text(asked)) = {} => h.curr \in 0..Len(h.lines)
  <2>1. AliasOf(Text(asked)) # {} => History.lost < NbHist - 1
    BY <1>1, HistoryIs DEF Executable
  <2>2. IsHistory(History) /\ HistoryOk(History) /\ History.curr \in 0..Len(History.lines)
    BY HistoryIs DEF EditorInv
  <2> QED  BY <1>5, <2>1, <2>2, ExecutedOk
<1> HIDE DEF h
<1>7. hist' = h.lines /\ lost' = h.lost /\ curr' \in 0..Len(h.lines)
  <2>1. CASE AliasOf(Text(asked)) = {} /\ Becomes(h)
    BY <1>6, <2>1 DEF Becomes
  <2>2. CASE Becomes([h EXCEPT !.curr = 1])
    <3>1. hist' = h.lines /\ lost' = h.lost /\ curr' = 1
      BY <1>6, <2>2 DEF Becomes, IsHistory
    <3>2. Len(h.lines) \in Nat
      BY <1>6, StrLen DEF HistoryOk
    <3> QED  BY <1>6, <3>1, <3>2
  <2> QED  BY <1>1, <2>1, <2>2
<1>8. Sound(e) /\ Size(e) = 0
  BY <1>5, BufferSound, ResetClears
<1> HIDE DEF e
<1>9. IsStr(Text(gb)) /\ Sound(gb)
  BY InvFacts
<1>10. Inserted(e, g, Text(gb))
  BY <1>8, <1>9, StrInsertInserts
<1> HIDE DEF g
<1>11. Sound(g) /\ Text(g) = Text(gb) /\ Cursor(g) = Len(Text(gb))
  BY <1>8, <1>9, <1>10, InsertedAlone
<1>12. Sound(gb') /\ Text(gb') = Text(gb) /\ Cursor(gb') = Len(Text(gb))
  BY <1>1, <1>11, MoveGapGoes DEF Goes
<1>13. EditorInv'
  BY <1>6, <1>7, <1>12, NewHistory
<1>14. L!MoveTo(Len(Text(gb)))
  BY <1>12 DEF L!MoveTo, L!Become
<1> QED  BY <1>13, <1>14 DEF KeyDoes, L!Does

(* A key.                                                                  *)
LEMMA CmdDoes ==
  ASSUME EditorInv, Careful, NEW func, NEW name, Serves(func, name), DoCmd(func)
  PROVE  KeyDoes(name)
<1> USE DEF Serves
<1>1. CASE func = "up_arr" /\ Up
  BY <1>1, UpDoes
<1>2. CASE func = "down_arr" /\ Down
  BY <1>2, DownDoes
<1>3. CASE func = "right_arr" /\ KeyRight
  BY <1>3, RightDoes
<1>4. CASE func = "left_arr" /\ KeyLeft
  BY <1>4, LeftDoes
<1>5. CASE func = "return" /\ KeyReturn
  BY <1>5, ReturnDoes
<1>6. CASE func = "return2" /\ KeyReturn2
  BY <1>6, ReturnDoes DEF KeyReturn2
<1>7. CASE func = "backspace" /\ KeyBackspace
  BY <1>7, BackspaceDoes
<1>8. CASE func = "suppr" /\ KeySuppr
  BY <1>8, SupprDoes
<1>9. CASE func = "ctrl_a" /\ CtrlA
  BY <1>9, StartDoes
<1>10. CASE func = "ctrl_b" /\ CtrlB
  BY <1>10, LeftDoes DEF CtrlB
<1>11. CASE func = "ctrl_c" /\ CtrlC
  BY <1>11, CtrlCDoes
<1>12. CASE func = "ctrl_d" /\ CtrlD
  BY <1>12, RedrawDoes
<1>13. CASE func = "ctrl_e" /\ CtrlE
  BY <1>13, EndDoes
<1>14. CASE func = "ctrl_f" /\ CtrlF
  BY <1>14, RightDoes DEF CtrlF
<1>15. CASE func = "ctrl_k" /\ CtrlK
  BY <1>15, KillDoes
<1>16. CASE func = "ctrl_l" /\ CtrlL
  BY <1>16, RedrawDoes
<1>17. CASE func = "ctrl_n" /\ CtrlN
  BY <1>17, DownDoes DEF CtrlN
<1>18. CASE func = "ctrl_p" /\ CtrlP
  BY <1>18, UpDoes DEF CtrlP
<1>19. CASE func = "ctrl_w" /\ CtrlW
  BY <1>19, RedrawDoes
<1>20. CASE func = "word_left" /\ WordLeft
  BY <1>20, WordLeftDoes
<1>21. CASE func = "word_right" /\ WordRight
  BY <1>21, WordRightDoes
<1>22. CASE func = "meta_d" /\ MetaD
  BY <1>22, RedrawDoes
<1>23. CASE func = "meta_backspace" /\ MetaBackspace
  BY <1>23, RedrawDoes
<1>24. CASE func = "tab" /\ \E str \in Endings \cup {<<>>} : Complete(str)
  <2>1. PICK str \in Endings \cup {<<>>} : Complete(str)
    BY <1>24
  <2>2. IsStr(str)
    <3>1. CASE str \in Endings
      <4>1. str \in Seq(Range(str))
        BY <3>1, EditorAssumption
      <4> QED  BY <4>1 DEF IsStr
    <3>2. CASE str = <<>>
      BY <3>2, NoStr
    <3> QED  BY <3>1, <3>2
  <2> QED  BY <1>24, <2>1, <2>2, CompleteDoes
<1>25. CASE func = "tab" /\ ShowHelp
  BY <1>25, ShowHelpDoes
<1> QED
  BY <1>1, <1>2, <1>3, <1>4, <1>5, <1>6, <1>7, <1>8, <1>9, <1>10, <1>11, <1>12,
     <1>13, <1>14, <1>15, <1>16, <1>17, <1>18, <1>19, <1>20, <1>21, <1>22, <1>23,
     <1>24, <1>25 DEF DoCmd

LEMMA PressDoes ==
  ASSUME EditorInv, Careful, KeysServe, NEW k \in Keyboard, Press(k)
  PROVE  KeyDoes(k.does) /\ meant' = k.does
<1>1. Serves(Func[k], k.does) /\ meant' = k.does
  BY DEF KeysServe, Press
<1>2. CASE Func[k] = Done /\ Type(Last(k.bytes))
  <2>1. k.does = "insert"
    BY <1>1, <1>2 DEF Serves
  <2> QED  BY <1>1, <1>2, <2>1, TypeDoes
<1>3. CASE DoCmd(Func[k])
  BY <1>1, <1>3, CmdDoes
<1> QED  BY <1>2, <1>3 DEF Press

LEMMA InitInv == ASSUME Init PROVE EditorInv /\ L!Init
<1>1. GapSize \in Nat /\ GapSize > 0 /\ NbHist \in Nat /\ NbHist > 0
  BY GapBufferAssumption, EditorAssumption
<1>2. /\ Fields \subseteq DOMAIN gb /\ gb.point = 0 /\ gb.gap = 0 /\ gb.egap = GapSize
      /\ gb.ebuf = GapSize /\ DOMAIN gb.mem = 0..(GapSize - 1)
  BY DEF Init, Create, Fields
<1>3. Sound(gb) /\ Size(gb) = 0 /\ Cursor(gb) = 0
  BY <1>1, <1>2 DEF Sound, Ordered, Size, Cursor
<1>4. Text(gb) = <<>>
  BY <1>3, TextFacts, EmptyStr
<1>5. HistoryOk(History) /\ curr \in 0..Len(hist)
  <2>1. hist = <<>> /\ curr = 0 /\ lost = 0
    BY DEF Init
  <2>2. Len(hist) = 0 /\ IsStr(hist)
    BY <2>1, NoStr
  <2>3. \A n \in 1..Len(hist) : IsStr(hist[n])
    BY <2>2
  <2> QED  BY <1>1, <2>1, <2>2, <2>3, HistoryIs DEF HistoryOk
<1>6. L!Init
  BY <1>3, <1>4 DEF L!Init, Init
<1> QED  BY <1>3, <1>5, <1>6 DEF EditorInv

LEMMA NextInv ==
  ASSUME EditorInv, Careful, KeysServe, [Next]_vars
  PROVE  EditorInv' /\ [L!Next]_(L!vars)
<1>1. CASE Next
  <2>1. PICK k \in Keyboard : Press(k)
    BY <1>1 DEF Next
  <2>2. EditorInv' /\ L!Does([name |-> k.does, str |-> put']) /\ meant' = k.does
    BY <2>1, PressDoes DEF KeyDoes
  <2>3. L!Next
    BY <2>2 DEF L!Next
  <2> QED  BY <2>2, <2>3
<1>2. CASE UNCHANGED vars
  <2>1. gb' = gb /\ hist' = hist /\ curr' = curr /\ lost' = lost /\ meant' = meant /\ put' = put
    BY <1>2 DEF vars
  <2>2. UNCHANGED L!vars
    BY <2>1 DEF L!vars
  <2>3. EditorInv'
    BY <2>1, InvFacts, SameHistory
  <2> QED  BY <2>2, <2>3
<1> QED  BY <1>1, <1>2

LEMMA InvSound == ASSUME EditorInv PROVE EditorSound
BY InvFacts DEF EditorSound, Sound

(* The pointers of the gap buffer stay in order and in memory, whatever    *)
(* keys are pressed, and curr_hist stays one of the lines of the history.  *)
THEOREM EditorKept == Careful /\ KeysServe /\ Spec => []EditorSound
<1>1. Careful /\ KeysServe /\ EditorInv /\ [Next]_vars => EditorInv'
  BY NextInv
<1>2. Init => EditorInv
  BY InitInv
<1>3. EditorInv => EditorSound
  BY InvSound
<1>4. (Careful /\ KeysServe)' <=> (Careful /\ KeysServe)
  BY DEF KeysServe
<1> QED  BY <1>1, <1>2, <1>3, <1>4, PTL DEF Spec

(* Every key does to the line what its name says.                          *)
THEOREM KeysDoWhatTheySay == Careful /\ KeysServe /\ Spec => ImplementsLine
<1>1. Careful /\ KeysServe /\ EditorInv /\ [Next]_vars => EditorInv' /\ [L!Next]_(L!vars)
  BY NextInv
<1>2. Init => EditorInv /\ L!Init
  BY InitInv
<1>3. (Careful /\ KeysServe)' <=> (Careful /\ KeysServe)
  BY DEF KeysServe
<1> QED  BY <1>1, <1>2, <1>3, PTL DEF Spec, ImplementsLine, L!Spec

-----------------------------------------------------------------------------
(***************************************************************************)
(* What the theorems need, and README says of the code: no command file    *)
(* that is loaded later asks for more flows than the first.  The arrays    *)
(* are never made longer.                                                  *)
(***************************************************************************)
NoLarger ==
  \A t \in Tests : \A n \in DOMAIN t :
    Given(t[n], ScriptKeys) => t[n].flows <= t[1].flows

-----------------------------------------------------------------------------
(***************************************************************************)
(* Addresses are computed modulo Word.                                     *)
(***************************************************************************)
LEMMA ModSmall ==
  ASSUME NEW w \in Nat \ {0}, NEW a \in Int, 0 <= a, a < w
  PROVE  a % w = a
OBVIOUS

LEMMA ModBelow ==
  ASSUME NEW w \in Nat \ {0}, NEW a \in Int, a < 0, 0 <= a + w
  PROVE  a % w = a + w
OBVIOUS

(***************************************************************************)
(* The command file.                                                       *)
(***************************************************************************)
LEMMA TenLines ==
  ASSUME NEW a1, NEW a2, NEW a3, NEW a4, NEW a5,
         NEW a6, NEW a7, NEW a8, NEW a9, NEW a10,
         NEW s, s = (<<a1, a2>> \o <<a3, a4, a5, a6>>) \o <<a7, a8, a9, a10>>
  PROVE  /\ Len(s) = 10
         /\ s[1] = a1 /\ s[2] = a2 /\ s[3] = a3 /\ s[4] = a4 /\ s[5] = a5
         /\ s[6] = a6 /\ s[7] = a7 /\ s[8] = a8 /\ s[9] = a9 /\ s[10] = a10
<1> DEFINE S == {a1, a2, a3, a4, a5, a6, a7, a8, a9, a10}
           x == <<a1, a2>>
           y == <<a3, a4, a5, a6>>
           z == <<a7, a8, a9, a10>>
<1>1. x \in Seq(S) /\ Len(x) = 2 /\ x[1] = a1 /\ x[2] = a2
  OBVIOUS
<1>2. /\ y \in Seq(S) /\ Len(y) = 4
      /\ y[1] = a3 /\ y[2] = a4 /\ y[3] = a5 /\ y[4] = a6
  OBVIOUS
<1>3. /\ z \in Seq(S) /\ Len(z) = 4
      /\ z[1] = a7 /\ z[2] = a8 /\ z[3] = a9 /\ z[4] = a10
  OBVIOUS
<1>4. s = (x \o y) \o z
  OBVIOUS
<1> HIDE DEF S, x, y, z
<1>5. /\ x \o y \in Seq(S) /\ Len(x \o y) = 6
      /\ \A n \in 1..6 : (x \o y)[n] = IF n <= 2 THEN x[n] ELSE y[n - 2]
  <2>1. x \in Seq(S) /\ y \in Seq(S) /\ Len(x) = 2 /\ Len(y) = 4
    BY <1>1, <1>2
  <2>2. /\ x \o y \in Seq(S) /\ Len(x \o y) = Len(x) + Len(y)
        /\ \A n \in 1..(Len(x) + Len(y)) :
             (x \o y)[n] = IF n <= Len(x) THEN x[n] ELSE y[n - Len(x)]
    BY <2>1, ConcatProperties
  <2>3. Len(x) + Len(y) = 6
    BY <2>1
  <2> QED  BY <2>1, <2>2, <2>3
<1>6. /\ Len(s) = 10
      /\ \A n \in 1..10 : s[n] = IF n <= 6 THEN (x \o y)[n] ELSE z[n - 6]
  <2> DEFINE u == x \o y
  <2>1. u \in Seq(S) /\ z \in Seq(S) /\ Len(u) = 6 /\ Len(z) = 4 /\ s = u \o z
    BY <1>3, <1>4, <1>5
  <2> HIDE DEF u
  <2>2. /\ Len(u \o z) = Len(u) + Len(z)
        /\ \A n \in 1..(Len(u) + Len(z)) :
             (u \o z)[n] = IF n <= Len(u) THEN u[n] ELSE z[n - Len(u)]
    BY <2>1, ConcatProperties
  <2>3. Len(u) + Len(z) = 10
    BY <2>1
  <2>4. ASSUME NEW n \in 1..10
        PROVE  s[n] = IF n <= 6 THEN u[n] ELSE z[n - 6]
    <3>1. n \in 1..(Len(u) + Len(z))
      BY <2>3
    <3>2. (u \o z)[n] = IF n <= Len(u) THEN u[n] ELSE z[n - Len(u)]
      BY <2>2, <3>1
    <3>3. Len(u) = 6 /\ s = u \o z
      BY <2>1
    <3>4. s[n] = (u \o z)[n]
      BY <3>3
    <3> QED  BY <3>2, <3>3, <3>4
  <2> QED  BY <2>1, <2>2, <2>3, <2>4 DEF u
<1>7. s[1] = x[1] /\ s[2] = x[2]
  BY <1>5, <1>6
<1>8. s[3] = y[1] /\ s[4] = y[2] /\ s[5] = y[3] /\ s[6] = y[4]
  <2>1. ASSUME NEW n \in 3..6 PROVE s[n] = y[n - 2]
    <3>1. n \in 1..6 /\ n \in 1..10 /\ ~(n <= 2) /\ n <= 6
      OBVIOUS
    <3> QED  BY <1>5, <1>6, <3>1
  <2>2. s[3] = y[3 - 2] /\ s[4] = y[4 - 2] /\ s[5] = y[5 - 2] /\ s[6] = y[6 - 2]
    BY <2>1
  <2> QED  BY <2>2
<1>9. s[7] = z[1] /\ s[8] = z[2] /\ s[9] = z[3] /\ s[10] = z[4]
  BY <1>6
<1> QED  BY <1>1, <1>2, <1>3, <1>6, <1>7, <1>8, <1>9

LEMMA ScriptGen ==
  ASSUME role = "gen", NEW cfg
  PROVE  LET lo     == cfg.ue_ip_range[1]
             last   == Minus(lo + cfg.flows, 1)
             server == cfg.app_srvr_ip_range[1]
             s      == Script(cfg)
         IN /\ Len(s) = 10
            /\ s[1] = <<"single", "src", lo>> /\ s[2] = <<"single", "dst", server>>
            /\ s[3] = <<"srcIp", "start", lo>> /\ s[4] = <<"srcIp", "min", lo>>
            /\ s[5] = <<"srcIp", "max", last>> /\ s[6] = <<"srcIp", "inc", 1>>
            /\ s[7] = <<"dstIp", "start", server>> /\ s[8] = <<"dstIp", "min", server>>
            /\ s[9] = <<"dstIp", "max", server>> /\ s[10] = <<"dstIp", "inc", 0>>
<1> DEFINE lo     == cfg.ue_ip_range[1]
           last   == Minus(lo + cfg.flows, 1)
           server == cfg.app_srvr_ip_range[1]
           s      == Script(cfg)
<1>1. s = (<< <<"single", "src", lo>>, <<"single", "dst", server>> >>
           \o << <<"srcIp", "start", lo>>, <<"srcIp", "min", lo>>,
                 <<"srcIp", "max", last>>, <<"srcIp", "inc", 1>> >>)
           \o << <<"dstIp", "start", server>>, <<"dstIp", "min", server>>,
                 <<"dstIp", "max", server>>, <<"dstIp", "inc", 0>> >>
  BY DEF Script
<1> HIDE DEF lo, last, server, s
<1> QED  BY <1>1, TenLines DEF lo, last, server, s

LEMMA ScriptResp ==
  ASSUME role # "gen", NEW cfg
  PROVE  LET lo     == cfg.ue_ip_range[1]
             last   == Minus(lo + cfg.flows, 1)
             server == cfg.app_srvr_ip_range[1]
             s      == Script(cfg)
         IN /\ Len(s) = 10
            /\ s[1] = <<"single", "src", server>> /\ s[2] = <<"single", "dst", lo>>
            /\ s[3] = <<"srcIp", "start", server>> /\ s[4] = <<"srcIp", "min", server>>
            /\ s[5] = <<"srcIp", "max", server>> /\ s[6] = <<"srcIp", "inc", 0>>
            /\ s[7] = <<"dstIp", "start", lo>> /\ s[8] = <<"dstIp", "min", lo>>
            /\ s[9] = <<"dstIp", "max", last>> /\ s[10] = <<"dstIp", "inc", 1>>
<1> DEFINE lo     == cfg.ue_ip_range[1]
           last   == Minus(lo + cfg.flows, 1)
           server == cfg.app_srvr_ip_range[1]
           s      == Script(cfg)
<1>1. s = (<< <<"single", "src", server>>, <<"single", "dst", lo>> >>
           \o << <<"srcIp", "start", server>>, <<"srcIp", "min", server>>,
                 <<"srcIp", "max", server>>, <<"srcIp", "inc", 0>> >>)
           \o << <<"dstIp", "start", lo>>, <<"dstIp", "min", lo>>,
                 <<"dstIp", "max", last>>, <<"dstIp", "inc", 1>> >>
  BY DEF Script
<1> HIDE DEF lo, last, server, s
<1> QED  BY <1>1, TenLines DEF lo, last, server, s
-----------------------------------------------------------------------------
(***************************************************************************)
(* The inductive invariant.                                                *)
(***************************************************************************)
LastUe   == Ue(test) + Loaded.flows - 1
Top      == Ue(test) + test[1].flows - 1     \* the last UE there is a row for
SrcMin   == IF role = "gen" THEN Ue(test) ELSE Server(test)
Rows     == Minus(Top + 1, SrcMin)
UeLine   == IF role = "gen" THEN 1 ELSE 2    \* the UE side's address
OpenLine == IF role = "gen" THEN 5 ELSE 9    \* the UE side's max
Past(n)  == loaded > 1 \/ line > n

\* The text a command file was written from last.
Latest(k) ==
  /\ Given(test[k], ScriptKeys)
  /\ \A m \in (k + 1)..loaded : ~Given(test[m], ScriptKeys)

LoadInv ==
  /\ role \in {"gen", "resp"} /\ test \in Tests
  /\ loaded \in 1..Len(test) /\ line \in 1..12
  /\ \E k \in 1..loaded : Latest(k)

(* The window opens with the last assignment, and never beyond the rows.   *)
WindowInv ==
  /\ window \in [start : 0..(Word - 1), end : 0..Top]
  /\ Past(UeLine) => window.start = Ue(test)
  /\ window.end # 0 => Past(OpenLine)

RangeInv ==
  /\ "srcIp" \in DOMAIN range /\ "min" \in DOMAIN range["srcIp"]
  /\ Past(4) => range["srcIp"]["min"] = SrcMin

(* Before the window opens each lcore has its rows, or they are still to be *)
(* allocated.                                                              *)
TodoInv ==
  todo # << >> =>
    /\ line = OpenLine
    /\ todo[Len(todo)] = <<"end", LastUe>>
    /\ \A n \in 1..(Len(todo) - 1) : todo[n] \in Lcores
    /\ IF loaded = 1
         THEN /\ subs = Rows
              /\ \A l \in Lcores : row[l] = None =>
                   \E n \in 1..(Len(todo) - 1) : todo[n] = l
         ELSE Len(todo) = 1 /\ \A l \in Lcores : row[l] = Rows

RowInv ==
  /\ row \in [Lcores -> {None, Rows}]
  /\ todo \in Seq(Lcores \cup {<<"end", LastUe>>})
  /\ todo = << >> => \A l \in Lcores : row[l] = IF Past(OpenLine) THEN Rows ELSE None
  /\ TodoInv

CountInv ==
  /\ at \in [Lcores -> 0..(Word - 1)]
  /\ flow \in [Lcores -> [0..(Word - 1) -> Nat]]
  /\ seen \in [Lcores -> [0..(Word - 1) -> Nat]]
  /\ \A l \in Lcores : at[l] # 0 => at[l] \in Ue(test)..Top /\ Past(OpenLine)
  /\ InBounds /\ FlowsAddUp

FlowsInv == LoadInv /\ WindowInv /\ RangeInv /\ RowInv /\ CountInv

-----------------------------------------------------------------------------
(***************************************************************************)
(* What the tests have in common.                                          *)
(***************************************************************************)
LEMMA TestFacts ==
  ASSUME NEW t \in Tests
  PROVE  /\ Len(t) \in Nat \ {0} /\ DOMAIN t = 1..Len(t)
         /\ Given(t[1], ScriptKeys)
         /\ Ue(t) \in 0..(Word - 1) /\ Server(t) \in 1..(Word - 1)
         /\ \A n \in 1..Len(t) : Given(t[n], ScriptKeys) =>
              /\ t[n].flows \in Nat \ {0} /\ Ue(t) + t[n].flows <= Word
              /\ t[n].ue_ip_range[1] = Ue(t) /\ t[n].app_srvr_ip_range[1] = Server(t)
              /\ Server(t) \notin Ue(t)..(Ue(t) + t[n].flows)
<1>1. t \in Seq(ToSet(t)) /\ t # << >>
  BY TestsAssumption
<1>2. Len(t) \in Nat \ {0} /\ DOMAIN t = 1..Len(t)
  BY <1>1, LenProperties, EmptySeq
<1> QED  BY <1>2, TestsAssumption

(***************************************************************************)
(* The text that is loaded is one of the test's, and asks for no more      *)
(* flows than the first.                                                   *)
(***************************************************************************)
LEMMA LoadedFacts ==
  ASSUME NoLarger, LoadInv
  PROVE  /\ Loaded.flows \in Nat \ {0} /\ Loaded.flows <= test[1].flows
         /\ Loaded.ue_ip_range[1] = Ue(test)
         /\ Loaded.app_srvr_ip_range[1] = Server(test)
         /\ test[1].flows \in Nat \ {0} /\ Ue(test) + test[1].flows <= Word
         /\ Ue(test) \in 0..(Word - 1) /\ Server(test) \in 1..(Word - 1)
         /\ Server(test) \notin Ue(test)..(Ue(test) + test[1].flows)
         /\ loaded = 1 => Loaded = test[1]
<1>1. PICK k \in 1..loaded : Latest(k)
  BY DEF LoadInv
<1> DEFINE c == CHOOSE c \in 1..loaded : Latest(c)
<1>2. c \in 1..loaded /\ Latest(c)
  BY <1>1
<1>3. Loaded = test[c]
  BY DEF Loaded, Asked, Latest
<1> HIDE DEF c
<1>4. test \in Tests /\ loaded \in 1..Len(test) /\ Len(test) \in Nat \ {0}
  BY TestFacts DEF LoadInv
<1>5. c \in 1..Len(test) /\ 1 \in 1..Len(test) /\ Given(test[c], ScriptKeys)
  BY <1>2, <1>4 DEF Latest
<1>6. /\ test[c].flows \in Nat \ {0}
      /\ test[c].ue_ip_range[1] = Ue(test)
      /\ test[c].app_srvr_ip_range[1] = Server(test)
  BY <1>4, <1>5, TestFacts
<1>7. /\ test[1].flows \in Nat \ {0} /\ Ue(test) + test[1].flows <= Word
      /\ Ue(test) \in 0..(Word - 1) /\ Server(test) \in 1..(Word - 1)
      /\ Server(test) \notin Ue(test)..(Ue(test) + test[1].flows)
  BY <1>4, <1>5, TestFacts
<1>8. test[c].flows <= test[1].flows
  BY <1>4, <1>5, TestFacts DEF NoLarger
<1>9. loaded = 1 => c = 1
  BY <1>2
<1> QED  BY <1>3, <1>6, <1>7, <1>8, <1>9

LEMMA LastFacts ==
  ASSUME NoLarger, LoadInv
  PROVE  /\ LastUe \in 0..Top /\ Top \in 0..(Word - 1)
         /\ Minus(Ue(test) + Loaded.flows, 1) = LastUe
         /\ Minus(LastUe + 1, SrcMin) = Rows \/ loaded # 1
         /\ Ue(test) \in Nat /\ Word \in Nat \ {0}
<1> DEFINE u == Ue(test)
           f == Loaded.flows
           g == test[1].flows
<1>1. /\ u \in 0..(Word - 1) /\ f \in Nat \ {0} /\ g \in Nat \ {0}
      /\ f <= g /\ u + g <= Word /\ Word \in Nat \ {0}
  BY LoadedFacts, WordAssumption
<1>2. loaded = 1 => LastUe = Top
  BY LoadedFacts DEF LastUe, Top
<1>3. LastUe = u + f - 1 /\ Top = u + g - 1
  BY DEF LastUe, Top
<1> HIDE DEF u, f, g
<1>4. LastUe \in 0..Top /\ Top \in 0..(Word - 1)
  BY <1>1, <1>3
<1>5. (u + f - 1) % Word = u + f - 1
  <2>1. u + f - 1 \in Int /\ 0 <= u + f - 1 /\ u + f - 1 < Word
    BY <1>1
  <2> QED  BY <1>1, <2>1, ModSmall
<1> QED  BY <1>1, <1>2, <1>3, <1>4, <1>5 DEF Minus, Rows, u, f

(***************************************************************************)
(* There are rows for all flows of the first text: on the responder, whose *)
(* rows are counted from the server's address, because that is not among   *)
(* the users'.                                                             *)
(***************************************************************************)
LEMMA RowsSuffice ==
  ASSUME NoLarger, LoadInv
  PROVE  Rows \in Nat \ {0} /\ Rows >= Top + 1 - Ue(test)
<1> DEFINE u == Ue(test)
           v == Server(test)
           g == test[1].flows
<1>1. /\ u \in 0..(Word - 1) /\ v \in 1..(Word - 1) /\ g \in Nat \ {0}
      /\ u + g <= Word /\ Word \in Nat \ {0} /\ v \notin u..(u + g)
  BY LoadedFacts, WordAssumption
<1>2. Top = u + g - 1 /\ Top \in Int /\ Top + 1 = u + g /\ u = Ue(test)
  BY <1>1 DEF Top
<1>3. Rows = ((u + g) - SrcMin) % Word /\ SrcMin = IF role = "gen" THEN u ELSE v
  <2>1. Rows = ((Top + 1) - SrcMin) % Word
    BY DEF Rows, Minus
  <2>2. SrcMin = IF role = "gen" THEN u ELSE v
    BY DEF SrcMin
  <2> QED  BY <1>2, <2>1, <2>2
<1> HIDE DEF u, v, g
<1>4. CASE role = "gen" /\ g < Word
  <2>1. ((u + g) - u) % Word = g
    <3>1. (u + g) - u = g /\ g \in Int /\ 0 <= g
      BY <1>1
    <3> QED  BY <1>1, <1>4, <3>1, ModSmall
  <2>2. Rows = g
    BY <1>3, <1>4, <2>1
  <2> QED  BY <1>1, <1>2, <2>2
<1>5. CASE role # "gen" /\ v < u
  <2>1. ((u + g) - v) % Word = (u + g) - v
    <3>1. (u + g) - v \in Int /\ 0 <= (u + g) - v /\ (u + g) - v < Word
      BY <1>1, <1>5
    <3> QED  BY <1>1, <3>1, ModSmall
  <2>2. Rows = (u + g) - v
    BY <1>3, <1>5, <2>1
  <2> QED  BY <1>1, <1>2, <1>5, <2>2
<1>6. CASE role # "gen" /\ v > u + g
  <2>1. ((u + g) - v) % Word = ((u + g) - v) + Word
    <3>1. (u + g) - v \in Int /\ (u + g) - v < 0 /\ 0 <= ((u + g) - v) + Word
      BY <1>1, <1>6
    <3> QED  BY <1>1, <3>1, ModBelow
  <2>2. Rows = ((u + g) - v) + Word
    BY <1>3, <1>6, <2>1
  <2> QED  BY <1>1, <1>2, <1>6, <2>2
<1>7. g < Word
  BY <1>1
<1> QED  BY <1>1, <1>4, <1>5, <1>6, <1>7

(***************************************************************************)
(* The lines of the file that matter here: the UE side's address, the      *)
(* least source address, and the UE side's last address.                   *)
(***************************************************************************)
LEMMA LineFacts ==
  ASSUME NoLarger, LoadInv
  PROVE  /\ Len(Lines) = 10 /\ UeLine \in 1..10 /\ OpenLine \in 1..10 /\ UeLine < 4
         /\ Lines[UeLine] = <<"single", UeWord, Ue(test)>>
         /\ Lines[4] = <<"srcIp", "min", SrcMin>>
         /\ Lines[OpenLine] = <<UeField, "max", LastUe>>
         /\ \A n \in 1..10 :
              /\ Lines[n][1] = "single" /\ Lines[n][2] = UeWord => n = UeLine
              /\ Lines[n][1] = "srcIp" /\ Lines[n][2] = "min" => n = 4
              /\ Lines[n][1] = UeField /\ Lines[n][2] = "max" => n = OpenLine
<1> DEFINE lo == Loaded.ue_ip_range[1]
           server == Loaded.app_srvr_ip_range[1]
           last == Minus(lo + Loaded.flows, 1)
<1>1. lo = Ue(test) /\ server = Server(test) /\ last = LastUe
  BY LoadedFacts, LastFacts
<1>2. CASE role = "gen"
  <2>1. /\ Len(Lines) = 10
        /\ Lines[1] = <<"single", "src", lo>> /\ Lines[2] = <<"single", "dst", server>>
        /\ Lines[3] = <<"srcIp", "start", lo>> /\ Lines[4] = <<"srcIp", "min", lo>>
        /\ Lines[5] = <<"srcIp", "max", last>> /\ Lines[6] = <<"srcIp", "inc", 1>>
        /\ Lines[7] = <<"dstIp", "start", server>>
        /\ Lines[8] = <<"dstIp", "min", server>>
        /\ Lines[9] = <<"dstIp", "max", server>> /\ Lines[10] = <<"dstIp", "inc", 0>>
    BY <1>2, ScriptGen DEF Lines
  <2>2. UeLine = 1 /\ OpenLine = 5 /\ UeField = "srcIp" /\ UeWord = "src"
        /\ SrcMin = Ue(test)
    BY <1>2 DEF UeLine, OpenLine, UeField, UeWord, SrcMin
  <2> HIDE DEF lo, server, last
  <2>3. ASSUME NEW n \in 1..10
        PROVE  /\ Lines[n][1] = "single" /\ Lines[n][2] = "src" => n = 1
               /\ Lines[n][1] = "srcIp" /\ Lines[n][2] = "min" => n = 4
               /\ Lines[n][1] = "srcIp" /\ Lines[n][2] = "max" => n = 5
    <3>1. n \in {1, 2, 3, 4, 5, 6, 7, 8, 9, 10}
      OBVIOUS
    <3> QED  BY <2>1, <3>1
  <2> QED  BY <1>1, <2>1, <2>2, <2>3
<1>3. CASE role # "gen"
  <2>1. /\ Len(Lines) = 10
        /\ Lines[1] = <<"single", "src", server>> /\ Lines[2] = <<"single", "dst", lo>>
        /\ Lines[3] = <<"srcIp", "start", server>>
        /\ Lines[4] = <<"srcIp", "min", server>>
        /\ Lines[5] = <<"srcIp", "max", server>> /\ Lines[6] = <<"srcIp", "inc", 0>>
        /\ Lines[7] = <<"dstIp", "start", lo>> /\ Lines[8] = <<"dstIp", "min", lo>>
        /\ Lines[9] = <<"dstIp", "max", last>> /\ Lines[10] = <<"dstIp", "inc", 1>>
    BY <1>3, ScriptResp DEF Lines
  <2>2. UeLine = 2 /\ OpenLine = 9 /\ UeField = "dstIp" /\ UeWord = "dst"
        /\ SrcMin = Server(test)
    BY <1>3 DEF UeLine, OpenLine, UeField, UeWord, SrcMin
  <2> HIDE DEF lo, server, last
  <2>3. ASSUME NEW n \in 1..10
        PROVE  /\ Lines[n][1] = "single" /\ Lines[n][2] = "dst" => n = 2
               /\ Lines[n][1] = "srcIp" /\ Lines[n][2] = "min" => n = 4
               /\ Lines[n][1] = "dstIp" /\ Lines[n][2] = "max" => n = 9
    <3>1. n \in {1, 2, 3, 4, 5, 6, 7, 8, 9, 10}
      OBVIOUS
    <3> QED  BY <2>1, <3>1
  <2> QED  BY <1>1, <2>1, <2>2, <2>3
<1> QED  BY <1>2, <1>3

-----------------------------------------------------------------------------
(***************************************************************************)
(* The thread that runs the commands.                                      *)
(***************************************************************************)
LEMMA SameTest ==
  ASSUME UNCHANGED <<role, test, loaded>>
  PROVE  /\ Loaded' = Loaded /\ LastUe' = LastUe /\ Top' = Top /\ SrcMin' = SrcMin
         /\ Rows' = Rows /\ UeLine' = UeLine /\ OpenLine' = OpenLine
         /\ \A k : Latest(k)' = Latest(k)
  BY DEF Loaded, LastUe, Top, SrcMin, Rows, UeLine, OpenLine, Latest

LEMMA SetSingleStep ==
  ASSUME NoLarger, FlowsInv, todo = << >>, line <= 10,
         NEW cmd, cmd = Lines[line], cmd[1] = "single", SetSingle(cmd[2], cmd[3])
  PROVE  FlowsInv'
<1>1. /\ window' = IF cmd[2] = UeWord THEN [window EXCEPT !.start = cmd[3]] ELSE window
      /\ line' = line + 1
      /\ UNCHANGED <<role, test, loaded, todo, subs, range, row>>
      /\ UNCHANGED <<flow, total, at, seen, wild>>
  BY DEF SetSingle, who, build, counters
<1>2. /\ LastUe' = LastUe /\ Top' = Top /\ SrcMin' = SrcMin /\ Rows' = Rows
      /\ UeLine' = UeLine /\ OpenLine' = OpenLine /\ \A k : Latest(k)' = Latest(k)
  BY <1>1, SameTest
<1>3. line \in 1..10 /\ LoadInv /\ loaded \in Nat
  BY DEF FlowsInv, LoadInv
<1>4. /\ Lines[UeLine] = <<"single", UeWord, Ue(test)>>
      /\ cmd[2] = UeWord => line = UeLine /\ cmd[3] = Ue(test)
      /\ line # 4 /\ line # OpenLine
      /\ UeLine \in 1..10 /\ OpenLine \in 1..10
  <2>1. cmd[2] = UeWord => line = UeLine
    BY <1>3, LineFacts
  <2>2. UeField # "single"
    BY DEF UeField
  <2> QED  BY <1>3, <2>1, <2>2, LineFacts
<1>5. /\ Past(UeLine)' => Past(UeLine) \/ line = UeLine
      /\ Past(4)' <=> Past(4)
      /\ Past(OpenLine)' <=> Past(OpenLine)
  BY <1>1, <1>2, <1>3, <1>4 DEF Past
<1>6. LoadInv'
  BY <1>1, <1>2, <1>3 DEF FlowsInv, LoadInv
<1>7. WindowInv'
  <2>1. /\ window \in [start : 0..(Word - 1), end : 0..Top]
        /\ Past(UeLine) => window.start = Ue(test)
        /\ window.end # 0 => Past(OpenLine)
    BY DEF FlowsInv, WindowInv
  <2>2. Ue(test) \in 0..(Word - 1)
    BY <1>3, LoadedFacts
  <2>3. line = UeLine => cmd[2] = UeWord
    BY <1>4
  <2>4. CASE cmd[2] = UeWord
    <3>1. /\ window' \in [start : 0..(Word - 1), end : 0..Top]
          /\ window'.start = Ue(test) /\ window'.end = window.end
      BY <1>1, <1>4, <2>1, <2>2, <2>4
    <3> QED  BY <1>1, <1>2, <1>5, <2>1, <3>1 DEF WindowInv
  <2>5. CASE cmd[2] # UeWord
    BY <1>1, <1>2, <1>5, <2>1, <2>3, <2>5 DEF WindowInv
  <2> QED  BY <2>4, <2>5
<1>8. RangeInv'
  BY <1>1, <1>2, <1>5 DEF FlowsInv, RangeInv
<1>9. RowInv'
  BY <1>1, <1>2, <1>5 DEF FlowsInv, RowInv, TodoInv
<1>10. CountInv'
  BY <1>1, <1>2, <1>5 DEF FlowsInv, CountInv, InBounds, FlowsAddUp
<1> QED  BY <1>6, <1>7, <1>8, <1>9, <1>10 DEF FlowsInv

LEMMA SetRangeStep ==
  ASSUME NoLarger, FlowsInv, todo = << >>, line <= 10,
         NEW cmd, cmd = Lines[line], SetRange(cmd[1], cmd[2], cmd[3]), cmd[1] # "single"
  PROVE  FlowsInv'
<1>1. /\ cmd[1] = UeField => cmd[2] # "max"
      /\ range' = [range EXCEPT ![cmd[1]][cmd[2]] = cmd[3]]
      /\ line' = line + 1
      /\ UNCHANGED <<role, test, loaded, todo, subs, window, row>>
      /\ UNCHANGED <<flow, total, at, seen, wild>>
  BY DEF SetRange, who, build, counters
<1>2. /\ LastUe' = LastUe /\ Top' = Top /\ SrcMin' = SrcMin /\ Rows' = Rows
      /\ UeLine' = UeLine /\ OpenLine' = OpenLine /\ \A k : Latest(k)' = Latest(k)
  BY <1>1, SameTest
<1>3. line \in 1..10 /\ LoadInv /\ loaded \in Nat
  BY DEF FlowsInv, LoadInv
<1>4. /\ cmd[1] = "srcIp" /\ cmd[2] = "min" => line = 4
      /\ line = 4 => cmd[1] = "srcIp" /\ cmd[2] = "min" /\ cmd[3] = SrcMin
      /\ line # OpenLine /\ line # UeLine
      /\ UeLine \in 1..10 /\ OpenLine \in 1..10
  BY <1>1, <1>3, LineFacts
<1>5. /\ Past(UeLine)' <=> Past(UeLine)
      /\ Past(4)' => Past(4) \/ line = 4
      /\ Past(OpenLine)' <=> Past(OpenLine)
  BY <1>1, <1>2, <1>3, <1>4 DEF Past
<1>6. LoadInv'
  BY <1>1, <1>2, <1>3 DEF FlowsInv, LoadInv
<1>7. WindowInv'
  BY <1>1, <1>2, <1>5 DEF FlowsInv, WindowInv
<1>8. RangeInv'
  <2>1. /\ "srcIp" \in DOMAIN range /\ "min" \in DOMAIN range["srcIp"]
        /\ Past(4) => range["srcIp"]["min"] = SrcMin
    BY DEF FlowsInv, RangeInv
  <2>2. CASE cmd[1] = "srcIp"
    <3>1. /\ "srcIp" \in DOMAIN range'
          /\ range'["srcIp"] = [range["srcIp"] EXCEPT ![cmd[2]] = cmd[3]]
      BY <1>1, <2>1, <2>2
    <3>2. /\ "min" \in DOMAIN range'["srcIp"]
          /\ range'["srcIp"]["min"] =
               IF cmd[2] = "min" THEN cmd[3] ELSE range["srcIp"]["min"]
      BY <2>1, <3>1
    <3> QED  BY <1>2, <1>4, <1>5, <2>1, <2>2, <3>1, <3>2 DEF RangeInv
  <2>3. CASE cmd[1] # "srcIp"
    <3>1. "srcIp" \in DOMAIN range' /\ range'["srcIp"] = range["srcIp"]
      BY <1>1, <2>1, <2>3
    <3> QED  BY <1>2, <1>4, <1>5, <2>1, <2>3, <3>1 DEF RangeInv
  <2> QED  BY <2>2, <2>3
<1>9. RowInv'
  BY <1>1, <1>2, <1>5 DEF FlowsInv, RowInv, TodoInv
<1>10. CountInv'
  BY <1>1, <1>2, <1>5 DEF FlowsInv, CountInv, InBounds, FlowsAddUp
<1> QED  BY <1>6, <1>7, <1>8, <1>9, <1>10 DEF FlowsInv

(***************************************************************************)
(* The rows that are to be allocated.                                      *)
(***************************************************************************)
LEMMA ListOfSet ==
  ASSUME NEW S, IsFiniteSet(S)
  PROVE  /\ SetToSeq(S) \in Seq(S)
         /\ \A x \in S : \E n \in 1..Len(SetToSeq(S)) : SetToSeq(S)[n] = x
<1> DEFINE c == Cardinality(S)
           f == SetToSeq(S)
<1>1. c \in Nat /\ ExistsBijection(1..c, S)
  BY FS_CardinalityType
<1>2. \E g \in [1..c -> S] : IsInjective(g)
  BY <1>1 DEF ExistsBijection, Bijection, Injection
<1>3. f \in [1..c -> S] /\ IsInjective(f)
  BY <1>2 DEF SetToSeq
<1>4. f \in Injection(1..c, S)
  BY <1>3 DEF Injection
<1>5. IsFiniteSet(1..c) /\ Cardinality(1..c) = c
  BY <1>1, FS_Interval
<1>6. f \in Surjection(1..c, S)
  BY <1>4, <1>5, FS_Injection
<1> HIDE DEF f, c
<1>7. f \in Seq(S)
  BY <1>1, <1>3, SeqDef
<1>8. Len(f) \in Nat /\ DOMAIN f = 1..Len(f)
  BY <1>7, LenProperties
<1>9. \A x \in S : \E n \in 1..Len(f) : f[n] = x
  BY <1>3, <1>6, <1>8 DEF Surjection
<1> QED  BY <1>7, <1>9 DEF f

LEMMA MissingFacts ==
  ASSUME NEW d \in Dirs
  PROVE  /\ Missing(d) \in Seq(Lcores)
         /\ (\A l \in Lcores : row[l] = None) =>
              \A q \in Queues : \E n \in 1..Len(Missing(d)) : Missing(d)[n] = <<d, q>>
         /\ (\A l \in Lcores : row[l] # None) => Missing(d) = << >>
<1> DEFINE S == {d} \X Queues
<1>1. IsFiniteSet({d}) /\ IsFiniteSet(Queues) /\ Queues # {}
  BY FS_Singleton, FlowsAssumption
<1>2. IsFiniteSet(S)
  BY <1>1, FS_Product
<1>3. S \subseteq Lcores /\ \A q \in Queues : <<d, q>> \in S
  BY DEF Lcores
<1> HIDE DEF S
<1>4. /\ SetToSeq(S) \in Seq(S)
      /\ \A x \in S : \E n \in 1..Len(SetToSeq(S)) : SetToSeq(S)[n] = x
  BY <1>2, ListOfSet
<1>5. SetToSeq(S) \in Seq(Lcores)
  BY <1>3, <1>4
<1>6. Missing(d) = IF \A q \in Queues : row[<<d, q>>] = None THEN SetToSeq(S) ELSE << >>
  BY DEF Missing, S
<1>7. << >> \in Seq(Lcores)
  BY EmptySeq
<1>8. \A q \in Queues : <<d, q>> \in Lcores
  BY DEF Lcores
<1>9. CASE \A q \in Queues : row[<<d, q>>] = None
  BY <1>1, <1>3, <1>4, <1>5, <1>6, <1>8, <1>9
<1>10. CASE ~\A q \in Queues : row[<<d, q>>] = None
  BY <1>6, <1>7, <1>8, <1>10
<1> QED  BY <1>9, <1>10

LEMMA AllMissing ==
  ASSUME NEW m, m = Missing("tx") \o Missing("rx")
  PROVE  /\ m \in Seq(Lcores) /\ Len(m) \in Nat
         /\ (\A l \in Lcores : row[l] = None) =>
              \A l \in Lcores : \E n \in 1..Len(m) : m[n] = l
         /\ (\A l \in Lcores : row[l] # None) => Len(m) = 0
<1> DEFINE x == Missing("tx")
           y == Missing("rx")
<1>1. "tx" \in Dirs /\ "rx" \in Dirs
  BY DEF Dirs
<1>2. /\ x \in Seq(Lcores) /\ y \in Seq(Lcores)
      /\ (\A l \in Lcores : row[l] # None) => x = << >> /\ y = << >>
  BY <1>1, MissingFacts
<1>3. ASSUME \A l \in Lcores : row[l] = None, NEW q \in Queues
      PROVE  /\ \E n \in 1..Len(x) : x[n] = <<"tx", q>>
             /\ \E n \in 1..Len(y) : y[n] = <<"rx", q>>
  BY <1>1, <1>3, MissingFacts
<1>4. m = x \o y
  OBVIOUS
<1> HIDE DEF x, y
<1>5. /\ x \o y \in Seq(Lcores) /\ Len(x \o y) = Len(x) + Len(y)
      /\ \A n \in 1..(Len(x) + Len(y)) :
           (x \o y)[n] = IF n <= Len(x) THEN x[n] ELSE y[n - Len(x)]
  BY <1>2, ConcatProperties
<1>6. Len(x) \in Nat /\ Len(y) \in Nat
  BY <1>2, LenProperties
<1>7. m \in Seq(Lcores) /\ Len(m) = Len(x) + Len(y)
  BY <1>4, <1>5
<1>8. ASSUME NEW n \in 1..Len(x)
      PROVE  n \in 1..Len(m) /\ m[n] = x[n]
  <2>1. n \in 1..(Len(x) + Len(y)) /\ n <= Len(x)
    BY <1>6
  <2>2. (x \o y)[n] = x[n]
    BY <1>5, <2>1
  <2> QED  BY <1>4, <1>7, <2>1, <2>2
<1>9. ASSUME NEW n \in 1..Len(y)
      PROVE  Len(x) + n \in 1..Len(m) /\ m[Len(x) + n] = y[n]
  <2>1. /\ Len(x) + n \in 1..(Len(x) + Len(y)) /\ ~(Len(x) + n <= Len(x))
        /\ (Len(x) + n) - Len(x) = n
    BY <1>6
  <2>2. (x \o y)[Len(x) + n] = y[n]
    BY <1>5, <2>1
  <2> QED  BY <1>4, <1>7, <2>1, <2>2
<1>10. ASSUME \A l \in Lcores : row[l] = None, NEW l \in Lcores
       PROVE  \E n \in 1..Len(m) : m[n] = l
  <2>1. PICK q \in Queues : l = <<"tx", q>> \/ l = <<"rx", q>>
    BY DEF Lcores, Dirs
  <2>2. CASE l = <<"tx", q>>
    <3>1. PICK n \in 1..Len(x) : x[n] = <<"tx", q>>
      BY <1>3, <1>10
    <3> QED  BY <1>8, <2>2, <3>1
  <2>3. CASE l = <<"rx", q>>
    <3>1. PICK n \in 1..Len(y) : y[n] = <<"rx", q>>
      BY <1>3, <1>10
    <3> QED  BY <1>9, <2>3, <3>1
  <2> QED  BY <2>1, <2>2, <2>3
<1>11. (\A l \in Lcores : row[l] # None) => Len(m) = 0
  BY <1>2, <1>7, EmptySeq
<1>12. Len(m) \in Nat
  BY <1>6, <1>7
<1> QED  BY <1>7, <1>10, <1>11, <1>12

LEMMA OpenRangeStep ==
  ASSUME NoLarger, FlowsInv, todo = << >>, line <= 10,
         NEW cmd, cmd = Lines[line], cmd[1] = UeField, cmd[2] = "max", OpenRange(cmd[3])
  PROVE  FlowsInv'
<1> DEFINE m == Missing("tx") \o Missing("rx")
           e == <<"end", LastUe>>
<1>1. line \in 1..10 /\ LoadInv /\ loaded \in 1..Len(test) /\ loaded \in Nat
  BY DEF FlowsInv, LoadInv
<1>2. line = OpenLine /\ cmd[3] = LastUe /\ OpenLine \in {5, 9}
  BY <1>1, LineFacts DEF OpenLine
<1>3. /\ subs' = Minus(LastUe + 1, range.srcIp.min) /\ todo' = m \o <<e>>
      /\ UNCHANGED <<role, test, loaded, line, window, range, row>>
      /\ UNCHANGED <<flow, total, at, seen, wild>>
  BY <1>2 DEF OpenRange, who, build, counters
<1>4. /\ LastUe' = LastUe /\ Top' = Top /\ SrcMin' = SrcMin /\ Rows' = Rows
      /\ UeLine' = UeLine /\ OpenLine' = OpenLine /\ \A k : Latest(k)' = Latest(k)
      /\ \A n : Past(n)' <=> Past(n)
  BY <1>3, SameTest DEF Past
<1>5. LoadInv' /\ WindowInv' /\ RangeInv' /\ CountInv'
  <2>1. LoadInv'
    BY <1>3, <1>4 DEF FlowsInv, LoadInv
  <2>2. WindowInv'
    BY <1>3, <1>4 DEF FlowsInv, WindowInv
  <2>3. RangeInv'
    BY <1>3, <1>4 DEF FlowsInv, RangeInv
  <2>4. CountInv'
    BY <1>3, <1>4 DEF FlowsInv, CountInv, InBounds, FlowsAddUp
  <2> QED  BY <2>1, <2>2, <2>3, <2>4
<1>6. loaded = 1 => subs' = Rows
  <2>1. Past(4)
    BY <1>1, <1>2 DEF Past
  <2>2. range.srcIp.min = SrcMin
    BY <2>1 DEF FlowsInv, RangeInv
  <2> QED  BY <1>1, <1>3, <2>2, LastFacts
<1>7. /\ m \in Seq(Lcores) /\ Len(m) \in Nat
      /\ (\A l \in Lcores : row[l] = None) =>
           \A l \in Lcores : \E n \in 1..Len(m) : m[n] = l
      /\ (\A l \in Lcores : row[l] # None) => Len(m) = 0
  BY AllMissing
<1> HIDE DEF m, e
<1>8. /\ todo' \in Seq(Lcores \cup {e}) /\ Len(todo') = Len(m) + 1
      /\ todo'[Len(m) + 1] = e /\ \A n \in 1..Len(m) : todo'[n] = m[n]
  <2> DEFINE T == Lcores \cup {e}
  <2>1. m \in Seq(T) /\ <<e>> \in Seq(T) /\ Len(<<e>>) = 1 /\ <<e>>[1] = e
    BY <1>7
  <2> HIDE DEF T
  <2>2. /\ m \o <<e>> \in Seq(T) /\ Len(m \o <<e>>) = Len(m) + 1
        /\ \A n \in 1..(Len(m) + 1) :
             (m \o <<e>>)[n] = IF n <= Len(m) THEN m[n] ELSE <<e>>[n - Len(m)]
    BY <2>1, ConcatProperties
  <2>3. (m \o <<e>>)[Len(m) + 1] = e
    <3>1. Len(m) + 1 \in 1..(Len(m) + 1) /\ ~(Len(m) + 1 <= Len(m))
          /\ (Len(m) + 1) - Len(m) = 1
      BY <1>7
    <3> QED  BY <2>1, <2>2, <3>1
  <2>4. ASSUME NEW n \in 1..Len(m) PROVE (m \o <<e>>)[n] = m[n]
    <3>1. n \in 1..(Len(m) + 1) /\ n <= Len(m)
      BY <1>7
    <3> QED  BY <2>2, <3>1
  <2> QED  BY <1>3, <2>2, <2>3, <2>4 DEF T
<1>9. ASSUME NEW n \in 1..Len(m) PROVE m[n] \in Lcores
  BY <1>7, ElementOfSeq
<1>10. RowInv'
  <2>1. Rows # None
    <3>1. Rows \in Nat
      BY <1>1, RowsSuffice
    <3> QED  BY <3>1 DEF None
  <2>2. Past(OpenLine) <=> loaded > 1
    BY <1>1, <1>2 DEF Past
  <2>3. row \in [Lcores -> {None, Rows}]
        /\ \A l \in Lcores : row[l] = IF Past(OpenLine) THEN Rows ELSE None
    BY DEF FlowsInv, RowInv
  <2>4. Len(todo') \in Nat /\ Len(todo') - 1 = Len(m) /\ todo' # << >>
    BY <1>7, <1>8, EmptySeq
  <2>5. todo'[Len(todo')] = e /\ \A n \in 1..(Len(todo') - 1) : todo'[n] \in Lcores
    BY <1>8, <1>9, <2>4
  <2>6. CASE loaded = 1
    <3>1. \A l \in Lcores : row[l] = None
      BY <2>2, <2>3, <2>6
    <3>2. \A l \in Lcores : \E n \in 1..(Len(todo') - 1) : todo'[n] = l
      BY <1>7, <1>8, <2>4, <3>1
    <3>3. TodoInv'
      BY <1>2, <1>3, <1>4, <1>6, <2>4, <2>5, <2>6, <3>2 DEF TodoInv, e
    <3> QED  BY <1>3, <1>4, <1>8, <2>3, <2>4, <3>3 DEF RowInv, e
  <2>7. CASE loaded # 1
    <3>1. \A l \in Lcores : row[l] = Rows
      BY <1>1, <2>2, <2>3, <2>7
    <3>2. Len(todo') = 1
      BY <1>7, <1>8, <2>1, <3>1
    <3>3. TodoInv'
      BY <1>2, <1>3, <1>4, <2>4, <2>5, <2>7, <3>1, <3>2 DEF TodoInv, e
    <3> QED  BY <1>3, <1>4, <1>8, <2>3, <2>4, <3>3 DEF RowInv, e
  <2> QED  BY <2>6, <2>7
<1> QED  BY <1>5, <1>10 DEF FlowsInv

(* What is still to be done with the range: rows, and the window last.     *)
LEMMA TodoFacts ==
  ASSUME FlowsInv, todo # << >>
  PROVE  /\ line = OpenLine /\ OpenLine \in {5, 9} /\ Len(todo) \in Nat \ {0}
         /\ Head(todo) = todo[1] /\ todo[Len(todo)] = <<"end", LastUe>>
         /\ \A n \in 1..(Len(todo) - 1) : todo[n] \in Lcores
         /\ Head(todo) \in Lcores => Len(todo) > 1 /\ loaded = 1
         /\ Head(todo)[1] = "end" => Len(todo) = 1
<1>1. /\ line = OpenLine /\ todo[Len(todo)] = <<"end", LastUe>>
      /\ \A n \in 1..(Len(todo) - 1) : todo[n] \in Lcores
      /\ todo \in Seq(Lcores \cup {<<"end", LastUe>>})
      /\ loaded # 1 => Len(todo) = 1
  BY DEF FlowsInv, RowInv, TodoInv
<1>2. OpenLine \in {5, 9}
  BY DEF OpenLine
<1>3. Len(todo) \in Nat \ {0} /\ Head(todo) = todo[1]
  BY <1>1, LenProperties, EmptySeq, HeadTailProperties
<1>4. <<"end", LastUe>> \notin Lcores
  BY DEF Lcores, Dirs
<1>5. Head(todo) \in Lcores => Len(todo) > 1 /\ loaded = 1
  BY <1>1, <1>3, <1>4
<1>6. \A l \in Lcores : l[1] # "end"
  BY DEF Lcores, Dirs
<1>7. ASSUME Head(todo)[1] = "end" PROVE Len(todo) = 1
  <2>1. ASSUME Len(todo) # 1 PROVE FALSE
    <3>1. 1 \in 1..(Len(todo) - 1)
      <4>1. \A n \in Nat \ {0} : n # 1 => 1 \in 1..(n - 1)
        OBVIOUS
      <4> QED  BY <1>3, <2>1, <4>1
    <3>2. todo[1] \in Lcores
      BY <1>1, <3>1
    <3> QED  BY <1>3, <1>6, <1>7, <3>2
  <2> QED  BY <2>1
<1> QED  BY <1>1, <1>2, <1>3, <1>5, <1>7

LEMMA AllocRowStep ==
  ASSUME NoLarger, FlowsInv, AllocRow
  PROVE  FlowsInv'
<1>1. /\ todo # << >> /\ Head(todo) \in Lcores
      /\ row' = [row EXCEPT ![Head(todo)] = subs] /\ todo' = Tail(todo)
      /\ UNCHANGED <<role, test, loaded, line, window, subs, range>>
      /\ UNCHANGED <<flow, total, at, seen, wild>>
  BY DEF AllocRow, who, settings, counters
<1>2. /\ LastUe' = LastUe /\ Top' = Top /\ SrcMin' = SrcMin /\ Rows' = Rows
      /\ UeLine' = UeLine /\ OpenLine' = OpenLine /\ \A k : Latest(k)' = Latest(k)
      /\ \A n : Past(n)' <=> Past(n)
  BY <1>1, SameTest DEF Past
<1>3. LoadInv' /\ WindowInv' /\ RangeInv' /\ CountInv'
  <2>1. LoadInv'
    BY <1>1, <1>2 DEF FlowsInv, LoadInv
  <2>2. WindowInv'
    BY <1>1, <1>2 DEF FlowsInv, WindowInv
  <2>3. RangeInv'
    BY <1>1, <1>2 DEF FlowsInv, RangeInv
  <2>4. CountInv'
    BY <1>1, <1>2 DEF FlowsInv, CountInv, InBounds, FlowsAddUp
  <2> QED  BY <2>1, <2>2, <2>3, <2>4
<1>4. /\ line = OpenLine /\ Len(todo) \in Nat \ {0} /\ Len(todo) > 1 /\ loaded = 1
      /\ Head(todo) = todo[1] /\ todo[Len(todo)] = <<"end", LastUe>>
      /\ \A n \in 1..(Len(todo) - 1) : todo[n] \in Lcores
  BY <1>1, TodoFacts
<1>5. /\ todo \in Seq(Lcores \cup {<<"end", LastUe>>}) /\ row \in [Lcores -> {None, Rows}]
      /\ subs = Rows
      /\ \A l \in Lcores : row[l] = None => \E n \in 1..(Len(todo) - 1) : todo[n] = l
  BY <1>1, <1>4 DEF FlowsInv, RowInv, TodoInv
<1>6. /\ todo' \in Seq(Lcores \cup {<<"end", LastUe>>}) /\ Len(todo') = Len(todo) - 1
      /\ \A n \in 1..Len(todo') : todo'[n] = todo[n + 1]
  BY <1>1, <1>5, HeadTailProperties
<1>7. Len(todo') \in Nat \ {0} /\ todo' # << >>
  BY <1>4, <1>6, EmptySeq
<1>8. todo'[Len(todo')] = <<"end", LastUe>>
  <2>1. Len(todo') \in 1..Len(todo') /\ Len(todo') + 1 = Len(todo)
    BY <1>4, <1>6, <1>7
  <2> QED  BY <1>4, <1>6, <2>1
<1>9. \A n \in 1..(Len(todo') - 1) : todo'[n] \in Lcores
  <2>1. ASSUME NEW n \in 1..(Len(todo') - 1) PROVE todo'[n] \in Lcores
    <3>1. n \in 1..Len(todo') /\ n + 1 \in 1..(Len(todo) - 1)
      BY <1>4, <1>6, <1>7
    <3> QED  BY <1>4, <1>6, <3>1
  <2> QED  BY <2>1
<1>10. Rows # None
  <2>1. Rows \in Nat
    BY RowsSuffice DEF FlowsInv
  <2> QED  BY <2>1 DEF None
<1>11. ASSUME NEW l \in Lcores, row'[l] = None
       PROVE  \E n \in 1..(Len(todo') - 1) : todo'[n] = l
  <2>1. l # todo[1] /\ row[l] = None
    BY <1>1, <1>4, <1>5, <1>10, <1>11
  <2>2. PICK n \in 1..(Len(todo) - 1) : todo[n] = l
    BY <1>5, <2>1
  <2>3. n # 1
    BY <2>1, <2>2
  <2>4. n - 1 \in 1..(Len(todo') - 1) /\ n - 1 \in 1..Len(todo') /\ (n - 1) + 1 = n
    BY <1>4, <1>6, <2>3
  <2>5. todo'[n - 1] = l
    BY <1>6, <2>2, <2>4
  <2> QED  BY <2>4, <2>5
<1>12. row' \in [Lcores -> {None, Rows}]
  BY <1>1, <1>5
<1>13. TodoInv'
  BY <1>1, <1>2, <1>4, <1>5, <1>7, <1>8, <1>9, <1>11 DEF TodoInv
<1>14. RowInv'
  BY <1>2, <1>6, <1>7, <1>12, <1>13 DEF RowInv
<1> QED  BY <1>3, <1>14 DEF FlowsInv

LEMMA CloseRangeStep ==
  ASSUME NoLarger, FlowsInv, CloseRange
  PROVE  FlowsInv'
<1>1. /\ todo # << >> /\ Head(todo)[1] = "end"
      /\ window' = [window EXCEPT !.end = Head(todo)[2]]
      /\ range' = [range EXCEPT ![UeField].max = Head(todo)[2]]
      /\ todo' = << >> /\ line' = line + 1
      /\ UNCHANGED <<role, test, loaded, subs, row>>
      /\ UNCHANGED <<flow, total, at, seen, wild>>
  BY DEF CloseRange, who, counters
<1>2. /\ LastUe' = LastUe /\ Top' = Top /\ SrcMin' = SrcMin /\ Rows' = Rows
      /\ UeLine' = UeLine /\ OpenLine' = OpenLine /\ \A k : Latest(k)' = Latest(k)
  BY <1>1, SameTest
<1>3. /\ line = OpenLine /\ OpenLine \in {5, 9} /\ Len(todo) = 1
      /\ Head(todo) = <<"end", LastUe>>
  BY <1>1, TodoFacts
<1>4. UeLine \in {1, 2} /\ loaded \in Nat
  BY DEF UeLine, FlowsInv, LoadInv
<1>5. /\ Past(UeLine) /\ Past(UeLine)' /\ Past(4) /\ Past(4)' /\ Past(OpenLine)'
  BY <1>1, <1>2, <1>3, <1>4 DEF Past
<1>6. LoadInv'
  <2>1. line' \in 1..12
    BY <1>1, <1>3
  <2> QED  BY <1>1, <1>2, <2>1 DEF FlowsInv, LoadInv
<1>7. WindowInv'
  <2>1. LastUe \in 0..Top
    BY LastFacts DEF FlowsInv
  <2>2. window \in [start : 0..(Word - 1), end : 0..Top] /\ window.start = Ue(test)
    BY <1>5 DEF FlowsInv, WindowInv
  <2>3. window' = [window EXCEPT !.end = LastUe]
    BY <1>1, <1>3
  <2>4. window' \in [start : 0..(Word - 1), end : 0..Top] /\ window'.start = Ue(test)
    BY <2>1, <2>2, <2>3
  <2> QED  BY <1>1, <1>2, <1>5, <2>4 DEF WindowInv
<1>8. RangeInv'
  <2>1. /\ "srcIp" \in DOMAIN range /\ "min" \in DOMAIN range["srcIp"]
        /\ range["srcIp"]["min"] = SrcMin
    BY <1>5 DEF FlowsInv, RangeInv
  <2>2. /\ "srcIp" \in DOMAIN range' /\ "min" \in DOMAIN range'["srcIp"]
        /\ range'["srcIp"]["min"] = range["srcIp"]["min"]
    BY <1>1, <2>1 DEF UeField
  <2> QED  BY <1>2, <2>1, <2>2 DEF RangeInv
<1>9. RowInv'
  <2>1. row \in [Lcores -> {None, Rows}] /\ \A l \in Lcores : row[l] = Rows
    <3>1. /\ row \in [Lcores -> {None, Rows}]
          /\ IF loaded = 1
               THEN \A l \in Lcores :
                      row[l] = None => \E n \in 1..(Len(todo) - 1) : todo[n] = l
               ELSE \A l \in Lcores : row[l] = Rows
      BY <1>1 DEF FlowsInv, RowInv, TodoInv
    <3>2. 1..(Len(todo) - 1) = {}
      BY <1>3
    <3> QED  BY <3>1, <3>2
  <2>2. << >> \in Seq(Lcores \cup {<<"end", LastUe>>})
    BY EmptySeq
  <2> QED  BY <1>1, <1>2, <1>5, <2>1, <2>2 DEF RowInv, TodoInv
<1>10. CountInv'
  BY <1>1, <1>2, <1>5 DEF FlowsInv, CountInv, InBounds, FlowsAddUp
<1> QED  BY <1>6, <1>7, <1>8, <1>9, <1>10 DEF FlowsInv

LEMMA StartStep ==
  ASSUME NoLarger, FlowsInv, Start
  PROVE  FlowsInv'
<1>1. /\ line = 11 /\ line' = 12
      /\ UNCHANGED <<role, test, loaded, todo, window, subs, range, row>>
      /\ UNCHANGED <<flow, total, at, seen, wild>>
  <2>1. Len(Lines) = 10
    BY LineFacts DEF FlowsInv
  <2> QED  BY <2>1 DEF Start, who, settings, counters
<1>2. /\ LastUe' = LastUe /\ Top' = Top /\ SrcMin' = SrcMin /\ Rows' = Rows
      /\ UeLine' = UeLine /\ OpenLine' = OpenLine /\ \A k : Latest(k)' = Latest(k)
  BY <1>1, SameTest
<1>3. UeLine \in {1, 2} /\ OpenLine \in {5, 9}
  BY DEF UeLine, OpenLine
<1>4. /\ Past(UeLine)' <=> Past(UeLine)
      /\ Past(4)' <=> Past(4)
      /\ Past(OpenLine)' <=> Past(OpenLine)
  BY <1>1, <1>2, <1>3 DEF Past
<1>5. LoadInv'
  BY <1>1, <1>2 DEF FlowsInv, LoadInv
<1>6. WindowInv'
  BY <1>1, <1>2, <1>4 DEF FlowsInv, WindowInv
<1>7. RangeInv'
  BY <1>1, <1>2, <1>4 DEF FlowsInv, RangeInv
<1>8. RowInv'
  <2>1. todo = << >>
    BY <1>1, <1>3, TodoFacts
  <2> QED  BY <1>1, <1>2, <1>4, <2>1 DEF FlowsInv, RowInv, TodoInv
<1>9. CountInv'
  BY <1>1, <1>2, <1>4 DEF FlowsInv, CountInv, InBounds, FlowsAddUp
<1> QED  BY <1>5, <1>6, <1>7, <1>8, <1>9 DEF FlowsInv

LEMMA LoadNextStep ==
  ASSUME NoLarger, FlowsInv, LoadNext
  PROVE  FlowsInv'
<1>1. /\ line = 12 /\ line' = 1 /\ loaded < Len(test) /\ loaded' = loaded + 1
      /\ UNCHANGED <<role, test, todo, window, subs, range, row>>
      /\ UNCHANGED <<flow, total, at, seen, wild>>
  <2>1. Len(Lines) = 10
    BY LineFacts DEF FlowsInv
  <2> QED  BY <2>1 DEF LoadNext, who, settings, counters
<1>2. /\ Top' = Top /\ SrcMin' = SrcMin /\ Rows' = Rows
      /\ UeLine' = UeLine /\ OpenLine' = OpenLine
      /\ UeLine \in {1, 2} /\ OpenLine \in {5, 9}
  BY <1>1 DEF Top, SrcMin, Rows, UeLine, OpenLine
<1>3. /\ role \in {"gen", "resp"} /\ test \in Tests
      /\ loaded \in 1..Len(test) /\ Len(test) \in Nat
  BY TestFacts DEF FlowsInv, LoadInv
<1>4. /\ Past(UeLine) /\ Past(UeLine)' /\ Past(4) /\ Past(4)'
      /\ Past(OpenLine) /\ Past(OpenLine)'
  BY <1>1, <1>2, <1>3 DEF Past
<1>5. LoadInv'
  <2>1. PICK k \in 1..loaded : Latest(k)
    BY DEF FlowsInv, LoadInv
  <2>2. loaded' \in 1..Len(test)
    BY <1>1, <1>3
  <2>3. CASE Given(test[loaded + 1], ScriptKeys)
    <3>1. PICK n \in Nat : n = loaded + 1
      BY <1>3
    <3>2. n \in 1..loaded' /\ \A x \in (n + 1)..loaded' : FALSE
      <4>1. loaded' = n /\ n >= 1
        BY <1>1, <1>3, <3>1
      <4> QED  BY <4>1
    <3>3. Latest(n)'
      BY <1>1, <2>3, <3>1, <3>2 DEF Latest
    <3> QED  BY <1>1, <1>3, <2>2, <3>2, <3>3 DEF LoadInv
  <2>4. CASE ~Given(test[loaded + 1], ScriptKeys)
    <3>1. /\ k \in 1..loaded'
          /\ \A n \in (k + 1)..loaded' : n \in (k + 1)..loaded \/ n = loaded + 1
      BY <1>1, <1>3
    <3>2. Latest(k)'
      BY <1>1, <2>1, <2>4, <3>1 DEF Latest
    <3> QED  BY <1>1, <1>3, <2>2, <3>1, <3>2 DEF LoadInv
  <2> QED  BY <2>3, <2>4
<1>6. WindowInv'
  BY <1>1, <1>2, <1>4 DEF FlowsInv, WindowInv
<1>7. RangeInv'
  BY <1>1, <1>2, <1>4 DEF FlowsInv, RangeInv
<1>8. RowInv'
  <2>1. todo = << >>
    BY <1>1, <1>2, TodoFacts
  <2>2. << >> \in Seq(Lcores \cup {<<"end", LastUe'>>})
    BY EmptySeq
  <2>3. row \in [Lcores -> {None, Rows}] /\ \A l \in Lcores : row[l] = Rows
    BY <1>4, <2>1 DEF FlowsInv, RowInv
  <2> QED  BY <1>1, <1>2, <1>4, <2>1, <2>2, <2>3 DEF RowInv, TodoInv
<1>9. CountInv'
  BY <1>1, <1>2, <1>4 DEF FlowsInv, CountInv, InBounds, FlowsAddUp
<1> QED  BY <1>5, <1>6, <1>7, <1>8, <1>9 DEF FlowsInv

-----------------------------------------------------------------------------
(***************************************************************************)
(* The lcores.                                                             *)
(***************************************************************************)
LEMMA BuildStep ==
  ASSUME NoLarger, FlowsInv, NEW q \in Queues, BuildPacket(q) \/ UNCHANGED flowsVars
  PROVE  FlowsInv'
<1>1. /\ UNCHANGED <<role, test, loaded, line, todo, window, subs, range, row>>
      /\ UNCHANGED <<flow, total, at, seen, wild>>
  BY DEF BuildPacket, flowsVars, who, settings, counters
<1>2. /\ LastUe' = LastUe /\ Top' = Top /\ SrcMin' = SrcMin /\ Rows' = Rows
      /\ UeLine' = UeLine /\ OpenLine' = OpenLine /\ \A k : Latest(k)' = Latest(k)
      /\ \A n : Past(n)' <=> Past(n)
  BY <1>1, SameTest DEF Past
<1>3. LoadInv'
  BY <1>1, <1>2 DEF FlowsInv, LoadInv
<1>4. WindowInv'
  BY <1>1, <1>2 DEF FlowsInv, WindowInv
<1>5. RangeInv'
  BY <1>1, <1>2 DEF FlowsInv, RangeInv
<1>6. RowInv'
  BY <1>1, <1>2 DEF FlowsInv, RowInv, TodoInv
<1>7. CountInv'
  BY <1>1, <1>2 DEF FlowsInv, CountInv, InBounds, FlowsAddUp
<1> QED  BY <1>3, <1>4, <1>5, <1>6, <1>7 DEF FlowsInv

LEMMA ClassifyStep ==
  ASSUME NoLarger, FlowsInv, NEW l \in Lcores, NEW ip, Classify(l, ip)
  PROVE  FlowsInv'
<1>1. /\ at[l] = 0 /\ ip # 0 /\ ip \in window.start..window.end
      /\ at' = [at EXCEPT ![l] = ip] /\ seen' = [seen EXCEPT ![l][ip] = seen[l][ip] + 1]
      /\ UNCHANGED <<role, test, loaded, line, todo, window, subs, range, row>>
      /\ UNCHANGED <<flow, wild>>
  BY DEF Classify, who, settings
<1>2. /\ LastUe' = LastUe /\ Top' = Top /\ SrcMin' = SrcMin /\ Rows' = Rows
      /\ UeLine' = UeLine /\ OpenLine' = OpenLine /\ \A k : Latest(k)' = Latest(k)
      /\ \A n : Past(n)' <=> Past(n)
  BY <1>1, SameTest DEF Past
<1>3. LoadInv'
  BY <1>1, <1>2 DEF FlowsInv, LoadInv
<1>4. WindowInv'
  BY <1>1, <1>2 DEF FlowsInv, WindowInv
<1>5. RangeInv'
  BY <1>1, <1>2 DEF FlowsInv, RangeInv
<1>6. RowInv'
  BY <1>1, <1>2 DEF FlowsInv, RowInv, TodoInv
<1>7. ip \in Ue(test)..Top /\ Past(OpenLine) /\ ip \in 1..(Word - 1)
  <2>1. /\ window \in [start : 0..(Word - 1), end : 0..Top]
        /\ Past(UeLine) => window.start = Ue(test)
        /\ window.end # 0 => Past(OpenLine)
    BY DEF FlowsInv, WindowInv
  <2>2. Top \in 0..(Word - 1) /\ Word \in Nat
    BY LastFacts DEF FlowsInv
  <2>3. ip \in Nat /\ ip <= window.end /\ window.end <= Top /\ window.end # 0
    BY <1>1, <2>1, <2>2
  <2>4. Past(UeLine)
    <3>1. UeLine \in {1, 2} /\ OpenLine \in {5, 9} /\ line \in 1..12
      BY DEF UeLine, OpenLine, FlowsInv, LoadInv
    <3> QED  BY <2>1, <2>3, <3>1 DEF Past
  <2> QED  BY <1>1, <2>1, <2>2, <2>3, <2>4
<1>8. CountInv'
  <2>1. /\ at \in [Lcores -> 0..(Word - 1)]
        /\ flow \in [Lcores -> [0..(Word - 1) -> Nat]]
        /\ seen \in [Lcores -> [0..(Word - 1) -> Nat]]
        /\ \A k \in Lcores : at[k] # 0 => at[k] \in Ue(test)..Top /\ Past(OpenLine)
        /\ InBounds /\ FlowsAddUp
    BY DEF FlowsInv, CountInv
  <2>2. at' \in [Lcores -> 0..(Word - 1)]
    BY <1>1, <1>7, <2>1
  <2>3. seen' \in [Lcores -> [0..(Word - 1) -> Nat]]
    <3>1. seen[l] \in [0..(Word - 1) -> Nat] /\ ip \in 0..(Word - 1)
      BY <1>7, <2>1
    <3>2. seen[l][ip] + 1 \in Nat
      <4>1. seen[l][ip] \in Nat
        BY <3>1
      <4> QED  BY <4>1
    <3> DEFINE f == seen[l]
               c == seen[l][ip] + 1
    <3>3. f \in [0..(Word - 1) -> Nat] /\ c \in Nat
      BY <3>1, <3>2
    <3>4. seen' = [seen EXCEPT ![l] = [f EXCEPT ![ip] = c]]
      BY <1>1
    <3> HIDE DEF f, c
    <3>5. [f EXCEPT ![ip] = c] \in [0..(Word - 1) -> Nat]
      BY <3>3
    <3> QED  BY <2>1, <3>4, <3>5
  <2>4. \A k \in Lcores : at'[k] # 0 => at'[k] \in Ue(test)..Top /\ Past(OpenLine)
    BY <1>1, <1>7, <2>1
  <2>5. FlowsAddUp'
    <3>1. ASSUME NEW k \in Lcores, NEW a \in 0..(Word - 1)
          PROVE  seen'[k][a] = (IF a >= Ue(test) THEN flow[k][a - Ue(test)] ELSE 0)
                               + (IF at'[k] = a /\ a # 0 THEN 1 ELSE 0)
      <4>1. seen[k][a] = (IF a >= Ue(test) THEN flow[k][a - Ue(test)] ELSE 0)
                         + (IF at[k] = a /\ a # 0 THEN 1 ELSE 0)
        BY <2>1 DEF FlowsAddUp
      <4>2. (IF a >= Ue(test) THEN flow[k][a - Ue(test)] ELSE 0) \in Nat
        <5>1. Ue(test) \in 0..(Word - 1) /\ Word \in Nat
          BY LoadedFacts, WordAssumption DEF FlowsInv
        <5>2. a >= Ue(test) => a - Ue(test) \in 0..(Word - 1)
          BY <5>1
        <5> QED  BY <2>1, <5>2
      <4>3. CASE k = l /\ a = ip
        <5>1. seen'[k][a] = seen[k][a] + 1 /\ at'[k] = a /\ at[k] = 0 /\ a # 0
          BY <1>1, <1>7, <2>1, <4>3
        <5> QED  BY <4>1, <4>2, <5>1
      <4>4. CASE ~(k = l /\ a = ip)
        <5>1. seen'[k][a] = seen[k][a]
          BY <1>1, <1>7, <2>1, <4>4
        <5>2. (at'[k] = a /\ a # 0) <=> (at[k] = a /\ a # 0)
          BY <1>1, <2>1, <4>4
        <5> QED  BY <4>1, <5>1, <5>2
      <4> QED  BY <4>3, <4>4
    <3> QED  BY <1>1, <3>1 DEF FlowsAddUp
  <2> QED  BY <1>1, <1>2, <2>1, <2>2, <2>3, <2>4, <2>5 DEF CountInv, InBounds
<1> QED  BY <1>3, <1>4, <1>5, <1>6, <1>8 DEF FlowsInv

LEMMA StoreStep ==
  ASSUME NoLarger, FlowsInv, NEW l \in Lcores, Store(l)
  PROVE  FlowsInv'
<1> DEFINE n == Minus(at[l], window.start)
<1>1. /\ at[l] # 0 /\ at' = [at EXCEPT ![l] = 0]
      /\ IF n < row[l] THEN flow' = [flow EXCEPT ![l][n] = flow[l][n] + 1] /\ wild' = wild
                       ELSE wild' = TRUE
      /\ UNCHANGED <<role, test, loaded, line, todo, window, subs, range, row>>
      /\ UNCHANGED <<seen>>
  BY DEF Store, who, settings
<1>2. /\ LastUe' = LastUe /\ Top' = Top /\ SrcMin' = SrcMin /\ Rows' = Rows
      /\ UeLine' = UeLine /\ OpenLine' = OpenLine /\ \A k : Latest(k)' = Latest(k)
      /\ \A k : Past(k)' <=> Past(k)
  BY <1>1, SameTest DEF Past
<1>3. LoadInv'
  BY <1>1, <1>2 DEF FlowsInv, LoadInv
<1>4. WindowInv'
  BY <1>1, <1>2 DEF FlowsInv, WindowInv
<1>5. RangeInv'
  BY <1>1, <1>2 DEF FlowsInv, RangeInv
<1>6. RowInv'
  BY <1>1, <1>2 DEF FlowsInv, RowInv, TodoInv
<1>7. /\ at[l] \in Ue(test)..Top /\ Past(OpenLine)
      /\ at \in [Lcores -> 0..(Word - 1)]
      /\ flow \in [Lcores -> [0..(Word - 1) -> Nat]]
      /\ seen \in [Lcores -> [0..(Word - 1) -> Nat]]
      /\ \A k \in Lcores : at[k] # 0 => at[k] \in Ue(test)..Top /\ Past(OpenLine)
      /\ wild = FALSE /\ FlowsAddUp
  BY <1>1 DEF FlowsInv, CountInv, InBounds
<1>8. /\ Ue(test) \in Nat /\ Word \in Nat \ {0} /\ Top \in 0..(Word - 1)
      /\ Rows \in Nat /\ Rows >= Top + 1 - Ue(test)
  BY LastFacts, RowsSuffice DEF FlowsInv
\* The window still starts where it did when the packet was compared.
<1>9. window.start = Ue(test)
  <2>1. UeLine \in {1, 2} /\ OpenLine \in {5, 9} /\ loaded \in Nat /\ line \in Nat
    BY DEF UeLine, OpenLine, FlowsInv, LoadInv
  <2>2. Past(UeLine)
    BY <1>7, <2>1 DEF Past
  <2> QED  BY <2>2 DEF FlowsInv, WindowInv
<1>10. n = at[l] - Ue(test) /\ n \in 0..(Word - 1)
  <2> DEFINE d == at[l] - Ue(test)
  <2>1. d \in 0..(Word - 1) /\ d \in Int /\ 0 <= d /\ d < Word
    BY <1>7, <1>8, SMTT(30)
  <2>2. n = d % Word
    BY <1>9 DEF Minus
  <2> HIDE DEF n, d
  <2>3. d % Word = d
    BY <1>8, <2>1, ModSmall
  <2>4. n = d /\ n \in 0..(Word - 1)
    BY <2>1, <2>2, <2>3
  <2> QED  BY <2>4 DEF d
<1>11. row[l] = Rows
  <2>1. row \in [Lcores -> {None, Rows}]
    BY DEF FlowsInv, RowInv
  <2>2. CASE todo = << >>
    BY <1>7, <2>2 DEF FlowsInv, RowInv
  <2>3. CASE todo # << >>
    <3>1. line = OpenLine /\ OpenLine \in {5, 9}
      BY <2>3, TodoFacts
    <3>2. loaded # 1
      BY <1>7, <3>1 DEF Past
    <3> QED  BY <2>3, <3>2 DEF FlowsInv, RowInv, TodoInv
  <2> QED  BY <2>2, <2>3
<1>12. n < row[l]
  <2>1. n = at[l] - Ue(test) /\ at[l] \in Int /\ at[l] <= Top /\ Top \in Int
    BY <1>7, <1>8, <1>10
  <2> HIDE DEF n
  <2>2. n < Top + 1 - Ue(test)
    BY <1>8, <2>1
  <2> QED  BY <1>8, <1>10, <1>11, <2>2
<1>13. flow' = [flow EXCEPT ![l][n] = flow[l][n] + 1] /\ wild' = FALSE
  BY <1>1, <1>7, <1>12
<1> HIDE DEF n
<1>14. CountInv'
  <2>1. flow' \in [Lcores -> [0..(Word - 1) -> Nat]]
    <3> DEFINE f == flow[l]
               c == flow[l][n] + 1
    <3>1. f \in [0..(Word - 1) -> Nat] /\ flow[l][n] \in Nat
      BY <1>7, <1>10
    <3>2. c \in Nat
      BY <3>1
    <3>3. flow' = [flow EXCEPT ![l] = [f EXCEPT ![n] = c]]
      BY <1>13
    <3> HIDE DEF f, c
    <3>4. [f EXCEPT ![n] = c] \in [0..(Word - 1) -> Nat]
      BY <3>1, <3>2
    <3> QED  BY <1>7, <3>3, <3>4
  <2>2. at' \in [Lcores -> 0..(Word - 1)]
    <3>1. 0 \in 0..(Word - 1)
      BY <1>8
    <3> QED  BY <1>1, <1>7, <3>1
  <2>3. \A k \in Lcores : at'[k] # 0 => at'[k] \in Ue(test)..Top /\ Past(OpenLine)
    BY <1>1, <1>7
  <2>4. FlowsAddUp'
    <3>1. ASSUME NEW k \in Lcores, NEW a \in 0..(Word - 1)
          PROVE  seen[k][a] = (IF a >= Ue(test) THEN flow'[k][a - Ue(test)] ELSE 0)
                              + (IF at'[k] = a /\ a # 0 THEN 1 ELSE 0)
      <4>1. seen[k][a] = (IF a >= Ue(test) THEN flow[k][a - Ue(test)] ELSE 0)
                         + (IF at[k] = a /\ a # 0 THEN 1 ELSE 0)
        BY <1>7 DEF FlowsAddUp
      <4>2. a >= Ue(test) => a - Ue(test) \in 0..(Word - 1)
        BY <1>8
      <4>3. CASE k = l /\ a = at[l]
        <5>1. a >= Ue(test) /\ a - Ue(test) = n /\ a # 0
          BY <1>1, <1>7, <1>8, <1>10, <4>3
        <5>2. flow'[k][n] = flow[k][n] + 1 /\ at'[k] = 0 /\ flow[k][n] \in Nat
          BY <1>1, <1>7, <1>10, <1>13, <4>3
        <5>3. seen[k][a] = flow[k][n] + 1
          BY <4>1, <4>3, <5>1
        <5> QED  BY <5>1, <5>2, <5>3
      <4>4. CASE k = l /\ a # at[l]
        <5>1. a >= Ue(test) => a - Ue(test) # n
          BY <1>7, <1>8, <1>10, <4>4
        <5>2. a >= Ue(test) => flow'[k][a - Ue(test)] = flow[k][a - Ue(test)]
          BY <1>7, <1>13, <4>2, <5>1
        <5>3. (at'[k] = a /\ a # 0) <=> (at[k] = a /\ a # 0)
          BY <1>1, <1>7, <4>4
        <5> QED  BY <4>1, <5>2, <5>3
      <4>5. CASE k # l
        <5>1. flow'[k] = flow[k] /\ at'[k] = at[k]
          BY <1>1, <1>7, <1>13, <4>5
        <5> QED  BY <4>1, <5>1
      <4> QED  BY <4>3, <4>4, <4>5
    <3> QED  BY <1>1, <3>1 DEF FlowsAddUp
  <2> QED  BY <1>1, <1>2, <1>7, <1>13, <2>1, <2>2, <2>3, <2>4 DEF CountInv, InBounds
<1> QED  BY <1>3, <1>4, <1>5, <1>6, <1>14 DEF FlowsInv

-----------------------------------------------------------------------------
(***************************************************************************)
(* The invariant holds.                                                    *)
(***************************************************************************)
LEMMA FlowsFirst ==
  ASSUME NoLarger, FlowsInit
  PROVE  FlowsInv
<1>1. /\ role \in {"gen", "resp"} /\ test \in Tests /\ loaded = 1 /\ line = 1
      /\ todo = << >> /\ window = [start |-> 0, end |-> 0] /\ range = FirstRange
      /\ row = [l \in Lcores |-> None] /\ wild = FALSE
      /\ at = [l \in Lcores |-> 0]
      /\ flow = [l \in Lcores |-> [x \in 0..(Word - 1) |-> 0]]
      /\ seen = [l \in Lcores |-> [x \in 0..(Word - 1) |-> 0]]
  BY DEF FlowsInit
<1>2. LoadInv
  <2>1. Len(test) \in Nat \ {0} /\ Given(test[1], ScriptKeys)
    BY <1>1, TestFacts
  <2>2. Latest(1)
    BY <1>1, <2>1 DEF Latest
  <2> QED  BY <1>1, <2>1, <2>2 DEF LoadInv
<1>3. /\ Top \in 0..(Word - 1) /\ Word \in Nat \ {0} /\ Ue(test) \in Nat
      /\ ~Past(UeLine) /\ ~Past(4) /\ ~Past(OpenLine)
  BY <1>1, <1>2, LastFacts DEF Past, UeLine, OpenLine
<1>4. WindowInv
  <2>1. 0 \in 0..(Word - 1) /\ 0 \in 0..Top
    BY <1>3
  <2> QED  BY <1>1, <1>3, <2>1 DEF WindowInv
<1>5. RangeInv
  <2>1. DOMAIN range = DOMAIN Fixed \cup {"srcIp", "dstIp"}
    BY <1>1 DEF FirstRange
  <2>2. "srcIp" \notin DOMAIN Fixed
    BY DEF Fixed
  <2>3. range["srcIp"] = Span(DefaultIp, DefaultIp, DefaultIp + 1, 0)
    BY <1>1, <2>2 DEF FirstRange
  <2>4. "srcIp" \in DOMAIN range /\ "min" \in DOMAIN range["srcIp"]
    BY <2>1, <2>3 DEF Span
  <2> QED  BY <1>3, <2>4 DEF RangeInv
<1>6. RowInv
  <2>1. << >> \in Seq(Lcores \cup {<<"end", LastUe>>})
    BY EmptySeq
  <2> QED  BY <1>1, <1>3, <2>1 DEF RowInv, TodoInv
<1>7. CountInv
  <2>1. 0 \in 0..(Word - 1)
    BY <1>3
  <2>2. /\ at \in [Lcores -> 0..(Word - 1)]
        /\ flow \in [Lcores -> [0..(Word - 1) -> Nat]]
        /\ seen \in [Lcores -> [0..(Word - 1) -> Nat]]
    BY <1>1, <2>1
  <2>3. FlowsAddUp
    <3>1. ASSUME NEW k \in Lcores, NEW a \in 0..(Word - 1)
          PROVE  seen[k][a] = (IF a >= Ue(test) THEN flow[k][a - Ue(test)] ELSE 0)
                              + (IF at[k] = a /\ a # 0 THEN 1 ELSE 0)
      <4>1. a >= Ue(test) => a - Ue(test) \in 0..(Word - 1)
        BY <1>3
      <4>2. a >= Ue(test) => flow[k][a - Ue(test)] = 0
        BY <1>1, <4>1
      <4>3. seen[k][a] = 0 /\ at[k] = 0
        BY <1>1
      <4> QED  BY <4>2, <4>3
    <3> QED  BY <3>1 DEF FlowsAddUp
  <2> QED  BY <1>1, <2>2, <2>3 DEF CountInv, InBounds
<1> QED  BY <1>2, <1>4, <1>5, <1>6, <1>7 DEF FlowsInv

LEMMA FlowsOn ==
  ASSUME NoLarger, FlowsInv, [FlowsNext]_flowsVars
  PROVE  FlowsInv'
<1>1. CASE Commands
  <2>1. ASSUME NEW cmd \in Due,
               \/ cmd[1] = "single" /\ SetSingle(cmd[2], cmd[3])
               \/ cmd[1] # "single" /\ SetRange(cmd[1], cmd[2], cmd[3])
               \/ cmd[1] = UeField /\ cmd[2] = "max" /\ OpenRange(cmd[3])
        PROVE  FlowsInv'
    <3>1. Len(Lines) = 10
      BY LineFacts DEF FlowsInv
    <3>2. todo = << >> /\ line <= 10 /\ cmd = Lines[line]
      BY <3>1 DEF Due
    <3> QED  BY <2>1, <3>2, SetSingleStep, SetRangeStep, OpenRangeStep
  <2> QED
    BY <1>1, <2>1, AllocRowStep, CloseRangeStep, StartStep, LoadNextStep DEF Commands
<1>2. ASSUME NEW q \in Queues, BuildPacket(q) \/ Send(q) \/ Receive(q)
      PROVE  FlowsInv'
  <2>1. <<"tx", q>> \in Lcores /\ <<"rx", q>> \in Lcores
    BY DEF Lcores, Dirs
  <2>2. CASE BuildPacket(q)
    BY <2>2, BuildStep
  <2>3. CASE Send(q)
    BY <2>1, <2>3, ClassifyStep DEF Send
  <2>4. CASE Receive(q)
    BY <2>1, <2>4, ClassifyStep DEF Receive
  <2> QED  BY <1>2, <2>2, <2>3, <2>4
<1>3. ASSUME NEW l \in Lcores, Store(l) PROVE FlowsInv'
  BY <1>3, StoreStep
<1>4. CASE UNCHANGED flowsVars
  <2>1. PICK q \in Queues : TRUE
    BY FlowsAssumption
  <2> QED  BY <1>4, <2>1, BuildStep
<1> QED  BY <1>1, <1>2, <1>3, <1>4 DEF FlowsNext

LEMMA FlowsInvariant ==
  ASSUME NoLarger
  PROVE  FlowsSpec => []FlowsInv
<1>1. FlowsInit => FlowsInv
  BY FlowsFirst
<1>2. FlowsInv /\ [FlowsNext]_flowsVars => FlowsInv'
  BY FlowsOn
<1> QED  BY <1>1, <1>2, PTL DEF FlowsSpec

(***************************************************************************)
(* No packet is counted outside the arrays, for any addresses, flows and   *)
(* queues, though the window moves and the arrays are allocated while      *)
(* packets come in and are counted (store_packet_cnt).                     *)
(***************************************************************************)
THEOREM NeverBeyondTheRows ==
  ASSUME NoLarger
  PROVE  FlowsSpec => []InBounds
<1>1. FlowsInv => InBounds
  BY DEF FlowsInv, CountInv
<1> QED  BY <1>1, FlowsInvariant, PTL

(***************************************************************************)
(* Each packet is counted once, in its queue's array and as its own UE's.  *)
(***************************************************************************)
THEOREM EachCountedOnce ==
  ASSUME NoLarger
  PROVE  FlowsSpec => []FlowsAddUp
<1>1. FlowsInv => FlowsAddUp
  BY DEF FlowsInv, CountInv
<1> QED  BY <1>1, FlowsInvariant, PTL
-----------------------------------------------------------------------------
(***************************************************************************)
(* The packets built.  What EveryFlow needs, and README says of the code:  *)
(* a mempool has room for as many packets as there are flows, none of them *)
(* is 255.255.255.255, beyond which the range would not find its start,    *)
(* and the program is told of GTP-U by 0 or 1 and of at least one eNodeB.  *)
(***************************************************************************)
RoomForAll ==
  \A t \in Tests : \A n \in DOMAIN t :
    Given(t[n], ScriptKeys) => t[n].flows <= PoolSize /\ Ue(t) + t[n].flows < Word
Numbers ==
  \A t \in Tests :
    /\ Given(t[1], {"enable_gtpu"}) => t[1].enable_gtpu \in {0, 1}
    /\ Given(t[1], {"no_of_enb"}) => t[1].no_of_enb \in 1..(Word - 1)
    /\ Given(t[1], {"s1u_teid"}) => t[1].s1u_teid \in 0..(Word - 1)

MinLine == IF role = "gen" THEN 4 ELSE 8     \* the UE side's least address
IncLine == IF role = "gen" THEN 6 ELSE 10    \* and its increment
PktKeys  == DOMAIN Fixed \cup {"ethType", "proto", "srcIp", "dstIp"}

(* The UE side's range, as far as the command file has been read.          *)
SpanInv ==
  /\ UeField \in DOMAIN range
  /\ {"min", "max", "inc"} \subseteq DOMAIN range[UeField]
  /\ line > MinLine => range[UeField].min = Ue(test)
  /\ line > OpenLine => range[UeField].max = LastUe
  /\ line > IncLine => range[UeField].inc = 1

PacketInv ==
  /\ DOMAIN pkt = PktKeys
  /\ pkt.ethType = "ipv4" /\ pkt.proto = "udp" /\ pkt[UeField] \in Nat
  /\ gtpu = parse_user_config(test[1])
  /\ enb \in 0..(Word - 1)
  /\ Tunnels /\ gtpu.ok => enb < test[1].no_of_enb

(* One queue is built at a time, and the others wait or are complete.      *)
Packets == [ue : Nat, teid : Int, enb : Int]
QueueInv ==
  /\ building \subseteq Queues /\ pool \in [Queues -> Seq(Packets)]
  /\ building # {} => line = 12
  /\ line = 12 => \A q \in Queues :
       IF q \in building THEN Len(pool[q]) < PoolSize ELSE Len(pool[q]) = PoolSize
  /\ \A p, q \in building : pool[p] # << >> /\ pool[q] # << >> => p = q
  /\ \A q \in building :
       pool[q] # << >> => pkt[UeField] = pool[q][Len(pool[q])].ue

InTunnel(p) ==
  /\ p.ue \in Ue(test)..LastUe
  /\ Tunnels /\ gtpu.ok =>
       /\ p.teid = (test[1].s1u_teid + p.ue - Ue(test)) % Word
       /\ p.enb \in 0..(test[1].no_of_enb - 1)

(* The packets of a mempool go round the n addresses from u on, from a to  *)
(* c in k packets, and sooner or later past the last address; ues is the   *)
(* addresses there is a packet of.                                         *)
OneRound(ues, a, c, k, u, n) ==
  \/ k >= n /\ u..(u + n - 1) \subseteq ues
  \/ k < n /\ c = a + (k - 1) /\ a..c \subseteq ues
  \/ /\ k < n /\ c < a /\ c + n = a + (k - 1)
     /\ u..c \subseteq ues /\ a..(u + n - 1) \subseteq ues
Ues(s) == {s[n].ue : n \in 1..Len(s)}

CoverInv ==
  line = 12 => \A q \in Queues :
    /\ \A n \in 1..Len(pool[q]) : InTunnel(pool[q][n])
    /\ pool[q] # << >> =>
         OneRound(Ues(pool[q]), pool[q][1].ue, pool[q][Len(pool[q])].ue, Len(pool[q]),
               Ue(test), Loaded.flows)

BuildInv == SpanInv /\ PacketInv /\ QueueInv /\ CoverInv

LEMMA SpanFacts ==
  ASSUME NoLarger, LoadInv
  PROVE  /\ MinLine \in 1..10 /\ OpenLine \in 1..10 /\ IncLine \in 1..10
         /\ Lines[MinLine] = <<UeField, "min", Ue(test)>>
         /\ Lines[OpenLine] = <<UeField, "max", LastUe>>
         /\ Lines[IncLine] = <<UeField, "inc", 1>>
         /\ Len(Lines) = 10
         /\ \A n \in 1..10 : Lines[n][1] = UeField =>
              /\ Lines[n][2] = "min" => n = MinLine
              /\ Lines[n][2] = "max" => n = OpenLine
              /\ Lines[n][2] = "inc" => n = IncLine
<1> DEFINE lo == Loaded.ue_ip_range[1]
           server == Loaded.app_srvr_ip_range[1]
           last == Minus(lo + Loaded.flows, 1)
<1>1. lo = Ue(test) /\ server = Server(test) /\ last = LastUe
  BY LoadedFacts, LastFacts
<1>2. CASE role = "gen"
  <2>1. /\ Len(Lines) = 10
        /\ Lines[1] = <<"single", "src", lo>> /\ Lines[2] = <<"single", "dst", server>>
        /\ Lines[3] = <<"srcIp", "start", lo>> /\ Lines[4] = <<"srcIp", "min", lo>>
        /\ Lines[5] = <<"srcIp", "max", last>> /\ Lines[6] = <<"srcIp", "inc", 1>>
        /\ Lines[7] = <<"dstIp", "start", server>>
        /\ Lines[8] = <<"dstIp", "min", server>>
        /\ Lines[9] = <<"dstIp", "max", server>> /\ Lines[10] = <<"dstIp", "inc", 0>>
    BY <1>2, ScriptGen DEF Lines
  <2>2. MinLine = 4 /\ OpenLine = 5 /\ IncLine = 6 /\ UeField = "srcIp"
    BY <1>2 DEF MinLine, OpenLine, IncLine, UeField
  <2> HIDE DEF lo, server, last
  <2>3. ASSUME NEW n \in 1..10, Lines[n][1] = "srcIp"
        PROVE  /\ Lines[n][2] = "min" => n = 4
               /\ Lines[n][2] = "max" => n = 5
               /\ Lines[n][2] = "inc" => n = 6
    <3>1. n \in {1, 2, 3, 4, 5, 6, 7, 8, 9, 10}
      OBVIOUS
    <3> QED  BY <2>1, <2>3, <3>1
  <2> QED  BY <1>1, <2>1, <2>2, <2>3
<1>3. CASE role # "gen"
  <2>1. /\ Len(Lines) = 10
        /\ Lines[1] = <<"single", "src", server>> /\ Lines[2] = <<"single", "dst", lo>>
        /\ Lines[3] = <<"srcIp", "start", server>>
        /\ Lines[4] = <<"srcIp", "min", server>>
        /\ Lines[5] = <<"srcIp", "max", server>> /\ Lines[6] = <<"srcIp", "inc", 0>>
        /\ Lines[7] = <<"dstIp", "start", lo>> /\ Lines[8] = <<"dstIp", "min", lo>>
        /\ Lines[9] = <<"dstIp", "max", last>> /\ Lines[10] = <<"dstIp", "inc", 1>>
    BY <1>3, ScriptResp DEF Lines
  <2>2. MinLine = 8 /\ OpenLine = 9 /\ IncLine = 10 /\ UeField = "dstIp"
    BY <1>3 DEF MinLine, OpenLine, IncLine, UeField
  <2> HIDE DEF lo, server, last
  <2>3. ASSUME NEW n \in 1..10, Lines[n][1] = "dstIp"
        PROVE  /\ Lines[n][2] = "min" => n = 8
               /\ Lines[n][2] = "max" => n = 9
               /\ Lines[n][2] = "inc" => n = 10
    <3>1. n \in {1, 2, 3, 4, 5, 6, 7, 8, 9, 10}
      OBVIOUS
    <3> QED  BY <2>1, <2>3, <3>1
  <2> QED  BY <1>1, <2>1, <2>2, <2>3
<1> QED  BY <1>2, <1>3

(* Where the command file sets nothing of the UE side's range.             *)
LEMMA SameUe ==
  ASSUME UNCHANGED <<role, test>>
  PROVE  /\ UeField' = UeField /\ MinLine' = MinLine /\ OpenLine' = OpenLine
         /\ IncLine' = IncLine /\ Ue(test)' = Ue(test)
         /\ Tunnels' <=> gtpu'.enable # 0 /\ role = "gen"
  BY DEF UeField, MinLine, OpenLine, IncLine, Ue, Tunnels

LEMMA SpanQuiet ==
  ASSUME BuildInv, UNCHANGED <<role, test, loaded, line, gtpu, range, pkt, enb>>,
         UNCHANGED <<building, pool>>
  PROVE  BuildInv'
<1>1. /\ UeField' = UeField /\ MinLine' = MinLine /\ OpenLine' = OpenLine
      /\ IncLine' = IncLine /\ Ue(test)' = Ue(test) /\ LastUe' = LastUe
      /\ Loaded' = Loaded /\ (Tunnels' <=> Tunnels)
  BY SameUe, SameTest DEF Tunnels
<1>2. SpanInv' /\ PacketInv' /\ QueueInv'
  BY <1>1 DEF BuildInv, SpanInv, PacketInv, QueueInv
<1>3. CoverInv'
  BY <1>1 DEF BuildInv, CoverInv, InTunnel
<1> QED  BY <1>2, <1>3 DEF BuildInv

(* A line of the command file, which no mempool is built at.               *)
LEMMA LineQuiet ==
  ASSUME FlowsInv, BuildInv, line <= 10, line' = line + 1, SpanInv',
         UNCHANGED <<role, test, loaded, gtpu, pkt, enb, building, pool>>
  PROVE  BuildInv'
<1>1. UeField' = UeField /\ (Tunnels' <=> Tunnels) /\ line \in Nat
  BY SameUe DEF Tunnels, FlowsInv, LoadInv
<1>2. line # 12 /\ line' # 12 /\ building = {} /\ building' = {}
  BY <1>1 DEF BuildInv, QueueInv
<1>3. PacketInv'
  BY <1>1 DEF BuildInv, PacketInv
<1>4. QueueInv' /\ CoverInv'
  BY <1>2 DEF BuildInv, QueueInv, CoverInv
<1> QED  BY <1>3, <1>4 DEF BuildInv

LEMMA SetSingleBuild ==
  ASSUME NoLarger, FlowsInv, BuildInv, todo = << >>, line <= 10,
         NEW cmd, cmd = Lines[line], cmd[1] = "single", SetSingle(cmd[2], cmd[3])
  PROVE  BuildInv'
<1>1. /\ line' = line + 1
      /\ UNCHANGED <<role, test, loaded, gtpu, range, pkt, enb, building, pool>>
  BY DEF SetSingle, who, build
<1>2. /\ UeField' = UeField /\ MinLine' = MinLine /\ OpenLine' = OpenLine
      /\ IncLine' = IncLine /\ Ue(test)' = Ue(test) /\ LastUe' = LastUe
  BY <1>1, SameUe, SameTest
<1>3. line \in 1..10 /\ UeField # "single" /\ LoadInv
  BY DEF FlowsInv, LoadInv, UeField
<1>4. /\ line \notin {MinLine, OpenLine, IncLine}
      /\ {MinLine, OpenLine, IncLine} \subseteq 1..10
  BY <1>3, SpanFacts
<1>5. SpanInv'
  BY <1>1, <1>2, <1>3, <1>4 DEF BuildInv, SpanInv
<1> QED  BY <1>1, <1>5, LineQuiet

LEMMA SetRangeBuild ==
  ASSUME NoLarger, FlowsInv, BuildInv, todo = << >>, line <= 10,
         NEW cmd, cmd = Lines[line], SetRange(cmd[1], cmd[2], cmd[3]), cmd[1] # "single"
  PROVE  BuildInv'
<1>1. /\ cmd[1] = UeField => cmd[2] # "max"
      /\ range' = [range EXCEPT ![cmd[1]][cmd[2]] = cmd[3]]
      /\ line' = line + 1
      /\ UNCHANGED <<role, test, loaded, gtpu, pkt, enb, building, pool>>
  BY DEF SetRange, who, build
<1>2. /\ UeField' = UeField /\ MinLine' = MinLine /\ OpenLine' = OpenLine
      /\ IncLine' = IncLine /\ Ue(test)' = Ue(test) /\ LastUe' = LastUe
  BY <1>1, SameUe, SameTest
<1>3. line \in 1..10 /\ LoadInv
  BY DEF FlowsInv, LoadInv
<1>4. /\ {MinLine, OpenLine, IncLine} \subseteq 1..10
      /\ line # OpenLine
      /\ line = MinLine => cmd = <<UeField, "min", Ue(test)>>
      /\ line = IncLine => cmd = <<UeField, "inc", 1>>
      /\ cmd[1] = UeField /\ cmd[2] = "min" => line = MinLine
      /\ cmd[1] = UeField /\ cmd[2] = "inc" => line = IncLine
  BY <1>1, <1>3, SpanFacts
<1>5. /\ UeField \in DOMAIN range
      /\ {"min", "max", "inc"} \subseteq DOMAIN range[UeField]
      /\ line > MinLine => range[UeField].min = Ue(test)
      /\ line > OpenLine => range[UeField].max = LastUe
      /\ line > IncLine => range[UeField].inc = 1
  BY DEF BuildInv, SpanInv
<1> DEFINE r == range[UeField]
           s == range'[UeField]
<1>6. CASE cmd[1] = UeField
  <2>1. UeField \in DOMAIN range' /\ s = [r EXCEPT ![cmd[2]] = cmd[3]]
    BY <1>1, <1>5, <1>6
  <2> HIDE DEF s
  <2>2. /\ {"min", "max", "inc"} \subseteq DOMAIN s
        /\ \A w \in {"min", "max", "inc"} :
             s[w] = IF cmd[2] = w THEN cmd[3] ELSE r[w]
    BY <1>5, <2>1
  <2>3. /\ line + 1 > MinLine => s["min"] = Ue(test)
        /\ line + 1 > OpenLine => s["max"] = LastUe
        /\ line + 1 > IncLine => s["inc"] = 1
    BY <1>1, <1>3, <1>4, <1>5, <1>6, <2>2
  <2> QED  BY <1>1, <1>2, <2>1, <2>2, <2>3, LineQuiet DEF SpanInv, s
<1>7. CASE cmd[1] # UeField
  <2>1. UeField \in DOMAIN range' /\ s = r
    BY <1>1, <1>5, <1>7
  <2>2. line \notin {MinLine, OpenLine, IncLine}
    BY <1>4, <1>7
  <2>3. SpanInv'
    BY <1>1, <1>2, <1>3, <1>4, <1>5, <2>1, <2>2 DEF SpanInv
  <2> QED  BY <1>1, <2>3, LineQuiet
<1> QED  BY <1>6, <1>7

LEMMA CloseRangeBuild ==
  ASSUME NoLarger, FlowsInv, BuildInv, CloseRange
  PROVE  BuildInv'
<1>1. /\ todo # << >> /\ Head(todo)[1] = "end"
      /\ range' = [range EXCEPT ![UeField].max = Head(todo)[2]]
      /\ line' = line + 1
      /\ UNCHANGED <<role, test, loaded, gtpu, pkt, enb, building, pool>>
  BY DEF CloseRange, who, build
<1>2. /\ UeField' = UeField /\ MinLine' = MinLine /\ OpenLine' = OpenLine
      /\ IncLine' = IncLine /\ Ue(test)' = Ue(test) /\ LastUe' = LastUe
  BY <1>1, SameUe, SameTest
<1>3. Head(todo) = <<"end", LastUe>> /\ line = OpenLine
  BY <1>1, TodoFacts
<1>4. /\ OpenLine \in 1..10 /\ MinLine < OpenLine /\ OpenLine < IncLine
      /\ MinLine \in Nat /\ IncLine \in Nat
  BY DEF MinLine, OpenLine, IncLine
<1>5. /\ UeField \in DOMAIN range
      /\ {"min", "max", "inc"} \subseteq DOMAIN range[UeField]
      /\ line > MinLine => range[UeField].min = Ue(test)
  BY DEF BuildInv, SpanInv
<1> DEFINE r == range[UeField]
           s == range'[UeField]
<1>6. UeField \in DOMAIN range' /\ s = [r EXCEPT !["max"] = LastUe]
  BY <1>1, <1>3, <1>5
<1> HIDE DEF s
<1>7. /\ {"min", "max", "inc"} \subseteq DOMAIN s
      /\ s["min"] = Ue(test) /\ s["max"] = LastUe
  BY <1>3, <1>4, <1>5, <1>6
<1>8. SpanInv'
  BY <1>1, <1>2, <1>3, <1>4, <1>6, <1>7 DEF SpanInv, s
<1> QED  BY <1>1, <1>3, <1>4, <1>8, LineQuiet

LEMMA StartBuild ==
  ASSUME NoLarger, FlowsInv, BuildInv, Start
  PROVE  BuildInv'
<1>1. /\ line = Len(Lines) + 1 /\ building' = Queues /\ line' = line + 1
      /\ pool' = [q \in Queues |-> << >>]
      /\ UNCHANGED <<role, test, loaded, gtpu, range, pkt, enb>>
  BY DEF Start, who, settings
<1>2. line = 11 /\ line' = 12
  <2>1. Len(Lines) = 10
    BY SpanFacts DEF FlowsInv
  <2> QED  BY <1>1, <2>1
<1>3. /\ UeField' = UeField /\ MinLine' = MinLine /\ OpenLine' = OpenLine
      /\ IncLine' = IncLine /\ Ue(test)' = Ue(test) /\ LastUe' = LastUe
      /\ (Tunnels' <=> Tunnels)
  BY <1>1, SameUe, SameTest DEF Tunnels
<1>4. MinLine \in 1..10 /\ OpenLine \in 1..10 /\ IncLine \in 1..10
  BY SpanFacts DEF FlowsInv
<1>5. SpanInv'
  BY <1>1, <1>2, <1>3, <1>4 DEF BuildInv, SpanInv
<1>6. PacketInv'
  BY <1>1, <1>3 DEF BuildInv, PacketInv
<1>7. \A q \in Queues : pool'[q] = << >> /\ Len(pool'[q]) = 0
  BY <1>1
<1>8. pool' \in [Queues -> Seq(Packets)]
  <2>1. << >> \in Seq(Packets)
    BY EmptySeq
  <2> QED  BY <1>1, <2>1
<1>9. PoolSize \in Nat \ {0}
  BY FlowsAssumption
<1>10. QueueInv'
  BY <1>1, <1>2, <1>7, <1>8, <1>9 DEF QueueInv
<1>11. CoverInv'
  BY <1>7 DEF CoverInv
<1> QED  BY <1>5, <1>6, <1>10, <1>11 DEF BuildInv

LEMMA LoadNextBuild ==
  ASSUME NoLarger, FlowsInv, BuildInv, LoadNext
  PROVE  BuildInv'
<1>1. /\ building = {} /\ line' = 1
      /\ UNCHANGED <<role, test, gtpu, range, pkt, enb, building, pool>>
  BY DEF LoadNext, who, settings, build
<1>2. /\ UeField' = UeField /\ MinLine' = MinLine /\ OpenLine' = OpenLine
      /\ IncLine' = IncLine /\ (Tunnels' <=> Tunnels)
  BY <1>1, SameUe DEF Tunnels
<1>3. MinLine \in 2..10 /\ OpenLine \in 2..10 /\ IncLine \in 2..10
  BY DEF MinLine, OpenLine, IncLine
<1>4. SpanInv'
  BY <1>1, <1>2, <1>3 DEF BuildInv, SpanInv
<1>5. PacketInv'
  BY <1>1, <1>2 DEF BuildInv, PacketInv
<1>6. QueueInv' /\ CoverInv'
  BY <1>1 DEF BuildInv, QueueInv, CoverInv
<1> QED  BY <1>4, <1>5, <1>6 DEF BuildInv

(***************************************************************************)
(* What a program that refused nothing knows of GTP-U is what it was told. *)
(***************************************************************************)
LEMMA ParseFacts ==
  ASSUME Numbers, test \in Tests, gtpu = parse_user_config(test[1])
  PROVE  /\ gtpu.s1u_teid \in 0..(Word - 1) /\ gtpu.no_of_enb \in 0..(Word - 1)
         /\ gtpu.ok /\ gtpu.enable # 0 =>
              /\ gtpu.s1u_teid = test[1].s1u_teid
              /\ gtpu.no_of_enb = test[1].no_of_enb
              /\ test[1].no_of_enb \in 1..(Word - 1)
<1> DEFINE cfg == test[1]
           read == {n \in DOMAIN ConfigKeys :
                      \A m \in 1..n : ~Refused(cfg, ConfigKeys[m])}
           Value(key) == IF \E n \in read : ConfigKeys[n] = key
                           THEN Number(cfg, key) ELSE 0
<1>1. /\ gtpu.ok <=> read = DOMAIN ConfigKeys
      /\ gtpu.enable = Value("enable_gtpu")
      /\ gtpu.no_of_enb = Value("no_of_enb")
      /\ gtpu.s1u_teid = Value("s1u_teid")
  <2>1. parse_user_config(cfg) =
          [ok |-> read = DOMAIN ConfigKeys, enable |-> Value("enable_gtpu"),
           no_of_enb |-> Value("no_of_enb"), no_of_ue |-> Value("flows"),
           s1u_teid |-> Value("s1u_teid")]
    BY DEF parse_user_config
  <2>2. gtpu = parse_user_config(cfg)
    OBVIOUS
  <2> DEFINE all == read = DOMAIN ConfigKeys
             enable == Value("enable_gtpu")
             enbs == Value("no_of_enb")
             ues == Value("flows")
             teid == Value("s1u_teid")
  <2> HIDE DEF all, enable, enbs, ues, teid
  <2>3. gtpu = [ok |-> all, enable |-> enable, no_of_enb |-> enbs, no_of_ue |-> ues,
                s1u_teid |-> teid]
    BY <2>1, <2>2 DEF all, enable, enbs, ues, teid
  <2>4. (gtpu.ok <=> all) /\ gtpu.enable = enable /\ gtpu.no_of_enb = enbs
        /\ gtpu.s1u_teid = teid
    BY <2>3
  <2> QED  BY <2>4 DEF all, enable, enbs, ues, teid
<1>2. /\ Given(cfg, {"enable_gtpu"}) => cfg.enable_gtpu \in {0, 1}
      /\ Given(cfg, {"no_of_enb"}) => cfg.no_of_enb \in 1..(Word - 1)
      /\ Given(cfg, {"s1u_teid"}) => cfg.s1u_teid \in 0..(Word - 1)
      /\ Word \in Nat \ {0}
  BY WordAssumption DEF Numbers
<1>3. /\ Number(cfg, "no_of_enb") \in 0..(Word - 1)
      /\ Number(cfg, "s1u_teid") \in 0..(Word - 1)
  BY <1>2 DEF Number
<1>4. DOMAIN ConfigKeys = 1..11 /\ ConfigKeys[3] = "enable_gtpu"
      /\ ConfigKeys[4] = "no_of_enb" /\ ConfigKeys[11] = "s1u_teid"
  BY DEF ConfigKeys
<1> HIDE DEF read
<1>5. 0 \in 0..(Word - 1)
  BY <1>2
<1>6. gtpu.s1u_teid \in 0..(Word - 1) /\ gtpu.no_of_enb \in 0..(Word - 1)
  BY <1>1, <1>3, <1>5
<1>7. ASSUME gtpu.ok, gtpu.enable # 0
      PROVE  /\ gtpu.s1u_teid = cfg.s1u_teid /\ gtpu.no_of_enb = cfg.no_of_enb
             /\ cfg.no_of_enb \in 1..(Word - 1)
  <2>1. read = 1..11
    BY <1>1, <1>4, <1>7
  <2>2. \A n \in 1..11 : ~Refused(cfg, ConfigKeys[n])
    BY <1>4, <2>1 DEF read
  <2>3. ~Refused(cfg, "no_of_enb") /\ ~Refused(cfg, "s1u_teid")
    BY <1>4, <2>2
  <2>4. gtpu.enable = Number(cfg, "enable_gtpu")
    BY <1>1, <1>7
  <2>5. cfg.enable_gtpu = 1
    BY <1>2, <1>7, <2>4 DEF Number
  <2>6. Given(cfg, {"no_of_enb"}) /\ Given(cfg, {"s1u_teid"})
    BY <2>3, <2>5 DEF Refused
  <2>7. /\ gtpu.no_of_enb = Number(cfg, "no_of_enb")
        /\ gtpu.s1u_teid = Number(cfg, "s1u_teid")
    <3>1. /\ \E n \in read : ConfigKeys[n] = "no_of_enb"
          /\ \E n \in read : ConfigKeys[n] = "s1u_teid"
      BY <1>4, <2>1
    <3> QED  BY <1>1, <3>1
  <2> QED  BY <1>2, <2>6, <2>7 DEF Number
<1> QED  BY <1>6, <1>7

(***************************************************************************)
(* The addresses of one mempool, one packet further: see OneRound.         *)
(***************************************************************************)
LEMMA RoundOn ==
  ASSUME NEW U \in Nat, NEW F \in Nat \ {0}, NEW k \in Nat \ {0}, NEW S,
         NEW a \in U..(U + F - 1), NEW c \in U..(U + F - 1),
         OneRound(S, a, c, k, U, F),
         NEW n, n = IF c < U + F - 1 THEN c + 1 ELSE U
  PROVE  OneRound(S \cup {n}, a, n, k + 1, U, F)
<1> DEFINE T == S \cup {n}
           V == U + F - 1
<1>1. V \in Nat /\ a \in Nat /\ c \in Nat /\ n \in Nat /\ V = U + F - 1
  OBVIOUS
<1>2. \A x, y \in Nat : x..y \subseteq S => x..y \subseteq T
  OBVIOUS
<1>3. n \in T
  OBVIOUS
<1>4. ASSUME NEW x \in Nat, c < V, x..c \subseteq S
      PROVE  x..n \subseteq T
  <2>1. ASSUME NEW y \in x..n PROVE y \in T
    <3>1. y \in x..c \/ y = n
      BY <1>1, <1>4
    <3> QED  BY <1>3, <1>4, <3>1
  <2> QED  BY <2>1
<1> HIDE DEF T
<1>5. CASE k >= F /\ U..V \subseteq S
  BY <1>1, <1>2, <1>5 DEF OneRound
<1>6. CASE k < F /\ c = a + (k - 1) /\ a..c \subseteq S /\ c < V
  <2>1. n = a + k /\ a..n \subseteq T
    BY <1>1, <1>4, <1>6
  <2>2. CASE k + 1 < F
    BY <1>1, <2>1, <2>2 DEF OneRound, T
  <2>3. CASE ~(k + 1 < F)
    <3>1. a = U /\ n = V /\ k + 1 >= F
      BY <1>1, <1>6, <2>1, <2>3
    <3> QED  BY <1>1, <2>1, <3>1 DEF OneRound, T
  <2> QED  BY <2>2, <2>3
<1>7. CASE k < F /\ c = a + (k - 1) /\ a..c \subseteq S /\ ~(c < V)
  <2>1. c = V /\ n = U /\ a = U + F - k /\ a > U
    BY <1>1, <1>7
  <2>2. U..n \subseteq T /\ a..V \subseteq T
    <3>1. \A y \in U..n : y = n
      BY <1>1, <2>1
    <3>2. a..V \subseteq T
      BY <1>1, <1>2, <1>7, <2>1
    <3> QED  BY <1>3, <3>1, <3>2
  <2>3. CASE k + 1 < F
    <3>1. n < a /\ n + F = a + k
      BY <1>1, <2>1
    <3> QED  BY <1>1, <2>2, <2>3, <3>1 DEF OneRound, T
  <2>4. CASE ~(k + 1 < F)
    <3>1. a = U + 1 /\ k + 1 >= F
      BY <1>1, <1>7, <2>1, <2>4
    <3>2. \A y \in U..V : y \in U..n \/ y \in a..V
      BY <1>1, <2>1, <3>1
    <3> QED  BY <1>1, <2>2, <3>1, <3>2 DEF OneRound, T
  <2> QED  BY <2>3, <2>4
<1>8. CASE k < F /\ c < a /\ c + F = a + (k - 1) /\ U..c \subseteq S /\ a..V \subseteq S
  <2>1. c < V /\ n = c + 1 /\ n + F = a + k
    BY <1>1, <1>8
  <2>2. U..n \subseteq T /\ a..V \subseteq T
    BY <1>1, <1>2, <1>4, <1>8, <2>1
  <2>3. CASE k + 1 < F
    <3>1. n < a
      BY <1>1, <2>1, <2>3
    <3> QED  BY <1>1, <2>1, <2>2, <2>3, <3>1 DEF OneRound, T
  <2>4. CASE ~(k + 1 < F)
    <3>1. n = a - 1 /\ k + 1 >= F
      BY <1>1, <1>8, <2>1, <2>4
    <3>2. \A y \in U..V : y \in U..n \/ y \in a..V
      BY <1>1, <3>1
    <3> QED  BY <1>1, <2>2, <3>1, <3>2 DEF OneRound, T
  <2> QED  BY <2>3, <2>4
<1> QED  BY <1>5, <1>6, <1>7, <1>8 DEF OneRound

(***************************************************************************)
(* A packet built.                                                         *)
(***************************************************************************)
LEMMA LoadedRoom ==
  ASSUME NoLarger, RoomForAll, LoadInv
  PROVE  Loaded.flows <= PoolSize /\ LastUe + 1 < Word
<1>1. PICK k \in 1..loaded : Latest(k)
  BY DEF LoadInv
<1> DEFINE c == CHOOSE c \in 1..loaded : Latest(c)
<1>2. c \in 1..loaded /\ Latest(c)
  BY <1>1
<1>3. Loaded = test[c]
  BY DEF Loaded, Asked, Latest
<1> HIDE DEF c
<1>4. /\ test \in Tests /\ loaded \in 1..Len(test) /\ Len(test) \in Nat
      /\ DOMAIN test = 1..Len(test)
  BY TestFacts DEF LoadInv
<1>5. c \in DOMAIN test /\ Given(test[c], ScriptKeys)
  BY <1>2, <1>4 DEF Latest
<1>6. Loaded.flows <= PoolSize /\ Ue(test) + Loaded.flows < Word
  BY <1>3, <1>4, <1>5 DEF RoomForAll
<1>7. Ue(test) \in Int /\ Loaded.flows \in Int
  BY LoadedFacts
<1> QED  BY <1>6, <1>7 DEF LastUe

LEMMA ModRange ==
  ASSUME NEW a \in Int, NEW w \in Nat \ {0}
  PROVE  a % w \in 0..(w - 1)
OBVIOUS

\* The next address of the UE side is the one after, or the first again.
LEMMA NextUe ==
  ASSUME NoLarger, RoomForAll, FlowsInv, BuildInv, line = 12,
         NEW p, p = NextPacket(pkt, range, first)
  PROVE  /\ DOMAIN p = PktKeys /\ p.ethType = "ipv4" /\ p.proto = "udp"
         /\ p[UeField] \in Ue(test)..LastUe
         /\ pkt[UeField] \in Ue(test)..LastUe =>
              p[UeField] = IF pkt[UeField] < LastUe THEN pkt[UeField] + 1 ELSE Ue(test)
<1> DEFINE r == range[UeField]
           v == pkt[UeField]
           u == Ue(test)
           e == LastUe
<1>1. r.min = u /\ r.max = e /\ r.inc = 1
  <2>1. MinLine \in 1..10 /\ OpenLine \in 1..10 /\ IncLine \in 1..10
    BY SpanFacts DEF FlowsInv
  <2> QED  BY <2>1 DEF BuildInv, SpanInv
<1>2. /\ DOMAIN pkt = PktKeys /\ pkt.ethType = "ipv4" /\ pkt.proto = "udp" /\ v \in Nat
      /\ Moves(pkt)
  BY DEF BuildInv, PacketInv, Moves
<1>3. /\ u \in Nat /\ e \in Nat /\ u <= e /\ e + 1 < Word /\ Word \in Nat \ {0}
  BY LoadedFacts, LastFacts, LoadedRoom DEF FlowsInv, LastUe
<1>4. {"srcIp", "dstIp"} \subseteq PktKeys /\ UeField \in {"srcIp", "dstIp"}
  BY DEF PktKeys, UeField
<1>5. /\ DOMAIN p = PktKeys /\ p.ethType = "ipv4" /\ p.proto = "udp"
      /\ p.srcIp = AdvanceIp(pkt.srcIp, range.srcIp)
      /\ p.dstIp = AdvanceIp(pkt.dstIp, range.dstIp)
  BY <1>2, <1>4 DEF NextPacket, PktKeys
<1>6. p[UeField] = AdvanceIp(v, r)
  BY <1>4, <1>5
<1> HIDE DEF r, v, u, e
<1> DEFINE w == (v + 1) % Word
<1>7. p[UeField] = IF w < u THEN e ELSE IF w > e THEN u ELSE w
  BY <1>1, <1>6 DEF AdvanceIp, Wrap
<1>8. w \in 0..(Word - 1)
  BY <1>2, <1>3, ModRange
<1>9. v \in u..e => w = v + 1
  BY <1>3, ModSmall
<1> HIDE DEF w
<1>10. p[UeField] \in u..e
  BY <1>3, <1>7, <1>8
<1>11. v \in u..e => p[UeField] = IF v < e THEN v + 1 ELSE u
  BY <1>3, <1>7, <1>8, <1>9
<1> QED  BY <1>5, <1>10, <1>11 DEF u, v, e

\* The tunnel of a generator's packet is its UE's, and its eNodeB exists.
LEMMA NextTunnel ==
  ASSUME NoLarger, Numbers, FlowsInv, BuildInv, line = 12, NEW ip \in Ue(test)..LastUe
  PROVE  /\ Teid(ip) \in Int /\ NextEnb \in 0..(Word - 1)
         /\ Tunnels /\ gtpu.ok =>
              /\ Teid(ip) = (test[1].s1u_teid + ip - Ue(test)) % Word
              /\ enb \in 0..(test[1].no_of_enb - 1) /\ NextEnb < test[1].no_of_enb
<1> DEFINE u == Ue(test)
           s == gtpu.s1u_teid
           m == gtpu.no_of_enb
           d == ip - u
<1>1. /\ s \in 0..(Word - 1) /\ m \in 0..(Word - 1) /\ Word \in Nat \ {0}
      /\ gtpu.ok /\ gtpu.enable # 0 =>
           /\ s = test[1].s1u_teid /\ m = test[1].no_of_enb /\ m \in 1..(Word - 1)
  BY ParseFacts, WordAssumption DEF FlowsInv, LoadInv, BuildInv, PacketInv
<1>2. u \in Nat /\ LastUe \in Nat /\ LastUe < Word
  BY LoadedFacts, LastFacts DEF FlowsInv
<1>3. window.start = u
  <2>1. Past(UeLine)
    BY DEF Past, UeLine
  <2> QED  BY <2>1 DEF FlowsInv, WindowInv
<1>4. Minus(ip, window.start) = d
  <2>1. d \in Int /\ 0 <= d /\ d < Word
    BY <1>1, <1>2
  <2>2. Minus(ip, window.start) = d % Word
    BY <1>3 DEF Minus
  <2> HIDE DEF d
  <2> QED  BY <1>1, <2>1, <2>2, ModSmall
<1>5. Teid(ip) = (s + d) % Word /\ d \in Int
  <2>1. d \in Int
    BY <1>2
  <2> QED  BY <1>4, <2>1 DEF Teid
<1>6. Teid(ip) \in Int
  <2> DEFINE t == s + d
  <2>1. t \in Int
    BY <1>1, <1>5
  <2> HIDE DEF t
  <2>2. t % Word \in 0..(Word - 1)
    BY <1>1, <2>1, ModRange
  <2> QED  BY <1>5, <2>2 DEF t
<1>7. enb \in 0..(Word - 1) /\ (Tunnels /\ gtpu.ok => enb < test[1].no_of_enb)
  BY DEF BuildInv, PacketInv
<1>8. Minus(m, 1) \in 0..(Word - 1) /\ (m \in 1..(Word - 1) => Minus(m, 1) = m - 1)
  <2>1. m - 1 \in Int
    BY <1>1
  <2>2. (m - 1) % Word \in 0..(Word - 1)
    BY <1>1, <2>1, ModRange
  <2>3. m \in 1..(Word - 1) => (m - 1) % Word = m - 1
    BY <1>1, <2>1, ModSmall
  <2> QED  BY <2>2, <2>3 DEF Minus
<1>9. NextEnb = 0 \/ (NextEnb = enb + 1 /\ ~(enb + 1 > Minus(m, 1)))
  BY DEF NextEnb
<1> HIDE DEF u, s, m, d
<1>10. NextEnb \in 0..(Word - 1)
  BY <1>1, <1>7, <1>8, <1>9
<1>11. ASSUME Tunnels, gtpu.ok
       PROVE  /\ Teid(ip) = (test[1].s1u_teid + ip - Ue(test)) % Word
              /\ enb \in 0..(test[1].no_of_enb - 1) /\ NextEnb < test[1].no_of_enb
  <2>1. s = test[1].s1u_teid /\ m = test[1].no_of_enb /\ m \in 1..(Word - 1)
    BY <1>1, <1>11 DEF Tunnels
  <2>2. Teid(ip) = (test[1].s1u_teid + ip - Ue(test)) % Word
    BY <1>5, <2>1 DEF d, u
  <2>3. enb \in 0..(m - 1)
    BY <1>1, <1>7, <1>11, <2>1
  <2>4. NextEnb < m
    BY <1>1, <1>7, <1>8, <1>9, <2>1
  <2> QED  BY <2>1, <2>2, <2>3, <2>4
<1> QED  BY <1>6, <1>10, <1>11

LEMMA BuildPacketStep ==
  ASSUME NoLarger, RoomForAll, Numbers, FlowsInv, BuildInv,
         NEW q \in Queues, BuildPacket(q)
  PROVE  BuildInv'
<1> DEFINE p == NextPacket(pkt, range, first)
           ip == p[UeField]
           old == pool[q]
           rec == [ue |-> ip, teid |-> IF Tunnels THEN Teid(p.srcIp) ELSE None,
                   enb |-> IF Tunnels THEN enb ELSE None]
<1>1. /\ q \in building /\ \A k \in building : k # q => pool[k] = << >>
      /\ pkt' = p /\ pool' = [pool EXCEPT ![q] = Append(old, rec)]
      /\ enb' = IF Tunnels THEN NextEnb ELSE enb
      /\ building' = IF Len(pool'[q]) = PoolSize THEN building \ {q} ELSE building
      /\ UNCHANGED <<role, test, gtpu, loaded, line, window, range>>
  BY DEF BuildPacket, who, settings
<1>2. /\ line = 12 /\ building \subseteq Queues /\ pool \in [Queues -> Seq(Packets)]
      /\ \A k \in Queues : IF k \in building THEN Len(pool[k]) < PoolSize
                                             ELSE Len(pool[k]) = PoolSize
      /\ old # << >> => pkt[UeField] = old[Len(old)].ue
      /\ PoolSize \in Nat \ {0}
  BY <1>1, FlowsAssumption DEF BuildInv, QueueInv
<1>3. /\ DOMAIN p = PktKeys /\ p.ethType = "ipv4" /\ p.proto = "udp"
      /\ ip \in Ue(test)..LastUe
      /\ pkt[UeField] \in Ue(test)..LastUe =>
           ip = IF pkt[UeField] < LastUe THEN pkt[UeField] + 1 ELSE Ue(test)
  BY <1>2, NextUe
<1>4. /\ \A k \in Queues : \A n \in 1..Len(pool[k]) : InTunnel(pool[k][n])
      /\ \A k \in Queues : pool[k] # << >> =>
           OneRound(Ues(pool[k]), pool[k][1].ue, pool[k][Len(pool[k])].ue, Len(pool[k]),
                 Ue(test), Loaded.flows)
  BY <1>2 DEF BuildInv, CoverInv
<1>5. /\ UeField' = UeField /\ MinLine' = MinLine /\ OpenLine' = OpenLine
      /\ IncLine' = IncLine /\ Ue(test)' = Ue(test) /\ LastUe' = LastUe
      /\ Loaded' = Loaded /\ (Tunnels' <=> Tunnels)
  BY <1>1, SameUe, SameTest DEF Tunnels
<1>6. /\ Ue(test) \in Nat /\ LastUe \in Nat /\ Loaded.flows \in Nat \ {0}
      /\ LastUe = Ue(test) + Loaded.flows - 1 /\ Word \in Nat \ {0}
  BY LoadedFacts, LastFacts DEF FlowsInv, LastUe
\* The tunnel.
<1>7. /\ Tunnels => p.srcIp = ip
      /\ Teid(ip) \in Int /\ NextEnb \in 0..(Word - 1) /\ enb \in 0..(Word - 1)
      /\ Tunnels /\ gtpu.ok =>
           /\ Teid(ip) = (test[1].s1u_teid + ip - Ue(test)) % Word
           /\ enb \in 0..(test[1].no_of_enb - 1) /\ NextEnb < test[1].no_of_enb
  <2>1. Tunnels => UeField = "srcIp"
    BY DEF Tunnels, UeField
  <2>2. enb \in 0..(Word - 1)
    BY DEF BuildInv, PacketInv
  <2> QED  BY <1>2, <1>3, <2>1, <2>2, NextTunnel
<1>8. rec \in Packets /\ rec.ue = ip /\ InTunnel(rec)
  <2>1. rec.ue = ip /\ ip \in Nat
    BY <1>3, <1>6
  <2>2. rec.teid \in Int /\ rec.enb \in Int
    BY <1>6, <1>7 DEF None
  <2>3. rec \in Packets
    BY <2>1, <2>2 DEF Packets
  <2>4. ASSUME Tunnels, gtpu.ok
        PROVE  /\ rec.teid = (test[1].s1u_teid + rec.ue - Ue(test)) % Word
               /\ rec.enb \in 0..(test[1].no_of_enb - 1)
    BY <1>7, <2>4
  <2> QED  BY <1>3, <2>1, <2>3, <2>4 DEF InTunnel
<1> HIDE DEF p, ip, rec
<1> DEFINE s == Append(old, rec)
           k1 == Len(old)
<1>9. /\ old \in Seq(Packets) /\ k1 \in Nat /\ k1 < PoolSize
      /\ s \in Seq(Packets) /\ Len(s) = k1 + 1 /\ s[k1 + 1] = rec
      /\ \A n \in 1..k1 : s[n] = old[n]
  <2>1. old \in Seq(Packets) /\ k1 < PoolSize
    BY <1>1, <1>2
  <2> QED  BY <1>8, <2>1, AppendProperties, LenProperties
<1>10. /\ pool' \in [Queues -> Seq(Packets)] /\ pool'[q] = s
       /\ \A k \in Queues : k # q => pool'[k] = pool[k]
  BY <1>1, <1>2, <1>9
\* The addresses.
<1>11. Ues(s) = Ues(old) \cup {ip}
  <2>1. \A n \in 1..(k1 + 1) : n \in 1..k1 \/ n = k1 + 1
    BY <1>9
  <2>2. 1..k1 \subseteq 1..(k1 + 1) /\ k1 + 1 \in 1..(k1 + 1)
    BY <1>9
  <2> QED  BY <1>8, <1>9, <2>1, <2>2 DEF Ues
<1>12. OneRound(Ues(s), s[1].ue, s[Len(s)].ue, Len(s), Ue(test), Loaded.flows)
  <2>1. CASE old = << >>
    <3>1. k1 = 0 /\ Len(s) = 1 /\ s[1] = rec /\ s[1].ue = ip
      BY <1>8, <1>9, <2>1
    <3>2. ip \in Ues(s) /\ ip..ip \subseteq Ues(s)
      <4>1. \A x \in ip..ip : x = ip
        BY <1>3, <1>6
      <4> QED  BY <1>11, <4>1
    <3>3. CASE Loaded.flows > 1
      BY <1>3, <1>6, <3>1, <3>2, <3>3 DEF OneRound
    <3>4. CASE ~(Loaded.flows > 1)
      <4>1. LastUe = Ue(test) /\ ip = Ue(test) /\ Loaded.flows = 1
        BY <1>3, <1>6, <3>4
      <4> QED  BY <1>6, <3>1, <3>2, <4>1 DEF OneRound
    <3> QED  BY <3>3, <3>4
  <2>2. CASE old # << >>
    <3> DEFINE a == old[1].ue
               c == old[k1].ue
    <3>1. k1 \in Nat \ {0} /\ 1 \in 1..k1 /\ k1 \in 1..k1
      BY <1>9, <2>2, EmptySeq
    <3>2. a \in Ue(test)..LastUe /\ c \in Ue(test)..LastUe
      BY <1>4, <3>1 DEF InTunnel
    <3>3. OneRound(Ues(old), a, c, k1, Ue(test), Loaded.flows)
      BY <1>4, <2>2
    <3>4. ip = IF c < LastUe THEN c + 1 ELSE Ue(test)
      BY <1>2, <1>3, <2>2, <3>2
    <3>5. s[1].ue = a /\ s[Len(s)].ue = ip
      BY <1>8, <1>9, <3>1
    <3> HIDE DEF a, c, s, k1
    <3>6. OneRound(Ues(old) \cup {ip}, a, ip, k1 + 1, Ue(test), Loaded.flows)
      BY <1>6, <3>1, <3>2, <3>3, <3>4, RoundOn
    <3> QED  BY <1>9, <1>11, <3>5, <3>6
  <2> QED  BY <2>1, <2>2
<1>13. \A n \in 1..Len(s) : InTunnel(s[n])
  <2>1. \A n \in 1..Len(s) : n \in 1..k1 \/ n = k1 + 1
    BY <1>9
  <2> QED  BY <1>4, <1>8, <1>9, <2>1
<1>14. CoverInv'
  <2>1. /\ \A k \in Queues : \A n \in 1..Len(pool'[k]) : InTunnel(pool'[k][n])
        /\ \A k \in Queues : pool'[k] # << >> =>
             OneRound(Ues(pool'[k]), pool'[k][1].ue, pool'[k][Len(pool'[k])].ue,
                   Len(pool'[k]), Ue(test), Loaded.flows)
    BY <1>4, <1>10, <1>12, <1>13
  <2>2. (\A k \in Queues : \A n \in 1..Len(pool[k]) : InTunnel(pool[k][n]))'
    <3>1. ASSUME NEW CONSTANT x, InTunnel(x) PROVE InTunnel(x)'
      BY <1>1, <1>5, <3>1 DEF InTunnel
    <3> SUFFICES ASSUME NEW k \in Queues, NEW n \in 1..Len(pool'[k])
                 PROVE  InTunnel(pool[k][n])'
      OBVIOUS
    <3>2. PICK x : x = pool'[k][n]
      OBVIOUS
    <3>3. InTunnel(x)'
      BY <2>1, <3>1, <3>2
    <3> QED  BY <3>2, <3>3 DEF InTunnel
  <2>3. (\A k \in Queues : pool[k] # << >> =>
           OneRound(Ues(pool[k]), pool[k][1].ue, pool[k][Len(pool[k])].ue,
                 Len(pool[k]), Ue(test), Loaded.flows))'
    BY <1>5, <2>1 DEF Ues
  <2> QED  BY <2>2, <2>3 DEF CoverInv
<1>15. SpanInv'
  BY <1>1, <1>5 DEF BuildInv, SpanInv
<1>16. PacketInv'
  <2>1. ip \in Nat
    BY <1>3, <1>6
  <2>2. enb' \in 0..(Word - 1) /\ (Tunnels /\ gtpu.ok => enb' < test[1].no_of_enb)
    BY <1>1, <1>7 DEF BuildInv, PacketInv
  <2>3. pkt'[UeField] \in Nat
    BY <1>1, <2>1 DEF ip
  <2> QED  BY <1>1, <1>3, <1>5, <2>2, <2>3 DEF BuildInv, PacketInv
<1>17. QueueInv'
  <2>1. building' = (IF k1 + 1 = PoolSize THEN building \ {q} ELSE building)
    BY <1>1, <1>9, <1>10
  <2>2. \A k \in Queues : IF k \in building' THEN Len(pool'[k]) < PoolSize
                                             ELSE Len(pool'[k]) = PoolSize
    <3>1. ASSUME NEW k \in Queues, k # q
          PROVE  IF k \in building' THEN Len(pool'[k]) < PoolSize
                                    ELSE Len(pool'[k]) = PoolSize
      BY <1>2, <1>10, <2>1, <3>1
    <3>2. IF q \in building' THEN Len(s) < PoolSize ELSE Len(s) = PoolSize
      BY <1>1, <1>2, <1>9, <2>1
    <3> QED  BY <1>10, <3>1, <3>2
  <2>3. \A k \in building' : k \in building /\ k \in Queues
    BY <1>2, <2>1
  <2>4. \A k \in building' : k # q => pool'[k] = << >>
    BY <1>1, <1>10, <2>3
  <2>5. pkt'[UeField] = s[Len(s)].ue
    BY <1>1, <1>8, <1>9 DEF ip
  <2> HIDE DEF s
  <2>6. \A k \in building' :
          pool'[k] # << >> => pkt'[UeField] = pool'[k][Len(pool'[k])].ue
    BY <1>10, <2>4, <2>5
  <2> QED  BY <1>1, <1>2, <1>5, <1>10, <2>2, <2>3, <2>4, <2>6 DEF QueueInv
<1> QED  BY <1>14, <1>15, <1>16, <1>17 DEF BuildInv

(***************************************************************************)
(* The invariant holds.                                                    *)
(***************************************************************************)
LEMMA BuildInit ==
  ASSUME Numbers, FlowsInit
  PROVE  BuildInv
<1>1. /\ line = 1 /\ range = FirstRange /\ enb = 0 /\ building = {}
      /\ pool = [q \in Queues |-> << >>]
      /\ test \in Tests /\ gtpu = parse_user_config(test[1])
      /\ pkt = [ethType |-> "ipv4", proto |-> "udp", teid |-> 0, srcPort |-> 0,
                dstPort |-> 0, srcIp |-> DefaultIp, dstIp |-> DefaultIp, vlan |-> 0,
                cos |-> 0, tos |-> 0, size |-> 0, srcMac |-> 0, dstMac |-> 0]
  BY DEF FlowsInit
<1>2. MinLine \in 2..10 /\ OpenLine \in 2..10 /\ IncLine \in 2..10
  BY DEF MinLine, OpenLine, IncLine
<1>3. SpanInv
  <2>1. UeField \in {"srcIp", "dstIp"}
    BY DEF UeField
  <2>2. UeField \in DOMAIN range /\ UeField \notin DOMAIN Fixed
    BY <1>1, <2>1 DEF FirstRange, Fixed
  <2>3. DOMAIN range[UeField] = {"start", "min", "max", "inc"}
    BY <1>1, <2>1, <2>2 DEF FirstRange, Span
  <2> QED  BY <1>1, <1>2, <2>2, <2>3 DEF SpanInv
<1>4. PacketInv
  <2>1. DOMAIN pkt = PktKeys
    BY <1>1 DEF PktKeys, Fixed
  <2>2. pkt[UeField] \in Nat
    BY <1>1, FlowsAssumption DEF UeField
  <2>3. 0 \in 0..(Word - 1)
    BY WordAssumption
  <2>4. pkt.ethType = "ipv4" /\ pkt.proto = "udp"
    BY <1>1
  <2>5. Tunnels /\ gtpu.ok => 0 < test[1].no_of_enb
    BY <1>1, ParseFacts DEF Tunnels
  <2> QED  BY <1>1, <2>1, <2>2, <2>3, <2>4, <2>5 DEF PacketInv
<1>5. QueueInv
  <2>1. << >> \in Seq(Packets)
    BY EmptySeq
  <2> QED  BY <1>1, <2>1 DEF QueueInv
<1>6. CoverInv
  BY <1>1 DEF CoverInv
<1> QED  BY <1>3, <1>4, <1>5, <1>6 DEF BuildInv

LEMMA BuildNext ==
  ASSUME NoLarger, RoomForAll, Numbers, FlowsInv, BuildInv, [FlowsNext]_flowsVars
  PROVE  BuildInv'
<1>1. CASE Commands
  <2>1. ASSUME NEW cmd \in Due,
               \/ cmd[1] = "single" /\ SetSingle(cmd[2], cmd[3])
               \/ cmd[1] # "single" /\ SetRange(cmd[1], cmd[2], cmd[3])
               \/ cmd[1] = UeField /\ cmd[2] = "max" /\ OpenRange(cmd[3])
        PROVE  BuildInv'
    <3>1. todo = << >> /\ line <= 10 /\ cmd = Lines[line]
      <4>1. Len(Lines) = 10
        BY SpanFacts DEF FlowsInv
      <4> QED  BY <4>1 DEF Due
    <3>2. CASE OpenRange(cmd[3])
      BY <3>2, SpanQuiet DEF OpenRange, who, build
    <3> QED  BY <2>1, <3>1, <3>2, SetSingleBuild, SetRangeBuild
  <2>2. CASE AllocRow
    BY <2>2, SpanQuiet DEF AllocRow, who, settings, build
  <2> QED
    BY <1>1, <2>1, <2>2, CloseRangeBuild, StartBuild, LoadNextBuild DEF Commands
<1>2. ASSUME NEW q \in Queues, BuildPacket(q) \/ Send(q) \/ Receive(q)
      PROVE  BuildInv'
  <2>1. ASSUME NEW l, NEW ip, Classify(l, ip) PROVE BuildInv'
    BY <2>1, SpanQuiet DEF Classify, who, settings, build
  <2>2. CASE BuildPacket(q)
    BY <2>2, BuildPacketStep
  <2>3. CASE Send(q)
    BY <2>1, <2>3 DEF Send
  <2>4. CASE Receive(q)
    BY <2>1, <2>4 DEF Receive
  <2> QED  BY <1>2, <2>2, <2>3, <2>4
<1>3. ASSUME NEW l \in Lcores, Store(l) PROVE BuildInv'
  BY <1>3, SpanQuiet DEF Store, who, settings, build
<1>4. CASE UNCHANGED flowsVars
  BY <1>4, SpanQuiet DEF flowsVars, who, settings, build
<1> QED  BY <1>1, <1>2, <1>3, <1>4 DEF FlowsNext

LEMMA BuildInvariant ==
  ASSUME NoLarger, RoomForAll, Numbers
  PROVE  FlowsSpec => [](FlowsInv /\ BuildInv)
<1>1. FlowsInit => FlowsInv /\ BuildInv
  BY FlowsFirst, BuildInit
<1>2. FlowsInv /\ BuildInv /\ [FlowsNext]_flowsVars => FlowsInv' /\ BuildInv'
  BY FlowsOn, BuildNext
<1> QED  BY <1>1, <1>2, PTL DEF FlowsSpec

(***************************************************************************)
(* The mempool of a sending queue holds a packet of every flow the command *)
(* file asked for and, in GTP-U, each in the tunnel of its UE and from one *)
(* of the eNodeBs, wherever the queue before left the packet that all      *)
(* queues build theirs from (pktgen_setup_cb, construct_ipv4_hdr).         *)
(***************************************************************************)
THEOREM EveryFlowBuilt ==
  ASSUME NoLarger, RoomForAll, Numbers
  PROVE  FlowsSpec => []EveryFlow
<1>1. FlowsInv /\ BuildInv => EveryFlow
  <2> SUFFICES ASSUME FlowsInv, BuildInv, line = Len(Lines) + 2,
                      NEW q \in Queues \ building
               PROVE  LET packets == {pool[q][n] : n \in 1..PoolSize} IN
                      /\ {p.ue : p \in packets}
                           = Ue(test)..(Ue(test) + Loaded.flows - 1)
                      /\ Tunnels /\ gtpu.ok => \A p \in packets :
                           /\ p.teid = (test[1].s1u_teid + p.ue - Ue(test)) % Word
                           /\ p.enb \in 0..(test[1].no_of_enb - 1)
    BY DEF EveryFlow
  <2> DEFINE packets == {pool[q][n] : n \in 1..PoolSize}
  <2>1. line = 12
    <3>1. Len(Lines) = 10
      BY SpanFacts DEF FlowsInv
    <3> QED  BY <3>1
  <2>2. Len(pool[q]) = PoolSize /\ pool[q] # << >> /\ PoolSize \in Nat \ {0}
    BY <2>1, FlowsAssumption DEF BuildInv, QueueInv
  <2>3. \A p \in packets : InTunnel(p)
    BY <2>1, <2>2 DEF BuildInv, CoverInv
  <2>4. Ue(test)..LastUe \subseteq Ues(pool[q])
    <3>1. Loaded.flows <= PoolSize /\ Loaded.flows \in Nat
      BY LoadedRoom, LoadedFacts DEF FlowsInv
    <3> QED  BY <2>1, <2>2, <3>1 DEF BuildInv, CoverInv, OneRound, LastUe
  <2>5. Ues(pool[q]) = {p.ue : p \in packets}
    BY <2>2 DEF Ues
  <2>6. {p.ue : p \in packets} = Ue(test)..LastUe
    BY <2>3, <2>4, <2>5 DEF InTunnel
  <2> QED  BY <2>3, <2>6 DEF InTunnel, LastUe
<1> QED  BY <1>1, BuildInvariant, PTL

=============================================================================

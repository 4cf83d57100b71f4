----------------------------- MODULE Vector_proofs -----------------------------
(***************************************************************************)
(* Proofs about plg::vector and plg::inplace_vector, for any values, any   *)
(* sizes, and any step at which a call throws: there are elements up to    *)
(* end_, or the first size_ ones, and none behind, and every call keeps to *)
(* what Container promises.  Two calls are excepted, and end the claim     *)
(* when they happen: an insertion from input iterators that throws once it *)
(* has filled the spare cells, which leaves end_ behind destroyed          *)
(* elements, and a resize that keeps or grows an inplace vector with       *)
(* elements, which adds the new size to the old.                           *)
(***************************************************************************)
EXTENDS Vector, InplaceVector, Basics

Cell == Item \cup {Raw}

\* A call in progress.
Progress == [cells : Seq(Cell), size : Nat, left : Int, threw : BOOLEAN]

\* Its cells hold elements where it counts them, and there only.
Whole(o) ==
  /\ o \in Progress
  /\ ~o.threw => o.left \in Nat
  /\ o.size <= Len(o.cells) /\ Len(o.cells) <= MaxSize
  /\ \A i \in 1..Len(o.cells) : o.cells[i] = Raw <=> i > o.size

\* The call has left the elements of o as they were, or but for those behind them.
Keeps(q, o) == q.size >= o.size /\ \A i \in 1..o.size : q.cells[i] = o.cells[i]
Same(q, o) == q.size = o.size /\ Keeps(q, o)

\* The call has put s in the place of cut elements of o, after at.
Spliced(q, o, at, cut, s) ==
  /\ q.size = o.size - cut + Len(s)
  /\ \A i \in 1..q.size :
       q.cells[i] = IF i <= at THEN o.cells[i]
                    ELSE IF i <= at + Len(s) THEN s[i - at] ELSE o.cells[i - Len(s) + cut]

-----------------------------------------------------------------------------
(* The steps of a call. *)

LEMMA WriteIs ==
  ASSUME NEW o \in Progress, ~o.threw, o.left \in Nat, NEW at \in Nat, NEW s \in Seq(Item)
  PROVE  LET q == Write(o, at, s)
             n == Lesser(o.left, Len(s))
         IN  /\ n \in 0..Len(s) /\ (n = Len(s) \/ n = o.left)
             /\ q \in Progress /\ q.left \in Nat /\ q.left = o.left - n
             /\ q.size = o.size /\ (q.threw <=> n < Len(s))
             /\ Len(q.cells) = Len(o.cells)
             /\ \A i \in 1..Len(o.cells) :
                  q.cells[i] = IF i - at \in 1..n THEN s[i - at] ELSE o.cells[i]
<1> DEFINE q == Write(o, at, s)
           n == Lesser(o.left, Len(s))
           t == SubSeq(s, 1, n)
           c == Put(o.cells, at, t)
<1>1. o.cells \in Seq(Cell) /\ o.size \in Nat /\ o.threw \in BOOLEAN
  BY DEF Progress
<1>2. Len(s) \in Nat /\ n \in 0..Len(s) /\ n <= o.left /\ (n = Len(s) \/ n = o.left)
  BY SeqIs, LesserIs
<1>3. t \in Seq(Item) /\ Len(t) = n /\ \A i \in 1..n : t[i] = s[i]
  <2>1. 1 \in 1..(Len(s) + 1) /\ n \in (1 - 1)..Len(s) /\ n - 1 + 1 = n
    BY <1>2
  <2>2. \A i \in 1..n : 1 + i - 1 = i
    BY <1>2
  <2> HIDE DEF n
  <2> QED
    BY <2>1, <2>2, PieceIs
<1>4. t \in Seq(Cell)
  BY <1>3 DEF Cell
<1>5. /\ c \in Seq(Cell) /\ Len(c) = Len(o.cells)
      /\ \A i \in 1..Len(o.cells) : c[i] = IF i - at \in 1..n THEN s[i - at] ELSE o.cells[i]
  <2> HIDE DEF t, n
  <2> QED
    BY SMTT(30), <1>1, <1>3, <1>4, PutIs
<1>6. q = [o EXCEPT !.cells = c, !.left = o.left - n, !.threw = n < Len(s)]
  BY DEF Write
<1> HIDE DEF t, c, n, q
<1>7. o.left - n \in Nat
  BY <1>2
<1>8. q = [cells |-> c, size |-> o.size, left |-> o.left - n, threw |-> n < Len(s)]
  BY <1>6 DEF Progress
<1>9. q \in Progress /\ q.cells = c /\ q.left = o.left - n /\ q.size = o.size /\ q.threw = (n < Len(s))
  BY <1>1, <1>5, <1>7, <1>8 DEF Progress
<1> QED
  BY <1>2, <1>5, <1>7, <1>9 DEF q, n

LEMMA ConstructAtEndIs ==
  ASSUME CellsAssumption, NEW o, Whole(o), ~o.threw, NEW s \in Seq(Item), o.size + Len(s) <= Len(o.cells)
  PROVE  LET q == ConstructAtEnd(o, s)
         IN  /\ Whole(q) /\ Len(q.cells) = Len(o.cells)
             /\ Keeps(q, o) /\ q.size = o.size + Lesser(o.left, Len(s))
             /\ q.threw => Len(s) > 0 /\ q.size < o.size + Len(s) /\ (Len(s) = 1 => Same(q, o))
             /\ ~q.threw => Spliced(q, o, o.size, 0, s)
<1> DEFINE w == Write(o, o.size, s)
           n == Lesser(o.left, Len(s))
           q == ConstructAtEnd(o, s)
<1>1. o \in Progress /\ o.left \in Nat /\ o.size \in Nat /\ o.cells \in Seq(Cell) /\ Len(s) \in Nat
  BY SeqIs DEF Whole, Progress
<1>2. /\ n \in 0..Len(s) /\ (n = Len(s) \/ n = o.left)
      /\ w \in Progress /\ w.left \in Nat
      /\ w.size = o.size /\ (w.threw <=> n < Len(s))
      /\ Len(w.cells) = Len(o.cells)
      /\ \A i \in 1..Len(o.cells) :
           w.cells[i] = IF i - o.size \in 1..n THEN s[i - o.size] ELSE o.cells[i]
  <2>1. o \in Progress /\ o.left \in Nat /\ o.size \in Nat /\ s \in Seq(Item) /\ o.size + Len(s) <= Len(o.cells)
    BY <1>1
  <2> HIDE DEF q
  <2> QED
    BY <2>1, WriteIs, ZenonT(60)
<1>3. q = [w EXCEPT !.size = o.size + n]
  BY <1>2 DEF ConstructAtEnd
<1> HIDE DEF w, n, q
<1>4. /\ q \in Progress /\ q.cells = w.cells /\ q.size = o.size + n
      /\ q.left = w.left /\ q.threw = w.threw
  <2>1. o.size + n \in Nat
    BY <1>1, <1>2
  <2> QED
    BY <2>1, <1>2, <1>3 DEF Progress
<1>5. \A i \in 1..Len(s) : s[i] \in Item /\ s[i] # Raw
  BY SeqIs DEF CellsAssumption, ThrowingAssumption, Item
<1>6. Len(o.cells) \in Nat
  BY <1>1, SeqIs
<1>7. Whole(q)
  <2>1. ASSUME NEW i \in 1..Len(q.cells) PROVE q.cells[i] = Raw <=> i > q.size
    <3>1. i \in 1..Len(o.cells) /\ (o.cells[i] = Raw <=> i > o.size)
      BY <2>1, <1>2, <1>4 DEF Whole
    <3>2. CASE i - o.size \in 1..n
      <4>1. w.cells[i] # Raw
        <5>1. i - o.size \in 1..Len(s)
          BY <3>2, <1>1, <1>2
        <5> QED
          BY <5>1, <3>1, <3>2, <1>2, <1>5
      <4>2. ~(i > o.size + n)
        BY <3>1, <3>2, <1>1, <1>2, <1>6
      <4> QED
        BY <4>1, <4>2, <1>4
    <3>3. CASE i - o.size \notin 1..n
      <4>1. q.cells[i] = o.cells[i]
        BY <3>1, <3>3, <1>2, <1>4
      <4>2. i \in Nat /\ n \in Nat /\ i >= 1
        BY <3>1, <1>1, <1>2, <1>6
      <4>3. i > o.size <=> i > o.size + n
        BY SMTT(30), <4>2, <3>3, <1>1
      <4> QED
        BY <4>1, <4>3, <3>1, <1>4
    <3> QED
      BY <3>2, <3>3
  <2> QED
    BY <2>1, <1>1, <1>2, <1>4, <1>6 DEF Whole
<1>8. Keeps(q, o)
  <2>1. o.size + n >= o.size
    BY <1>1, <1>2
  <2>2. ASSUME NEW i \in 1..o.size PROVE i \in 1..Len(o.cells) /\ i - o.size \notin 1..n
    BY <1>1, <1>2, <1>6 DEF Whole
  <2> QED
    BY <2>1, <2>2, <1>2, <1>4 DEF Keeps
<1>9. ~q.threw => Spliced(q, o, o.size, 0, s)
  <2> SUFFICES ASSUME ~q.threw PROVE Spliced(q, o, o.size, 0, s)
    OBVIOUS
  <2>1. n = Len(s) /\ q.size = o.size - 0 + Len(s)
    BY <1>1, <1>2, <1>4
  <2>2. ASSUME NEW i \in 1..q.size
        PROVE  q.cells[i] = IF i <= o.size THEN o.cells[i]
                            ELSE IF i <= o.size + Len(s) THEN s[i - o.size] ELSE o.cells[i - Len(s) + 0]
    <3>1. i \in 1..Len(o.cells) /\ (i - o.size \in 1..n <=> ~(i <= o.size))
      BY <2>1, <1>1, <1>2, <1>6
    <3> QED
      BY <3>1, <2>1, <1>1, <1>2, <1>4
  <2> QED
    BY <2>1, <2>2 DEF Spliced
<1>10. q.threw => Len(s) > 0 /\ (Len(s) = 1 => Same(q, o))
  <2>1. n < Len(s) => Len(s) > 0 /\ (Len(s) = 1 => o.size + n = o.size)
    <3>1. n \in Nat /\ Len(s) \in Nat /\ o.size \in Nat
      BY <1>1, <1>2
    <3>2. n < Len(s) => Len(s) > 0 /\ (Len(s) = 1 => n = 0)
      <4> DEFINE l == Len(s)
      <4>1. l \in Nat /\ n \in Nat
        BY <3>1
      <4> HIDE DEF l
      <4>2. n < l => l > 0 /\ (l = 1 => n = 0)
        BY <4>1
      <4> QED
        BY <4>2 DEF l
    <3>3. n = 0 => o.size + n = o.size
      BY <3>1
    <3> QED
      BY <3>2, <3>3
  <2> QED
    BY <2>1, <1>2, <1>4, <1>8 DEF Same
<1>11. q.threw => q.size < o.size + Len(s)
  BY <1>1, <1>2, <1>4
<1> QED
  BY <1>2, <1>4, <1>7, <1>8, <1>9, <1>10, <1>11 DEF q, n

LEMMA DestructAtEndIs ==
  ASSUME NEW o, Whole(o), NEW n \in 0..o.size
  PROVE  LET q == DestructAtEnd(o, n)
         IN  /\ Whole(q) /\ Len(q.cells) = Len(o.cells) /\ q.size = n /\ Keeps(o, q)
             /\ q.left = o.left /\ q.threw = o.threw
<1> DEFINE t == Times(o.size - n, Raw)
           c == Put(o.cells, n, t)
           q == DestructAtEnd(o, n)
<1>1. o \in Progress /\ o.size \in Nat /\ o.cells \in Seq(Cell) /\ Len(o.cells) \in Nat /\ n \in Nat
  BY SeqIs DEF Whole, Progress
<1>2. o.size - n \in Nat /\ Raw \in Cell
  BY <1>1 DEF Cell
<1>3. t \in Seq(Cell) /\ Len(t) = o.size - n /\ \A i \in 1..(o.size - n) : t[i] = Raw
  BY <1>2, TimesIs
<1>4. q = [o EXCEPT !.cells = c, !.size = n]
  BY DEF DestructAtEnd
<1> HIDE DEF t
<1>5. /\ c \in Seq(Cell) /\ Len(c) = Len(o.cells)
      /\ \A i \in 1..Len(o.cells) : c[i] = IF i - n \in 1..(o.size - n) THEN Raw ELSE o.cells[i]
  <2>1. /\ c \in Seq(Cell) /\ Len(c) = Len(o.cells)
        /\ \A i \in 1..Len(o.cells) : c[i] = IF i - n \in 1..Len(t) THEN t[i - n] ELSE o.cells[i]
    BY SMTT(30), <1>1, <1>3, PutIs
  <2> QED
    BY <2>1, <1>3
<1> HIDE DEF c, q
<1>6. /\ q \in Progress /\ q.cells = c /\ q.size = n
      /\ q.left = o.left /\ q.threw = o.threw
  BY <1>1, <1>4, <1>5 DEF Progress
<1>7. Whole(q)
  <2>1. ASSUME NEW i \in 1..Len(q.cells) PROVE q.cells[i] = Raw <=> i > q.size
    <3>1. i \in 1..Len(o.cells) /\ (o.cells[i] = Raw <=> i > o.size)
      BY <2>1, <1>5, <1>6 DEF Whole
    <3> QED
      BY <3>1, <1>1, <1>5, <1>6
  <2> QED
    BY <2>1, <1>1, <1>5, <1>6 DEF Whole
<1>8. Keeps(o, q)
  <2>1. ASSUME NEW i \in 1..n PROVE i \in 1..Len(o.cells) /\ i - n \notin 1..(o.size - n)
    BY <1>1 DEF Whole
  <2> QED
    BY <2>1, <1>1, <1>5, <1>6 DEF Keeps, Whole
<1> QED
  BY <1>5, <1>6, <1>7, <1>8 DEF q

LEMMA ConstructRangeIs ==
  ASSUME CellsAssumption, NEW o, Whole(o), ~o.threw, NEW s \in Seq(Item), o.size + Len(s) <= Len(o.cells)
  PROVE  LET q == ConstructRange(o, s)
         IN  /\ Whole(q) /\ Len(q.cells) = Len(o.cells)
             /\ q.threw => Len(s) > 0 /\ Same(q, o)
             /\ ~q.threw => Spliced(q, o, o.size, 0, s) /\ Keeps(q, o)
<1> DEFINE b == ConstructAtEnd(o, s)
           d == DestructAtEnd(b, o.size)
           q == ConstructRange(o, s)
<1>1. /\ Whole(b) /\ Len(b.cells) = Len(o.cells)
      /\ Keeps(b, o)
      /\ b.threw => Len(s) > 0
      /\ ~b.threw => Spliced(b, o, o.size, 0, s)
  BY ConstructAtEndIs
<1>2. o.size \in Nat /\ b.size \in Nat /\ o.size \in 0..b.size
  BY <1>1 DEF Whole, Progress, Keeps
<1>3. CASE b.threw
  <2>1. /\ Whole(d) /\ Len(d.cells) = Len(b.cells) /\ d.size = o.size /\ Keeps(b, d)
        /\ d.threw = b.threw
    <3> HIDE DEF b
    <3> QED
      BY <1>1, <1>2, DestructAtEndIs
  <2>2. q = d
    BY <1>3 DEF ConstructRange
  <2>3. Same(d, o)
    <3> HIDE DEF d, b
    <3> QED
      BY SMTT(30), <2>1, <1>1, <1>2 DEF Same, Keeps
  <2> HIDE DEF d, b, q
  <2> QED
    BY <2>1, <2>2, <2>3, <1>1, <1>3 DEF q
<1>4. CASE ~b.threw
  <2>1. q = b
    BY <1>4 DEF ConstructRange
  <2> HIDE DEF d, b, q
  <2> QED
    BY <2>1, <1>1, <1>4 DEF q
<1> QED
  BY <1>3, <1>4

\* Elements of a whole container are elements; the other cells are raw.
LEMMA WholeIs ==
  ASSUME NEW o, Whole(o)
  PROVE  /\ o \in Progress /\ o.cells \in Seq(Cell) /\ o.size \in Nat /\ o.threw \in BOOLEAN
         /\ Len(o.cells) \in Nat /\ o.size <= Len(o.cells)
         /\ \A i \in 1..o.size : i \in 1..Len(o.cells) /\ o.cells[i] \in Item
         /\ \A i \in 1..Len(o.cells) : i > o.size => o.cells[i] = Raw
<1>1. o \in Progress /\ o.cells \in Seq(Cell) /\ o.size \in Nat /\ o.threw \in BOOLEAN
  BY DEF Whole, Progress
<1>2. Len(o.cells) \in Nat /\ \A i \in 1..Len(o.cells) : o.cells[i] \in Cell
  BY <1>1, SeqIs
<1>3. o.size <= Len(o.cells) /\ \A i \in 1..Len(o.cells) : o.cells[i] = Raw <=> i > o.size
  BY DEF Whole
<1>4. ASSUME NEW i \in 1..o.size PROVE i \in 1..Len(o.cells) /\ o.cells[i] \in Item
  <2>1. i \in 1..Len(o.cells) /\ ~(i > o.size)
    BY <1>1, <1>2, <1>3
  <2> QED
    BY <2>1, <1>2, <1>3 DEF Cell
<1> QED
  BY <1>1, <1>2, <1>3, <1>4

LEMMA ItemIsNotRaw ==
  ASSUME CellsAssumption
  PROVE  Raw \notin Item
BY DEF CellsAssumption, ThrowingAssumption, Item

\* Elements to move, none of which was moved or written over before its turn.
Movable(o, from, by, upto) ==
  /\ by \in Int \ {0} /\ from \in Seq(Nat)
  /\ \A k \in 1..Len(from) : from[k] \in 1..o.size /\ from[k] + by \in 1..upto
  /\ \A k, m \in 1..Len(from) : k < m => from[m] # from[k] /\ from[m] # from[k] + by

\* The first n of them were.
HasMoved(q, o, from, by, n) ==
  /\ n \in 0..Len(from) /\ (q.threw <=> n < Len(from))
  /\ q \in Progress /\ q.left \in Nat /\ q.size = o.size /\ Len(q.cells) = Len(o.cells)
  /\ n = IF nothrowMove THEN Len(from) ELSE o.left - q.left
  /\ \A k \in 1..n : q.cells[from[k] + by] = o.cells[from[k]]
  /\ \A i \in 1..Len(o.cells) : (\A k \in 1..n : i # from[k] + by) =>
       q.cells[i] = o.cells[i] \/ (q.cells[i] \in Item /\ \E k \in 1..n : i = from[k])

LEMMA MoveAllIs ==
  ASSUME NEW o, Whole(o), ~o.threw, NEW by, NEW from, Movable(o, from, by, Len(o.cells))
  PROVE  \E n : HasMoved(MoveAll(o, from, by), o, from, by, n)
<1> DEFINE n == IF nothrowMove THEN Len(from) ELSE Lesser(o.left, Len(from))
           L == Len(o.cells)
           V == [1..L -> Cell]
           Step(c, i) == IF nothrowMove THEN [c EXCEPT ![i + by] = c[i], ![i] = Gone]
                                        ELSE [c EXCEPT ![i + by] = c[i]]
           Def(g) == [k \in 0..n |-> IF k = 0 THEN o.cells ELSE Step(g[k - 1], from[k])]
           moved == CHOOSE g : g = Def(g)
           F == [k \in 1..n |-> [c \in V |-> Step(c, from[k])]]
           Done(c, m) ==
             /\ c \in V
             /\ \A k \in 1..m : c[from[k] + by] = o.cells[from[k]]
             /\ \A i \in 1..L : (\A k \in 1..m : i # from[k] + by) =>
                  c[i] = o.cells[i] \/ (c[i] \in Item /\ \E k \in 1..m : i = from[k])
           S == {k \in Nat : k <= n => Done(moved[k], k)}
<1>0. /\ o \in Progress /\ o.left \in Nat /\ by \in Int /\ by # 0 /\ from \in Seq(Nat)
      /\ \A k \in 1..Len(from) : /\ from[k] \in 1..L /\ from[k] + by \in 1..L
                                 /\ o.cells[from[k]] \in Item
      /\ \A k, m \in 1..Len(from) : k < m => from[m] # from[k] /\ from[m] # from[k] + by
  BY WholeIs DEF Whole, Movable
<1>1. Len(from) \in Nat /\ L \in Nat /\ o.cells \in V
  BY <1>0, SeqIs DEF Progress
<1>2. n \in 0..Len(from) /\ (~nothrowMove => n <= o.left)
  <2>1. CASE nothrowMove
    BY <2>1, <1>1
  <2>2. CASE ~nothrowMove
    <3>1. n = Lesser(o.left, Len(from))
      BY <2>2
    <3> HIDE DEF n
    <3> QED
      BY <2>2, <3>1, <1>0, <1>1, LesserIs
  <2> QED
    BY <2>1, <2>2
<1>3. Gone \in Item /\ Item \subseteq Cell
  BY DEF Item, Cell
<1>4. \A k \in 1..n : from[k] \in 1..L /\ from[k] + by \in 1..L /\ o.cells[from[k]] \in Item
  BY <1>0, <1>1, <1>2
<1> HIDE DEF n, L
<1>5. ASSUME NEW c \in V, NEW k \in 1..n PROVE Step(c, from[k]) \in V
  BY <1>0, <1>3, <1>4
<1>6. F \in [1..n -> [V -> V]] /\ \A k \in 1..n, c \in V : F[k][c] = Step(c, from[k])
  <2> HIDE DEF V, Step
  <2> QED
    BY <1>5
<1>7. \E g : g = Def(g)
  <2> HIDE DEF V, F
  <2>1. n \in Nat /\ o.cells \in V /\ F \in [1..n -> [V -> V]]
    BY <1>1, <1>2, <1>6
  <2>2. PICK g \in [0..n -> V] : g = [k \in 0..n |-> IF k = 0 THEN o.cells ELSE F[k][g[k - 1]]]
    <3>1. PICK g : IsDefinedTo(g, n, V, o.cells, F)
      BY <2>1, RecursionTo
    <3> QED
      BY <3>1 DEF IsDefinedTo
  <2>3. ASSUME NEW k \in 0..n, k # 0 PROVE F[k][g[k - 1]] = Step(g[k - 1], from[k])
    <3>1. k \in 1..n /\ k - 1 \in 0..n
      BY <2>1, <2>3
    <3> HIDE DEF Step
    <3> QED
      BY <3>1, <1>6
  <2> HIDE DEF Step
  <2>4. g = [k \in 0..n |-> IF k = 0 THEN o.cells ELSE Step(g[k - 1], from[k])]
    BY <2>2, <2>3
  <2> QED
    BY <2>4
<1>8. moved = Def(moved)
  <2> HIDE DEF Def
  <2> QED
    BY <1>7
<1> HIDE DEF moved
<1>9. moved[0] = o.cells /\ \A k \in 1..n : moved[k] = Step(moved[k - 1], from[k])
  <2> HIDE DEF Step
  <2> QED
    BY <1>1, <1>2, <1>8
<1>10. 0 \in S
  BY <1>1, <1>9
<1>11. ASSUME NEW m \in Nat, NEW c, m + 1 <= n, Done(c, m)
       PROVE  Done(Step(c, from[m + 1]), m + 1)
  <2> DEFINE j == from[m + 1]
             d == Step(c, j)
  <2>1. m + 1 \in 1..n /\ 1..m \subseteq 1..n /\ 1..(m + 1) = 1..m \cup {m + 1}
    BY <1>11, <1>1, <1>2
  <2>2. j \in 1..L /\ j + by \in 1..L /\ o.cells[j] \in Item
    BY <2>1, <1>4
  <2>3. ASSUME NEW k \in 1..m PROVE from[k] # j /\ from[k] + by # j /\ from[k] + by \in 1..L
    <3>1. k \in 1..n /\ k \in 1..Len(from) /\ m + 1 \in 1..Len(from) /\ k < m + 1
      BY <2>1, <1>1, <1>2
    <3> QED
      BY <3>1, <1>0, <1>4
  <2>4. c[j] = o.cells[j]
    BY ZenonT(60), <2>2, <2>3, <1>11
  <2> HIDE DEF j
  <2>5. d \in V
    BY <2>1, <1>5, <1>11 DEF j
  <2>6. d[j + by] = c[j] /\ \A i \in 1..L : i # j + by => d[i] = c[i] \/ (i = j /\ d[i] = Gone)
    BY SMTT(30), <2>2, <1>0, <1>11
  <2> HIDE DEF d, V
  <2>7. ASSUME NEW k \in 1..(m + 1) PROVE d[from[k] + by] = o.cells[from[k]]
    <3>1. CASE k = m + 1
      BY <3>1, <2>4, <2>6 DEF j
    <3>2. CASE k # m + 1
      <4>1. k \in 1..m
        BY <3>2, <1>11
      <4>2. from[k] + by # j /\ from[k] # j /\ from[k] + by \in 1..L
        BY <4>1, <2>3
      <4>4. from[k] \in Int /\ j \in Int /\ by \in Int
        BY <4>1, <2>1, <2>2, <1>0, <1>4
      <4>5. \A x, y, z \in Int : x # y => x + z # y + z
        OBVIOUS
      <4>6. from[k] + by # j + by
        BY <4>2, <4>4, <4>5
      <4>3. c[from[k] + by] = o.cells[from[k]]
        BY <4>1, <1>11
      <4> QED
        BY <4>2, <4>3, <4>6, <2>6
    <3> QED
      BY <3>1, <3>2
  <2>8. ASSUME NEW i \in 1..L, \A k \in 1..(m + 1) : i # from[k] + by
        PROVE  d[i] = o.cells[i] \/ (d[i] \in Item /\ \E k \in 1..(m + 1) : i = from[k])
    <3>1. i # j + by /\ \A k \in 1..m : i # from[k] + by
      BY <2>1, <2>8, <1>11 DEF j
    <3>2. c[i] = o.cells[i] \/ (c[i] \in Item /\ \E k \in 1..m : i = from[k])
      BY <3>1, <1>11
    <3>3. d[i] = c[i] \/ (i = from[m + 1] /\ d[i] = Gone)
      BY <3>1, <2>6 DEF j
    <3>4. m + 1 \in 1..(m + 1) /\ \A k \in 1..m : k \in 1..(m + 1)
      BY <1>11
    <3> QED
      BY <3>2, <3>3, <3>4, <1>3
  <2> QED
    BY <2>5, <2>7, <2>8 DEF d, j
<1>12. n \in S
  <2>1. ASSUME NEW m \in S \cap Nat PROVE m + 1 \in S
    <3>1. CASE m + 1 <= n
      <4>1. m <= n /\ Done(moved[m], m)
        BY <3>1, <2>1, <1>1, <1>2
      <4>2. moved[m + 1] = Step(moved[m], from[m + 1])
        <5>1. m + 1 \in 1..n /\ (m + 1) - 1 = m
          BY <3>1, <1>1, <1>2
        <5> HIDE DEF Step
        <5> QED
          BY <5>1, <1>9
      <4> HIDE DEF Done, Step
      <4> QED
        BY <4>1, <4>2, <3>1, <1>11
    <3>2. CASE ~(m + 1 <= n)
      BY <3>2
    <3> QED
      BY <3>1, <3>2
  <2> HIDE DEF S
  <2>2. Nat \subseteq S
    BY <2>1, <1>10, Induction
  <2> QED
    BY <2>2, <1>1, <1>2
<1>13. Done(moved[n], n)
  BY <1>12, <1>1, <1>2
<1> DEFINE q == MoveAll(o, from, by)
           left1 == IF nothrowMove THEN o.left ELSE o.left - n
<1>14. q = [o EXCEPT !.cells = moved[n], !.left = left1, !.threw = n < Len(from)]
  BY DEF MoveAll, n, moved
<1>15. left1 \in Nat
  BY <1>0, <1>1, <1>2
<1>16. moved[n] \in Seq(Cell) /\ Len(moved[n]) = L
  <2>1. moved[n] \in [1..L -> Cell] /\ L \in Nat
    BY <1>13, <1>1
  <2> HIDE DEF moved, n, Done
  <2> QED
    BY <2>1, FunctionIsSeq
<1> HIDE DEF q
<1>17. /\ q \in Progress /\ q.cells = moved[n] /\ q.left = left1
       /\ q.size = o.size /\ q.threw = (n < Len(from))
  <2> HIDE DEF left1
  <2>1. q = [cells |-> moved[n], size |-> o.size, left |-> left1, threw |-> n < Len(from)]
    BY <1>14, <1>0 DEF Progress
  <2> QED
    BY <2>1, <1>0, <1>15, <1>16 DEF Progress
<1>18. n = IF nothrowMove THEN Len(from) ELSE o.left - left1
  <2>1. CASE nothrowMove
    BY <2>1 DEF n
  <2>2. CASE ~nothrowMove
    <3>1. n \in Int /\ o.left \in Int /\ left1 = o.left - n
      BY <2>2, <1>0, <1>1, <1>2
    <3> HIDE DEF left1
    <3> QED
      BY <2>2, <3>1
  <2> QED
    BY <2>1, <2>2
<1> HIDE DEF left1, V
<1>19. /\ n \in 0..Len(from) /\ (q.threw <=> n < Len(from))
       /\ q \in Progress /\ q.left \in Nat /\ q.size = o.size /\ Len(q.cells) = L
       /\ n = IF nothrowMove THEN Len(from) ELSE o.left - q.left
  BY <1>2, <1>15, <1>16, <1>17, <1>18
<1>20. /\ \A k \in 1..n : q.cells[from[k] + by] = o.cells[from[k]]
       /\ \A i \in 1..L : (\A k \in 1..n : i # from[k] + by) =>
            q.cells[i] = o.cells[i] \/ (q.cells[i] \in Item /\ \E k \in 1..n : i = from[k])
  BY <1>13, <1>17
<1>21. HasMoved(q, o, from, by, n)
  BY <1>19, <1>20 DEF HasMoved, L
<1> QED
  BY <1>21 DEF q

\* Whoever fills some of the cells behind the elements up, and leaves elements
\* elements and raw cells raw, leaves it whole.
Filled(q, o) ==
  /\ q \in Progress /\ (~q.threw => q.left \in Nat)
  /\ Len(q.cells) = Len(o.cells) /\ q.size >= o.size /\ q.size <= Len(o.cells)
  /\ \A i \in 1..q.size : q.cells[i] \in Item
  /\ \A i \in 1..Len(o.cells) : i > q.size => q.cells[i] = o.cells[i]

LEMMA FilledIsWhole ==
  ASSUME CellsAssumption, NEW o, Whole(o), NEW q, Filled(q, o)
  PROVE  Whole(q)
<1>1. o.size \in Nat /\ Len(o.cells) \in Nat /\ q.size \in Nat /\ Len(q.cells) = Len(o.cells)
      /\ q.size >= o.size
  BY WholeIs DEF Filled, Progress
<1>2. ASSUME NEW i \in 1..Len(q.cells) PROVE q.cells[i] = Raw <=> i > q.size
  <2>1. CASE i > q.size
    <3>1. i \in 1..Len(o.cells) /\ i > o.size
      BY <2>1, <1>1
    <3> QED
      BY <3>1, <2>1, WholeIs DEF Filled
  <2>2. CASE ~(i > q.size)
    <3>1. i \in 1..q.size
      BY <2>2, <1>1
    <3> QED
      BY <3>1, <2>2, ItemIsNotRaw DEF Filled
  <2> QED
    BY <2>1, <2>2
<1> QED
  BY <1>1, <1>2 DEF Filled, Whole

\* s was written over the elements after at, or some of it.
WroteOver(q, o, at, s) ==
  /\ Whole(q) /\ Len(q.cells) = Len(o.cells) /\ q.size = o.size
  /\ q.threw => Len(s) > 0
  /\ \A i \in 1..o.size : i - at \notin 1..Len(s) => q.cells[i] = o.cells[i]
  /\ ~q.threw => \A i \in 1..o.size : i - at \in 1..Len(s) => q.cells[i] = s[i - at]

LEMMA WriteOverIs ==
  ASSUME CellsAssumption, NEW o, Whole(o), ~o.threw, NEW at \in Nat,
         NEW s \in Seq(Item), at + Len(s) <= o.size
  PROVE  WroteOver(Write(o, at, s), o, at, s)
<1> DEFINE q == Write(o, at, s)
           n == Lesser(o.left, Len(s))
<1>1. o.left \in Nat /\ o \in Progress /\ o.size \in Nat /\ Len(o.cells) \in Nat /\ o.size <= Len(o.cells)
  BY WholeIs DEF Whole
<1>2. /\ n \in 0..Len(s)
      /\ q \in Progress /\ q.left \in Nat
      /\ q.size = o.size /\ (q.threw <=> n < Len(s))
      /\ Len(q.cells) = Len(o.cells)
      /\ \A i \in 1..Len(o.cells) :
           q.cells[i] = IF i - at \in 1..n THEN s[i - at] ELSE o.cells[i]
  BY <1>1, WriteIs
<1>3. Len(s) \in Nat /\ \A i \in 1..Len(s) : s[i] \in Item
  BY SeqIs
<1> HIDE DEF q, n
<1>4. \A i \in 1..o.size : i \in 1..Len(o.cells) /\ o.cells[i] \in Item
  BY WholeIs
<1>5. \A i : i \in 1..n => i \in 1..Len(s)
  BY <1>2, <1>3
<1>6. ASSUME NEW i \in 1..o.size PROVE q.cells[i] \in Item
  BY <1>2, <1>3, <1>4, <1>5
<1>7. ASSUME NEW i \in 1..Len(o.cells), i > o.size PROVE q.cells[i] = o.cells[i]
  <2>1. i - at \notin 1..n
    BY <1>1, <1>2, <1>3, <1>7
  <2> QED
    BY <2>1, <1>2
<1>8. Whole(q)
  <2>1. q.size >= o.size /\ q.size <= Len(o.cells)
    BY <1>1, <1>2
  <2> QED
    BY <2>1, <1>2, <1>6, <1>7, FilledIsWhole DEF Filled
<1>9. q.threw => Len(s) > 0
  <2>1. n < Len(s) => Len(s) > 0
    BY <1>2, <1>3
  <2> QED
    BY <2>1, <1>2
<1>10. \A i \in 1..o.size : i - at \notin 1..Len(s) => q.cells[i] = o.cells[i]
  BY <1>2, <1>4, <1>5
<1>11. ~q.threw => n = Len(s)
  BY <1>2, <1>3
<1>12. WroteOver(q, o, at, s)
  BY <1>2, <1>4, <1>8, <1>9, <1>10, <1>11 DEF WroteOver
<1> QED
  BY <1>12 DEF q

\* Elements move over elements.
LEMMA MoveOverIs ==
  ASSUME CellsAssumption, NEW o, Whole(o), ~o.threw, NEW by, NEW from, Movable(o, from, by, o.size)
  PROVE  LET q == MoveAll(o, from, by)
         IN  /\ Whole(q) /\ q.size = o.size /\ Len(q.cells) = Len(o.cells)
             /\ q.threw => Len(from) > 0
             /\ ~q.threw =>
                  /\ \A k \in 1..Len(from) : q.cells[from[k] + by] = o.cells[from[k]]
                  /\ \A i \in 1..Len(o.cells) :
                       (\A k \in 1..Len(from) : i # from[k] /\ i # from[k] + by) => q.cells[i] = o.cells[i]
<1> DEFINE q == MoveAll(o, from, by)
<1>1. o \in Progress /\ o.size \in Nat /\ Len(o.cells) \in Nat /\ o.size <= Len(o.cells)
  BY WholeIs
<1>2. \A i \in 1..o.size : i \in 1..Len(o.cells) /\ o.cells[i] \in Item
  BY WholeIs
<1>3. /\ \A k \in 1..Len(from) : from[k] \in 1..o.size /\ from[k] + by \in 1..o.size
      /\ from \in Seq(Nat)
  BY DEF Movable
<1>4. PICK n : HasMoved(q, o, from, by, n)
  <2>1. Movable(o, from, by, Len(o.cells))
    BY <1>2 DEF Movable
  <2> QED
    BY <2>1, MoveAllIs
<1> HIDE DEF q
<1>5. /\ n \in 0..Len(from)
      /\ q \in Progress /\ q.size = o.size /\ Len(q.cells) = Len(o.cells)
      /\ q.left \in Nat /\ (q.threw <=> n < Len(from))
      /\ \A k \in 1..n : q.cells[from[k] + by] = o.cells[from[k]]
      /\ \A i \in 1..Len(o.cells) : (\A k \in 1..n : i # from[k] + by) =>
           q.cells[i] = o.cells[i] \/ (q.cells[i] \in Item /\ \E k \in 1..n : i = from[k])
  BY <1>4 DEF HasMoved
<1>6. Len(from) \in Nat /\ \A k \in 1..n : k \in 1..Len(from)
  <2>1. Len(from) \in Nat
    BY <1>3, SeqIs
  <2> QED
    BY <2>1, <1>5
<1>7. ASSUME NEW i \in 1..o.size PROVE q.cells[i] \in Item
  <2>1. CASE \E k \in 1..n : i = from[k] + by
    <3>1. PICK k \in 1..n : i = from[k] + by
      BY <2>1
    <3>2. q.cells[from[k] + by] = o.cells[from[k]] /\ from[k] \in 1..o.size
      BY <1>3, <1>5, <1>6
    <3> QED
      BY <3>1, <3>2, <1>2
  <2>2. CASE \A k \in 1..n : i # from[k] + by
    BY <2>2, <1>2, <1>5
  <2> QED
    BY <2>1, <2>2
<1>8. ASSUME NEW i \in 1..Len(o.cells), i > o.size PROVE q.cells[i] = o.cells[i]
  <2>1. \A k \in 1..n : i # from[k] /\ i # from[k] + by
    BY <1>1, <1>3, <1>6, <1>8
  <2> QED
    BY <2>1, <1>5
<1>9. Whole(q)
  <2>1. q.size >= o.size /\ q.size <= Len(o.cells)
    BY <1>1, <1>5
  <2>2. Filled(q, o)
    BY <2>1, <1>5, <1>7, <1>8 DEF Filled
  <2> QED
    BY <2>2, FilledIsWhole
<1>10. (q.threw => Len(from) > 0) /\ (~q.threw => n = Len(from))
  <2>1. (n < Len(from) => Len(from) > 0) /\ (~(n < Len(from)) => n = Len(from))
    BY <1>5, <1>6
  <2> QED
    BY <2>1, <1>5
<1>11. ~q.threw =>
         /\ \A k \in 1..Len(from) : q.cells[from[k] + by] = o.cells[from[k]]
         /\ \A i \in 1..Len(o.cells) :
              (\A k \in 1..Len(from) : i # from[k] /\ i # from[k] + by) => q.cells[i] = o.cells[i]
  BY <1>5, <1>10
<1> QED
  BY <1>5, <1>9, <1>10, <1>11 DEF q

-----------------------------------------------------------------------------
(* Elements give way. *)

\* The elements after at, up to last, are by cells further.
Shifted(q, o, at, last, by) ==
  /\ q.size = last + by
  /\ \A i \in 1..at : q.cells[i] = o.cells[i]
  /\ \A i \in (at + 1)..last : q.cells[i + by] = o.cells[i]
  /\ \A i \in (last + 1)..(at + by) : q.cells[i] = o.cells[i]

LEMMA ShiftIs ==
  ASSUME CellsAssumption, NEW o, Whole(o), ~o.threw, NEW by \in Nat \ {0}, NEW at \in Nat,
         NEW last \in at..o.size,
         at + by <= o.size, o.size <= last + by, last + by <= Len(o.cells)
  PROVE  LET q == Shift(o, at, last, by)
         IN  /\ Whole(q) /\ Len(q.cells) = Len(o.cells)
             /\ q.threw => at < last
             /\ ~q.threw => Shifted(q, o, at, last, by)
<1> DEFINE first == Greater(at, o.size - by) + 1
           up == [i \in 1..(last - first + 1) |-> first + i - 1]
           down == [i \in 1..(first - at - 1) |-> first - i]
           built == MoveAll(o, up, by)
           done == IF nothrowMove THEN Len(up) ELSE o.left - built.left
           p == [built EXCEPT !.size = @ + done]
           q == Shift(o, at, last, by)
           sz == o.size
           L == Len(o.cells)
<1>1. /\ o.left \in Nat /\ o \in Progress /\ sz \in Nat /\ L \in Nat /\ sz <= L
      /\ at + by <= sz /\ last \in at..sz /\ sz <= last + by /\ last + by <= L
  BY WholeIs DEF Whole
<1>2. \A i \in 1..sz : i \in 1..L /\ o.cells[i] \in Item
  BY WholeIs
<1>0. first = Greater(at, sz - by) + 1 /\ sz = o.size /\ L = Len(o.cells)
  OBVIOUS
<1> HIDE DEF sz, L, first
<1>3. first = sz - by + 1
  <2>1. Greater(at, sz - by) = sz - by
    BY <1>1 DEF Greater
  <2> QED
    BY <2>1, <1>0
<1>4. q = IF p.threw THEN p ELSE MoveAll(p, down, by)
  BY DEF Shift, Then, sz, first
<1> HIDE DEF q
<1>5. first \in Nat /\ last - first + 1 \in Nat /\ first - at - 1 \in Nat /\ first - 1 + by = sz
  BY <1>1, <1>3
<1>6. /\ up \in Seq(Nat) /\ Len(up) = last - first + 1
      /\ \A k \in 1..Len(up) : up[k] = first + k - 1
  <2>1. \A i \in 1..(last - first + 1) : first + i - 1 \in Nat
    BY <1>5
  <2> QED
    BY <2>1, <1>5, FunctionIsSeq
<1>7. /\ down \in Seq(Nat) /\ Len(down) = first - at - 1
      /\ \A k \in 1..Len(down) : down[k] = first - k
  <2>1. \A i \in 1..(first - at - 1) : first - i \in Nat
    BY <1>5
  <2> QED
    BY <2>1, <1>5, FunctionIsSeq
<1> HIDE DEF up, down, built, done, p
<1>8. ASSUME NEW k \in 1..Len(up)
      PROVE  /\ up[k] \in first..last /\ up[k] + by = sz + k
             /\ up[k] \in 1..L /\ up[k] + by \in 1..L /\ o.cells[up[k]] \in Item
  <2>1. up[k] \in first..last /\ up[k] + by = sz + k
    <3> DEFINE u == up[k]
    <3>1. u = first + k - 1 /\ k \in 1..(last - first + 1)
      BY <1>6
    <3> HIDE DEF u
    <3> QED
      BY <3>1, <1>1, <1>5 DEF u
  <2>2. up[k] \in 1..sz /\ up[k] + by \in 1..L
    <3>1. k \in 1..(last - first + 1) /\ sz + k \in 1..L
      BY <1>1, <1>5, <1>6
    <3> QED
      BY SMTT(30), <2>1, <3>1, <1>1, <1>3
  <2> QED
    BY <2>1, <2>2, <1>2
<1>9. ASSUME NEW k \in 1..Len(up), NEW m \in 1..Len(up), k < m
      PROVE  up[m] # up[k] /\ up[m] # up[k] + by
  <2>1. up[m] = first + m - 1 /\ up[k] = first + k - 1
    BY <1>6
  <2> QED
    BY <2>1, <1>1, <1>5, <1>6, <1>9
<1>10. PICK n : HasMoved(built, o, up, by, n)
  <2>1. ASSUME NEW k \in 1..Len(up) PROVE up[k] \in 1..o.size /\ up[k] + by \in 1..Len(o.cells)
    <3>1. first >= 1 /\ first \in Nat
      BY <1>1, <1>3
    <3> QED
      BY SMTT(30), <3>1, <1>0, <1>1, <1>8
  <2>2. Movable(o, up, by, Len(o.cells))
    BY <2>1, <1>6, <1>9 DEF Movable
  <2> QED
    BY <2>2, MoveAllIs DEF built
<1>20. /\ n \in 0..Len(up)
       /\ built \in Progress /\ built.size = o.size /\ Len(built.cells) = Len(o.cells)
       /\ built.left \in Nat /\ (built.threw <=> n < Len(up))
       /\ \A k \in 1..n : built.cells[up[k] + by] = o.cells[up[k]]
       /\ \A i \in 1..L : (\A k \in 1..n : i # up[k] + by) =>
            built.cells[i] = o.cells[i] \/ (built.cells[i] \in Item /\ \E k \in 1..n : i = up[k])
  BY <1>0, <1>10 DEF HasMoved
<1>11. done = n
  BY <1>10 DEF HasMoved, done
<1>12. Len(up) \in Nat /\ n \in Nat /\ sz + n \in Nat /\ \A k \in 1..n : k \in 1..Len(up)
  BY <1>1, <1>5, <1>6, <1>20
<1>13. /\ p \in Progress /\ p.cells = built.cells /\ p.size = sz + n
       /\ p.left = built.left /\ p.threw = built.threw
  <2>1. p = [built EXCEPT !.size = sz + n]
    BY <1>0, <1>20, <1>11 DEF p
  <2> HIDE DEF p
  <2> QED
    BY <2>1, <1>20, <1>12 DEF Progress
<1>14. \A k \in 1..n : p.cells[sz + k] = o.cells[first + k - 1]
  BY ZenonT(60), <1>6, <1>8, <1>20, <1>12, <1>13
<1>15. ASSUME NEW i \in 1..L, i < first PROVE p.cells[i] = o.cells[i]
  <2>1. \A k \in 1..n : i # up[k] /\ i # up[k] + by
    BY SMTT(30), <1>1, <1>5, <1>8, <1>12, <1>15
  <2> QED
    BY <2>1, <1>20, <1>13
<1>16. Whole(p)
  <2>1. ASSUME NEW i \in 1..p.size PROVE p.cells[i] \in Item
    <3>1. CASE i <= sz
      <4>1. i \in 1..sz
        BY <3>1, <1>1, <1>12, <1>13
      <4>2. ASSUME NEW k \in 1..n PROVE i # up[k] + by
        <5>1. up[k] + by = sz + k
          BY <1>8, <1>12
        <5>2. i # sz + k
          BY <3>1, <4>1, <1>1, <1>12
        <5> QED
          BY <5>1, <5>2
      <4> QED
        BY <4>1, <4>2, <1>2, <1>20, <1>13
    <3>2. CASE ~(i <= sz)
      <4>1. PICK k \in 1..n : i = sz + k
        <5>1. i - sz \in 1..n /\ i = sz + (i - sz)
          BY SMTT(30), <3>2, <1>1, <1>12, <1>13
        <5> QED
          BY <5>1
      <4>2. first + k - 1 = up[k] /\ o.cells[up[k]] \in Item
        BY <1>6, <1>8, <1>12
      <4> QED
        BY <4>1, <4>2, <1>14
    <3> QED
      BY <3>1, <3>2
  <2>2. ASSUME NEW i \in 1..L, i > p.size PROVE p.cells[i] = o.cells[i]
    <3>1. \A k \in 1..n : i # up[k] /\ i # up[k] + by
      BY SMTT(30), <2>2, <1>1, <1>8, <1>12, <1>13
    <3> QED
      BY <3>1, <1>20, <1>13
  <2>3. p.size >= sz /\ p.size <= L
    BY <1>1, <1>5, <1>6, <1>20, <1>12, <1>13
  <2> QED
    <3>1. /\ p \in Progress /\ (~p.threw => p.left \in Nat) /\ Len(p.cells) = Len(o.cells)
          /\ p.size >= o.size /\ p.size <= Len(o.cells)
      BY <2>3, <1>0, <1>20, <1>13
    <3> QED
      BY <2>1, <2>2, <3>1, <1>0, FilledIsWhole DEF Filled
<1>17. CASE p.threw
  <2>1. at < last
    <3>1. n < Len(up)
      BY <1>20, <1>13, <1>17
    <3>2. first <= last /\ at < first
      BY <3>1, <1>5, <1>6, <1>12
    <3> QED
      BY <3>2, <1>1, <1>5
  <2> QED
    BY <2>1, <1>4, <1>20, <1>13, <1>16, <1>17 DEF q
<1>18. CASE ~p.threw
  <2>1. q = MoveAll(p, down, by) /\ n = Len(up)
    <3>1. ~(n < Len(up)) => n = Len(up)
      BY <1>20, <1>12
    <3> QED
      BY <3>1, <1>4, <1>20, <1>13, <1>18
  <2>2. p.size = last + by
    BY SMTT(30), <2>1, <1>1, <1>5, <1>6, <1>13
  <2>3. ASSUME NEW k \in 1..Len(down)
        PROVE  /\ down[k] \in (at + 1)..(first - 1) /\ down[k] \in 1..p.size /\ down[k] + by \in 1..p.size
               /\ down[k] + by <= sz
    <3> DEFINE d == down[k]
    <3>1. d = first - k /\ k \in 1..(first - at - 1)
      BY <1>7
    <3> HIDE DEF d
    <3>2. d \in (at + 1)..(first - 1) /\ d \in 1..(last + by) /\ d + by \in 1..(last + by) /\ d + by <= sz
      BY <3>1, <1>1, <1>5
    <3> QED
      BY <3>2, <2>2 DEF d
  <2>4. ASSUME NEW k \in 1..Len(down), NEW m \in 1..Len(down), k < m
        PROVE  down[m] # down[k] /\ down[m] # down[k] + by
    <3>1. down[m] = first - m /\ down[k] = first - k
      BY <1>7
    <3> QED
      BY <3>1, <2>4, <1>5, <1>7
  <2>5. /\ Whole(q) /\ q.size = p.size /\ Len(q.cells) = Len(p.cells)
        /\ q.threw => Len(down) > 0
        /\ ~q.threw =>
             /\ \A k \in 1..Len(down) : q.cells[down[k] + by] = p.cells[down[k]]
             /\ \A i \in 1..Len(p.cells) :
                  (\A k \in 1..Len(down) : i # down[k] /\ i # down[k] + by) => q.cells[i] = p.cells[i]
    <3>1. Movable(p, down, by, p.size)
      BY <2>3, <2>4, <1>7 DEF Movable
    <3> DEFINE r == MoveAll(p, down, by)
    <3>2. /\ Whole(r) /\ r.size = p.size /\ Len(r.cells) = Len(p.cells)
          /\ r.threw => Len(down) > 0
          /\ ~r.threw =>
               /\ \A k \in 1..Len(down) : r.cells[down[k] + by] = p.cells[down[k]]
               /\ \A i \in 1..Len(p.cells) :
                    (\A k \in 1..Len(down) : i # down[k] /\ i # down[k] + by) => r.cells[i] = p.cells[i]
      BY <3>1, <1>16, <1>18, MoveOverIs
    <3>3. q = r
      BY <2>1
    <3> HIDE DEF r
    <3> QED
      BY <3>2, <3>3
  <2>6. Len(p.cells) = L
    BY <1>0, <1>20, <1>13
  <2>7. ASSUME ~q.threw PROVE Shifted(q, o, at, last, by)
    <3>1. ASSUME NEW i \in 1..at PROVE q.cells[i] = o.cells[i]
      <4>1. i \in 1..L /\ i < first
        BY <1>1, <1>5
      <4>2. \A k \in 1..Len(down) : i # down[k] /\ i # down[k] + by
        BY <2>3
      <4> QED
        BY <4>1, <4>2, <2>5, <2>6, <2>7, <1>15
    <3>2. ASSUME NEW i \in (at + 1)..last PROVE q.cells[i + by] = o.cells[i]
      <4>1. CASE i < first
        <5>1. first - i \in 1..Len(down) /\ first - (first - i) = i
          BY <4>1, <1>5, <1>7
        <5>2. down[first - i] = i
          BY <5>1, <1>7
        <5>3. i \in 1..L
          BY <4>1, <1>1, <1>5
        <5> QED
          BY <4>1, <5>1, <5>2, <5>3, <2>5, <2>7, <1>15
      <4>2. CASE ~(i < first)
        <5>1. i - first + 1 \in 1..n /\ sz + (i - first + 1) = i + by /\ first + (i - first + 1) - 1 = i
          BY <4>2, <2>1, <1>1, <1>5, <1>6
        <5>2. p.cells[i + by] = o.cells[i]
          BY <5>1, <1>14
        <5>3. i + by \in 1..Len(p.cells) /\ \A k \in 1..Len(down) : i + by # down[k] /\ i + by # down[k] + by
          BY SMTT(30), <4>2, <2>3, <2>6, <1>1, <1>5
        <5> QED
          BY <5>2, <5>3, <2>5, <2>7
      <4> QED
        BY <4>1, <4>2
    <3>3. ASSUME NEW i \in (last + 1)..(at + by) PROVE q.cells[i] = o.cells[i]
      <4>1. i \in 1..L /\ i \in 1..Len(p.cells) /\ i > last /\ i <= at + by /\ i <= sz
        BY <2>6, <1>1
      <4>2. ASSUME NEW k \in 1..n PROVE i # up[k] /\ i # up[k] + by
        <5>1. k \in 1..Len(up)
          BY <1>12
        <5>2. up[k] \in first..last /\ up[k] + by = sz + k
          BY <5>1, <1>8
        <5>3. i # sz + k
          BY <4>1, <1>1
        <5>4. i \notin first..last
          BY <4>1, <1>1, <1>5
        <5> QED
          BY <5>2, <5>3, <5>4
      <4>3. p.cells[i] = o.cells[i]
        BY <4>1, <4>2, <1>20, <1>13
      <4>4. ASSUME NEW k \in 1..Len(down) PROVE i # down[k] /\ i # down[k] + by
        <5> DEFINE d == down[k]
        <5>1. d \in (at + 1)..(first - 1)
          BY <2>3
        <5> HIDE DEF d
        <5>2. i # d /\ i # d + by
          BY <5>1, <4>1, <1>1, <1>5
        <5> QED
          BY <5>2 DEF d
      <4> QED
        BY <4>1, <4>3, <4>4, <2>5, <2>7
    <3> QED
      BY <3>1, <3>2, <3>3, <2>2, <2>5 DEF Shifted
  <2>8. q.threw => at < last
    <3>1. Len(down) > 0 => at < last
      BY <1>1, <1>5, <1>7
    <3> QED
      BY <3>1, <2>5
  <2> QED
    <3>1. Len(q.cells) = Len(o.cells)
      BY <2>5, <2>6, <1>0
    <3> QED
      BY <3>1, <2>5, <2>7, <2>8 DEF q
<1> QED
  BY <1>17, <1>18

-----------------------------------------------------------------------------
(* Growth. *)

\* A whole container, whatever the call has left to go on with.
Held(o) ==
  /\ o.cells \in Seq(Cell) /\ o.size \in Nat /\ o.threw \in BOOLEAN
  /\ o.size <= Len(o.cells) /\ Len(o.cells) <= MaxSize
  /\ \A i \in 1..Len(o.cells) : o.cells[i] = Raw <=> i > o.size

LEMMA WholeIsHeld ==
  ASSUME NEW o
  PROVE  Whole(o) <=> o \in Progress /\ (~o.threw => o.left \in Nat) /\ Held(o)
BY DEF Whole, Held, Progress

\* A buffer of cap cells holds s after the first at of them.
Contains(v, at, s, cap) ==
  /\ v.cells \in Seq(Cell) /\ Len(v.cells) = cap /\ v.first = at /\ v.last = at + Len(s)
  /\ \A i \in 1..cap : v.cells[i] = IF i - at \in 1..Len(s) THEN s[i - at] ELSE Raw

Ready(v, at, s, cap) ==
  /\ v \in [cells : Seq(Cell), first : Nat, last : Nat, left : Int, threw : BOOLEAN]
  /\ ~v.threw => v.left \in Nat
  /\ Contains(v, at, s, cap)

LEMMA BufferIs ==
  ASSUME NEW cap \in Nat, NEW at \in Nat, NEW left \in Nat
  PROVE  Ready(Buffer(cap, at, left), at, <<>>, cap)
<1> DEFINE c == Times(cap, Raw)
           l == IF cap > 0 THEN left - 1 ELSE left
           v == Buffer(cap, at, left)
<1>1. c \in Seq(Cell) /\ Len(c) = cap /\ \A i \in 1..cap : c[i] = Raw
  <2>1. Raw \in Cell
    BY DEF Cell
  <2> QED
    BY <2>1, TimesIs
<1>2. v = [cells |-> c, first |-> at, last |-> at, left |-> l, threw |-> cap > 0 /\ left = 0]
  BY DEF Buffer
<1>3. l \in Int /\ (~(cap > 0 /\ left = 0) => l \in Nat)
  OBVIOUS
<1> HIDE DEF c, l, v
<1>4. v \in [cells : Seq(Cell), first : Nat, last : Nat, left : Int, threw : BOOLEAN]
  BY <1>1, <1>2, <1>3
<1>5. v.cells = c /\ v.first = at /\ v.last = at /\ v.left = l /\ v.threw = (cap > 0 /\ left = 0)
  BY <1>2
<1>6. Len(<<>>) = 0 /\ at + 0 = at /\ \A i : i \notin 1..0
  OBVIOUS
<1>7. ~v.threw => v.left \in Nat
  BY <1>3, <1>5
<1> QED
  BY <1>1, <1>4, <1>5, <1>6, <1>7 DEF Ready, Contains, v

LEMMA BufferConstructIs ==
  ASSUME NEW cap \in Nat, NEW at \in Nat, NEW v, Ready(v, at, <<>>, cap), ~v.threw, NEW s \in Seq(Item)
  PROVE  LET q == BufferConstruct(v, s)
         IN  /\ q.threw => Len(s) > v.left
             /\ ~q.threw => Ready(q, at, s, cap)
<1> DEFINE n == Lesser(v.left, Len(s))
           t == SubSeq(s, 1, n)
           c == Put(v.cells, v.last, t)
           q == BufferConstruct(v, s)
<1>1. /\ v \in [cells : Seq(Cell), first : Nat, last : Nat, left : Int, threw : BOOLEAN]
      /\ v.left \in Nat /\ Len(v.cells) = cap /\ v.first = at /\ v.last = at
      /\ \A i \in 1..cap : v.cells[i] = Raw
  <2>1. Len(<<>>) = 0 /\ at + 0 = at /\ \A i : i \notin 1..0
    OBVIOUS
  <2> QED
    BY <2>1 DEF Ready, Contains
<1>2. Len(s) \in Nat /\ n \in 0..Len(s) /\ (n < Len(s) <=> v.left < Len(s)) /\ n <= v.left
  BY <1>1, SeqIs, LesserIs
<1>3. t \in Seq(Item) /\ Len(t) = n /\ \A i \in 1..n : t[i] = s[i]
  <2>1. 1 \in 1..(Len(s) + 1) /\ n \in (1 - 1)..Len(s) /\ n - 1 + 1 = n
    BY <1>2
  <2>2. \A i \in 1..n : 1 + i - 1 = i
    BY <1>2
  <2> HIDE DEF n
  <2> QED
    BY <2>1, <2>2, PieceIs
<1>4. t \in Seq(Cell) /\ v.cells \in Seq(Cell)
  BY <1>1, <1>3 DEF Cell
<1>5. q = [v EXCEPT !.cells = c, !.last = at + n, !.left = v.left - n, !.threw = n < Len(s)]
  BY <1>1 DEF BufferConstruct
<1> HIDE DEF t, n, q
<1>6. /\ c \in Seq(Cell) /\ Len(c) = cap
      /\ \A i \in 1..cap : c[i] = IF i - at \in 1..n THEN s[i - at] ELSE Raw
  <2>1. /\ c \in Seq(Cell) /\ Len(c) = Len(v.cells)
        /\ \A i \in 1..Len(v.cells) : c[i] = IF i - at \in 1..Len(t) THEN t[i - at] ELSE v.cells[i]
    BY SMTT(30), <1>1, <1>4, PutIs
  <2> QED
    BY <2>1, <1>1, <1>3
<1> HIDE DEF c
<1>7. v.left - n \in Nat /\ at + n \in Nat
  BY <1>1, <1>2
<1>8. q = [cells |-> c, first |-> at, last |-> at + n, left |-> v.left - n, threw |-> n < Len(s)]
  BY <1>1, <1>5
<1>9. /\ q \in [cells : Seq(Cell), first : Nat, last : Nat, left : Int, threw : BOOLEAN]
      /\ q.left \in Nat /\ q.cells = c /\ q.first = at /\ q.last = at + n /\ q.threw = (n < Len(s))
  BY <1>6, <1>7, <1>8
<1>10. q.threw => Len(s) > v.left
  BY <1>1, <1>2, <1>9
<1>11. ~q.threw => n = Len(s)
  BY <1>2, <1>9
<1> QED
  BY <1>6, <1>9, <1>10, <1>11 DEF Ready, Contains, q

LEMMA RecommendIs ==
  ASSUME CellsAssumption, NEW o, Held(o), NEW n \in Nat, n <= MaxSize
  PROVE  Recommend(o, n) \in Nat /\ Recommend(o, n) >= n /\ Recommend(o, n) <= MaxSize
<1> DEFINE L == Len(o.cells)
<1>1. L \in Nat /\ MaxSize \in Nat /\ Recommend(o, n) = IF L >= MaxSize \div 2 THEN MaxSize ELSE Greater(2 * L, n)
  BY SeqIs DEF CellsAssumption, Held, Recommend
<1> HIDE DEF L
<1>2. L < MaxSize \div 2 => 2 * L <= MaxSize
  BY <1>1
<1>3. CASE L >= MaxSize \div 2
  BY <1>1, <1>3
<1>4. CASE ~(L >= MaxSize \div 2)
  <2> DEFINE m == 2 * L
  <2>1. Recommend(o, n) = Greater(m, n) /\ m <= MaxSize /\ m \in Nat
    BY <1>1, <1>2, <1>4
  <2> HIDE DEF m
  <2>2. Greater(m, n) \in Int /\ Greater(m, n) >= n /\ (Greater(m, n) = m \/ Greater(m, n) = n)
    BY <2>1, GreaterIs
  <2> QED
    BY <2>1, <2>2
<1> QED
  BY <1>3, <1>4

\* What a growth that does not throw makes of the container.
Grown(o, v, at) ==
  [cells |-> Put(v.cells, v.first - at, SubSeq(o.cells, 1, at) \o Holds(v)
                                        \o SubSeq(o.cells, at + 1, o.size)),
   size |-> o.size + (v.last - v.first)]

LEMMA GrownIs ==
  ASSUME CellsAssumption, NEW o, Held(o), NEW at \in 0..o.size, NEW s \in Seq(Item), NEW cap \in Nat,
         cap <= MaxSize, o.size + Len(s) <= cap, NEW v, Contains(v, at, s, cap),
         NEW q, q.cells = Grown(o, v, at).cells, q.size = Grown(o, v, at).size, q.threw = FALSE
  PROVE  Held(q) /\ Len(q.cells) = cap /\ Spliced(q, o, at, 0, s)
<1> DEFINE a == SubSeq(o.cells, 1, at)
           b == SubSeq(o.cells, at + 1, o.size)
           t == a \o Holds(v) \o b
           sz == o.size
           n == Len(s)
<1>1. sz \in Nat /\ Len(o.cells) \in Nat /\ sz <= Len(o.cells) /\ n \in Nat /\ at \in 0..sz
  BY SeqIs DEF Held
<1>2. \A i \in 1..sz : i \in 1..Len(o.cells) /\ o.cells[i] \in Item
  <2>1. ASSUME NEW i \in 1..sz PROVE i \in 1..Len(o.cells) /\ ~(i > sz)
    BY <1>1
  <2>2. \A i \in 1..Len(o.cells) : o.cells[i] \in Cell /\ (o.cells[i] = Raw <=> i > sz)
    BY SeqIs DEF Held
  <2> QED
    BY <2>1, <2>2 DEF Cell
<1>3. /\ v.cells \in Seq(Cell) /\ Len(v.cells) = cap /\ v.first = at /\ v.last = at + n
      /\ \A i \in 1..cap : v.cells[i] = IF i - at \in 1..n THEN s[i - at] ELSE Raw
  BY DEF Contains
<1> HIDE DEF sz, n
<1>4. a \in Seq(Item) /\ Len(a) = at /\ \A i \in 1..at : a[i] = o.cells[i]
  <2>1. at \in Int /\ 1 \in Int /\ \A i \in 1..at : o.cells[i] \in Item
    BY <1>1, <1>2
  <2>2. /\ SubSeq(o.cells, 1, at) \in Seq(Item)
        /\ Len(SubSeq(o.cells, 1, at)) = IF 1 <= at THEN at - 1 + 1 ELSE 0
        /\ \A i \in 1..(at - 1 + 1) : SubSeq(o.cells, 1, at)[i] = o.cells[1 + i - 1]
    BY <2>1, SubSeqProperties
  <2>3. (IF 1 <= at THEN at - 1 + 1 ELSE 0) = at /\ at - 1 + 1 = at /\ \A i \in 1..at : 1 + i - 1 = i
    BY <1>1
  <2> QED
    BY <2>2, <2>3
<1>5. b \in Seq(Item) /\ Len(b) = sz - at /\ \A i \in 1..(sz - at) : b[i] = o.cells[at + i]
  <2>1. at + 1 \in Int /\ sz \in Int /\ \A i \in (at + 1)..sz : o.cells[i] \in Item
    BY <1>1, <1>2
  <2>2. /\ SubSeq(o.cells, at + 1, sz) \in Seq(Item)
        /\ Len(SubSeq(o.cells, at + 1, sz)) = IF at + 1 <= sz THEN sz - (at + 1) + 1 ELSE 0
        /\ \A i \in 1..(sz - (at + 1) + 1) : SubSeq(o.cells, at + 1, sz)[i] = o.cells[(at + 1) + i - 1]
    BY <2>1, SubSeqProperties
  <2>3. /\ (IF at + 1 <= sz THEN sz - (at + 1) + 1 ELSE 0) = sz - at
        /\ sz - (at + 1) + 1 = sz - at /\ \A i \in 1..(sz - at) : (at + 1) + i - 1 = at + i
    BY <1>1
  <2> QED
    BY <2>2, <2>3 DEF sz
<1>6. Holds(v) \in Seq(Item) /\ Len(Holds(v)) = n /\ \A i \in 1..n : Holds(v)[i] = s[i]
  <2>1. \A i \in 1..n : s[i] \in Item
    BY SeqIs DEF n
  <2>2. ASSUME NEW i \in (at + 1)..(at + n) PROVE v.cells[i] = s[i - at] /\ i - at \in 1..n
    <3>1. i \in 1..cap /\ i - at \in 1..n
      BY <1>1 DEF sz, n
    <3> QED
      BY <3>1, <1>3
  <2>3. at + 1 \in Int /\ at + n \in Int /\ \A i \in (at + 1)..(at + n) : v.cells[i] \in Item
    <3>1. ASSUME NEW i \in (at + 1)..(at + n) PROVE v.cells[i] \in Item
      <4>1. v.cells[i] = s[i - at] /\ i - at \in 1..n
        BY <2>2
      <4> QED
        BY <4>1, <2>1
    <3> QED
      BY <3>1, <1>1
  <2>4. /\ SubSeq(v.cells, at + 1, at + n) \in Seq(Item)
        /\ Len(SubSeq(v.cells, at + 1, at + n)) = IF at + 1 <= at + n THEN (at + n) - (at + 1) + 1 ELSE 0
        /\ \A i \in 1..((at + n) - (at + 1) + 1) : SubSeq(v.cells, at + 1, at + n)[i] = v.cells[(at + 1) + i - 1]
    BY <2>3, SubSeqProperties
  <2>5. /\ (IF at + 1 <= at + n THEN (at + n) - (at + 1) + 1 ELSE 0) = n
        /\ (at + n) - (at + 1) + 1 = n
        /\ \A i \in 1..n : (at + 1) + i - 1 \in (at + 1)..(at + n) /\ (at + 1) + i - 1 - at = i
    BY <1>1
  <2>6. Holds(v) = SubSeq(v.cells, at + 1, at + n)
    BY <1>3 DEF Holds
  <2>7. ASSUME NEW i \in 1..n PROVE Holds(v)[i] = s[i]
    <3>1. Holds(v)[i] = v.cells[(at + 1) + i - 1]
      BY <2>4, <2>5, <2>6
    <3>2. v.cells[(at + 1) + i - 1] = s[(at + 1) + i - 1 - at]
      BY <2>2, <2>5
    <3> QED
      BY <3>1, <3>2, <2>5
  <2> QED
    BY <2>4, <2>5, <2>6, <2>7
<1> DEFINE h == Holds(v)
<1> HIDE DEF a, b, h
<1>7. /\ t \in Seq(Item) /\ Len(t) = sz + n
      /\ \A i \in 1..(sz + n) : t[i] = IF i <= at THEN o.cells[i]
                                       ELSE IF i <= at + n THEN s[i - at] ELSE o.cells[i - n]
  <2>1. h \in Seq(Item) /\ Len(h) = n /\ \A i \in 1..n : h[i] = s[i]
    BY <1>6 DEF h
  <2>2. /\ a \o h \o b \in Seq(Item) /\ Len(a \o h \o b) = Len(a) + Len(h) + Len(b)
        /\ \A i \in 1..(Len(a) + Len(h) + Len(b)) :
             (a \o h \o b)[i] = IF i <= Len(a) THEN a[i]
                                ELSE IF i <= Len(a) + Len(h) THEN h[i - Len(a)]
                                ELSE b[i - (Len(a) + Len(h))]
    <3>1. a \in Seq(Item) /\ h \in Seq(Item) /\ b \in Seq(Item)
      BY <2>1, <1>4, <1>5
    <3> QED
      BY <3>1, JoinIs
  <2>3. at + n + (sz - at) = sz + n
    BY <1>1
  <2>4. ASSUME NEW i \in 1..(sz + n)
        PROVE  (a \o h \o b)[i] = IF i <= at THEN o.cells[i]
                                  ELSE IF i <= at + n THEN s[i - at] ELSE o.cells[i - n]
    <3>1. (a \o h \o b)[i] = IF i <= at THEN a[i] ELSE IF i <= at + n THEN h[i - at] ELSE b[i - (at + n)]
      BY <2>1, <2>2, <2>3, <1>4, <1>5
    <3>2. i <= at => a[i] = o.cells[i]
      BY <1>1, <1>4
    <3>3. ~(i <= at) /\ i <= at + n => h[i - at] = s[i - at]
      BY <2>1, <1>1
    <3>4. ~(i <= at) /\ ~(i <= at + n) => b[i - (at + n)] = o.cells[i - n]
      <4>1. ~(i <= at + n) => i - (at + n) \in 1..(sz - at) /\ at + (i - (at + n)) = i - n
        BY <1>1
      <4> QED
        BY <4>1, <1>5
    <3> QED
      BY <3>1, <3>2, <3>3, <3>4
  <2>5. t = a \o h \o b
    BY DEF h
  <2> HIDE DEF t
  <2> QED
    BY <2>1, <2>2, <2>3, <2>4, <2>5, <1>4, <1>5
<1>8. q.cells = Put(v.cells, 0, t) /\ q.size = sz + n
  <2>1. Grown(o, v, at).cells = Put(v.cells, v.first - at, t) /\ Grown(o, v, at).size = sz + (v.last - v.first)
    BY DEF Grown, a, b, sz
  <2>2. v.first - at = 0 /\ sz + (v.last - v.first) = sz + n
    <3>1. at - at = 0 /\ sz + ((at + n) - at) = sz + n
      BY <1>1
    <3> QED
      BY <3>1, <1>3
  <2> HIDE DEF t
  <2> QED
    BY <2>1, <2>2
<1> HIDE DEF t
<1>9. t \in Seq(Cell) /\ sz + n \in Nat /\ sz + n <= cap
  <2>1. sz + n \in Nat /\ sz + n <= cap
    BY <1>1 DEF sz, n
  <2> QED
    BY <2>1, <1>7 DEF Cell
<1>10. /\ q.cells \in Seq(Cell) /\ Len(q.cells) = cap
       /\ \A i \in 1..cap : q.cells[i] = IF i \in 1..(sz + n) THEN t[i] ELSE v.cells[i]
  <2> DEFINE z == 0
  <2>2. z \in Int /\ z = 0 /\ \A i \in 1..cap : i - z = i
    OBVIOUS
  <2> HIDE DEF z
  <2>1. /\ Put(v.cells, z, t) \in Seq(Cell) /\ Len(Put(v.cells, z, t)) = Len(v.cells)
        /\ \A i \in 1..Len(v.cells) :
             Put(v.cells, z, t)[i] = IF i - z \in 1..Len(t) THEN t[i - z] ELSE v.cells[i]
    <3>1. z \in Int /\ v.cells \in Seq(Cell) /\ t \in Seq(Cell)
      BY <2>2, <1>3, <1>9
    <3> QED
      BY <3>1, PutIs
  <2>3. q.cells = Put(v.cells, z, t) /\ Len(v.cells) = cap /\ Len(t) = sz + n
    BY <2>2, <1>3, <1>7, <1>8
  <2> HIDE DEF a, h, b, sz, n
  <2>4. ASSUME NEW i \in 1..cap
        PROVE  q.cells[i] = IF i \in 1..(sz + n) THEN t[i] ELSE v.cells[i]
    <3>1. q.cells[i] = IF i - z \in 1..(sz + n) THEN t[i - z] ELSE v.cells[i]
      BY <2>1, <2>3
    <3>2. i - z = i
      BY <2>2
    <3> QED
      BY <3>1, <3>2, Zenon
  <2>5. q.cells \in Seq(Cell) /\ Len(q.cells) = cap
    BY <2>1, <2>3, Zenon
  <2> QED
    BY <2>4, <2>5, Zenon
<1>11. ASSUME NEW i \in 1..cap PROVE q.cells[i] = Raw <=> i > sz + n
  <2>1. CASE i \in 1..(sz + n)
    <3>1. t[i] \in Item
      BY <2>1, <1>7, <1>9, SeqIs
    <3> QED
      BY <2>1, <3>1, <1>9, <1>10, ItemIsNotRaw
  <2>2. CASE ~(i \in 1..(sz + n))
    <3>1. i > sz + n /\ i - at \notin 1..n
      BY <2>2, <1>1, <1>9
    <3> QED
      BY <2>2, <3>1, <1>3, <1>10
  <2> QED
    BY <2>1, <2>2
<1>12. Held(q)
  <2>1. q.size \in Nat /\ q.threw \in BOOLEAN /\ q.size <= Len(q.cells) /\ Len(q.cells) <= MaxSize
    BY <1>8, <1>9, <1>10
  <2>2. \A i \in 1..Len(q.cells) : q.cells[i] = Raw <=> i > q.size
    BY <1>8, <1>10, <1>11
  <2> QED
    BY <2>1, <2>2, <1>10 DEF Held
<1>13. Spliced(q, o, at, 0, s)
  <2>1. q.size = o.size - 0 + Len(s)
    BY <1>1, <1>8 DEF sz, n
  <2>2. ASSUME NEW i \in 1..q.size
        PROVE  q.cells[i] = IF i <= at THEN o.cells[i]
                            ELSE IF i <= at + Len(s) THEN s[i - at] ELSE o.cells[i - Len(s) + 0]
    <3>1. i \in 1..(sz + n) /\ i \in 1..cap
      BY <1>8, <1>9
    <3>2. q.cells[i] = IF i <= at THEN o.cells[i]
                       ELSE IF i <= at + n THEN s[i - at] ELSE o.cells[i - n]
      BY <3>1, <1>7, <1>10
    <3>3. i - n + 0 = i - n
      BY <1>1
    <3> QED
      BY <3>2, <3>3 DEF n
  <2> QED
    BY <2>1, <2>2 DEF Spliced
<1> QED
  BY <1>10, <1>12, <1>13

LEMMA RelocatedIs ==
  ASSUME NEW v, v.left \in Nat, NEW n \in Nat
  PROVE  /\ Relocates(v, n) => Relocated(v, n) \in Nat
         /\ Relocates(v, 0)
BY DEF Relocates, Relocated

LEMMA ThrowIs ==
  ASSUME NEW o, Whole(o)
  PROVE  /\ Whole(Throw(o)) /\ Throw(o).threw = TRUE /\ Same(Throw(o), o)
         /\ Throw(o).cells = o.cells /\ Throw(o).size = o.size
<1> DEFINE q == Throw(o)
<1>1. o \in Progress /\ o.size \in Nat
  BY WholeIs
<1>2. q \in Progress /\ q.threw = TRUE /\ q.cells = o.cells /\ q.size = o.size
  BY <1>1 DEF Throw, Progress
<1> HIDE DEF q
<1>3. Whole(q)
  BY <1>2 DEF Whole
<1>4. Same(q, o)
  BY <1>1, <1>2 DEF Same, Keeps
<1> QED
  BY <1>2, <1>3, <1>4 DEF q

\* What a call that grows comes to, when s goes after the first at elements: the
\* strong guarantee holds at either end.
GrowsOrThrows(q, o, at, s) ==
  /\ Whole(q)
  /\ ~q.threw => Spliced(q, o, at, 0, s)
  /\ q.threw /\ at \in {0, o.size} => Same(q, o)

LEMMA SwapOutHeld ==
  ASSUME CellsAssumption, NEW o, Whole(o), NEW at \in 0..o.size, NEW s \in Seq(Item), NEW cap \in Nat,
         cap <= MaxSize, o.size + Len(s) <= cap, NEW v, ~v.threw => Contains(v, at, s, cap)
  PROVE  LET q == SwapOut(o, v, at)
         IN  /\ Held(q)
             /\ ~q.threw => Len(q.cells) = cap /\ Spliced(q, o, at, 0, s)
             /\ q.threw => \/ q = Throw(o)
                           \/ /\ q = Throw(DestructAtEnd(o, at))
                              /\ ~v.threw /\ Relocates(v, o.size - at)
                              /\ ~Relocates([v EXCEPT !.left = Relocated(v, o.size - at)], at)
             /\ ~q.threw => /\ ~v.threw /\ Relocates(v, o.size - at)
                            /\ Relocates([v EXCEPT !.left = Relocated(v, o.size - at)], at)
                            /\ q \in [cells : {q.cells}, size : {q.size}, threw : {FALSE},
                                      left : {Relocated([v EXCEPT !.left = Relocated(v, o.size - at)], at)}]
<1> DEFINE q == SwapOut(o, v, at)
           behind == o.size - at
           ahead == [v EXCEPT !.left = Relocated(v, behind)]
           g == Grown(o, v, at)
<1>0. Held(o)
  BY WholeIsHeld
<1>1. CASE v.threw \/ ~Relocates(v, behind)
  <2>1. q = Throw(o)
    BY <1>1 DEF SwapOut
  <2>2. Held(Throw(o)) /\ Throw(o).threw = TRUE
    BY ThrowIs, WholeIsHeld
  <2> QED
    BY <2>1, <2>2
<1>2. CASE ~v.threw /\ Relocates(v, behind) /\ ~Relocates(ahead, at)
  <2>1. q = Throw(DestructAtEnd(o, at))
    BY <1>2 DEF SwapOut
  <2>2. Whole(DestructAtEnd(o, at))
    BY DestructAtEndIs
  <2>3. Held(Throw(DestructAtEnd(o, at))) /\ Throw(DestructAtEnd(o, at)).threw = TRUE
    BY <2>2, ThrowIs, WholeIsHeld
  <2> QED
    BY <2>1, <2>3, <1>2
<1>3. CASE ~v.threw /\ Relocates(v, behind) /\ Relocates(ahead, at)
  <2>1. q = [cells |-> g.cells, size |-> g.size, left |-> Relocated(ahead, at), threw |-> FALSE]
    BY <1>3 DEF SwapOut, Grown
  <2> HIDE DEF q, g, ahead, behind
  <2>2. q.cells = g.cells /\ q.size = g.size /\ q.threw = FALSE
    BY <2>1
  <2>3. Held(q) /\ Len(q.cells) = cap /\ Spliced(q, o, at, 0, s)
    BY <2>2, <1>0, <1>3, GrownIs DEF g
  <2>4. q \in [cells : {q.cells}, size : {q.size}, threw : {FALSE}, left : {Relocated(ahead, at)}]
    BY <2>1
  <2> QED
    BY <2>2, <2>3, <2>4, <1>3 DEF q, ahead, behind
<1> QED
  BY <1>1, <1>2, <1>3

LEMMA SwapOutIs ==
  ASSUME CellsAssumption, NEW o, Whole(o), NEW at \in 0..o.size, NEW s \in Seq(Item), NEW cap \in Nat,
         cap <= MaxSize, o.size + Len(s) <= cap, NEW v, ~v.threw => Ready(v, at, s, cap)
  PROVE  GrowsOrThrows(SwapOut(o, v, at), o, at, s)
<1> DEFINE q == SwapOut(o, v, at)
           behind == o.size - at
           ahead == [v EXCEPT !.left = Relocated(v, behind)]
<1>1. /\ Held(q)
      /\ ~q.threw => Len(q.cells) = cap /\ Spliced(q, o, at, 0, s)
      /\ q.threw => \/ q = Throw(o)
                    \/ /\ q = Throw(DestructAtEnd(o, at))
                       /\ ~v.threw /\ Relocates(v, behind)
                       /\ ~Relocates(ahead, at)
      /\ ~q.threw => /\ ~v.threw /\ Relocates(v, behind)
                     /\ Relocates(ahead, at)
                     /\ q \in [cells : {q.cells}, size : {q.size}, threw : {FALSE},
                               left : {Relocated(ahead, at)}]
  <2>1. ~v.threw => Contains(v, at, s, cap)
    BY DEF Ready
  <2> QED
    BY <2>1, SwapOutHeld
<1>2. o.size \in Nat /\ behind \in Nat /\ at \in Nat
  BY WholeIs
<1> HIDE DEF q, behind
<1>3. ~v.threw /\ Relocates(v, behind) => ahead.left \in Nat
  <2> SUFFICES ASSUME ~v.threw, Relocates(v, behind) PROVE ahead.left \in Nat
    OBVIOUS
  <2>1. v \in [cells : Seq(Cell), first : Nat, last : Nat, left : Int, threw : BOOLEAN] /\ v.left \in Nat
    BY DEF Ready
  <2>2. ahead.left = Relocated(v, behind)
    BY <2>1
  <2> QED
    BY <2>1, <2>2, <1>2, RelocatedIs
<1> HIDE DEF ahead
<1>4. CASE q.threw /\ q = Throw(o)
  BY <1>4, ThrowIs DEF GrowsOrThrows, q
<1>5. CASE q.threw /\ q # Throw(o)
  <2> DEFINE d == DestructAtEnd(o, at)
  <2>1. /\ q = Throw(d) /\ ahead.left \in Nat /\ ~Relocates(ahead, at)
    BY <1>1, <1>3, <1>5
  <2>2. at # 0
    BY <2>1, RelocatedIs, <1>2
  <2>3. Whole(d) /\ d.size = at /\ Keeps(o, d)
    BY DestructAtEndIs
  <2> HIDE DEF d
  <2>4. Whole(q) /\ q.size = d.size /\ q.cells = d.cells
    BY <2>1, <2>3, ThrowIs
  <2>5. ASSUME at = o.size PROVE Same(q, o)
    BY <2>3, <2>4, <2>5, <1>2 DEF Same, Keeps
  <2> QED
    BY <2>2, <2>4, <2>5, <1>5 DEF GrowsOrThrows, q
<1>6. CASE ~q.threw
  <2>1. q.left \in Nat
    <3>1. ahead.left \in Nat /\ Relocates(ahead, at) /\ q.left = Relocated(ahead, at)
      BY <1>1, <1>3, <1>6
    <3> QED
      BY <3>1, <1>2, RelocatedIs
  <2>2. q \in Progress
    <3>1. q \in [cells : {q.cells}, size : {q.size}, threw : {FALSE}, left : {Relocated(ahead, at)}]
      BY <1>1, <1>6
    <3>2. q.cells \in Seq(Cell) /\ q.size \in Nat /\ q.left \in Int
      BY <2>1, <1>1 DEF Held
    <3> QED
      BY <3>1, <3>2 DEF Progress
  <2>3. Whole(q)
    BY <2>1, <2>2, <1>1, WholeIsHeld
  <2> QED
    BY <2>3, <1>1, <1>6 DEF GrowsOrThrows, q
<1> QED
  BY <1>4, <1>5, <1>6

LEMMA GrowIs ==
  ASSUME CellsAssumption, NEW o, Whole(o), ~o.threw, NEW at \in 0..o.size, NEW s \in Seq(Item)
  PROVE  GrowsOrThrows(Grow(o, at, s), o, at, s)
<1> DEFINE q == Grow(o, at, s)
           cap == Recommend(o, o.size + Len(s))
           b == Buffer(cap, at, o.left)
           v == IF b.threw THEN b ELSE BufferConstruct(b, s)
<1>1. /\ o.size \in Nat /\ Len(s) \in Nat /\ o.size + Len(s) \in Nat /\ at \in Nat /\ o.left \in Nat
      /\ Held(o) /\ MaxSize \in Nat
  BY WholeIs, WholeIsHeld, SeqIs DEF CellsAssumption, Whole
<1>2. CASE o.size + Len(s) > MaxSize
  <2>1. q = Throw(o)
    BY <1>2 DEF Grow
  <2> QED
    BY <2>1, ThrowIs DEF GrowsOrThrows
<1>3. CASE o.size + Len(s) <= MaxSize
  <2>1. q = SwapOut(o, v, at)
    BY <1>1, <1>3 DEF Grow, Then
  <2>2. cap \in Nat /\ cap >= o.size + Len(s) /\ cap <= MaxSize
    BY <1>1, <1>3, RecommendIs
  <2> HIDE DEF cap
  <2>3. Ready(b, at, <<>>, cap)
    BY <2>2, <1>1, BufferIs
  <2> HIDE DEF b
  <2>4. ~b.threw => (~BufferConstruct(b, s).threw => Ready(BufferConstruct(b, s), at, s, cap))
    BY <2>2, <2>3, <1>1, BufferConstructIs
  <2>5. ~v.threw => Ready(v, at, s, cap)
    BY <2>4
  <2> HIDE DEF v, q
  <2>6. o.size + Len(s) <= cap
    BY <2>2, <1>1
  <2>7. GrowsOrThrows(SwapOut(o, v, at), o, at, s)
    BY <2>2, <2>5, <2>6, SwapOutIs
  <2> QED
    BY <2>1, <2>7 DEF q
<1> QED
  BY <1>1, <1>2, <1>3

-----------------------------------------------------------------------------
(* Operations. *)

\* What a call comes to that puts s in the place of cut elements of o, after at.
Does(q, o, at, cut, s, strong) ==
  /\ Held(q)
  /\ ~q.threw => Spliced(q, o, at, cut, s)
  /\ q.threw /\ strong => Same(q, o)

\* The elements after at have given way to s, of which those behind the old end
\* are there already.
Parted(q, o, at, s) ==
  /\ q.size = o.size + Len(s)
  /\ \A i \in 1..at : q.cells[i] = o.cells[i]
  /\ \A i \in (at + 1)..o.size : q.cells[i + Len(s)] = o.cells[i]
  /\ \A i \in (o.size + 1)..(at + Len(s)) : q.cells[i] = s[i - at]

LEMMA FillIs ==
  ASSUME CellsAssumption, NEW o, Whole(o), NEW at \in 0..o.size, NEW s \in Seq(Item),
         NEW q, Whole(q), ~q.threw, Parted(q, o, at, s),
         NEW t \in Seq(Item), Len(t) = Lesser(Len(s), o.size - at), \A i \in 1..Len(t) : t[i] = s[i]
  PROVE  LET r == Write(q, at, t)
         IN  /\ Whole(r)
             /\ r.threw => at < o.size
             /\ ~r.threw => Spliced(r, o, at, 0, s)
<1> DEFINE r == Write(q, at, t)
           n == Len(s)
           sz == o.size
           m == Len(t)
<1>1. sz \in Nat /\ n \in Nat /\ at \in 0..sz /\ at \in Nat /\ q.size \in Nat
  BY WholeIs, SeqIs
<1>2. m \in Nat /\ m <= n /\ m <= sz - at /\ (m = n \/ m = sz - at)
  <2>1. sz - at \in Nat
    BY <1>1
  <2>2. \A k \in Nat : Lesser(n, k) \in 0..k /\ Lesser(n, k) <= n /\ (Lesser(n, k) = n \/ Lesser(n, k) = k)
    BY <1>1, LesserIs
  <2>3. m = Lesser(n, sz - at)
    OBVIOUS
  <2> HIDE DEF n, sz, m
  <2>4. m \in 0..(sz - at) /\ m <= n /\ (m = n \/ m = sz - at)
    BY <2>1, <2>2, <2>3
  <2> QED
    BY <2>1, <2>4
<1>3. /\ q.size = sz + n
      /\ \A i \in 1..at : q.cells[i] = o.cells[i]
      /\ \A i \in (at + 1)..sz : q.cells[i + n] = o.cells[i]
      /\ \A i \in (sz + 1)..(at + n) : q.cells[i] = s[i - at]
  BY DEF Parted
<1>4. /\ Whole(r) /\ Len(r.cells) = Len(q.cells) /\ r.size = q.size
      /\ r.threw => m > 0
      /\ \A i \in 1..q.size : i - at \notin 1..m => r.cells[i] = q.cells[i]
      /\ ~r.threw => \A i \in 1..q.size : i - at \in 1..m => r.cells[i] = t[i - at]
  <2>1. at + m <= q.size
    <3> HIDE DEF m, n, sz
    <3> QED
      BY <1>1, <1>2, <1>3
  <2>2. at + Len(t) <= q.size
    BY <2>1
  <2>3. WroteOver(r, q, at, t)
    BY <2>2, <1>1, WriteOverIs
  <2> HIDE DEF r
  <2> QED
    BY <2>3 DEF WroteOver
<1>5. \A i \in 1..m : t[i] = s[i]
  OBVIOUS
<1>6. r.size = sz - 0 + n
  <2> HIDE DEF r, n, sz
  <2> QED
    BY <1>1, <1>3, <1>4
<1>7. ASSUME ~r.threw, NEW i \in 1..(sz + n)
      PROVE  r.cells[i] = IF i <= at THEN o.cells[i]
                          ELSE IF i <= at + n THEN s[i - at] ELSE o.cells[i - n]
  <2> HIDE DEF r, n, sz, m
  <2>1. CASE i <= at
    <3>1. i \in 1..at /\ i - at \notin 1..m
      BY <2>1, <1>1, <1>2
    <3> QED
      BY <2>1, <3>1, <1>3, <1>4
  <2>2. CASE i > at /\ i <= at + m
    <3>1. i - at \in 1..m /\ i <= at + n /\ ~(i <= at)
      BY <2>2, <1>1, <1>2
    <3> QED
      BY <3>1, <1>3, <1>4, <1>5, <1>7
  <2>3. CASE i > at + m /\ i <= at + n
    <3>1. i - at \notin 1..m /\ i \in (sz + 1)..(at + n) /\ ~(i <= at)
      BY <2>3, <1>1, <1>2
    <3> QED
      BY <2>3, <3>1, <1>3, <1>4
  <2>4. CASE i > at + n
    <3>1. i - at \notin 1..m /\ i - n \in (at + 1)..sz /\ (i - n) + n = i /\ ~(i <= at) /\ ~(i <= at + n)
      BY <2>4, <1>1, <1>2
    <3>2. r.cells[i] = q.cells[i]
      BY <3>1, <1>3, <1>4
    <3>3. q.cells[(i - n) + n] = o.cells[i - n]
      BY <3>1, <1>3
    <3> QED
      BY <3>1, <3>2, <3>3
  <2> QED
    BY <2>1, <2>2, <2>3, <2>4, <1>1, <1>2
<1>8. ~r.threw => Spliced(r, o, at, 0, s)
  <2> SUFFICES ASSUME ~r.threw PROVE Spliced(r, o, at, 0, s)
    OBVIOUS
  <2>1. ASSUME NEW i \in 1..r.size
        PROVE  r.cells[i] = IF i <= at THEN o.cells[i]
                            ELSE IF i <= at + Len(s) THEN s[i - at] ELSE o.cells[i - Len(s) + 0]
    <3>1. i \in 1..(sz + n) /\ i \in Int
      BY <1>3, <1>4
    <3>2. i - n + 0 = i - n
      BY <3>1, <1>1
    <3> HIDE DEF r
    <3> QED
      BY <3>1, <3>2, <1>7
  <2> HIDE DEF r
  <2> QED
    BY <2>1, <1>6 DEF Spliced
<1>9. r.threw => at < sz
  <2> HIDE DEF r, m, sz
  <2> QED
    BY <1>1, <1>2, <1>4
<1> QED
  BY <1>4, <1>8, <1>9

\* An argument is a value of elements, or refers to one of them.
LEMMA DerefIs ==
  ASSUME CellsAssumption, NEW o, Whole(o), NEW x \in Item \cup 1..o.size
  PROVE  /\ Deref(o, x) \in Item
         /\ x \in Item => \A q : Whole(q) => Deref(q, x) = x
         /\ x \in 1..o.size => Deref(o, x) = o.cells[x]
<1>1. \A q : Whole(q) => DOMAIN q.cells = 1..Len(q.cells)
  <2>1. ASSUME NEW q, Whole(q) PROVE DOMAIN q.cells = 1..Len(q.cells)
    BY <2>1, WholeIs, SeqIs
  <2> QED
    BY <2>1
<1>2. x \in Item => x \notin Nat
  BY DEF CellsAssumption, Item
<1>3. x \in 1..o.size => x \in 1..Len(o.cells) /\ o.cells[x] \in Item
  BY WholeIs
<1>4. \A n, k : k \in 1..n => k \in Nat
  OBVIOUS
<1> QED
  BY <1>1, <1>2, <1>3, <1>4 DEF Deref

\* A reference to an element that gave way follows it.
LEMMA FollowIs ==
  ASSUME CellsAssumption, NEW o, Whole(o), NEW at \in 0..o.size, NEW by \in Nat,
         NEW x \in Item \cup 1..o.size,
         NEW q, Whole(q), q.size = o.size + by,
         \A i \in 1..at : q.cells[i] = o.cells[i],
         \A i \in (at + 1)..o.size : q.cells[i + by] = o.cells[i]
  PROVE  Deref(q, Follow(x, at, by)) = Deref(o, x)
<1>1. o.size \in Nat /\ q.size \in Nat /\ at \in Nat
  BY WholeIs
<1>2. CASE x \in Item
  <2>1. x \notin Nat
    BY <1>2 DEF CellsAssumption, Item
  <2>2. Follow(x, at, by) = x
    BY <2>1 DEF Follow
  <2> QED
    BY <2>2, <1>2, DerefIs
<1>3. CASE x \in 1..o.size /\ x > at
  <2>1. Follow(x, at, by) = x + by /\ x + by \in 1..q.size /\ x \in (at + 1)..o.size
    BY <1>1, <1>3 DEF Follow
  <2>2. Deref(q, x + by) = q.cells[x + by]
    BY <2>1, DerefIs
  <2>3. Deref(o, x) = o.cells[x]
    BY <1>3, DerefIs
  <2> QED
    BY <2>1, <2>2, <2>3
<1>4. CASE x \in 1..o.size /\ ~(x > at)
  <2>1. Follow(x, at, by) = x /\ x \in 1..q.size /\ x \in 1..at
    BY <1>1, <1>4 DEF Follow
  <2>2. Deref(q, x) = q.cells[x]
    BY <2>1, DerefIs
  <2>3. Deref(o, x) = o.cells[x]
    BY <1>4, DerefIs
  <2> QED
    BY <2>1, <2>2, <2>3
<1> QED
  BY <1>2, <1>3, <1>4

LEMMA MovedIs ==
  ASSUME NEW o, Whole(o), ~o.threw
  PROVE  /\ Whole(Moved(o)) /\ ~Moved(o).threw
         /\ Moved(o).cells = o.cells /\ Moved(o).size = o.size
<1> DEFINE q == Moved(o)
<1>1. o \in Progress /\ o.left \in Nat /\ o.threw \in BOOLEAN
  BY WholeIs DEF Whole
<1>2. /\ q \in Progress /\ q.left \in Nat /\ q.threw = o.threw
      /\ q.cells = o.cells /\ q.size = o.size
  <2>1. CASE nothrowMove
    <3>1. q = [cells |-> o.cells, size |-> o.size, left |-> o.left + 1, threw |-> o.threw]
      BY <2>1, <1>1 DEF Moved, Progress
    <3> HIDE DEF q
    <3> QED
      BY <3>1, <1>1 DEF Progress
  <2>2. CASE ~nothrowMove
    BY <2>2, <1>1 DEF Moved
  <2> QED
    BY <2>1, <2>2
<1> HIDE DEF q
<1> QED
  BY <1>2 DEF Whole, q

LEMMA GiveWayIs ==
  ASSUME CellsAssumption, NEW o, Whole(o), NEW at \in 0..o.size, NEW s \in Seq(Item), Len(s) > 0,
         o.size + Len(s) <= Len(o.cells),
         NEW u \in Seq(Item), Len(u) = Greater(0, Len(s) - (o.size - at)),
         \A i \in 1..Len(u) : u[i] = s[(o.size - at) + i],
         NEW q, Whole(q), ~q.threw, Len(q.cells) = Len(o.cells), Spliced(q, o, o.size, 0, u)
  PROVE  LET r == Shift(q, at, o.size, Len(s))
         IN  /\ Whole(r)
             /\ r.threw => at < o.size
             /\ ~r.threw => Parted(r, o, at, s)
<1> DEFINE by == Len(s)
           sz == o.size
           r == Shift(q, at, sz, by)
           m == Len(u)
<1>1. /\ sz \in Nat /\ by \in Nat /\ by > 0 /\ at \in 0..sz /\ at \in Nat /\ q.size \in Nat
      /\ Len(o.cells) \in Nat /\ sz + by <= Len(o.cells) /\ Len(q.cells) = Len(o.cells)
  BY WholeIs, SeqIs
<1>2. \A i \in 1..m : u[i] = s[(sz - at) + i]
  OBVIOUS
<1>3. m = IF by - (sz - at) > 0 THEN by - (sz - at) ELSE 0
  <2>1. m = Greater(0, by - (sz - at))
    OBVIOUS
  <2> HIDE DEF m, by, sz
  <2> QED
    BY <2>1, <1>1 DEF Greater
<1>4. /\ q.size = sz + m
      /\ \A i \in 1..q.size :
           q.cells[i] = IF i <= sz THEN o.cells[i]
                        ELSE IF i <= sz + m THEN u[i - sz] ELSE o.cells[i - m + 0]
  <2>1. /\ q.size = sz - 0 + m
        /\ \A i \in 1..q.size :
             q.cells[i] = IF i <= sz THEN o.cells[i]
                          ELSE IF i <= sz + m THEN u[i - sz] ELSE o.cells[i - m + 0]
    BY DEF Spliced
  <2>2. sz - 0 + m = sz + m
    <3> HIDE DEF m, by, sz
    <3> QED
      BY <1>1, <1>3
  <2> QED
    BY <2>1, <2>2
<1>5. /\ Whole(r)
      /\ r.threw => at < sz
      /\ ~r.threw => Shifted(r, q, at, sz, by)
  <2>1. /\ by \in Nat \ {0} /\ sz \in at..q.size /\ at + by <= q.size /\ q.size <= sz + by
        /\ sz + by <= Len(q.cells)
    <3>1. q.size = sz + m
      BY <1>4
    <3> HIDE DEF m, by, sz
    <3> QED
      BY <3>1, <1>1, <1>3
  <2> HIDE DEF by, sz
  <2> QED
    BY <2>1, <1>1, ShiftIs
<1>6. ASSUME ~r.threw PROVE Parted(r, o, at, s)
  <2>1. /\ r.size = sz + by
        /\ \A i \in 1..at : r.cells[i] = q.cells[i]
        /\ \A i \in (at + 1)..sz : r.cells[i + by] = q.cells[i]
        /\ \A i \in (sz + 1)..(at + by) : r.cells[i] = q.cells[i]
    BY <1>5, <1>6 DEF Shifted
  <2> HIDE DEF r, by, sz, m
  <2>2. \A i \in 1..sz : q.cells[i] = o.cells[i]
    <3>1. \A i \in 1..sz : i \in 1..q.size /\ i <= sz
      BY <1>1, <1>3, <1>4
    <3> QED
      BY <3>1, <1>4
  <2>3. \A i \in 1..at : r.cells[i] = o.cells[i]
    <3>1. \A i \in 1..at : i \in 1..sz
      BY <1>1
    <3> QED
      BY <3>1, <2>1, <2>2
  <2>4. \A i \in (at + 1)..sz : r.cells[i + by] = o.cells[i]
    <3>1. \A i \in (at + 1)..sz : i \in 1..sz
      BY <1>1
    <3> QED
      BY <3>1, <2>1, <2>2
  <2>5. ASSUME NEW i \in (sz + 1)..(at + by) PROVE r.cells[i] = s[i - at]
    <3>1. /\ i \in 1..q.size /\ ~(i <= sz) /\ i <= sz + m
          /\ i - sz \in 1..m /\ (sz - at) + (i - sz) = i - at
      BY <1>1, <1>3, <1>4
    <3>2. q.cells[i] = u[i - sz]
      BY <3>1, <1>4
    <3>3. u[i - sz] = s[(sz - at) + (i - sz)]
      BY <3>1, <1>2
    <3> QED
      BY <3>1, <3>2, <3>3, <2>1
  <2> QED
    BY <2>1, <2>3, <2>4, <2>5 DEF Parted, by, sz
<1> QED
  BY <1>5, <1>6

LEMMA SplicedByNone ==
  ASSUME NEW o, Whole(o), NEW at \in 0..o.size, NEW s, Len(s) = 0
  PROVE  Spliced(o, o, at, 0, s)
<1>1. o.size \in Nat /\ at \in Nat
  BY WholeIs
<1>2. o.size = o.size - 0 + Len(s)
  BY <1>1
<1>3. ASSUME NEW i \in 1..o.size
      PROVE  o.cells[i] = IF i <= at THEN o.cells[i]
                          ELSE IF i <= at + Len(s) THEN s[i - at] ELSE o.cells[i - Len(s) + 0]
  <2>1. i - Len(s) + 0 = i /\ at + Len(s) = at
    BY <1>1
  <2> QED
    BY <2>1
<1> QED
  BY <1>2, <1>3 DEF Spliced

\* Where elements behind at give way, a call that throws does so for these.
Placed(q, o, at, s) ==
  /\ Whole(q)
  /\ q.threw => at < o.size
  /\ ~q.threw => Spliced(q, o, at, 0, s)

LEMMA PlaceIs ==
  ASSUME CellsAssumption, NEW o, Whole(o), NEW at \in 0..o.size, NEW s \in Seq(Item), Len(s) > 0,
         o.size + Len(s) <= Len(o.cells),
         NEW u \in Seq(Item), Len(u) = Greater(0, Len(s) - (o.size - at)),
         \A i \in 1..Len(u) : u[i] = s[(o.size - at) + i],
         NEW q, Whole(q), ~q.threw, Len(q.cells) = Len(o.cells), Spliced(q, o, o.size, 0, u),
         NEW t \in Seq(Item), Len(t) = Lesser(Len(s), o.size - at), \A i \in 1..Len(t) : t[i] = s[i]
  PROVE  LET r == Shift(q, at, o.size, Len(s))
         IN  Placed(IF r.threw THEN r ELSE Write(r, at, t), o, at, s)
<1> DEFINE r == Shift(q, at, o.size, Len(s))
           w == Write(r, at, t)
           z == IF r.threw THEN r ELSE w
<1>1. /\ Whole(r)
      /\ r.threw => at < o.size
      /\ ~r.threw => Parted(r, o, at, s)
  BY GiveWayIs
<1> HIDE DEF r
<1>2. ~r.threw => Whole(w) /\ (w.threw => at < o.size) /\ (~w.threw => Spliced(w, o, at, 0, s))
  BY <1>1, FillIs
<1> HIDE DEF w
<1>3. Placed(z, o, at, s)
  BY <1>1, <1>2 DEF Placed
<1> HIDE DEF z
<1> QED
  BY <1>3 DEF r, w, z

\* Strong(at, n), for a call in progress.
StrongFor(o, at, n) ==
  (n > Len(o.cells) - o.size /\ at \in {0, o.size}) \/ (n = 1 /\ at = o.size)

LEMMA GrowDoes ==
  ASSUME CellsAssumption, NEW o, Whole(o), ~o.threw, NEW at \in 0..o.size, NEW s \in Seq(Item),
         NEW strong, strong => at \in {0, o.size}
  PROVE  Does(Grow(o, at, s), o, at, 0, s, strong) /\ Whole(Grow(o, at, s))
<1> DEFINE q == Grow(o, at, s)
<1>1. GrowsOrThrows(q, o, at, s)
  BY GrowIs
<1> HIDE DEF q
<1>2. Whole(q) /\ Held(q)
  BY <1>1, WholeIsHeld DEF GrowsOrThrows
<1> QED
  BY <1>1, <1>2 DEF GrowsOrThrows, Does, q

LEMMA ConstructOneIs ==
  ASSUME CellsAssumption, NEW o, Whole(o), ~o.threw, o.size < Len(o.cells), NEW y \in Item, NEW strong
  PROVE  /\ Does(ConstructAtEnd(o, <<y>>), o, o.size, 0, <<y>>, strong)
         /\ Whole(ConstructAtEnd(o, <<y>>))
<1> DEFINE q == ConstructAtEnd(o, <<y>>)
           s == <<y>>
<1>1. s \in Seq(Item) /\ Len(s) = 1 /\ o.size + Len(s) <= Len(o.cells)
  <2>1. o.size \in Nat /\ Len(o.cells) \in Nat
    BY WholeIs
  <2> QED
    BY <2>1, OneIs
<1> HIDE DEF s
<1>2. LET p == ConstructAtEnd(o, s)
      IN  /\ Whole(p)
          /\ p.threw => Same(p, o)
          /\ ~p.threw => Spliced(p, o, o.size, 0, s)
  BY <1>1, ConstructAtEndIs
<1>3. q = ConstructAtEnd(o, s)
  BY DEF s
<1> HIDE DEF q
<1>4. Held(q)
  BY <1>2, <1>3, WholeIsHeld
<1> QED
  BY <1>2, <1>3, <1>4 DEF Does, q, s

LEMMA EmplaceBackIs ==
  ASSUME CellsAssumption, NEW o, Whole(o), ~o.threw, NEW x \in Item \cup 1..o.size
  PROVE  /\ Does(EmplaceBack(o, x), o, o.size, 0, <<Deref(o, x)>>, TRUE)
         /\ Whole(EmplaceBack(o, x))
<1> DEFINE y == Deref(o, x)
<1>1. y \in Item
  BY DerefIs
<1>2. o.size \in 0..o.size /\ o.size <= Len(o.cells)
  BY WholeIs
<1> HIDE DEF y
<1>3. CASE o.size < Len(o.cells)
  <2>1. EmplaceBack(o, x) = ConstructAtEnd(o, <<y>>)
    BY <1>3 DEF EmplaceBack, y
  <2>2. /\ Does(ConstructAtEnd(o, <<y>>), o, o.size, 0, <<y>>, TRUE)
        /\ Whole(ConstructAtEnd(o, <<y>>))
    BY <1>1, <1>3, ConstructOneIs
  <2> QED
    BY <2>1, <2>2 DEF y
<1>4. CASE ~(o.size < Len(o.cells))
  <2>1. EmplaceBack(o, x) = Grow(o, o.size, <<y>>)
    BY <1>4 DEF EmplaceBack, y
  <2>2. <<y>> \in Seq(Item)
    BY <1>1
  <2>3. Does(Grow(o, o.size, <<y>>), o, o.size, 0, <<y>>, TRUE) /\ Whole(Grow(o, o.size, <<y>>))
    BY <1>2, <2>2, GrowDoes
  <2> QED
    BY <2>1, <2>3 DEF y
<1> QED
  BY <1>3, <1>4

LEMMA DoesAlike ==
  ASSUME NEW o, NEW p, o.cells = p.cells, o.size = p.size,
         NEW q, NEW at, NEW cut, NEW s, NEW strong, Does(q, p, at, cut, s, strong)
  PROVE  Does(q, o, at, cut, s, strong)
BY DEF Does, Spliced, Same, Keeps

LEMMA StrongIsAtAnEnd ==
  ASSUME NEW o, Whole(o), NEW at \in 0..o.size, NEW n, StrongFor(o, at, n)
  PROVE  /\ at \in {0, o.size}
         /\ n \in Nat /\ n <= Len(o.cells) - o.size => n = 1 /\ at = o.size
<1>1. o.size \in Nat /\ Len(o.cells) \in Nat
  BY WholeIs
<1> QED
  BY <1>1 DEF StrongFor

LEMMA PlacedDoes ==
  ASSUME NEW o, Whole(o), NEW at \in 0..o.size, NEW s \in Seq(Item), Len(s) <= Len(o.cells) - o.size,
         NEW q, Placed(q, o, at, s)
  PROVE  Does(q, o, at, 0, s, StrongFor(o, at, Len(s))) /\ Whole(q)
<1>1. o.size \in Nat /\ Len(s) \in Nat
  BY WholeIs, SeqIs
<1>2. Whole(q) /\ Held(q) /\ (~q.threw => Spliced(q, o, at, 0, s))
  BY WholeIsHeld DEF Placed
<1>3. ASSUME q.threw PROVE ~StrongFor(o, at, Len(s))
  <2>1. at < o.size
    BY <1>3 DEF Placed
  <2>2. at # o.size
    BY <2>1, <1>1
  <2> QED
    BY <2>2, <1>1, StrongIsAtAnEnd
<1> QED
  BY <1>2, <1>3 DEF Does

\* One element has place among the elements of o.
LEMMA OneHasPlace ==
  ASSUME NEW o, Whole(o), o.size < Len(o.cells), NEW at \in 0..o.size, at # o.size, NEW y \in Item
  PROVE  /\ <<y>> \in Seq(Item) /\ Len(<<y>>) = 1 /\ Len(<<y>>) > 0
         /\ Len(<<y>>) <= Len(o.cells) - o.size /\ o.size + Len(<<y>>) <= Len(o.cells)
         /\ <<>> \in Seq(Item) /\ Len(<<>>) = Greater(0, Len(<<y>>) - (o.size - at))
         /\ \A i \in 1..Len(<<>>) : <<>>[i] = <<y>>[(o.size - at) + i]
         /\ Len(<<y>>) = Lesser(Len(<<y>>), o.size - at)
<1> DEFINE sz == o.size
           L == Len(o.cells)
<1>1. sz \in Nat /\ L \in Nat /\ sz < L /\ at \in 0..sz /\ at # sz
  BY WholeIs
<1> HIDE DEF sz, L
<1>2. 1 <= L - sz /\ sz + 1 <= L /\ 0 = Greater(0, 1 - (sz - at)) /\ 1 = Lesser(1, sz - at)
  BY <1>1 DEF Greater, Lesser
<1>3. Len(<<>>) = 0 /\ Len(<<y>>) = 1 /\ <<>> \in Seq(Item) /\ <<y>> \in Seq(Item)
  OBVIOUS
<1>4. 1 > 0 /\ \A i : i \notin 1..0
  OBVIOUS
<1> QED
  BY <1>2, <1>3, <1>4 DEF sz, L

LEMMA InsertCopyIs ==
  ASSUME CellsAssumption, NEW o, Whole(o), ~o.threw, NEW at \in 0..o.size, NEW x \in Item \cup 1..o.size
  PROVE  Does(InsertCopy(o, at, x), o, at, 0, <<Deref(o, x)>>, StrongFor(o, at, 1))
<1> DEFINE y == Deref(o, x)
           q == InsertCopy(o, at, x)
           strong == StrongFor(o, at, 1)
<1>1. y \in Item
  BY DerefIs
<1>2. o.size \in Nat /\ Len(o.cells) \in Nat /\ o.size <= Len(o.cells)
  BY WholeIs
<1>3. strong => at \in {0, o.size}
  BY StrongIsAtAnEnd
<1> HIDE DEF strong
<1>4. CASE o.size = Len(o.cells)
  <2>1. q = Grow(o, at, <<y>>)
    BY <1>4 DEF InsertCopy
  <2> HIDE DEF y, q
  <2>2. <<y>> \in Seq(Item)
    BY <1>1
  <2>3. Does(Grow(o, at, <<y>>), o, at, 0, <<y>>, strong)
    BY <2>2, <1>3, GrowDoes
  <2> QED
    BY <2>1, <2>3 DEF y, q, strong
<1>5. CASE o.size < Len(o.cells) /\ at = o.size
  <2>1. q = ConstructAtEnd(o, <<y>>)
    BY <1>2, <1>5 DEF InsertCopy
  <2> HIDE DEF y, q
  <2>2. Does(ConstructAtEnd(o, <<y>>), o, o.size, 0, <<y>>, strong)
    BY <1>1, <1>5, ConstructOneIs
  <2> QED
    BY <2>1, <2>2, <1>5 DEF y, q, strong
<1>6. CASE o.size < Len(o.cells) /\ at # o.size
  <2> DEFINE F(r) == Write(r, at, <<Deref(r, Follow(x, at, 1))>>)
             r == Shift(o, at, o.size, 1)
             w == Write(r, at, <<y>>)
             s == <<y>>
  <2>1. q = Then(r, F)
    BY <1>2, <1>6 DEF InsertCopy
  <2> HIDE DEF y
  <2>2. /\ s \in Seq(Item) /\ Len(s) = 1 /\ Len(s) > 0
        /\ Len(s) <= Len(o.cells) - o.size /\ o.size + Len(s) <= Len(o.cells)
        /\ <<>> \in Seq(Item) /\ Len(<<>>) = Greater(0, Len(s) - (o.size - at))
        /\ \A i \in 1..Len(<<>>) : <<>>[i] = s[(o.size - at) + i]
        /\ Len(s) = Lesser(Len(s), o.size - at)
    BY <1>1, <1>6, OneHasPlace
  <2>3. Spliced(o, o, o.size, 0, <<>>)
    <3>1. Len(<<>>) = 0
      OBVIOUS
    <3> QED
      BY <3>1, <1>2, SplicedByNone
  <2> HIDE DEF s
  <2>4. Whole(r) /\ (~r.threw => Parted(r, o, at, s))
    BY <2>2, <2>3, GiveWayIs
  <2>5. ~r.threw => Deref(r, Follow(x, at, 1)) = y
    <3> SUFFICES ASSUME ~r.threw PROVE Deref(r, Follow(x, at, 1)) = y
      OBVIOUS
    <3> HIDE DEF r
    <3>1. /\ r.size = o.size + 1
          /\ \A i \in 1..at : r.cells[i] = o.cells[i]
          /\ \A i \in (at + 1)..o.size : r.cells[i + 1] = o.cells[i]
      BY <2>2, <2>4 DEF Parted
    <3>2. Deref(r, Follow(x, at, 1)) = Deref(o, x)
      BY <3>1, <2>4, FollowIs
    <3> QED
      BY <3>2 DEF y
  <2> DEFINE p == IF r.threw THEN r ELSE Write(r, at, s)
  <2>6. Placed(p, o, at, s)
    <3>1. \A i \in 1..Len(s) : s[i] = s[i]
      OBVIOUS
    <3> QED
      BY <2>2, <2>3, <3>1, PlaceIs
  <2> HIDE DEF r
  <2>7. q = p
    BY <2>1, <2>5 DEF Then, s
  <2> HIDE DEF q, p, F
  <2>8. Does(q, o, at, 0, s, StrongFor(o, at, Len(s)))
    BY <2>2, <2>6, <2>7, PlacedDoes
  <2> QED
    BY <2>2, <2>8 DEF s, y, q
<1> QED
  BY <1>2, <1>4, <1>5, <1>6

LEMMA InsertMovedIs ==
  ASSUME CellsAssumption, NEW o, Whole(o), ~o.threw, NEW at \in 0..o.size, NEW y \in Item
  PROVE  Does(InsertMoved(o, at, y), o, at, 0, <<y>>, StrongFor(o, at, 1))
<1> DEFINE q == InsertMoved(o, at, y)
           m == Moved(o)
           s == <<y>>
           strong == StrongFor(o, at, 1)
<1>1. o.size \in Nat /\ Len(o.cells) \in Nat /\ o.size <= Len(o.cells)
  BY WholeIs
<1>2. Whole(m) /\ ~m.threw /\ m.cells = o.cells /\ m.size = o.size
  BY MovedIs
<1>3. strong => at \in {0, o.size}
  BY StrongIsAtAnEnd
<1>4. s \in Seq(Item) /\ Len(s) = 1
  BY OneIs
<1> HIDE DEF strong, m
<1>5. CASE o.size = Len(o.cells)
  <2>1. q = Grow(m, at, s)
    BY <1>5 DEF InsertMoved, m
  <2> HIDE DEF q, s
  <2>2. Does(q, m, at, 0, s, strong)
    BY <2>1, <1>2, <1>3, <1>4, GrowDoes
  <2>3. Does(q, o, at, 0, s, strong)
    BY <2>2, <1>2, DoesAlike
  <2> QED
    BY <2>3 DEF q, s, strong
<1>6. CASE o.size < Len(o.cells) /\ at = o.size
  <2>1. q = ConstructAtEnd(m, <<y>>)
    BY <1>1, <1>6 DEF InsertMoved, m
  <2> HIDE DEF q
  <2>2. Does(q, m, m.size, 0, <<y>>, strong)
    BY <2>1, <1>2, <1>6, ConstructOneIs
  <2>3. Does(q, o, m.size, 0, <<y>>, strong)
    BY <2>2, <1>2, DoesAlike
  <2> QED
    BY <2>3, <1>2, <1>6 DEF q, strong
<1>7. CASE o.size < Len(o.cells) /\ at # o.size
  <2> DEFINE F(v) == Write(Moved(v), at, s)
             r == Shift(o, at, o.size, 1)
             w == Write(Moved(r), at, s)
  <2>1. q = IF r.threw THEN r ELSE w
    BY <1>1, <1>7 DEF InsertMoved, Then
  <2>2. /\ s \in Seq(Item) /\ Len(s) = 1 /\ Len(s) > 0
        /\ Len(s) <= Len(o.cells) - o.size /\ o.size + Len(s) <= Len(o.cells)
        /\ <<>> \in Seq(Item) /\ Len(<<>>) = Greater(0, Len(s) - (o.size - at))
        /\ \A i \in 1..Len(<<>>) : <<>>[i] = s[(o.size - at) + i]
        /\ Len(s) = Lesser(Len(s), o.size - at)
    BY <1>7, OneHasPlace
  <2>3. Spliced(o, o, o.size, 0, <<>>)
    <3>1. Len(<<>>) = 0
      OBVIOUS
    <3> QED
      BY <3>1, <1>1, SplicedByNone
  <2> HIDE DEF s, q
  <2>4. Whole(r) /\ (r.threw => at < o.size) /\ (~r.threw => Parted(r, o, at, s))
    BY <2>2, <2>3, GiveWayIs
  <2> HIDE DEF r, w
  <2>5. ~r.threw => Whole(w) /\ (w.threw => at < o.size) /\ (~w.threw => Spliced(w, o, at, 0, s))
    <3> SUFFICES ASSUME ~r.threw
                 PROVE Whole(w) /\ (w.threw => at < o.size) /\ (~w.threw => Spliced(w, o, at, 0, s))
      OBVIOUS
    <3> DEFINE v == Moved(r)
    <3>1. Whole(v) /\ ~v.threw /\ v.cells = r.cells /\ v.size = r.size
      BY <2>4, MovedIs
    <3> HIDE DEF v
    <3>2. Parted(v, o, at, s)
      BY <2>4, <3>1 DEF Parted
    <3>3. \A i \in 1..Len(s) : s[i] = s[i]
      OBVIOUS
    <3>4. w = Write(v, at, s)
      BY DEF w, v
    <3> QED
      BY <2>2, <3>1, <3>2, <3>3, <3>4, FillIs
  <2>6. Placed(q, o, at, s)
    BY <2>1, <2>4, <2>5 DEF Placed
  <2>7. Does(q, o, at, 0, s, StrongFor(o, at, Len(s)))
    BY <2>2, <2>6, PlacedDoes
  <2> QED
    BY <2>2, <2>7 DEF s, q
<1> QED
  BY <1>1, <1>5, <1>6, <1>7

LEMMA EmplaceAtIs ==
  ASSUME CellsAssumption, NEW o, Whole(o), ~o.threw, NEW at \in 0..o.size, NEW x \in Item \cup 1..o.size
  PROVE  Does(EmplaceAt(o, at, x), o, at, 0, <<Deref(o, x)>>, StrongFor(o, at, 1))
<1> DEFINE y == Deref(o, x)
           q == EmplaceAt(o, at, x)
           strong == StrongFor(o, at, 1)
<1>1. y \in Item
  BY DerefIs
<1>2. o.size \in Nat /\ Len(o.cells) \in Nat /\ o.size <= Len(o.cells)
  BY WholeIs
<1>3. strong => at \in {0, o.size}
  BY StrongIsAtAnEnd
<1>4. CASE o.size = Len(o.cells)
  <2>1. q = Grow(o, at, <<y>>)
    BY <1>4 DEF EmplaceAt
  <2> HIDE DEF y, q, strong
  <2>2. <<y>> \in Seq(Item)
    BY <1>1
  <2>3. Does(Grow(o, at, <<y>>), o, at, 0, <<y>>, strong)
    BY <2>2, <1>3, GrowDoes
  <2> QED
    BY <2>1, <2>3 DEF y, q, strong
<1>5. CASE o.size < Len(o.cells) /\ at = o.size
  <2>1. q = ConstructAtEnd(o, <<y>>)
    BY <1>2, <1>5 DEF EmplaceAt
  <2> HIDE DEF y, q, strong
  <2>2. Does(ConstructAtEnd(o, <<y>>), o, o.size, 0, <<y>>, strong)
    BY <1>1, <1>5, ConstructOneIs
  <2> QED
    BY <2>1, <2>2, <1>5 DEF y, q, strong
<1>6. CASE o.size < Len(o.cells) /\ at # o.size /\ o.left = 0
  <2>1. q = Throw(o)
    BY <1>2, <1>6 DEF EmplaceAt
  <2>2. Whole(Throw(o)) /\ Throw(o).threw = TRUE /\ Same(Throw(o), o)
    BY ThrowIs
  <2> HIDE DEF q, strong
  <2>3. Does(q, o, at, 0, <<y>>, strong)
    BY <2>1, <2>2, WholeIsHeld DEF Does
  <2> QED
    BY <2>3 DEF q, strong
<1>7. CASE o.size < Len(o.cells) /\ at # o.size /\ o.left # 0
  <2> DEFINE p == [o EXCEPT !.left = @ - 1]
  <2>1. q = InsertMoved(p, at, y)
    BY <1>2, <1>7 DEF EmplaceAt
  <2>2. Whole(p) /\ ~p.threw /\ p.cells = o.cells /\ p.size = o.size
    <3>1. o \in Progress /\ o.left \in Nat /\ o.left - 1 \in Nat /\ o.threw \in BOOLEAN
      BY <1>7, WholeIs DEF Whole
    <3>2. p = [cells |-> o.cells, size |-> o.size, left |-> o.left - 1, threw |-> o.threw]
      BY <3>1 DEF Progress
    <3> HIDE DEF p
    <3>3. /\ p \in Progress /\ p.left \in Nat /\ p.threw = o.threw
          /\ p.cells = o.cells /\ p.size = o.size
      BY <3>1, <3>2 DEF Progress
    <3> QED
      BY <3>3 DEF Whole
  <2> HIDE DEF p, q, y, strong
  <2>3. Does(q, p, at, 0, <<y>>, StrongFor(p, at, 1))
    BY <2>1, <2>2, <1>1, InsertMovedIs
  <2>4. StrongFor(p, at, 1) = strong
    BY <2>2 DEF StrongFor, strong
  <2>5. Does(q, o, at, 0, <<y>>, strong)
    BY <2>2, <2>3, <2>4, DoesAlike
  <2> QED
    BY <2>5 DEF y, q, strong
<1> QED
  BY <1>2, <1>4, <1>5, <1>6, <1>7

\* Not all of s has place among the elements: what comes behind is made first.
LEMMA PiecesHavePlace ==
  ASSUME NEW o, Whole(o), NEW at \in 0..o.size, NEW n \in Nat, n # 0, n <= Len(o.cells) - o.size,
         NEW beyond, beyond = Greater(0, n - (o.size - at))
  PROVE  /\ beyond \in 0..n /\ n - beyond \in Nat /\ o.size + beyond <= Len(o.cells)
         /\ n - beyond = Lesser(n, o.size - at) /\ n > 0 /\ o.size + n <= Len(o.cells)
         /\ (beyond = n <=> at = o.size)
         /\ beyond > 0 => n - beyond = o.size - at
<1> DEFINE sz == o.size
           L == Len(o.cells)
<1>1. sz \in Nat /\ L \in Nat /\ at \in 0..sz /\ n <= L - sz
  BY WholeIs
<1>2. beyond = Greater(0, n - (sz - at))
  OBVIOUS
<1> HIDE DEF sz, L
<1>3. /\ beyond \in 0..n /\ n - beyond \in Nat /\ sz + beyond <= L
      /\ n - beyond = Lesser(n, sz - at) /\ n > 0 /\ sz + n <= L
      /\ (beyond = n <=> at = sz)
      /\ beyond > 0 => n - beyond = sz - at
  BY <1>1, <1>2 DEF Greater, Lesser
<1> QED
  BY <1>3 DEF sz, L

LEMMA SplicedAtEnd ==
  ASSUME NEW o, NEW q, NEW s, NEW u, Len(s) = Len(u), \A i \in 1..Len(u) : s[i] = u[i],
         o.size \in Nat, Len(u) \in Nat, Spliced(q, o, o.size, 0, u)
  PROVE  Spliced(q, o, o.size, 0, s)
<1> DEFINE sz == o.size
           n == Len(u)
<1>1. /\ q.size = sz - 0 + n
      /\ \A i \in 1..q.size :
           q.cells[i] = IF i <= sz THEN o.cells[i]
                        ELSE IF i <= sz + n THEN u[i - sz] ELSE o.cells[i - n + 0]
  BY DEF Spliced
<1>2. sz \in Nat /\ n \in Nat /\ n = Len(s) /\ \A i \in 1..n : s[i] = u[i]
  OBVIOUS
<1> HIDE DEF sz, n
<1>3. ASSUME NEW i \in 1..q.size
      PROVE  q.cells[i] = IF i <= sz THEN o.cells[i]
                          ELSE IF i <= sz + n THEN s[i - sz] ELSE o.cells[i - n + 0]
  <2>1. ~(i <= sz) /\ i <= sz + n => i - sz \in 1..n
    BY <1>1, <1>2
  <2> QED
    BY <2>1, <1>1, <1>2
<1> QED
  BY <1>1, <1>2, <1>3 DEF Spliced, sz

LEMMA InsertCountIs ==
  ASSUME CellsAssumption, NEW o, Whole(o), ~o.threw, NEW at \in 0..o.size, NEW n \in Nat,
         NEW x \in Item \cup 1..o.size
  PROVE  Does(InsertCount(o, at, n, x), o, at, 0, Times(n, Deref(o, x)), StrongFor(o, at, n))
<1> DEFINE y == Deref(o, x)
           q == InsertCount(o, at, n, x)
           s == Times(n, y)
           strong == StrongFor(o, at, n)
           beyond == Greater(0, n - (o.size - at))
           u == Times(beyond, y)
           t == Times(n - beyond, y)
           b == ConstructAtEnd(o, u)
           r == Shift(b, at, o.size, n)
           w == IF r.threw THEN r ELSE Write(r, at, t)
<1>1. y \in Item
  BY DerefIs
<1>2. o.size \in Nat /\ Len(o.cells) \in Nat /\ o.size <= Len(o.cells)
  BY WholeIs
<1>3. strong => at \in {0, o.size}
  BY StrongIsAtAnEnd
<1> HIDE DEF y
<1>4. s \in Seq(Item) /\ Len(s) = n /\ \A i \in 1..n : s[i] = y
  BY <1>1, TimesIs
<1>5. CASE n = 0
  <2>1. q = o
    BY <1>5 DEF InsertCount
  <2> HIDE DEF q, s, strong
  <2>2. Spliced(o, o, at, 0, s)
    BY <1>4, <1>5, SplicedByNone
  <2>3. Does(q, o, at, 0, s, strong)
    BY <2>1, <2>2, WholeIsHeld DEF Does
  <2> QED
    BY <2>3 DEF q, s, strong, y
<1>6. CASE n # 0 /\ n > Len(o.cells) - o.size
  <2>1. q = Grow(o, at, s)
    BY <1>6 DEF InsertCount, y
  <2> HIDE DEF q, s, strong
  <2>2. Does(q, o, at, 0, s, strong)
    BY <2>1, <1>3, <1>4, GrowDoes
  <2> QED
    BY <2>2 DEF q, s, strong, y
<1>7. CASE n # 0 /\ ~(n > Len(o.cells) - o.size)
  <2>1. n <= Len(o.cells) - o.size
    BY <1>2, <1>7
  <2>2. /\ beyond \in 0..n /\ n - beyond \in Nat /\ o.size + beyond <= Len(o.cells)
        /\ n - beyond = Lesser(n, o.size - at) /\ n > 0 /\ o.size + n <= Len(o.cells)
        /\ (beyond = n <=> at = o.size)
        /\ beyond > 0 => n - beyond = o.size - at
    BY <2>1, <1>7, PiecesHavePlace
  <2>3. beyond \in Nat
    BY <2>2
  <2>4. q = IF b.threw THEN b ELSE IF beyond = n THEN b
            ELSE IF r.threw THEN r ELSE Write(r, at, Times(n - beyond, Deref(r, Follow(x, at, n))))
    BY <1>7 DEF InsertCount, Then, y
  <2>0. beyond = Greater(0, n - (o.size - at))
    OBVIOUS
  <2> HIDE DEF beyond, q, strong, s
  <2>5. u \in Seq(Item) /\ Len(u) = beyond /\ \A i \in 1..beyond : u[i] = y
    BY ZenonT(60), <2>3, <1>1, TimesIs
  <2>6. t \in Seq(Item) /\ Len(t) = n - beyond /\ \A i \in 1..(n - beyond) : t[i] = y
    BY <2>2, <1>1, TimesIs
  <2> HIDE DEF u, t
  <2>7. /\ Whole(b) /\ Len(b.cells) = Len(o.cells)
        /\ b.threw => (Len(u) = 1 => Same(b, o))
        /\ ~b.threw => Spliced(b, o, o.size, 0, u)
    <3>1. o.size + Len(u) <= Len(o.cells)
      BY <2>2, <2>5
    <3> QED
      BY <2>5, <3>1, ConstructAtEndIs
  <2> HIDE DEF b
  <2>8. strong => n = 1 /\ beyond = 1
    <3>1. strong => n = 1 /\ at = o.size
      BY <2>1, StrongIsAtAnEnd DEF strong
    <3> QED
      BY <3>1, <2>2
  <2>9. CASE b.threw
    <3>1. strong => Same(b, o)
      BY <2>5, <2>7, <2>8, <2>9
    <3>2. Does(q, o, at, 0, s, strong)
      BY <2>4, <2>7, <2>9, <3>1, WholeIsHeld DEF Does
    <3> QED
      BY <3>2 DEF q, s, strong, y
  <2>10. CASE ~b.threw /\ beyond = n
    <3>1. at = o.size
      BY <2>2, <2>10
    <3>2. Spliced(b, o, o.size, 0, s)
      <4>1. Len(s) = Len(u) /\ Len(u) \in Nat /\ \A i \in 1..Len(u) : s[i] = u[i]
        BY <2>5, <2>10, <1>4
      <4> QED
        BY <4>1, <2>7, <2>10, <1>2, SplicedAtEnd
    <3>3. Does(q, o, at, 0, s, strong)
      BY <2>4, <2>7, <2>10, <3>1, <3>2, WholeIsHeld DEF Does
    <3> QED
      BY <3>3 DEF q, s, strong, y
  <2>11. CASE ~b.threw /\ beyond # n
    <3>1. /\ Len(s) > 0 /\ o.size + Len(s) <= Len(o.cells) /\ Len(s) <= Len(o.cells) - o.size
          /\ Len(u) = Greater(0, Len(s) - (o.size - at))
          /\ Len(t) = Lesser(Len(s), o.size - at)
      BY <2>0, <2>1, <2>2, <2>5, <2>6, <1>4
    <3>2. \A i \in 1..Len(u) : u[i] = s[(o.size - at) + i]
      <4>1. ASSUME NEW i \in 1..Len(u) PROVE u[i] = s[(o.size - at) + i]
        <5>1. (o.size - at) + i \in 1..n
          <6> DEFINE sz == o.size
          <6>1. sz \in Nat /\ at \in 0..sz /\ i \in 1..beyond /\ n - beyond = sz - at
            BY <2>2, <2>5, <1>2
          <6> HIDE DEF sz
          <6>2. (sz - at) + i \in 1..n
            BY <6>1, <2>3
          <6> QED
            BY <6>2 DEF sz
        <5> QED
          BY <5>1, <2>5, <1>4
      <4> QED
        BY <4>1
    <3>3. \A i \in 1..Len(t) : t[i] = s[i]
      <4>1. \A i \in 1..(n - beyond) : i \in 1..n
        BY <2>2, <2>3
      <4> QED
        BY <4>1, <2>6, <1>4
    <3>4. Whole(r) /\ (~r.threw => Parted(r, o, at, s))
      <4>1. r = Shift(b, at, o.size, Len(s))
        BY <1>4
      <4> HIDE DEF r
      <4> QED
        BY <4>1, <3>1, <3>2, <2>5, <2>7, <2>11, <1>4, GiveWayIs
    <3>5. Placed(w, o, at, s)
      <4>1. r = Shift(b, at, o.size, Len(s))
        BY <1>4
      <4> HIDE DEF r
      <4> QED
        BY <4>1, <3>1, <3>2, <3>3, <2>5, <2>6, <2>7, <2>11, <1>4, PlaceIs
    <3> HIDE DEF r
    <3>6. ~r.threw => Deref(r, Follow(x, at, n)) = y
      <4> SUFFICES ASSUME ~r.threw PROVE Deref(r, Follow(x, at, n)) = y
        OBVIOUS
      <4>1. /\ r.size = o.size + n
            /\ \A i \in 1..at : r.cells[i] = o.cells[i]
            /\ \A i \in (at + 1)..o.size : r.cells[i + n] = o.cells[i]
        BY <3>4, <1>4 DEF Parted
      <4> QED
        BY <4>1, <3>4, FollowIs DEF y
    <3>7. q = w
      BY <2>4, <2>11, <3>6 DEF t
    <3> HIDE DEF w
    <3>8. Does(q, o, at, 0, s, StrongFor(o, at, Len(s)))
      BY <3>1, <3>5, <3>7, <1>4, PlacedDoes
    <3> QED
      BY <3>8, <1>4 DEF q, s, y
  <2> QED
    BY <2>9, <2>10, <2>11
<1> QED
  BY <1>5, <1>6, <1>7

LEMMA InsertRangeIs ==
  ASSUME CellsAssumption, NEW o, Whole(o), ~o.threw, NEW at \in 0..o.size, NEW s \in Seq(Item)
  PROVE  Does(InsertRange(o, at, s), o, at, 0, s, StrongFor(o, at, Len(s)))
<1> DEFINE q == InsertRange(o, at, s)
           n == Len(s)
           strong == StrongFor(o, at, n)
           dx == o.size - at
           beyond == Greater(0, n - dx)
           sz == o.size
<1>1. sz \in Nat /\ Len(o.cells) \in Nat /\ sz <= Len(o.cells) /\ n \in Nat /\ at \in 0..sz
  BY WholeIs, SeqIs
<1>2. strong => at \in {0, o.size}
  BY StrongIsAtAnEnd
<1>3. s = <<>> <=> n = 0
  BY EmptySeq
<1>4. CASE n = 0
  <2>1. q = o
    BY <1>1, <1>3, <1>4 DEF InsertRange
  <2> HIDE DEF q, strong
  <2>2. Spliced(o, o, at, 0, s)
    BY <1>4, SplicedByNone
  <2>3. Does(q, o, at, 0, s, strong)
    BY <2>1, <2>2, WholeIsHeld DEF Does
  <2> QED
    BY <2>3 DEF q, strong
<1>5. CASE n # 0 /\ n > Len(o.cells) - sz
  <2>1. q = Grow(o, at, s)
    BY <1>1, <1>3, <1>5 DEF InsertRange
  <2> HIDE DEF q, strong
  <2>2. Does(q, o, at, 0, s, strong)
    BY <2>1, <1>2, GrowDoes
  <2> QED
    BY <2>2 DEF q, strong
<1>6. CASE n # 0 /\ n <= Len(o.cells) - sz
  <2>1. /\ beyond \in 0..n /\ n - beyond \in Nat /\ o.size + beyond <= Len(o.cells)
        /\ n - beyond = Lesser(n, o.size - at) /\ n > 0 /\ o.size + n <= Len(o.cells)
        /\ (beyond = n <=> at = o.size)
        /\ beyond > 0 => n - beyond = o.size - at
    BY SMTT(30), <1>1, <1>6, PiecesHavePlace
  <2>0. beyond = Greater(0, n - (o.size - at))
    OBVIOUS
  <2>2. beyond = IF n > dx THEN n - dx ELSE 0
    <3> HIDE DEF n
    <3> QED
      BY <1>1 DEF Greater
  <2>3. CASE n > dx
    <3> DEFINE u == SubSeq(s, dx + 1, n)
               t == SubSeq(s, 1, dx)
               b == ConstructRange(o, u)
               r == Shift(b, at, o.size, n)
               w == IF r.threw THEN r ELSE Write(r, at, t)
    <3>1. q = IF b.threw THEN b ELSE w
      BY <1>1, <1>3, <1>6, <2>3 DEF InsertRange, Then
    <3>2. dx \in Nat /\ beyond = n - dx /\ dx = n - beyond /\ dx < n /\ dx = Lesser(n, o.size - at)
      <4> HIDE DEF n, beyond
      <4> QED
        BY SMTT(30), <2>1, <2>2, <2>3, <1>1
    <3>8. strong => at = o.size
      BY <1>6, <1>1, StrongIsAtAnEnd
    <3> HIDE DEF q, strong, beyond
    <3>3. u \in Seq(Item) /\ Len(u) = beyond /\ \A i \in 1..beyond : u[i] = s[dx + i]
      <4> DEFINE m == dx + 1
      <4> HIDE DEF n, dx
      <4>1. m \in 1..(n + 1) /\ n \in (m - 1)..n /\ n - m + 1 = beyond /\ \A i \in 1..beyond : m + i - 1 = dx + i
        BY <3>2, <1>1
      <4> HIDE DEF m
      <4>2. /\ SubSeq(s, m, n) \in Seq(Item) /\ Len(SubSeq(s, m, n)) = n - m + 1
            /\ \A i \in 1..(n - m + 1) : SubSeq(s, m, n)[i] = s[m + i - 1]
        BY <4>1, PieceIs DEF n
      <4>3. u = SubSeq(s, m, n)
        BY DEF m, u
      <4> HIDE DEF u
      <4> QED
        BY <4>1, <4>2, <4>3
    <3>4. t \in Seq(Item) /\ Len(t) = dx /\ \A i \in 1..dx : t[i] = s[i]
      <4> DEFINE one == 1
      <4>1. one \in 1..(n + 1) /\ dx \in (one - 1)..n /\ dx - one + 1 = dx /\ \A i \in 1..dx : one + i - 1 = i
        BY <3>2, <1>1
      <4> HIDE DEF one, dx
      <4>2. /\ SubSeq(s, one, dx) \in Seq(Item) /\ Len(SubSeq(s, one, dx)) = dx - one + 1
            /\ \A i \in 1..(dx - one + 1) : SubSeq(s, one, dx)[i] = s[one + i - 1]
        BY <4>1, PieceIs
      <4>3. t = SubSeq(s, one, dx)
        BY DEF one
      <4> HIDE DEF t
      <4> QED
        BY <4>1, <4>2, <4>3
    <3> HIDE DEF u, t
    <3>5. /\ Whole(b) /\ Len(b.cells) = Len(o.cells)
          /\ b.threw => Same(b, o)
          /\ ~b.threw => Spliced(b, o, o.size, 0, u)
      <4>1. o.size + Len(u) <= Len(o.cells)
        BY <2>1, <3>3
      <4> QED
        BY <3>3, <4>1, ConstructRangeIs
    <3> HIDE DEF b
    <3>6. CASE b.threw
      <4>1. Does(q, o, at, 0, s, strong)
        BY <3>1, <3>5, <3>6, WholeIsHeld DEF Does
      <4> QED
        BY <4>1 DEF q, strong
    <3>7. CASE ~b.threw
      <4>1. /\ Len(s) > 0 /\ o.size + Len(s) <= Len(o.cells) /\ Len(s) <= Len(o.cells) - o.size
            /\ Len(u) = Greater(0, Len(s) - (o.size - at))
            /\ Len(t) = Lesser(Len(s), o.size - at)
        BY <2>0, <2>1, <3>2, <3>3, <3>4, <1>6
      <4>2. /\ \A i \in 1..Len(u) : u[i] = s[(o.size - at) + i]
            /\ \A i \in 1..Len(t) : t[i] = s[i]
        BY <3>3, <3>4
      <4>3. Placed(w, o, at, s)
        BY <4>1, <4>2, <3>3, <3>4, <3>5, <3>7, PlaceIs
      <4> HIDE DEF w
      <4>4. Does(q, o, at, 0, s, StrongFor(o, at, Len(s)))
        BY <4>1, <4>3, <3>1, <3>7, PlacedDoes
      <4> QED
        BY <4>4 DEF q
    <3> QED
      BY <3>6, <3>7
  <2>4. CASE ~(n > dx)
    <3> DEFINE r == Shift(o, at, o.size, n)
               w == IF r.threw THEN r ELSE Write(r, at, s)
    <3>1. q = w
      BY <1>1, <1>3, <1>6, <2>4 DEF InsertRange, Then
    <3>2. beyond = 0 /\ n = Lesser(n, o.size - at)
      <4> HIDE DEF n, beyond
      <4> QED
        BY <2>1, <2>2, <2>4, <1>1
    <3>3. Spliced(o, o, o.size, 0, <<>>)
      <4>1. Len(<<>>) = 0 /\ o.size \in 0..o.size
        BY <1>1
      <4> QED
        BY <4>1, SplicedByNone
    <3> HIDE DEF q, strong, beyond
    <3>4. /\ Len(s) > 0 /\ o.size + Len(s) <= Len(o.cells) /\ Len(s) <= Len(o.cells) - o.size
          /\ <<>> \in Seq(Item) /\ Len(<<>>) = Greater(0, Len(s) - (o.size - at))
          /\ \A i \in 1..Len(<<>>) : <<>>[i] = s[(o.size - at) + i]
          /\ Len(s) = Lesser(Len(s), o.size - at)
          /\ \A i \in 1..Len(s) : s[i] = s[i]
      <4>1. <<>> \in Seq(Item) /\ Len(<<>>) = 0 /\ \A i : i \notin 1..0
        OBVIOUS
      <4> QED
        BY <4>1, <2>0, <2>1, <3>2, <1>6
    <3>5. Placed(w, o, at, s)
      BY <3>3, <3>4, PlaceIs
    <3> HIDE DEF w
    <3>6. Does(q, o, at, 0, s, StrongFor(o, at, Len(s)))
      BY <3>1, <3>4, <3>5, PlacedDoes
    <3> QED
      BY <3>6 DEF q
  <2> QED
    BY <2>3, <2>4
<1> QED
  BY <1>1, <1>4, <1>5, <1>6

LEMMA CutIs ==
  ASSUME NEW o, Whole(o), NEW n \in 0..o.size
  PROVE  Does(DestructAtEnd(o, n), o, n, o.size - n, <<>>, ~o.threw)
<1> DEFINE q == DestructAtEnd(o, n)
           sz == o.size
<1>1. /\ Whole(q) /\ q.size = n /\ Keeps(o, q) /\ q.threw = o.threw
  BY DestructAtEndIs
<1>2. sz \in Nat /\ n \in Nat /\ Held(q)
  BY <1>1, WholeIs, WholeIsHeld
<1> HIDE DEF q
<1>3. \A i \in 1..n : q.cells[i] = o.cells[i]
  BY <1>1 DEF Keeps
<1>4. q.size = sz - (sz - n) + Len(<<>>)
  <2>1. Len(<<>>) = 0
    OBVIOUS
  <2> HIDE DEF sz
  <2> QED
    BY <2>1, <1>1, <1>2
<1>5. ASSUME NEW i \in 1..q.size
      PROVE  q.cells[i] = IF i <= n THEN o.cells[i]
                          ELSE IF i <= n + Len(<<>>) THEN <<>>[i - n] ELSE o.cells[i - Len(<<>>) + (sz - n)]
  <2>1. i <= n /\ i \in 1..n
    BY <1>1, <1>2
  <2> QED
    BY <2>1, <1>3
<1>6. Spliced(q, o, n, o.size - n, <<>>)
  BY <1>4, <1>5 DEF Spliced, sz
<1> QED
  BY <1>1, <1>2, <1>6 DEF Does, q

LEMMA EraseRangeIs ==
  ASSUME CellsAssumption, NEW o, Whole(o), ~o.threw, NEW at \in 0..o.size, NEW n \in 0..(o.size - at)
  PROVE  /\ Does(EraseRange(o, at, n), o, at, n, <<>>, at + n = o.size)
         /\ Len(EraseRange(o, at, n).cells) = Len(o.cells)
<1> DEFINE sz == o.size
           q == EraseRange(o, at, n)
<1>1. sz \in Nat /\ at \in Nat /\ n \in Nat /\ at <= sz /\ n <= sz - at /\ sz - n \in Nat
  BY WholeIs
<1>0. Len(<<>>) = 0
  OBVIOUS
<1>2. CASE n = 0
  <2>1. q = o
    BY <1>2 DEF EraseRange
  <2> HIDE DEF q
  <2>2. Spliced(o, o, at, n, <<>>)
    BY <1>0, <1>2, SplicedByNone
  <2>3. Does(q, o, at, n, <<>>, at + n = o.size)
    BY <2>1, <2>2, WholeIsHeld DEF Does
  <2> QED
    BY <2>1, <2>3 DEF q
<1>3. CASE n # 0
  <2> DEFINE from == [i \in 1..(sz - at - n) |-> at + n + i]
             by == -n
             r == MoveAll(o, from, by)
             d == DestructAtEnd(r, sz - n)
  <2>1. q = IF r.threw THEN r ELSE d
    BY <1>3 DEF EraseRange, Then
  <2> HIDE DEF q, sz
  <2>2. by \in Int \ {0} /\ sz - at - n \in Nat /\ \A x \in Int : x + by = x - n
    BY <1>1, <1>3
  <2>3. /\ from \in Seq(Nat) /\ Len(from) = sz - at - n
        /\ \A k \in 1..Len(from) : from[k] = at + n + k
    <3>1. \A i \in 1..(sz - at - n) : at + n + i \in Nat
      BY <1>1
    <3> QED
      BY <2>2, <3>1, FunctionIsSeq
  <2> HIDE DEF from, by
  <2>4. ASSUME NEW k \in 1..Len(from)
        PROVE  /\ from[k] \in 1..sz /\ from[k] + by = at + k /\ from[k] + by \in 1..sz
               /\ from[k] > at /\ from[k] + by > at
    <3> DEFINE f == from[k]
    <3>1. f = at + n + k /\ k \in 1..(sz - at - n)
      BY <2>3
    <3> HIDE DEF f
    <3>2. f \in Int /\ f \in 1..sz /\ f - n = at + k /\ f - n \in 1..sz /\ f > at /\ f - n > at
      BY <3>1, <1>1
    <3>3. f + by = f - n
      BY <3>2, <2>2
    <3> QED
      BY <3>2, <3>3 DEF f
  <2>5. ASSUME NEW k \in 1..Len(from), NEW m \in 1..Len(from), k < m
        PROVE  from[m] # from[k] /\ from[m] # from[k] + by
    <3>1. from[m] = at + n + m /\ from[k] = at + n + k /\ from[k] + by = at + k
      BY <2>3, <2>4
    <3>2. at + n + m # at + n + k /\ at + n + m # at + k
      BY <2>3, <2>5, <1>1
    <3> QED
      BY <3>1, <3>2
  <2>6. /\ Whole(r) /\ r.size = o.size /\ Len(r.cells) = Len(o.cells)
        /\ r.threw => Len(from) > 0
        /\ ~r.threw =>
             /\ \A k \in 1..Len(from) : r.cells[from[k] + by] = o.cells[from[k]]
             /\ \A i \in 1..Len(o.cells) :
                  (\A k \in 1..Len(from) : i # from[k] /\ i # from[k] + by) => r.cells[i] = o.cells[i]
    <3>1. Movable(o, from, by, o.size)
      BY <2>2, <2>3, <2>4, <2>5 DEF Movable, sz
    <3> QED
      BY <3>1, MoveOverIs
  <2> HIDE DEF r
  <2>7. CASE r.threw
    <3>1. at + n # o.size
      BY <2>3, <2>6, <2>7, <1>1 DEF sz
    <3>2. Does(q, o, at, n, <<>>, at + n = o.size)
      BY <2>1, <2>6, <2>7, <3>1, WholeIsHeld DEF Does
    <3> QED
      BY <2>1, <2>6, <2>7, <3>2 DEF q
  <2>8. CASE ~r.threw
    <3>1. /\ Whole(d) /\ d.size = sz - n /\ Keeps(r, d) /\ d.threw = r.threw
          /\ Len(d.cells) = Len(r.cells)
      <4>1. sz - n \in 0..r.size
        BY <2>6, <1>1 DEF sz
      <4> QED
        BY <4>1, <2>6, DestructAtEndIs
    <3> HIDE DEF d
    <3>2. \A i \in 1..(sz - n) : d.cells[i] = r.cells[i]
      BY <3>1 DEF Keeps
    <3>3. ASSUME NEW i \in 1..at PROVE r.cells[i] = o.cells[i]
      <4>1. i \in 1..Len(o.cells)
        <5>1. i \in 1..o.size
          BY <1>1 DEF sz
        <5> QED
          BY <5>1, WholeIs
      <4>2. \A k \in 1..Len(from) : i # from[k] /\ i # from[k] + by
        <5>1. ASSUME NEW x \in 1..sz, x > at PROVE i # x
          BY <5>1, <1>1
        <5> QED
          BY <5>1, <2>4
      <4> QED
        BY <4>1, <4>2, <2>6, <2>8
    <3>4. ASSUME NEW i \in (at + 1)..(sz - n) PROVE r.cells[i] = o.cells[i + n]
      <4>1. i - at \in 1..Len(from) /\ at + (i - at) = i /\ at + n + (i - at) = i + n
        BY <2>3, <1>1
      <4>2. from[i - at] + by = i /\ from[i - at] = i + n
        BY <4>1, <2>3, <2>4
      <4>3. r.cells[from[i - at] + by] = o.cells[from[i - at]]
        BY <4>1, <2>6, <2>8
      <4> QED
        BY <4>2, <4>3
    <3>5. d.size = sz - n + Len(<<>>)
      BY <3>1, <1>0, <1>1
    <3>6. ASSUME NEW i \in 1..d.size
          PROVE  d.cells[i] = IF i <= at THEN o.cells[i]
                              ELSE IF i <= at + Len(<<>>) THEN <<>>[i - at] ELSE o.cells[i - Len(<<>>) + n]
      <4>1. i \in 1..(sz - n) /\ d.cells[i] = r.cells[i]
        BY <3>1, <3>2
      <4>2. CASE i <= at
        <5>1. i \in 1..at
          BY <4>1, <4>2, <1>1
        <5> QED
          BY <5>1, <4>1, <4>2, <3>3
      <4>3. CASE ~(i <= at)
        <5>1. i \in (at + 1)..(sz - n) /\ ~(i <= at + 0) /\ i - 0 + n = i + n
          BY <4>1, <4>3, <1>1
        <5> QED
          BY <5>1, <4>1, <4>3, <3>4, <1>0
      <4> QED
        BY <4>2, <4>3
    <3>7. Spliced(d, o, at, n, <<>>)
      BY <3>5, <3>6 DEF Spliced, sz
    <3>8. Does(q, o, at, n, <<>>, at + n = o.size)
      BY <2>1, <2>8, <3>1, <3>7, WholeIsHeld DEF Does
    <3> QED
      BY <2>1, <2>6, <2>8, <3>1, <3>8 DEF q
  <2> QED
    BY <2>7, <2>8
<1> QED
  BY <1>2, <1>3

LEMMA RotateIs ==
  ASSUME CellsAssumption, NEW o, Whole(o), NEW at \in 0..o.size, NEW s \in Seq(Item),
         NEW q, Whole(q), ~q.threw, Spliced(q, o, o.size, 0, s)
  PROVE  LET r == Rotate(q, at, o.size) IN ~r.threw =>
           Held(r) /\ Spliced(r, o, at, 0, s) /\ Len(r.cells) = Len(q.cells)
<1> DEFINE sz == o.size
           n == Len(s)
           L == Len(q.cells)
           r == Rotate(q, at, o.size)
           a == SubSeq(q.cells, sz + 1, q.size)
           b == SubSeq(q.cells, at + 1, sz)
           c == Put(q.cells, at, a \o b)
<1>1. /\ sz \in Nat /\ at \in 0..sz /\ n \in Nat /\ L \in Nat /\ q.size \in Nat /\ q.size <= L
      /\ q.cells \in Seq(Cell) /\ q \in Progress /\ q.threw \in BOOLEAN /\ q.left \in Nat
  BY WholeIs, SeqIs DEF Whole
<1>2. \A i \in 1..L : q.cells[i] = Raw <=> i > q.size
  BY DEF Whole
<1>20. L <= MaxSize
  BY DEF Whole
<1>3. /\ q.size = sz - 0 + n
      /\ \A i \in 1..q.size : q.cells[i] = IF i <= sz THEN o.cells[i]
                                           ELSE IF i <= sz + n THEN s[i - sz] ELSE o.cells[i - n + 0]
  BY DEF Spliced
<1> SUFFICES ASSUME ~r.threw PROVE Held(r) /\ Spliced(r, o, at, 0, s) /\ Len(r.cells) = L
  BY DEF r
<1>4. r = [q EXCEPT !.cells = c]
  <2>1. Throw(q).threw = TRUE
    BY ThrowIs
  <2> QED
    BY <2>1 DEF Rotate
<1> HIDE DEF r, sz, n, L
<1>5. q.size = sz + n
  BY <1>1, <1>3
<1>6. /\ a \in Seq(Cell) /\ Len(a) = n
      /\ \A i \in 1..n : a[i] = s[i]
  <2> DEFINE m == sz + 1
             e == q.size
  <2>1. m \in 1..(L + 1) /\ e \in (m - 1)..L /\ e - m + 1 = n /\ \A i \in 1..n : m + i - 1 = sz + i
    BY <1>1, <1>5
  <2> HIDE DEF m, e
  <2>2. /\ SubSeq(q.cells, m, e) \in Seq(Cell) /\ Len(SubSeq(q.cells, m, e)) = e - m + 1
        /\ \A i \in 1..(e - m + 1) : SubSeq(q.cells, m, e)[i] = q.cells[m + i - 1]
    BY <2>1, <1>1, PieceIs DEF L
  <2>3. a = SubSeq(q.cells, m, e)
    BY DEF m, e, a
  <2> HIDE DEF a
  <2>4. ASSUME NEW i \in 1..n PROVE a[i] = s[i]
    <3>1. sz + i \in 1..q.size /\ ~(sz + i <= sz) /\ sz + i <= sz + n /\ (sz + i) - sz = i
      BY <1>1, <1>5
    <3>2. q.cells[sz + i] = s[(sz + i) - sz]
      BY <3>1, <1>3
    <3> QED
      BY <3>1, <3>2, <2>1, <2>2, <2>3
  <2> QED
    BY <2>1, <2>2, <2>3, <2>4
<1>7. \A i \in 1..sz : q.cells[i] = o.cells[i]
  <2>1. \A i \in 1..sz : i \in 1..q.size /\ i <= sz
    BY <1>1, <1>5
  <2> QED
    BY <2>1, <1>3
<1>8. /\ b \in Seq(Cell) /\ Len(b) = sz - at
      /\ \A i \in 1..(sz - at) : b[i] = o.cells[at + i]
  <2> DEFINE m == at + 1
             e == sz
  <2>1. /\ m \in 1..(L + 1) /\ e \in (m - 1)..L /\ e - m + 1 = sz - at
        /\ \A i \in 1..(sz - at) : m + i - 1 = at + i /\ at + i \in 1..sz
    BY <1>1, <1>5
  <2> HIDE DEF m, e
  <2>2. /\ SubSeq(q.cells, m, e) \in Seq(Cell) /\ Len(SubSeq(q.cells, m, e)) = e - m + 1
        /\ \A i \in 1..(e - m + 1) : SubSeq(q.cells, m, e)[i] = q.cells[m + i - 1]
    BY <2>1, <1>1, PieceIs DEF L
  <2>3. b = SubSeq(q.cells, m, e)
    BY DEF m, e, b
  <2> HIDE DEF b
  <2> QED
    BY <2>1, <2>2, <2>3, <1>7
<1> HIDE DEF a, b
<1> DEFINE d == a \o b
<1>9. /\ d \in Seq(Cell) /\ Len(d) = n + (sz - at)
      /\ \A i \in 1..(n + (sz - at)) : d[i] = IF i <= n THEN s[i] ELSE o.cells[at + (i - n)]
  <2>1. /\ d \in Seq(Cell) /\ Len(d) = Len(a) + Len(b)
        /\ \A i \in 1..(Len(a) + Len(b)) : d[i] = IF i <= Len(a) THEN a[i] ELSE b[i - Len(a)]
    BY <1>6, <1>8, ConcatProperties
  <2> HIDE DEF d
  <2>2. ASSUME NEW i \in 1..(n + (sz - at)) PROVE d[i] = IF i <= n THEN s[i] ELSE o.cells[at + (i - n)]
    <3>1. d[i] = IF i <= n THEN a[i] ELSE b[i - n]
      BY <2>1, <1>6, <1>8
    <3>2. (i <= n => i \in 1..n) /\ (~(i <= n) => i - n \in 1..(sz - at))
      BY <1>1
    <3> QED
      BY <3>1, <3>2, <1>6, <1>8
  <2> QED
    BY <2>1, <2>2, <1>6, <1>8
<1>10. /\ c \in Seq(Cell) /\ Len(c) = L
       /\ \A i \in 1..L : c[i] = IF i - at \in 1..(n + (sz - at)) THEN d[i - at] ELSE q.cells[i]
  <2>1. at \in Int
    BY <1>1
  <2>2. c = Put(q.cells, at, d)
    BY DEF d
  <2> HIDE DEF c, d
  <2>3. /\ c \in Seq(Cell) /\ Len(c) = L
        /\ \A i \in 1..L : c[i] = IF i - at \in 1..Len(d) THEN d[i - at] ELSE q.cells[i]
    BY <2>1, <2>2, <1>1, <1>9, PutIs DEF L
  <2> QED
    BY <2>3, <1>9
<1> HIDE DEF c, d
<1>11. r.cells = c /\ r.size = sz + n /\ r.threw = FALSE
  <2>1. r = [cells |-> c, size |-> q.size, left |-> q.left, threw |-> q.threw]
    BY <1>1, <1>4 DEF Progress
  <2> QED
    BY <2>1, <1>5
<1>12. ASSUME NEW i \in 1..(sz + n)
       PROVE  c[i] = IF i <= at THEN o.cells[i] ELSE IF i <= at + n THEN s[i - at] ELSE o.cells[i - n]
  <2>0. i \in 1..L
    BY <1>1, <1>5
  <2>1. CASE i <= at
    <3>1. i - at \notin 1..(n + (sz - at)) /\ i \in 1..sz
      BY <2>1, <1>1
    <3> QED
      BY <2>0, <2>1, <3>1, <1>7, <1>10
  <2>2. CASE ~(i <= at) /\ i <= at + n
    <3>1. i - at \in 1..(n + (sz - at)) /\ i - at <= n
      BY <2>2, <1>1
    <3> QED
      BY <2>0, <2>2, <3>1, <1>9, <1>10
  <2>3. CASE ~(i <= at) /\ ~(i <= at + n)
    <3>1. i - at \in 1..(n + (sz - at)) /\ ~(i - at <= n) /\ at + ((i - at) - n) = i - n
      BY <2>3, <1>1
    <3> QED
      BY <2>0, <2>3, <3>1, <1>9, <1>10
  <2> QED
    BY <2>1, <2>2, <2>3
<1>13. ASSUME NEW i \in 1..L PROVE c[i] = Raw <=> i > sz + n
  <2>1. CASE i > sz + n
    <3>1. i - at \notin 1..(n + (sz - at))
      BY <2>1, <1>1
    <3> QED
      BY <2>1, <3>1, <1>2, <1>5, <1>10
  <2>2. CASE ~(i > sz + n)
    <3>0. i \in 1..(sz + n)
      BY <2>2, <1>1
    <3>1. CASE i <= at
      <4>1. i \in 1..o.size
        BY <3>0, <3>1, <1>1 DEF sz
      <4>2. o.cells[i] \in Item
        BY <4>1, WholeIs
      <4> QED
        BY <3>0, <3>1, <4>2, <2>2, <1>12, ItemIsNotRaw
    <3>2. CASE ~(i <= at) /\ i <= at + n
      <4>1. i - at \in 1..Len(s)
        BY <3>0, <3>2, <1>1 DEF n
      <4>2. s[i - at] \in Item
        BY <4>1, SeqIs
      <4> QED
        BY <3>0, <3>2, <4>2, <2>2, <1>12, ItemIsNotRaw
    <3>3. CASE ~(i <= at) /\ ~(i <= at + n)
      <4>1. i - n \in 1..o.size
        BY <3>0, <3>3, <1>1 DEF sz
      <4>2. o.cells[i - n] \in Item
        BY <4>1, WholeIs
      <4> QED
        BY <3>0, <3>3, <4>2, <2>2, <1>12, ItemIsNotRaw
    <3> QED
      BY <3>1, <3>2, <3>3
  <2> QED
    BY <2>1, <2>2
<1>14. Held(r)
  <2>1. r.size \in Nat /\ r.size <= Len(r.cells) /\ Len(r.cells) <= MaxSize
    BY <1>1, <1>5, <1>10, <1>11, <1>20
  <2> QED
    BY <2>1, <1>10, <1>11, <1>13 DEF Held
<1>15. Spliced(r, o, at, 0, s)
  <2>1. r.size = o.size - 0 + Len(s)
    BY <1>1, <1>11 DEF sz, n
  <2>2. ASSUME NEW i \in 1..r.size
        PROVE  r.cells[i] = IF i <= at THEN o.cells[i]
                            ELSE IF i <= at + Len(s) THEN s[i - at] ELSE o.cells[i - Len(s) + 0]
    <3>1. i - n + 0 = i - n /\ i \in 1..(sz + n)
      BY <1>1, <1>11
    <3> QED
      BY <3>1, <1>11, <1>12 DEF n
  <2> QED
    BY <2>1, <2>2 DEF Spliced
<1> QED
  BY <1>10, <1>11, <1>14, <1>15

\* Into the third buffer; when that throws the elements are those of o, or the
\* first of them.
LEMMA MergeIs ==
  ASSUME CellsAssumption, NEW o, Whole(o), NEW at \in 0..o.size, NEW s \in Seq(Item),
         NEW q, Whole(q), q.size >= o.size, Keeps(q, o), NEW rest \in Nat,
         q.size + rest = o.size + Len(s), q.size + rest <= MaxSize,
         NEW left0, NEW left1, ~Buffer(Recommend(q, q.size + rest), at, left0).threw
  PROVE  LET merged == Buffer(Recommend(q, q.size + rest), at, left0)
             filled == BufferConstruct([merged EXCEPT !.left = Len(s)], s)
             r == SwapOut(DestructAtEnd(q, o.size), [filled EXCEPT !.left = left1], at)
         IN  /\ Held(r)
             /\ ~r.threw => Spliced(r, o, at, 0, s)
             /\ r.threw => r.size <= o.size
<1> DEFINE cap == Recommend(q, q.size + rest)
           merged == Buffer(cap, at, left0)
           m == [merged EXCEPT !.left = Len(s)]
           filled == BufferConstruct(m, s)
           v == [filled EXCEPT !.left = left1]
           d == DestructAtEnd(q, o.size)
           r == SwapOut(d, v, at)
<1>1. /\ o.size \in Nat /\ q.size \in Nat /\ at \in Nat /\ Len(s) \in Nat /\ Held(q)
      /\ o.size \in 0..q.size /\ q.size + rest \in Nat
  BY WholeIs, WholeIsHeld, SeqIs
<1>2. cap \in Nat /\ cap >= q.size + rest /\ cap <= MaxSize
  BY <1>1, RecommendIs
<1>3. ~merged.threw
  OBVIOUS
<1> HIDE DEF cap
<1>4. m = [cells |-> Times(cap, Raw), first |-> at, last |-> at, left |-> Len(s), threw |-> merged.threw]
  BY DEF Buffer
<1>5. merged.threw \in BOOLEAN
  BY DEF Buffer
<1> HIDE DEF merged, m
<1>6. Ready(m, at, <<>>, cap)
  <2>1. Times(cap, Raw) \in Seq(Cell) /\ Len(Times(cap, Raw)) = cap /\ \A i \in 1..cap : Times(cap, Raw)[i] = Raw
    <3>1. Raw \in Cell
      BY DEF Cell
    <3> QED
      BY ZenonT(60), <3>1, <1>2, TimesIs
  <2> DEFINE c == Times(cap, Raw)
             l == Len(s)
             t == merged.threw
  <2>2. l \in Int /\ l \in Nat /\ t \in BOOLEAN
    BY <1>1, <1>5
  <2>3. m = [cells |-> c, first |-> at, last |-> at, left |-> l, threw |-> t]
    BY <1>4
  <2> HIDE DEF c, l, t
  <2>4. /\ m \in [cells : Seq(Cell), first : Nat, last : Nat, left : Int, threw : BOOLEAN]
        /\ m.cells = c /\ m.first = at /\ m.last = at /\ m.left \in Nat
    BY <2>1, <2>2, <2>3, <1>1 DEF c
  <2>5. Len(<<>>) = 0 /\ at + 0 = at /\ \A i : i \notin 1..0
    BY <1>1
  <2> QED
    BY <2>1, <2>4, <2>5 DEF Ready, Contains, c
<1>7. m.left = Len(s) /\ m.threw = merged.threw
  BY <1>4
<1>8. Ready(filled, at, s, cap) /\ ~filled.threw
  <2>1. ~m.threw
    BY <1>3, <1>7
  <2>2. /\ filled.threw => Len(s) > m.left
        /\ ~filled.threw => Ready(filled, at, s, cap)
    BY <2>1, <1>1, <1>2, <1>6, BufferConstructIs
  <2> HIDE DEF filled
  <2> QED
    BY <2>2, <1>1, <1>7
<1> HIDE DEF filled
<1>9. Contains(v, at, s, cap)
  <2>1. filled \in [cells : Seq(Cell), first : Nat, last : Nat, left : Int, threw : BOOLEAN]
    BY <1>8 DEF Ready
  <2>2. v.cells = filled.cells /\ v.first = filled.first /\ v.last = filled.last
    BY <2>1
  <2> QED
    BY <2>2, <1>8 DEF Ready, Contains
<1>10. /\ Whole(d) /\ d.size = o.size /\ Keeps(q, d)
  BY <1>1, DestructAtEndIs
<1> HIDE DEF v, d
<1>11. /\ Held(r)
       /\ ~r.threw => Spliced(r, d, at, 0, s)
       /\ r.threw => r = Throw(d) \/ r = Throw(DestructAtEnd(d, at))
  <2>1. d.size + Len(s) <= cap /\ at \in 0..d.size
    BY <1>1, <1>2, <1>10
  <2> DEFINE t == SwapOut(d, v, at)
             back == [v EXCEPT !.left = Relocated(v, d.size - at)]
  <2>2. /\ Held(t)
        /\ ~t.threw => Spliced(t, d, at, 0, s)
        /\ t.threw => \/ t = Throw(d)
                      \/ /\ t = Throw(DestructAtEnd(d, at))
                         /\ ~v.threw /\ Relocates(v, d.size - at)
                         /\ ~Relocates(back, at)
    BY <2>1, <1>2, <1>9, <1>10, SwapOutHeld
  <2> HIDE DEF t, back
  <2>3. t.threw => t = Throw(d) \/ t = Throw(DestructAtEnd(d, at))
    BY <2>2
  <2> QED
    BY <2>2, <2>3 DEF t
<1>12. r.threw => r.size <= o.size
  <2>1. Throw(d).size = o.size
    BY <1>10, ThrowIs
  <2>2. Throw(DestructAtEnd(d, at)).size = at
    <3>1. at \in 0..d.size
      BY <1>10
    <3>2. Whole(DestructAtEnd(d, at)) /\ DestructAtEnd(d, at).size = at
      BY <3>1, <1>10, DestructAtEndIs
    <3> QED
      BY <3>2, ThrowIs
  <2> HIDE DEF r
  <2> QED
    BY <2>1, <2>2, <1>1, <1>11
<1> HIDE DEF r
<1>13. \A i \in 1..o.size : d.cells[i] = o.cells[i]
  <2>1. \A i \in 1..o.size : d.cells[i] = q.cells[i] /\ q.cells[i] = o.cells[i]
    BY <1>10 DEF Keeps
  <2> QED
    BY <2>1
<1>14. ~r.threw => Spliced(r, o, at, 0, s)
  <2> SUFFICES ASSUME ~r.threw PROVE Spliced(r, o, at, 0, s)
    OBVIOUS
  <2> DEFINE sz == o.size
             n == Len(s)
  <2>1. /\ r.size = sz - 0 + n
        /\ \A i \in 1..r.size : r.cells[i] = IF i <= at THEN d.cells[i]
                                             ELSE IF i <= at + n THEN s[i - at] ELSE d.cells[i - n + 0]
    BY <1>10, <1>11 DEF Spliced
  <2>2. sz \in Nat /\ n \in Nat /\ at \in 0..sz
    BY <1>1
  <2>3. \A i \in 1..sz : d.cells[i] = o.cells[i]
    BY <1>13
  <2> HIDE DEF sz, n
  <2>4. ASSUME NEW i \in 1..r.size
        PROVE  r.cells[i] = IF i <= at THEN o.cells[i]
                            ELSE IF i <= at + n THEN s[i - at] ELSE o.cells[i - n + 0]
    <3>1. (i <= at => i \in 1..sz) /\ (~(i <= at) /\ ~(i <= at + n) => i - n + 0 \in 1..sz)
      BY <2>1, <2>2
    <3> QED
      BY <3>1, <2>1, <2>3
  <2> QED
    BY <2>1, <2>4 DEF Spliced, sz, n
<1> QED
  BY <1>11, <1>14, <1>12 DEF r, d, v, filled, m, merged, cap

\* An insertion that threw had filled the spare cells, and had more to insert.
Tore(q, o, s) ==
  q.threw /\ o.size < Len(o.cells) /\ Len(s) > Len(o.cells) - o.size /\ q.size = Len(o.cells)

\* It counts all cells, and destroyed those behind the elements of o.
Torn(q, o) ==
  /\ q.cells \in Seq(Cell) /\ Len(q.cells) = Len(o.cells) /\ q.size = Len(o.cells)
  /\ \A i \in 1..Len(q.cells) : q.cells[i] = Raw <=> i > o.size

LEMMA InsertInputIs ==
  ASSUME CellsAssumption, NEW o, Whole(o), ~o.threw, NEW at \in 0..o.size, NEW s \in Seq(Item)
  PROVE  LET q == InsertInput(o, at, s)
         IN  IF Tore(q, o, s) THEN Torn(q, o) ELSE Does(q, o, at, 0, s, FALSE)
<1> DEFINE spare == Lesser(Len(o.cells) - o.size, Len(s))
           rest == Len(s) - spare
           u == SubSeq(s, 1, spare)
           b == ConstructAtEnd(o, u)
           v == BufferConstructAll(Buffer(0, 0, b.left), SubSeq(s, spare + 1, Len(s)))
           merged == Buffer(Recommend(b, b.size + rest), at, v.left)
           filled == BufferConstruct([merged EXCEPT !.left = Len(s)], s)
           paid == Relocated(merged, spare)
           Guarded == Throw([b EXCEPT !.cells = Put(@, o.size, Times(spare, Raw))])
           left1 == Relocated([left |-> paid], rest)
           r == SwapOut(DestructAtEnd(b, o.size), [filled EXCEPT !.left = left1], at)
           m == CASE v.threw \/ b.size + rest > MaxSize -> Guarded
                  [] ~v.threw /\ b.size + rest <= MaxSize
                       /\ (merged.threw \/ ~Relocates(merged, spare)) -> Guarded
                  [] OTHER -> IF ~Relocates([left |-> paid], rest)
                              THEN Throw(DestructAtEnd(b, o.size)) ELSE r
           q == InsertInput(o, at, s)
<1>1. q = IF b.threw THEN b ELSE IF rest = 0 THEN Rotate(b, at, o.size) ELSE m
  BY DEF InsertInput, Then
<1>2. /\ o.size \in Nat /\ Len(o.cells) \in Nat /\ o.size <= Len(o.cells) /\ Len(s) \in Nat
      /\ Len(o.cells) - o.size \in Nat
  BY WholeIs, SeqIs
<1> HIDE DEF q, m
<1>3. /\ spare \in 0..Len(s) /\ spare <= Len(o.cells) - o.size
      /\ (spare = Len(o.cells) - o.size \/ spare = Len(s))
  BY <1>2, LesserIs
<1> HIDE DEF spare
<1>4. /\ u \in Seq(Item) /\ Len(u) = spare /\ \A i \in 1..spare : u[i] = s[i]
  <2> DEFINE one == 1
  <2>1. one \in 1..(Len(s) + 1) /\ spare \in (one - 1)..Len(s) /\ spare - one + 1 = spare
        /\ \A i \in 1..spare : one + i - 1 = i
    BY <1>2, <1>3
  <2> HIDE DEF one
  <2>2. /\ SubSeq(s, one, spare) \in Seq(Item) /\ Len(SubSeq(s, one, spare)) = spare - one + 1
        /\ \A i \in 1..(spare - one + 1) : SubSeq(s, one, spare)[i] = s[one + i - 1]
    BY <2>1, PieceIs
  <2>3. u = SubSeq(s, one, spare)
    BY DEF one
  <2> HIDE DEF u
  <2> QED
    BY <2>1, <2>2, <2>3
<1> HIDE DEF u
<1>5. /\ Whole(b) /\ Keeps(b, o) /\ Len(b.cells) = Len(o.cells)
      /\ b.threw => b.size < o.size + spare
      /\ ~b.threw => Spliced(b, o, o.size, 0, u)
  <2>1. o.size + Len(u) <= Len(o.cells)
    BY <1>2, <1>3, <1>4
  <2> QED
    BY <2>1, <1>4, ConstructAtEndIs
<1> HIDE DEF b
<1>6. b.size \in Nat /\ b.threw \in BOOLEAN /\ Held(b) /\ b \in Progress /\ o.size \in 0..b.size
  BY <1>2, <1>5, WholeIs, WholeIsHeld DEF Keeps
<1> SUFFICES IF Tore(q, o, s) THEN Torn(q, o) ELSE Held(q) /\ (~q.threw => Spliced(q, o, at, 0, s))
  BY DEF Does, q
<1>7. CASE b.threw
  <2>1. q = b
    BY <1>1, <1>7
  <2>2. b.size < Len(o.cells)
    BY <1>2, <1>3, <1>5, <1>6, <1>7
  <2> QED
    BY <2>1, <2>2, <1>2, <1>6, <1>7 DEF Tore
<1>8. CASE ~b.threw /\ rest = 0
  <2>1. q = Rotate(b, at, o.size)
    BY <1>1, <1>8
  <2>2. ~Tore(q, o, s)
    BY <1>2, <1>3, <1>8 DEF Tore
  <2>3. CASE q.threw
    <3>1. q = Throw(b)
      <4> DEFINE c == Put(b.cells, at, SubSeq(b.cells, o.size + 1, b.size) \o SubSeq(b.cells, at + 1, o.size))
      <4>1. q = Throw(b) \/ q = [b EXCEPT !.cells = c]
        BY <2>1 DEF Rotate
      <4> HIDE DEF c
      <4>2. [b EXCEPT !.cells = c].threw = b.threw
        BY <1>6 DEF Progress
      <4> QED
        BY <4>1, <4>2, <2>3, <1>8
    <3> QED
      BY <3>1, <2>2, <2>3, <1>5, ThrowIs, WholeIsHeld
  <2>4. CASE ~q.threw
    <3>1. Len(s) = Len(u) /\ Len(u) \in Nat /\ \A i \in 1..Len(u) : s[i] = u[i]
      BY <1>2, <1>3, <1>4, <1>8
    <3>2. Spliced(b, o, o.size, 0, s)
      BY <3>1, <1>2, <1>5, <1>8, SplicedAtEnd
    <3> QED
      BY <3>2, <2>1, <2>2, <2>4, <1>5, <1>8, RotateIs
  <2> QED
    BY <2>3, <2>4
<1>9. CASE ~b.threw /\ rest # 0
  <2> DEFINE d == DestructAtEnd(b, o.size)
             lost == Throw(d)
  <2>1. q = m
    BY <1>1, <1>9
  <2>2. /\ rest \in Nat /\ MaxSize \in Nat /\ spare = Len(o.cells) - o.size /\ Len(s) > spare
        /\ b.size = Len(o.cells) /\ b.size = o.size + spare /\ b.size + rest = o.size + Len(s)
    <3>1. b.size = o.size - 0 + spare
      BY <1>4, <1>5, <1>9 DEF Spliced
    <3> QED
      BY SMTT(30), <3>1, <1>2, <1>3, <1>9 DEF CellsAssumption
  <2>3. Whole(d) /\ Len(d.cells) = Len(o.cells) /\ d.size = o.size
    BY <1>5, <1>6, DestructAtEndIs
  <2>4. Held(d) /\ \A i \in 1..Len(d.cells) : d.cells[i] = Raw <=> i > o.size
    BY <2>3, WholeIsHeld DEF Whole
  <2>5. Guarded.cells = d.cells /\ Guarded.size = b.size /\ Guarded.threw = TRUE
    <3> DEFINE p == Put(b.cells, o.size, Times(spare, Raw))
    <3>1. b.size - o.size = spare
      BY <2>2, <1>2, <1>6
    <3>2. Guarded = Throw([b EXCEPT !.cells = p]) /\ d = [b EXCEPT !.cells = p, !.size = o.size]
      BY <3>1 DEF DestructAtEnd
    <3> HIDE DEF p, d, Guarded
    <3> QED
      BY <3>2, <1>6 DEF Throw, Progress
  <2>6. Held(lost) /\ lost.threw = TRUE /\ lost.size = o.size
    BY <2>3, ThrowIs, WholeIsHeld
  <2>7. m = Guarded \/ m = lost \/ (m = r /\ ~merged.threw /\ b.size + rest <= MaxSize)
    <3> DEFINE first == v.threw \/ b.size + rest > MaxSize
               second == ~v.threw /\ b.size + rest <= MaxSize /\ (merged.threw \/ ~Relocates(merged, spare))
               move == Relocates([left |-> paid], rest)
    <3>1. m = CASE first -> Guarded [] second -> Guarded [] OTHER -> IF ~move THEN lost ELSE r
      BY DEF m
    <3>2. (first => ~second) /\ (~first /\ ~second => ~merged.threw /\ b.size + rest <= MaxSize)
      BY <2>2, <1>6
    <3> HIDE DEF first, second, move, Guarded, r, lost, merged
    <3> QED
      BY <3>1, <3>2
  <2>8. CASE m = Guarded
    <3> HIDE DEF Guarded, d
    <3>1. CASE o.size < Len(o.cells)
      <4>1. Tore(q, o, s)
        BY <3>1, <2>1, <2>2, <2>5, <2>8 DEF Tore
      <4>2. Torn(q, o)
        BY <2>1, <2>2, <2>3, <2>4, <2>5, <2>8 DEF Torn, Held
      <4> QED
        BY <4>1, <4>2
    <3>2. CASE o.size = Len(o.cells)
      <4>1. ~Tore(q, o, s)
        BY <3>2, <1>2 DEF Tore
      <4>2. Held(q)
        BY <3>2, <2>1, <2>2, <2>3, <2>4, <2>5, <2>8 DEF Held
      <4> QED
        BY <4>1, <4>2, <2>1, <2>5, <2>8
    <3> QED
      BY <3>1, <3>2, <1>2
  <2>9. CASE m = lost
    <3> HIDE DEF lost, d
    <3>1. ~Tore(q, o, s)
      BY <2>1, <2>6, <2>9, <1>2 DEF Tore
    <3> QED
      BY <3>1, <2>1, <2>6, <2>9
  <2>10. CASE m = r /\ ~merged.threw /\ b.size + rest <= MaxSize
    <3> DEFINE left0 == v.left
    <3>1. ~Buffer(Recommend(b, b.size + rest), at, left0).threw
      BY <2>10
    <3>2. r = SwapOut(DestructAtEnd(b, o.size),
                      [BufferConstruct([Buffer(Recommend(b, b.size + rest), at, left0) EXCEPT !.left = Len(s)], s)
                         EXCEPT !.left = left1], at)
      OBVIOUS
    <3>3. b.size >= o.size
      BY <1>2, <1>6
    <3> HIDE DEF r, left0, left1, rest, lost, d, Guarded
    <3>4. /\ Held(r)
          /\ ~r.threw => Spliced(r, o, at, 0, s)
          /\ r.threw => r.size <= o.size
      BY <3>1, <3>2, <3>3, <2>2, <2>10, <1>5, MergeIs
    <3>5. ~Tore(q, o, s)
      BY <3>4, <2>1, <2>10, <1>2 DEF Tore, Held
    <3> QED
      BY <3>4, <3>5, <2>1, <2>10
  <2> HIDE DEF Guarded, lost, r, merged, rest
  <2> QED
    BY <2>7, <2>8, <2>9, <2>10
<1> QED
  BY <1>6, <1>7, <1>8, <1>9

-----------------------------------------------------------------------------
(* Operations that replace all elements. *)

\* The elements are those of s.
Has(q, s) == q.size = Len(s) /\ \A i \in 1..Len(s) : q.cells[i] = s[i]

LEMMA HasDoes ==
  ASSUME NEW o, Whole(o), NEW q, Held(q), NEW s, Len(s) \in Nat, ~q.threw => Has(q, s)
  PROVE  Does(q, o, 0, o.size, s, FALSE)
<1> DEFINE sz == o.size
           n == Len(s)
<1>1. sz \in Nat /\ n \in Nat
  BY WholeIs
<1>2. ASSUME ~q.threw PROVE Spliced(q, o, 0, o.size, s)
  <2>1. q.size = n /\ \A i \in 1..n : q.cells[i] = s[i]
    BY <1>2 DEF Has
  <2> HIDE DEF sz, n
  <2>2. q.size = sz - sz + n
    BY <2>1, <1>1
  <2>3. ASSUME NEW i \in 1..q.size
        PROVE  q.cells[i] = IF i <= 0 THEN o.cells[i] ELSE IF i <= 0 + n THEN s[i - 0] ELSE o.cells[i - n + sz]
    <3>1. i \in 1..n /\ ~(i <= 0) /\ i <= 0 + n /\ i - 0 = i
      BY <2>1, <1>1
    <3> QED
      BY <3>1, <2>1
  <2> QED
    BY <2>2, <2>3 DEF Spliced, sz, n
<1> QED
  BY <1>2 DEF Does

\* A container without elements.
LEMMA NoneIs ==
  ASSUME CellsAssumption, NEW left \in Int, NEW threw \in BOOLEAN, ~threw => left \in Nat
  PROVE  Whole([cells |-> <<>>, size |-> 0, left |-> left, threw |-> threw])
<1> DEFINE o == [cells |-> <<>>, size |-> 0, left |-> left, threw |-> threw]
<1>1. <<>> \in Seq(Cell) /\ Len(<<>>) = 0 /\ MaxSize \in Nat
  BY DEF CellsAssumption
<1>2. o \in Progress /\ o.left = left /\ o.threw = threw /\ o.size = 0 /\ o.cells = <<>>
  BY <1>1 DEF Progress
<1> HIDE DEF o
<1>3. \A i : i \notin 1..0
  OBVIOUS
<1>4. Whole(o)
  BY <1>1, <1>2, <1>3 DEF Whole
<1> QED
  BY <1>4 DEF o

LEMMA FreshIs ==
  ASSUME NEW cap \in Nat, cap <= MaxSize, NEW left \in Nat
  PROVE  Whole([cells |-> Times(cap, Raw), size |-> 0, left |-> left, threw |-> FALSE])
<1> DEFINE c == Times(cap, Raw)
           o == [cells |-> c, size |-> 0, left |-> left, threw |-> FALSE]
<1>1. c \in Seq(Cell) /\ Len(c) = cap /\ \A i \in 1..cap : c[i] = Raw
  <2>1. Raw \in Cell
    BY DEF Cell
  <2> QED
    BY <2>1, TimesIs
<1> HIDE DEF c
<1>2. o \in Progress /\ o.left = left /\ o.threw = FALSE /\ o.size = 0 /\ o.cells = c
  BY <1>1 DEF Progress
<1> HIDE DEF o
<1>3. \A i \in 1..cap : i > 0
  OBVIOUS
<1>4. Whole(o)
  BY <1>1, <1>2, <1>3 DEF Whole
<1> QED
  BY <1>4 DEF o, c

\* What was constructed behind elements that are the first ones of s.
LEMMA AppendedHas ==
  ASSUME NEW o, Whole(o), NEW s \in Seq(Item), o.size <= Len(s), \A i \in 1..o.size : o.cells[i] = s[i],
         NEW q, Spliced(q, o, o.size, 0, SubSeq(s, o.size + 1, Len(s)))
  PROVE  Has(q, s)
<1> DEFINE sz == o.size
           n == Len(s)
           u == SubSeq(s, sz + 1, n)
<1>1. sz \in Nat /\ n \in Nat /\ sz <= n
  BY WholeIs, SeqIs
<1>2. Len(u) = n - sz /\ \A i \in 1..(n - sz) : u[i] = s[sz + i]
  <2> DEFINE m == sz + 1
  <2> HIDE DEF sz, n
  <2>1. m \in 1..(n + 1) /\ n \in (m - 1)..n /\ n - m + 1 = n - sz /\ \A i \in 1..(n - sz) : m + i - 1 = sz + i
    BY <1>1
  <2> HIDE DEF m
  <2>2. /\ Len(SubSeq(s, m, n)) = n - m + 1
        /\ \A i \in 1..(n - m + 1) : SubSeq(s, m, n)[i] = s[m + i - 1]
    BY <2>1, PieceIs DEF n
  <2>3. u = SubSeq(s, m, n)
    BY DEF m
  <2> HIDE DEF u
  <2> QED
    BY <2>1, <2>2, <2>3
<1>3. /\ q.size = sz - 0 + Len(u)
      /\ \A i \in 1..q.size : q.cells[i] = IF i <= sz THEN o.cells[i]
                                           ELSE IF i <= sz + Len(u) THEN u[i - sz] ELSE o.cells[i - Len(u) + 0]
  BY DEF Spliced
<1>4. \A i \in 1..sz : o.cells[i] = s[i]
  OBVIOUS
<1> HIDE DEF sz, n, u
<1>5. q.size = n
  BY <1>1, <1>2, <1>3
<1>6. ASSUME NEW i \in 1..n PROVE q.cells[i] = s[i]
  <2>1. CASE i <= sz
    <3>1. i \in 1..sz
      BY <2>1, <1>1
    <3> QED
      BY <2>1, <3>1, <1>3, <1>4, <1>5
  <2>2. CASE ~(i <= sz)
    <3>1. i - sz \in 1..(n - sz) /\ i <= sz + Len(u) /\ sz + (i - sz) = i
      BY <2>2, <1>1, <1>2
    <3> QED
      BY <2>2, <3>1, <1>2, <1>3, <1>5
  <2> QED
    BY <2>1, <2>2
<1> QED
  BY <1>5, <1>6 DEF Has, n

LEMMA MadeHas ==
  ASSUME NEW o, Whole(o), o.size = 0, NEW s \in Seq(Item), NEW q, Spliced(q, o, o.size, 0, s)
  PROVE  Has(q, s)
<1> DEFINE n == Len(s)
<1>1. /\ q.size = 0 - 0 + n
      /\ \A i \in 1..q.size : q.cells[i] = IF i <= 0 THEN o.cells[i]
                                           ELSE IF i <= 0 + n THEN s[i - 0] ELSE o.cells[i - n + 0]
  BY DEF Spliced
<1>2. n \in Nat
  BY SeqIs
<1> HIDE DEF n
<1>3. q.size = n
  BY <1>1, <1>2
<1>4. ASSUME NEW i \in 1..n PROVE q.cells[i] = s[i]
  <2>1. ~(i <= 0) /\ i <= 0 + n /\ i - 0 = i
    BY <1>2
  <2> QED
    BY <2>1, <1>1, <1>3
<1> QED
  BY <1>3, <1>4 DEF Has, n

LEMMA ConstructIs ==
  ASSUME CellsAssumption, NEW o, Whole(o), ~o.threw,
         NEW s \in Seq(Item), o.size + Len(s) <= Len(o.cells), NEW counted
  PROVE  LET q == Construct(o, s, counted)
         IN  Whole(q) /\ (~q.threw => Spliced(q, o, o.size, 0, s))
<1>1. LET q == ConstructAtEnd(o, s) IN Whole(q) /\ (~q.threw => Spliced(q, o, o.size, 0, s))
  BY ConstructAtEndIs
<1>2. LET q == ConstructRange(o, s) IN Whole(q) /\ (~q.threw => Spliced(q, o, o.size, 0, s))
  BY ConstructRangeIs
<1> QED
  BY <1>1, <1>2 DEF Construct

LEMMA RenewIs ==
  ASSUME CellsAssumption, NEW o, Whole(o), ~o.threw, NEW s \in Seq(Item), NEW counted
  PROVE  LET q == Renew(o, s, counted) IN Whole(q) /\ (~q.threw => Has(q, s))
<1> DEFINE none == [o EXCEPT !.cells = <<>>, !.size = 0]
           cap == Recommend(none, Len(s))
           fresh == [none EXCEPT !.cells = Times(cap, Raw), !.left = @ - 1]
           q == Renew(o, s, counted)
<1>1. o \in Progress /\ o.left \in Nat /\ o.threw = FALSE /\ Len(s) \in Nat /\ MaxSize \in Nat
  <2>1. o.threw \in BOOLEAN
    BY WholeIs
  <2> QED
    BY <2>1, WholeIs, SeqIs DEF CellsAssumption, Whole
<1>2. none = [cells |-> <<>>, size |-> 0, left |-> o.left, threw |-> o.threw]
  <2> DEFINE c == <<>>
             z == 0
  <2>1. none = [o EXCEPT !.cells = c, !.size = z]
    OBVIOUS
  <2> HIDE DEF c, z, none
  <2>2. none = [cells |-> c, size |-> z, left |-> o.left, threw |-> o.threw]
    BY <2>1, <1>1 DEF Progress
  <2> QED
    BY <2>2 DEF c, z
<1>3. Whole(none)
  <2> HIDE DEF none
  <2>1. o.left \in Int /\ o.threw \in BOOLEAN /\ (~o.threw => o.left \in Nat)
    BY <1>1, WholeIs
  <2> QED
    BY <2>1, <1>2, NoneIs
<1>4. CASE Len(s) > MaxSize \/ o.left = 0
  <2>1. q = Throw(none)
    BY <1>4 DEF Renew
  <2> HIDE DEF none, q
  <2> QED
    BY <2>1, <1>3, ThrowIs DEF q
<1>5. CASE ~(Len(s) > MaxSize \/ o.left = 0)
  <2>1. q = Construct(fresh, s, counted)
    BY <1>5 DEF Renew
  <2>2. fresh = [cells |-> Times(cap, Raw), size |-> 0, left |-> o.left - 1, threw |-> FALSE]
    <3> HIDE DEF none, cap
    <3>1. none.left = o.left /\ none.threw = o.threw
      BY <1>2
    <3>2. fresh = [cells |-> Times(cap, Raw), size |-> 0, left |-> o.left - 1, threw |-> o.threw]
      <4> DEFINE c == <<>>
                 z == 0
                 l == o.left - 1
                 t == Times(cap, Raw)
      <4>1. none = [cells |-> c, size |-> z, left |-> o.left, threw |-> o.threw]
        BY <1>2
      <4>2. fresh = [none EXCEPT !.cells = t, !.left = l]
        BY <3>1
      <4> HIDE DEF c, z, l, t, fresh
      <4>3. fresh = [cells |-> t, size |-> z, left |-> l, threw |-> o.threw]
        BY <4>1, <4>2
      <4> QED
        BY <4>3 DEF l, t, z
    <3> QED
      BY <3>2, <1>1
  <2> HIDE DEF q, none, fresh
  <2>3. cap \in Nat /\ cap >= Len(s) /\ cap <= MaxSize
    <3>1. Held(none)
      BY <1>3, WholeIsHeld
    <3>2. Len(s) <= MaxSize
      BY <1>1, <1>5
    <3> QED
      BY <3>1, <3>2, <1>1, RecommendIs
  <2> HIDE DEF cap
  <2>4. Whole(fresh)
    <3>1. o.left - 1 \in Nat
      BY <1>1, <1>5
    <3> QED
      BY <3>1, <2>2, <2>3, FreshIs
  <2>5. fresh.size = 0 /\ fresh.threw = FALSE /\ Len(fresh.cells) = cap
    <3>1. Raw \in Cell
      BY DEF Cell
    <3> QED
      BY <3>1, <2>2, <2>3, TimesIs
  <2>6. fresh.size + Len(s) <= Len(fresh.cells)
    BY <2>3, <2>5, <1>1
  <2>7. Whole(q) /\ (~q.threw => Spliced(q, fresh, fresh.size, 0, s))
    BY <2>1, <2>4, <2>5, <2>6, ConstructIs
  <2> QED
    BY <2>4, <2>5, <2>7, MadeHas DEF q
<1> QED
  BY <1>4, <1>5

\* The first of s were written over elements.
LEMMA OverwrittenIs ==
  ASSUME CellsAssumption, NEW o, Whole(o), ~o.threw, NEW s \in Seq(Item)
  PROVE  LET r == Write(o, 0, SubSeq(s, 1, Lesser(o.size, Len(s))))
         IN  /\ Whole(r) /\ r.size = o.size /\ Len(r.cells) = Len(o.cells)
             /\ ~r.threw => \A i \in 1..Lesser(o.size, Len(s)) : r.cells[i] = s[i]
<1> DEFINE m == Lesser(o.size, Len(s))
           t == SubSeq(s, 1, m)
           r == Write(o, 0, t)
<1>1. o.size \in Nat /\ Len(s) \in Nat
  BY WholeIs, SeqIs
<1>2. m \in 0..Len(s) /\ m <= o.size
  BY <1>1, LesserIs
<1> HIDE DEF m
<1>3. t \in Seq(Item) /\ Len(t) = m /\ \A i \in 1..m : t[i] = s[i]
  <2> DEFINE one == 1
  <2>1. one \in 1..(Len(s) + 1) /\ m \in (one - 1)..Len(s) /\ m - one + 1 = m /\ \A i \in 1..m : one + i - 1 = i
    BY <1>1, <1>2
  <2> HIDE DEF one
  <2>2. /\ SubSeq(s, one, m) \in Seq(Item) /\ Len(SubSeq(s, one, m)) = m - one + 1
        /\ \A i \in 1..(m - one + 1) : SubSeq(s, one, m)[i] = s[one + i - 1]
    BY <2>1, PieceIs
  <2>3. t = SubSeq(s, one, m)
    BY DEF one
  <2> HIDE DEF t
  <2> QED
    BY <2>1, <2>2, <2>3
<1> HIDE DEF t
<1> DEFINE z == 0
<1>4. WroteOver(Write(o, z, t), o, z, t)
  <2>1. z \in Nat /\ z + Len(t) <= o.size
    BY <1>1, <1>2, <1>3
  <2> HIDE DEF z
  <2> QED
    BY <2>1, <1>3, WriteOverIs
<1>5. WroteOver(r, o, 0, t)
  BY <1>4
<1> HIDE DEF r
<1>6. ASSUME ~r.threw, NEW i \in 1..m PROVE r.cells[i] = s[i]
  <2>1. i \in 1..o.size /\ i - 0 = i /\ i \in 1..Len(t)
    BY <1>1, <1>2, <1>3
  <2>2. r.cells[i] = t[i - 0]
    BY <2>1, <1>5, <1>6 DEF WroteOver
  <2> QED
    BY <2>1, <2>2, <1>3
<1> QED
  BY <1>5, <1>6 DEF WroteOver, r, t, m

LEMMA CutHas ==
  ASSUME NEW o, Whole(o), ~o.threw, NEW s, Len(s) \in 0..o.size, \A i \in 1..Len(s) : o.cells[i] = s[i]
  PROVE  LET q == DestructAtEnd(o, Len(s)) IN Whole(q) /\ Has(q, s)
<1> DEFINE n == Len(s)
           q == DestructAtEnd(o, n)
<1>1. Whole(q) /\ q.size = n /\ Keeps(o, q)
  BY DestructAtEndIs
<1> HIDE DEF q
<1>2. \A i \in 1..n : q.cells[i] = o.cells[i]
  BY <1>1 DEF Keeps
<1> QED
  BY <1>1, <1>2 DEF Has, q

LEMMA AssignSizedIs ==
  ASSUME CellsAssumption, NEW o, Whole(o), ~o.threw, NEW s \in Seq(Item), NEW counted
  PROVE  Does(AssignSized(o, s, counted), o, 0, o.size, s, FALSE)
<1> DEFINE q == AssignSized(o, s, counted)
           r == Write(o, 0, SubSeq(s, 1, Lesser(o.size, Len(s))))
           rest == SubSeq(s, o.size + 1, Len(s))
<1>1. o.size \in Nat /\ Len(s) \in Nat /\ Len(o.cells) \in Nat /\ o.size <= Len(o.cells)
  BY WholeIs, SeqIs
<1>2. CASE Len(s) > Len(o.cells)
  <2>1. q = Renew(o, s, counted)
    BY <1>2 DEF AssignSized
  <2> HIDE DEF q
  <2>2. Whole(q) /\ (~q.threw => Has(q, s))
    BY <2>1, RenewIs
  <2>3. Does(q, o, 0, o.size, s, FALSE)
    BY <2>2, <1>1, HasDoes, WholeIsHeld
  <2> QED
    BY <2>3 DEF q
<1>3. CASE ~(Len(s) > Len(o.cells))
  <2>1. q = IF r.threw THEN r ELSE IF Len(s) > o.size THEN Construct(r, rest, counted)
            ELSE DestructAtEnd(r, Len(s))
    BY <1>3 DEF AssignSized, Then
  <2>2. /\ Whole(r) /\ r.size = o.size /\ Len(r.cells) = Len(o.cells)
        /\ ~r.threw => \A i \in 1..Lesser(o.size, Len(s)) : r.cells[i] = s[i]
    BY OverwrittenIs
  <2> HIDE DEF q, r
  <2>3. CASE r.threw
    <3>1. Does(q, o, 0, o.size, s, FALSE)
      BY <2>1, <2>2, <2>3, <1>1, HasDoes, WholeIsHeld
    <3> QED
      BY <3>1 DEF q
  <2>4. CASE ~r.threw /\ Len(s) > o.size
    <3>1. /\ Lesser(o.size, Len(s)) = o.size /\ o.size <= Len(s)
          /\ rest \in Seq(Item) /\ r.size + Len(rest) <= Len(r.cells)
      <4>1. Lesser(o.size, Len(s)) = o.size /\ o.size <= Len(s)
        BY <2>4, <1>1 DEF Lesser
      <4> DEFINE m == o.size + 1
                 n == Len(s)
      <4>2. n \in Nat /\ m \in 1..(n + 1) /\ n \in (m - 1)..n /\ o.size + (n - m + 1) = n
        <5> DEFINE sz == o.size
        <5>1. sz \in Nat /\ n \in Nat /\ sz <= n
          BY <4>1, <1>1
        <5> HIDE DEF sz, n
        <5>2. sz + 1 \in 1..(n + 1) /\ n \in ((sz + 1) - 1)..n /\ sz + (n - (sz + 1) + 1) = n
          BY <5>1
        <5> QED
          BY <5>1, <5>2 DEF sz
      <4>3. n <= Len(o.cells)
        BY <1>1, <1>3
      <4> HIDE DEF m
      <4>4. SubSeq(s, m, n) \in Seq(Item) /\ Len(SubSeq(s, m, n)) = n - m + 1
        BY <4>2, PieceIs
      <4>5. rest = SubSeq(s, m, n)
        BY DEF m
      <4> HIDE DEF rest, n
      <4> QED
        BY <4>1, <4>2, <4>3, <4>4, <4>5, <2>2
    <3>2. q = Construct(r, rest, counted)
      BY <2>1, <2>4
    <3>3. rest = SubSeq(s, r.size + 1, Len(s))
      BY <2>2
    <3> HIDE DEF rest
    <3>4. Whole(q) /\ (~q.threw => Spliced(q, r, r.size, 0, rest))
      BY <2>2, <2>4, <3>1, <3>2, ConstructIs
    <3>5. ~q.threw => Has(q, s)
      BY <2>2, <2>4, <3>1, <3>3, <3>4, AppendedHas
    <3>6. Does(q, o, 0, o.size, s, FALSE)
      BY <3>4, <3>5, <1>1, HasDoes, WholeIsHeld
    <3> QED
      BY <3>6 DEF q
  <2>5. CASE ~r.threw /\ ~(Len(s) > o.size)
    <3>1. Lesser(o.size, Len(s)) = Len(s) /\ Len(s) \in 0..r.size
      BY <2>2, <2>5, <1>1 DEF Lesser
    <3>2. q = DestructAtEnd(r, Len(s))
      BY <2>1, <2>5
    <3>3. \A i \in 1..Len(s) : r.cells[i] = s[i]
      BY <2>2, <2>5, <3>1
    <3>4. Whole(q) /\ Has(q, s)
      BY <2>2, <2>5, <3>1, <3>2, <3>3, CutHas
    <3>5. Does(q, o, 0, o.size, s, FALSE)
      BY <3>4, <1>1, HasDoes, WholeIsHeld
    <3> QED
      BY <3>5 DEF q
  <2> QED
    BY <2>3, <2>4, <2>5
<1> QED
  BY <1>2, <1>3

\* An element is added, unless an earlier one was not.
AddsTo(p, q, x, V) ==
  /\ p \in V
  /\ q.threw => p = q
  /\ ~q.threw /\ ~p.threw => Spliced(p, q, q.size, 0, <<x>>)

Sized(V) == \A q \in V : q.size \in Nat

LEMMA AddsOne ==
  ASSUME NEW V, Sized(V), NEW q \in V, NEW p, NEW x, AddsTo(p, q, x, V),
         ~q.threw, ~p.threw
  PROVE  /\ p.size = q.size + 1
         /\ \A i \in 1..q.size : p.cells[i] = q.cells[i]
         /\ p.cells[q.size + 1] = x
<1> DEFINE sz == q.size
           t == <<x>>
<1>1. Len(t) = 1 /\ t[1] = x
  OBVIOUS
<1>2. Spliced(p, q, sz, 0, t)
  BY DEF AddsTo
<1>3. sz \in Nat
  BY DEF Sized
<1> HIDE DEF t
<1>4. /\ p.size = sz - 0 + 1
      /\ \A i \in 1..p.size : p.cells[i] = IF i <= sz THEN q.cells[i]
                                           ELSE IF i <= sz + 1 THEN t[i - sz] ELSE q.cells[i - 1 + 0]
  BY <1>1, <1>2 DEF Spliced
<1> HIDE DEF sz
<1>5. p.size = sz + 1 /\ (sz + 1) - sz = 1 /\ ~(sz + 1 <= sz) /\ sz + 1 <= sz + 1
      /\ sz + 1 \in 1..p.size /\ \A i \in 1..sz : i \in 1..p.size /\ i <= sz
  BY <1>3, <1>4
<1>6. p.size = sz + 1 /\ (\A i \in 1..sz : p.cells[i] = q.cells[i]) /\ p.cells[sz + 1] = x
  BY <1>1, <1>4, <1>5
<1> QED
  BY <1>6 DEF sz

\* Elements are added one after the other.
Pushes(g, o, s, V) ==
  g[0] = o /\ \A k \in 1..Len(s) : g[k - 1] \in V => AddsTo(g[k], g[k - 1], s[k], V)

LEMMA PushedIs ==
  ASSUME NEW V, Sized(V), NEW o \in V, NEW s \in Seq(Item), NEW g, Pushes(g, o, s, V)
  PROVE  g[Len(s)] \in V /\ (~g[Len(s)].threw => Spliced(g[Len(s)], o, o.size, 0, s))
<1> DEFINE n == Len(s)
           Done(q, k) ==
             /\ q \in V
             /\ ~q.threw => /\ q.size = o.size + k
                            /\ \A i \in 1..o.size : q.cells[i] = o.cells[i]
                            /\ \A i \in 1..k : q.cells[o.size + i] = s[i]
           S == {k \in Nat : k <= n => Done(g[k], k)}
<1>1. n \in Nat /\ \A i \in 1..n : s[i] \in Item
  BY SeqIs
<1>2. o.size \in Nat
  BY DEF Sized
<1> HIDE DEF n
<1>10. 0 \in S
  BY <1>1, <1>2 DEF Pushes
<1>11. ASSUME NEW m \in Nat, NEW q, NEW p, Done(q, m), AddsTo(p, q, s[m + 1], V)
       PROVE  Done(p, m + 1)
  <2> DEFINE sz == o.size
  <2>1. q \in V /\ p \in V /\ (q.threw => p = q)
    BY <1>11 DEF AddsTo
  <2>2. CASE q.threw
    BY <2>1, <2>2
  <2>3. CASE ~q.threw
    <3>1. ~p.threw => /\ p.size = q.size + 1
                      /\ \A i \in 1..q.size : p.cells[i] = q.cells[i]
                      /\ p.cells[q.size + 1] = s[m + 1]
      <4> DEFINE y == s[m + 1]
      <4>1. AddsTo(p, q, y, V)
        BY <1>11
      <4> HIDE DEF y
      <4>2. ASSUME ~p.threw
            PROVE  /\ p.size = q.size + 1
                   /\ \A i \in 1..q.size : p.cells[i] = q.cells[i]
                   /\ p.cells[q.size + 1] = y
        BY <4>1, <4>2, <2>1, <2>3, AddsOne
      <4> QED
        BY <4>2 DEF y
    <3>2. /\ q.size = sz + m
          /\ \A i \in 1..sz : q.cells[i] = o.cells[i]
          /\ \A i \in 1..m : q.cells[sz + i] = s[i]
      BY <2>3, <1>11
    <3>3. sz \in Nat
      BY <1>2
    <3> HIDE DEF sz
    <3>4. /\ sz + m + 1 = sz + (m + 1)
          /\ \A i \in 1..sz : i \in 1..(sz + m)
          /\ \A i \in 1..m : sz + i \in 1..(sz + m)
          /\ \A i \in 1..(m + 1) : i \in 1..m \/ i = m + 1
      BY <3>3
    <3>5. ASSUME ~p.threw
          PROVE  /\ p.size = sz + (m + 1)
                 /\ \A i \in 1..sz : p.cells[i] = o.cells[i]
                 /\ \A i \in 1..(m + 1) : p.cells[sz + i] = s[i]
      BY <3>1, <3>2, <3>4, <3>5
    <3> QED
      BY <2>1, <3>5 DEF sz
  <2> QED
    BY <2>2, <2>3
<1>12. n \in S
  <2>1. ASSUME NEW m \in S \cap Nat PROVE m + 1 \in S
    <3>1. CASE m + 1 <= n
      <4>1. m <= n /\ Done(g[m], m)
        BY <3>1, <2>1, <1>1
      <4>2. m + 1 \in 1..n /\ (m + 1) - 1 = m
        BY <3>1, <1>1
      <4>3. AddsTo(g[m + 1], g[m], s[m + 1], V)
        <5>1. g[m] \in V
          BY <4>1
        <5>2. AddsTo(g[m + 1], g[(m + 1) - 1], s[m + 1], V)
          BY <4>2, <5>1, Zenon DEF n, Pushes
        <5> QED
          BY <4>2, <5>2, Zenon
      <4> HIDE DEF Done
      <4>4. Done(g[m + 1], m + 1)
        BY <4>1, <4>3, <1>11
      <4> QED
        BY <4>4
    <3>2. CASE ~(m + 1 <= n)
      BY <3>2
    <3> QED
      BY <3>1, <3>2
  <2> HIDE DEF S
  <2>2. Nat \subseteq S
    BY <2>1, <1>10, Induction
  <2> QED
    BY <2>2, <1>1
<1> DEFINE q == g[n]
<1>13. Done(q, n)
  BY <1>12, <1>1
<1> HIDE DEF q
<1>14. ASSUME ~q.threw PROVE Spliced(q, o, o.size, 0, s)
  <2> DEFINE sz == o.size
  <2>1. /\ q.size = sz + n
        /\ \A i \in 1..sz : q.cells[i] = o.cells[i]
        /\ \A i \in 1..n : q.cells[sz + i] = s[i]
        /\ sz \in Nat
    BY <1>2, <1>13, <1>14
  <2> HIDE DEF sz
  <2>2. ASSUME NEW i \in 1..q.size
        PROVE  q.cells[i] = IF i <= sz THEN o.cells[i]
                            ELSE IF i <= sz + n THEN s[i - sz] ELSE o.cells[i - n + 0]
    <3>1. CASE i <= sz
      <4>1. i \in 1..sz
        BY <3>1, <2>1, <1>1
      <4> QED
        BY <3>1, <4>1, <2>1
    <3>2. CASE ~(i <= sz)
      <4>1. i - sz \in 1..n /\ sz + (i - sz) = i /\ i <= sz + n
        BY <3>2, <2>1, <1>1
      <4>2. q.cells[sz + (i - sz)] = s[i - sz]
        BY <4>1, <2>1
      <4> QED
        BY <3>2, <4>1, <4>2
    <3> QED
      BY <3>1, <3>2
  <2>3. q.size = sz - 0 + n
    BY <2>1, <1>1
  <2> QED
    BY <2>2, <2>3 DEF Spliced, sz, n
<1> QED
  BY <1>13, <1>14 DEF q, n

LEMMA PushAllIs ==
  ASSUME CellsAssumption, NEW o, Whole(o), ~o.threw, NEW s \in Seq(Item)
  PROVE  LET q == PushAll(o, s) IN Whole(q) /\ (~q.threw => Spliced(q, o, o.size, 0, s))
<1> DEFINE n == Len(s)
           V == {q \in Progress : Whole(q)}
           Add(q, k) == IF q.threw THEN q ELSE EmplaceBack(q, s[k])
           Def(g) == [k \in 0..n |-> IF k = 0 THEN o ELSE Add(g[k - 1], k)]
           pushed == CHOOSE g : g = Def(g)
           F == [k \in 1..n |-> [q \in V |-> Add(q, k)]]
<1>1. n \in Nat /\ \A i \in 1..n : s[i] \in Item
  BY SeqIs
<1>2. o \in V /\ o.size \in Nat
  BY WholeIs
<1> HIDE DEF n
<1>3. ASSUME NEW q, Whole(q), ~q.threw, NEW k \in 1..n
      PROVE  Whole(Add(q, k)) /\ (~Add(q, k).threw => Spliced(Add(q, k), q, q.size, 0, <<s[k]>>))
  <2> DEFINE y == s[k]
             p == EmplaceBack(q, y)
  <2>1. Add(q, k) = p
    BY <1>3
  <2>2. y \in Item \cup 1..q.size /\ y \in Item
    BY <1>1
  <2> HIDE DEF y
  <2>3. Deref(q, y) = y
    BY <2>2, <1>3, DerefIs
  <2>4. Does(p, q, q.size, 0, <<y>>, TRUE) /\ Whole(p)
    <3>1. Does(p, q, q.size, 0, <<Deref(q, y)>>, TRUE) /\ Whole(p)
      BY <2>2, <1>3, EmplaceBackIs
    <3> QED
      BY <2>3, <3>1
  <2> QED
    BY <2>1, <2>4 DEF Does, y
<1> HIDE DEF Add
<1>4. ASSUME NEW q \in V, NEW k \in 1..n PROVE Add(q, k) \in V
  <2>1. Whole(Add(q, k))
    BY <1>3 DEF Add
  <2> QED
    BY <2>1, WholeIs
<1>5. F \in [1..n -> [V -> V]] /\ \A k \in 1..n, q \in V : F[k][q] = Add(q, k)
  <2> HIDE DEF V
  <2> QED
    BY <1>4
<1> HIDE DEF V, F
<1>6. \E g : g = Def(g)
  <2>1. PICK g : IsDefinedTo(g, n, V, o, F)
    BY <1>1, <1>2, <1>5, RecursionTo
  <2>2. g \in [0..n -> V] /\ g = [k \in 0..n |-> IF k = 0 THEN o ELSE F[k][g[k - 1]]]
    BY <2>1 DEF IsDefinedTo
  <2>3. ASSUME NEW k \in 0..n, k # 0 PROVE F[k][g[k - 1]] = Add(g[k - 1], k)
    <3>1. k \in 1..n /\ k - 1 \in 0..n
      BY <2>3, <1>1
    <3> QED
      BY <3>1, <2>2, <1>5
  <2>4. g = [k \in 0..n |-> IF k = 0 THEN o ELSE Add(g[k - 1], k)]
    BY <2>2, <2>3
  <2> QED
    BY <2>4
<1>7. pushed = Def(pushed)
  <2> HIDE DEF Def
  <2> QED
    BY <1>6
<1>8. PushAll(o, s) = pushed[n]
  BY DEF PushAll, Then, Add, n
<1> HIDE DEF pushed
<1>9. pushed[0] = o /\ \A k \in 1..n : pushed[k] = Add(pushed[k - 1], k)
  BY <1>1, <1>7
<1>10. ASSUME NEW k \in 1..n, pushed[k - 1] \in V PROVE AddsTo(pushed[k], pushed[k - 1], s[k], V)
  <2> DEFINE q == pushed[k - 1]
             p == Add(q, k)
  <2>1. pushed[k] = p
    BY <1>9
  <2>2. p \in V /\ (~q.threw => Whole(q)) /\ (q.threw => p = q)
    BY <1>4, <1>10 DEF V, Add
  <2>3. ~q.threw => Whole(p) /\ (~p.threw => Spliced(p, q, q.size, 0, <<s[k]>>))
    BY <2>2, <1>3
  <2> HIDE DEF p, q
  <2>4. AddsTo(p, q, s[k], V)
    BY <2>2, <2>3 DEF AddsTo
  <2> QED
    BY <2>1, <2>4 DEF q
<1>11. pushed[n] \in V /\ (~pushed[n].threw => Spliced(pushed[n], o, o.size, 0, s))
  <2>1. Sized(V)
    BY WholeIs DEF V, Sized
  <2>2. Pushes(pushed, o, s, V)
    BY SMTT(30), <1>9, <1>10 DEF Pushes, n
  <2> QED
    BY <2>1, <2>2, <1>2, PushedIs DEF n
<1> QED
  BY <1>8, <1>11 DEF V

LEMMA RestIs ==
  ASSUME NEW s \in Seq(Item), NEW sz \in Nat, sz <= Len(s)
  PROVE  SubSeq(s, sz + 1, Len(s)) \in Seq(Item) /\ Len(SubSeq(s, sz + 1, Len(s))) = Len(s) - sz
<1> DEFINE n == Len(s)
           m == sz + 1
<1>1. n \in Nat
  BY SeqIs
<1> HIDE DEF n
<1>2. m \in 1..(n + 1) /\ n \in (m - 1)..n /\ n - m + 1 = n - sz
  BY <1>1 DEF n
<1> HIDE DEF m
<1>3. SubSeq(s, m, n) \in Seq(Item) /\ Len(SubSeq(s, m, n)) = n - m + 1
  BY <1>2, PieceIs DEF n
<1> QED
  BY <1>2, <1>3 DEF n, m

LEMMA AssignInputIs ==
  ASSUME CellsAssumption, NEW o, Whole(o), ~o.threw, NEW s \in Seq(Item)
  PROVE  Does(AssignInput(o, s), o, 0, o.size, s, FALSE)
<1> DEFINE q == AssignInput(o, s)
           r == Write(o, 0, SubSeq(s, 1, Lesser(o.size, Len(s))))
           rest == SubSeq(s, o.size + 1, Len(s))
<1>1. o.size \in Nat /\ Len(s) \in Nat
  BY WholeIs, SeqIs
<1>2. q = IF r.threw THEN r ELSE IF Len(s) <= o.size THEN DestructAtEnd(r, Len(s)) ELSE PushAll(r, rest)
  BY DEF AssignInput, Then
<1>3. /\ Whole(r) /\ r.size = o.size
      /\ ~r.threw => \A i \in 1..Lesser(o.size, Len(s)) : r.cells[i] = s[i]
  BY OverwrittenIs
<1> HIDE DEF q, r
<1>4. CASE r.threw
  <2>1. Does(q, o, 0, o.size, s, FALSE)
    BY <1>1, <1>2, <1>3, <1>4, HasDoes, WholeIsHeld
  <2> QED
    BY <2>1 DEF q
<1>5. CASE ~r.threw /\ Len(s) <= o.size
  <2>1. Lesser(o.size, Len(s)) = Len(s) /\ Len(s) \in 0..r.size
    BY <1>1, <1>3, <1>5 DEF Lesser
  <2>2. \A i \in 1..Len(s) : r.cells[i] = s[i]
    BY <2>1, <1>3, <1>5
  <2>3. Whole(q) /\ Has(q, s)
    BY <2>1, <2>2, <1>2, <1>3, <1>5, CutHas
  <2>4. Does(q, o, 0, o.size, s, FALSE)
    BY <2>3, <1>1, HasDoes, WholeIsHeld
  <2> QED
    BY <2>4 DEF q
<1>6. CASE ~r.threw /\ ~(Len(s) <= o.size)
  <2>1. Lesser(o.size, Len(s)) = o.size /\ o.size <= Len(s)
    BY <1>1, <1>6 DEF Lesser
  <2>2. rest \in Seq(Item)
    BY <2>1, <1>1, RestIs
  <2>3. q = PushAll(r, rest)
    BY <1>2, <1>6
  <2>4. rest = SubSeq(s, r.size + 1, Len(s))
    BY <1>3
  <2> HIDE DEF rest
  <2>5. Whole(q) /\ (~q.threw => Spliced(q, r, r.size, 0, rest))
    BY <2>2, <2>3, <1>3, <1>6, PushAllIs
  <2>6. ~q.threw => Has(q, s)
    BY <2>1, <2>4, <2>5, <1>3, <1>6, AppendedHas
  <2>7. Does(q, o, 0, o.size, s, FALSE)
    BY <2>5, <2>6, <1>1, HasDoes, WholeIsHeld
  <2> QED
    BY <2>7 DEF q
<1> QED
  BY <1>4, <1>5, <1>6

-----------------------------------------------------------------------------
(* Operations at the end, and on the buffer. *)

LEMMA AppendCountIs ==
  ASSUME CellsAssumption, NEW o, Whole(o), ~o.threw, NEW n \in Nat \ {0}, NEW x \in Item \cup 1..o.size
  PROVE  Does(AppendCount(o, n, x), o, o.size, 0, Times(n, Deref(o, x)), StrongFor(o, o.size, n))
<1> DEFINE y == Deref(o, x)
           s == Times(n, y)
           q == AppendCount(o, n, x)
           strong == StrongFor(o, o.size, n)
<1>1. y \in Item
  BY DerefIs
<1>2. o.size \in Nat /\ Len(o.cells) \in Nat /\ o.size \in 0..o.size
  BY WholeIs
<1> HIDE DEF y, strong
<1>3. s \in Seq(Item) /\ Len(s) = n
  BY <1>1, TimesIs
<1>4. CASE Len(o.cells) - o.size >= n
  <2>1. q = ConstructAtEnd(o, s)
    BY <1>4 DEF AppendCount, y
  <2> HIDE DEF q, s
  <2>2. /\ Whole(q) /\ (q.threw => (Len(s) = 1 => Same(q, o)))
        /\ ~q.threw => Spliced(q, o, o.size, 0, s)
    <3>1. o.size + Len(s) <= Len(o.cells)
      BY <1>2, <1>3, <1>4
    <3> QED
      BY <2>1, <3>1, <1>3, ConstructAtEndIs
  <2>3. strong => Len(s) = 1
    <3>1. n <= Len(o.cells) - o.size
      BY <1>2, <1>4
    <3> QED
      BY <3>1, <1>2, <1>3, StrongIsAtAnEnd DEF strong
  <2>4. Does(q, o, o.size, 0, s, strong)
    BY <2>2, <2>3, WholeIsHeld DEF Does
  <2> QED
    BY <2>4 DEF q, s, strong, y
<1>5. CASE ~(Len(o.cells) - o.size >= n)
  <2>1. q = Grow(o, o.size, s)
    BY <1>5 DEF AppendCount, y
  <2> HIDE DEF q, s
  <2>2. Does(q, o, o.size, 0, s, strong)
    BY <2>1, <1>2, <1>3, GrowDoes
  <2> QED
    BY <2>2 DEF q, s, strong, y
<1> QED
  BY <1>4, <1>5

\* The elements move over to a buffer of cap cells, or stay where they are.
LEMMA MoveOutIs ==
  ASSUME CellsAssumption, NEW o, Whole(o), NEW cap \in Nat, o.size <= cap, cap <= MaxSize, NEW left \in Nat
  PROVE  Does(SwapOut(o, Buffer(cap, o.size, left), o.size), o, o.size, 0, <<>>, TRUE)
<1> DEFINE v == Buffer(cap, o.size, left)
           q == SwapOut(o, v, o.size)
<1>1. o.size \in Nat /\ o.size \in 0..o.size
  BY WholeIs
<1>2. Ready(v, o.size, <<>>, cap)
  BY <1>1, BufferIs
<1>3. <<>> \in Seq(Item) /\ o.size + Len(<<>>) <= cap
  <2>1. <<>> \in Seq(Item) /\ Len(<<>>) = 0
    OBVIOUS
  <2> QED
    BY <2>1, <1>1
<1> HIDE DEF v
<1>4. GrowsOrThrows(q, o, o.size, <<>>)
  BY <1>1, <1>2, <1>3, SwapOutIs
<1> HIDE DEF q
<1>5. Does(q, o, o.size, 0, <<>>, TRUE)
  BY <1>4, WholeIsHeld DEF GrowsOrThrows, Does
<1> QED
  BY <1>5 DEF q, v

\* Nothing but the elements of the new vector, or no vector.
LEMMA ConstructedIs ==
  ASSUME CellsAssumption, NEW fuel \in Nat, NEW s \in Seq(Item), NEW counted,
         NEW o, Whole(o)
  PROVE  Does(Constructed(fuel, s, counted), o, 0, o.size, s, FALSE)
<1> DEFINE none == [Current(fuel) EXCEPT !.cells = <<>>, !.size = 0]
           full == [none EXCEPT !.cells = Times(Len(s), Raw), !.left = @ - 1]
           built == IF counted THEN IF s = <<>> THEN none
                                    ELSE IF Len(s) > MaxSize \/ fuel = 0 THEN Throw(none)
                                    ELSE ConstructAtEnd(full, s)
                    ELSE PushAll(none, s)
           q == Constructed(fuel, s, counted)
<1>1. q = IF built.threw THEN [built EXCEPT !.cells = <<>>, !.size = 0] ELSE built
  BY DEF Constructed
<1>2. Len(s) \in Nat /\ MaxSize \in Nat
  BY SeqIs DEF CellsAssumption
<1> DEFINE no == FALSE
           nothing == <<>>
           zero == 0
           raw == Times(Len(s), Raw)
           less == fuel - 1
<1>13. no \in BOOLEAN /\ ~no /\ fuel \in Int
  OBVIOUS
<1>14. /\ none = [[cells |-> cells, size |-> size, left |-> fuel, threw |-> no]
                    EXCEPT !.cells = nothing, !.size = zero]
       /\ full = [none EXCEPT !.cells = raw, !.left = @ - 1]
  BY DEF Current
<1> HIDE DEF none, full, q, no, nothing, zero, raw
<1>3. none = [cells |-> nothing, size |-> zero, left |-> fuel, threw |-> no]
  BY <1>14
<1>4. full = [cells |-> raw, size |-> zero, left |-> less, threw |-> no]
  <2>1. full = [none EXCEPT !.cells = raw, !.left = less]
    BY <1>3, <1>14
  <2> HIDE DEF less
  <2> QED
    BY <2>1, <1>3
<1>5. Whole(none) /\ none.threw = FALSE /\ none.size = 0
  <2>1. Whole([cells |-> nothing, size |-> zero, left |-> fuel, threw |-> no])
    BY <1>13, NoneIs DEF nothing, zero
  <2>2. none.threw = no /\ none.size = zero
    BY <1>3
  <2> QED
    BY <2>1, <2>2, <1>3 DEF no, zero
<1>6. Whole(built) /\ (~built.threw => Has(built, s))
  <2>1. CASE counted /\ s = <<>>
    <3>1. built = none /\ Len(s) = 0
      BY <2>1
    <3> QED
      BY <3>1, <1>5 DEF Has
  <2>2. CASE counted /\ s # <<>> /\ (Len(s) > MaxSize \/ fuel = 0)
    <3>1. built = Throw(none)
      BY <2>2
    <3> HIDE DEF built
    <3> QED
      BY <3>1, <1>5, ThrowIs
  <2>3. CASE counted /\ s # <<>> /\ ~(Len(s) > MaxSize \/ fuel = 0)
    <3>1. built = ConstructAtEnd(full, s)
      BY <2>3
    <3> HIDE DEF built
    <3>2. Whole(full)
      <4>1. less \in Nat /\ Len(s) <= MaxSize
        BY <2>3, <1>2
      <4>2. Whole([cells |-> raw, size |-> 0, left |-> less, threw |-> FALSE])
        <5> HIDE DEF less
        <5> QED
          BY <4>1, <1>2, FreshIs DEF raw
      <4> QED
        BY <4>2, <1>4 DEF no, zero
    <3>3. full.size = 0 /\ full.threw = FALSE /\ Len(full.cells) = Len(s)
      <4>1. Raw \in Cell
        BY DEF Cell
      <4>2. full.size = zero /\ full.threw = no /\ full.cells = raw
        BY <1>4
      <4>3. Len(raw) = Len(s)
        BY <4>1, <1>2, TimesIs DEF raw
      <4>4. full.threw = FALSE
        BY <4>2 DEF no
      <4> QED
        BY <4>2, <4>3, <4>4 DEF zero
    <3>4. full.size + Len(s) <= Len(full.cells)
      BY <3>3, <1>2
    <3>5. Whole(built) /\ (~built.threw => Spliced(built, full, full.size, 0, s))
      BY <3>1, <3>2, <3>3, <3>4, ConstructAtEndIs
    <3> QED
      BY <3>2, <3>3, <3>5, MadeHas
  <2>4. CASE ~counted
    <3>1. built = PushAll(none, s)
      BY <2>4
    <3> HIDE DEF built
    <3>2. Whole(built) /\ (~built.threw => Spliced(built, none, none.size, 0, s))
      BY <3>1, <1>5, PushAllIs
    <3> QED
      BY <3>2, <1>5, MadeHas
  <2> QED
    BY <2>1, <2>2, <2>3, <2>4
<1> HIDE DEF built
<1>7. CASE ~built.threw
  <2>1. Does(q, o, 0, o.size, s, FALSE)
    BY <1>1, <1>2, <1>6, <1>7, HasDoes, WholeIsHeld
  <2> QED
    BY <2>1 DEF q
<1>8. CASE built.threw
  <2> DEFINE c == <<>>
             z == 0
             l == built.left
             t == built.threw
  <2>1. built \in Progress /\ l \in Int /\ t \in BOOLEAN /\ t
    BY <1>6, <1>8, WholeIs DEF Progress
  <2>2. q = [built EXCEPT !.cells = c, !.size = z]
    BY <1>1, <1>8
  <2>3. q = [cells |-> c, size |-> z, left |-> l, threw |-> t]
    <3> HIDE DEF c, z
    <3> QED
      BY <2>1, <2>2 DEF Progress
  <2> HIDE DEF l, t
  <2>4. Whole(q) /\ q.threw
    BY <2>1, <2>3, NoneIs
  <2>5. Does(q, o, 0, o.size, s, FALSE)
    BY <2>4, <1>2, HasDoes, WholeIsHeld
  <2> QED
    BY <2>5 DEF q
<1> QED
  BY <1>7, <1>8

-----------------------------------------------------------------------------
(* Steps of the vector. *)

LEMMA CurrentIs ==
  ASSUME VectorIsWhole, NEW fuel \in Nat
  PROVE  /\ Whole(Current(fuel)) /\ ~Current(fuel).threw
         /\ Current(fuel).cells = cells /\ Current(fuel).size = size
<1> DEFINE o == Current(fuel)
<1>1. cells \in Seq(Cell) /\ size \in Nat /\ size <= Len(cells) /\ Len(cells) <= MaxSize
      /\ DOMAIN cells = 1..Len(cells)
  <2>1. cells \in Seq(Cell) /\ Len(cells) <= MaxSize /\ size \in 0..Len(cells)
    BY DEF VectorIsWhole, Cell
  <2>2. Len(cells) \in Nat /\ DOMAIN cells = 1..Len(cells)
    BY <2>1, SeqIs
  <2> QED
    BY <2>1, <2>2
<1>2. /\ o \in Progress /\ o.left = fuel /\ o.threw = FALSE /\ o.cells = cells /\ o.size = size
  BY <1>1 DEF Progress, Current
<1> HIDE DEF o
<1>3. Whole(o)
  BY <1>1, <1>2 DEF Whole, VectorIsWhole
<1> QED
  BY <1>2, <1>3 DEF o

LEMMA ElementsIs ==
  ASSUME NEW c \in Seq(Cell), NEW n \in 0..Len(c), \A i \in 1..Len(c) : c[i] = Raw <=> i > n
  PROVE  /\ SubSeq(c, 1, n) \in Seq(Item) /\ Len(SubSeq(c, 1, n)) = n
         /\ \A i \in 1..n : SubSeq(c, 1, n)[i] = c[i]
<1>1. Len(c) \in Nat /\ \A i \in 1..Len(c) : c[i] \in Cell
  BY SeqIs
<1>2. \A i \in 1..n : c[i] \in Item
  <2>1. ASSUME NEW i \in 1..n PROVE c[i] \in Item
    <3>1. i \in 1..Len(c) /\ ~(i > n)
      BY <1>1
    <3> QED
      BY <3>1, <1>1 DEF Cell
  <2> QED
    BY <2>1
<1>3. 1 \in Int /\ n \in Int
  BY <1>1
<1>4. /\ SubSeq(c, 1, n) \in Seq(Item)
      /\ Len(SubSeq(c, 1, n)) = IF 1 <= n THEN n - 1 + 1 ELSE 0
      /\ \A i \in 1..(n - 1 + 1) : SubSeq(c, 1, n)[i] = c[1 + i - 1]
  BY <1>2, <1>3, SubSeqProperties
<1>5. (IF 1 <= n THEN n - 1 + 1 ELSE 0) = n /\ n - 1 + 1 = n /\ \A i \in 1..n : 1 + i - 1 = i
  BY <1>1
<1> QED
  BY <1>4, <1>5

LEMMA SpliceIs ==
  ASSUME NEW e \in Seq(Item), NEW at \in 0..Len(e), NEW cut \in 0..(Len(e) - at), NEW s \in Seq(Item)
  PROVE  /\ Exchanged(e, at, cut, s) \in Seq(Item)
         /\ Len(Exchanged(e, at, cut, s)) = Len(e) - cut + Len(s)
         /\ \A i \in 1..(Len(e) - cut + Len(s)) :
              Exchanged(e, at, cut, s)[i] = IF i <= at THEN e[i]
                                           ELSE IF i <= at + Len(s) THEN s[i - at] ELSE e[i - Len(s) + cut]
BY ExchangedIs

\* What a call that does what it says has made of the elements.
LEMMA DoneIs ==
  ASSUME NEW o, Whole(o), NEW at \in 0..o.size, NEW cut \in 0..(o.size - at), NEW s \in Seq(Item),
         NEW how, NEW q, Does(q, o, at, cut, s, how)
  PROVE  LET e == SubSeq(o.cells, 1, o.size)
             f == SubSeq(q.cells, 1, q.size)
         IN  /\ e \in Seq(Item) /\ f \in Seq(Item)
             /\ ~q.threw => f = Exchanged(e, at, cut, s)
             /\ q.threw /\ how => f = e
<1> DEFINE c == o.cells
           sz == o.size
           d == q.cells
           z == q.size
           n == Len(s)
           e == SubSeq(c, 1, sz)
           f == SubSeq(d, 1, z)
           g == Exchanged(e, at, cut, s)
<1>1. c \in Seq(Cell) /\ sz \in Nat /\ sz \in 0..Len(c) /\ \A i \in 1..Len(c) : c[i] = Raw <=> i > sz
  BY WholeIs DEF Whole
<1>2. d \in Seq(Cell) /\ z \in 0..Len(d) /\ \A i \in 1..Len(d) : d[i] = Raw <=> i > z
  BY DEF Does, Held
<1>3. /\ ~q.threw => Spliced(q, o, at, cut, s)
      /\ q.threw /\ how => Same(q, o)
  BY DEF Does
<1>4. n \in Nat
  BY SeqIs
<1>5. ~q.threw => /\ z = sz - cut + n
                  /\ \A i \in 1..z : d[i] = IF i <= at THEN c[i]
                                            ELSE IF i <= at + n THEN s[i - at] ELSE c[i - n + cut]
  BY <1>3 DEF Spliced
<1>6. q.threw /\ how => z = sz /\ \A i \in 1..sz : d[i] = c[i]
  BY <1>3 DEF Same, Keeps
<1> HIDE DEF c, d, sz, z
<1>7. e \in Seq(Item) /\ Len(e) = sz /\ \A i \in 1..sz : e[i] = c[i]
  BY <1>1, ElementsIs
<1>8. f \in Seq(Item) /\ Len(f) = z /\ \A i \in 1..z : f[i] = d[i]
  BY <1>2, ElementsIs
<1> HIDE DEF e, f
<1>9. /\ g \in Seq(Item) /\ Len(g) = sz - cut + n
      /\ \A i \in 1..(sz - cut + n) :
           g[i] = IF i <= at THEN e[i] ELSE IF i <= at + n THEN s[i - at] ELSE e[i - n + cut]
  <2>1. at \in 0..Len(e) /\ cut \in 0..(Len(e) - at) /\ Len(e) = sz
    BY <1>7 DEF sz
  <2> HIDE DEF sz
  <2>2. /\ g \in Seq(Item) /\ Len(g) = Len(e) - cut + n
        /\ \A i \in 1..(Len(e) - cut + n) :
             g[i] = IF i <= at THEN e[i] ELSE IF i <= at + n THEN s[i - at] ELSE e[i - n + cut]
    BY <2>1, <1>7, SpliceIs
  <2> QED
    BY <2>1, <2>2
<1> HIDE DEF g, n
<1>10. at \in 0..sz /\ cut \in 0..(sz - at)
  BY DEF sz
<1>11. ASSUME ~q.threw PROVE f = g
  <2>1. ASSUME NEW i \in 1..z PROVE f[i] = g[i]
    <3>1. (i <= at => i \in 1..sz) /\ (~(i <= at) /\ ~(i <= at + n) => i - n + cut \in 1..sz)
      BY <1>1, <1>4, <1>5, <1>10, <1>11
    <3>2. z = sz - cut + n
      BY <1>5, <1>11
    <3>3. d[i] = g[i]
      <4>1. CASE i <= at
        BY <4>1, <3>1, <3>2, <1>5, <1>7, <1>9, <1>11
      <4>2. CASE ~(i <= at) /\ i <= at + n
        BY <4>2, <3>2, <1>5, <1>9, <1>11
      <4>3. CASE ~(i <= at) /\ ~(i <= at + n)
        BY <4>3, <3>1, <3>2, <1>5, <1>7, <1>9, <1>11
      <4> QED
        BY <4>1, <4>2, <4>3
    <3> QED
      BY <3>3, <1>8
  <2>2. Len(f) = Len(g) /\ \A i \in 1..Len(f) : f[i] = g[i]
    BY <2>1, <1>5, <1>8, <1>9, <1>11
  <2> QED
    BY <2>2, <1>8, <1>9, SeqEqual
<1>12. ASSUME q.threw, how PROVE f = e
  <2>1. Len(f) = Len(e) /\ \A i \in 1..Len(f) : f[i] = e[i]
    BY <1>6, <1>7, <1>8, <1>12
  <2> QED
    BY <2>1, <1>7, <1>8, SeqEqual
<1> QED
  BY <1>7, <1>8, <1>11, <1>12 DEF e, f, g, c, d, sz, z

\* A call that does what it says takes the vector, and its elements, a step.
LEMMA BecomesIs ==
  ASSUME VectorIsWhole, NEW fuel \in Nat, NEW q, NEW at \in 0..size, NEW cut \in 0..(size - at),
         NEW s \in Seq(Item), NEW strong \in BOOLEAN, NEW how, strong => how,
         Does(q, Current(fuel), at, cut, s, how), Becomes(q, at, cut, s, strong)
  PROVE  VectorIsWhole' /\ ~torn' /\ C!Next
<1> DEFINE o == Current(fuel)
<1>1. Whole(o) /\ o.cells = cells /\ o.size = size
  BY CurrentIs
<1>2. size \in Nat
  BY <1>1, WholeIs
<1> HIDE DEF o
<1>3. Held(q) /\ Does(q, o, at, cut, s, how)
  BY DEF Does, o
<1>4. /\ cells' = q.cells /\ size' = q.size
      /\ vectorCall' = [at |-> at, cut |-> cut, put |-> s, strong |-> strong, threw |-> q.threw]
      /\ ~torn'
  BY DEF Becomes, VectorLeft
<1>5. VectorIsWhole'
  <2>1. /\ q.cells \in Seq(Cell) /\ q.size \in Nat /\ q.size <= Len(q.cells) /\ Len(q.cells) <= MaxSize
        /\ \A i \in 1..Len(q.cells) : q.cells[i] = Raw <=> i > q.size
    BY <1>3 DEF Held
  <2>2. Len(q.cells) \in Nat /\ DOMAIN q.cells = 1..Len(q.cells)
    BY <2>1, SeqIs
  <2>3. /\ cells' \in Seq(Cell) /\ size' \in 0..Len(cells') /\ Len(cells') <= MaxSize
        /\ \A i \in DOMAIN cells' : cells'[i] = Raw <=> i > size'
    BY <2>1, <2>2, <1>4
  <2> QED
    BY <2>3 DEF VectorIsWhole, Cell
<1> DEFINE e == SubSeq(o.cells, 1, o.size)
           f == SubSeq(q.cells, 1, q.size)
<1>6. /\ e \in Seq(Item) /\ f \in Seq(Item)
      /\ ~q.threw => f = Exchanged(e, at, cut, s)
      /\ q.threw /\ how => f = e
  BY SMTT(30), <1>1, <1>3, DoneIs
<1>7. Elements = e /\ Elements' = f
  BY <1>1, <1>4 DEF Elements
<1> HIDE DEF e, f
<1>8. vectorCall' \in C!Call /\ vectorCall'.threw = q.threw /\ vectorCall'.strong = strong
      /\ vectorCall'.at = at /\ vectorCall'.cut = cut /\ vectorCall'.put = s
  <2>1. at \in Nat /\ cut \in Nat /\ q.threw \in BOOLEAN
    BY <1>2, <1>3 DEF Held
  <2> QED
    BY <2>1, <1>4 DEF C!Call
<1>9. CASE ~q.threw
  <2>1. f = C!Splice(e, at, cut, s)
    <3>1. C!Splice(e, at, cut, s) = Exchanged(e, at, cut, s)
      BY Zenon DEF C!Splice, Exchanged
    <3> QED
      BY <3>1, <1>6, <1>9
  <2>2. C!Return
    BY <2>1, <1>7, <1>8, <1>9 DEF C!Return
  <2> QED
    BY <2>2, <1>4, <1>5, <1>8 DEF C!Next
<1>10. CASE q.threw
  <2>1. C!Throw
    BY <1>6, <1>7, <1>8, <1>10 DEF C!Throw
  <2> QED
    BY <2>1, <1>4, <1>5, <1>8 DEF C!Next
<1> QED
  BY <1>9, <1>10

LEMMA InputIs ==
  ASSUME CellsAssumption, VectorAssumption
  PROVE  \A s \in Input : s \in Seq(Item) /\ Len(s) \in Nat
<1>1. ASSUME NEW s \in Input PROVE s \in Seq(Item)
  <2>1. PICK n \in 0..MaxCount : s \in [1..n -> Value]
    BY DEF Input
  <2>2. n \in Nat /\ s \in [1..n -> Item]
    BY <2>1 DEF CellsAssumption, VectorAssumption, Item
  <2> QED
    BY <2>2, FunctionIsSeq
<1> QED
  BY <1>1, SeqIs

LEMMA StepsIs == \A fuel \in Steps : fuel \in Nat
BY DEF Steps

LEMMA CurrentAt0 ==
  ASSUME CellsAssumption, VectorAssumption, VectorIsWhole, NEW fuel \in Nat
  PROVE  /\ \A x : Deref(Current(fuel), x) = Deref(Current(0), x)
         /\ \A at, n : Strong(at, n) => StrongFor(Current(fuel), at, n)
         /\ \A at, n : Strong(at, n) \in BOOLEAN
         /\ size \in Nat
         /\ \A x \in Arg : x \in Item \cup 1..Current(fuel).size /\ Deref(Current(0), x) \in Item
<1>1. /\ Current(fuel).cells = cells /\ Current(fuel).size = size /\ Whole(Current(fuel))
      /\ Current(0).cells = cells /\ Current(0).size = size
  BY CurrentIs DEF Current
<1>2. \A x : Deref(Current(fuel), x) = Deref(Current(0), x)
  BY <1>1 DEF Deref
<1>3. \A at, n : Strong(at, n) => StrongFor(Current(fuel), at, n)
  BY <1>1 DEF Strong, StrongFor, Capacity
<1>4. \A at, n : Strong(at, n) \in BOOLEAN
  BY DEF Strong
<1>5. \A x \in Arg : x \in Item \cup 1..Current(fuel).size
  BY <1>1 DEF Arg
<1>6. \A x \in Arg : Deref(Current(fuel), x) \in Item
  BY <1>1, <1>5, DerefIs
<1>7. size \in Nat
  BY <1>1, WholeIs
<1> QED
  BY <1>2, <1>3, <1>4, <1>5, <1>6, <1>7

LEMMA PushBackStep ==
  ASSUME CellsAssumption, VectorAssumption, VectorIsWhole, PushBack
  PROVE  VectorIsWhole' /\ ~torn' /\ C!Next
<1>1. PICK fuel \in Steps, x \in Arg :
        Becomes(EmplaceBack(Current(fuel), x), size, 0, <<Deref(Current(0), x)>>, TRUE)
  BY DEF PushBack
<1> DEFINE o == Current(fuel)
           y == Deref(Current(0), x)
           q == EmplaceBack(o, x)
           s == <<y>>
<1>2. fuel \in Nat
  BY StepsIs
<1>3. Whole(o) /\ ~o.threw /\ o.size = size
  BY <1>2, CurrentIs
<1>4. /\ size \in Nat /\ x \in Item \cup 1..o.size /\ y \in Item /\ Deref(o, x) = y
  BY <1>2, CurrentAt0
<1> HIDE DEF o, y
<1>5. Does(q, o, o.size, 0, <<Deref(o, x)>>, TRUE)
  BY <1>3, <1>4, EmplaceBackIs
<1> HIDE DEF q
<1>6. Does(q, Current(fuel), size, 0, s, TRUE) /\ Becomes(q, size, 0, s, TRUE)
  BY <1>1, <1>3, <1>4, <1>5 DEF o, y, q
<1>7. size \in 0..size /\ 0 \in 0..(size - size) /\ s \in Seq(Item)
  BY <1>4
<1> HIDE DEF s
<1> QED
  BY <1>2, <1>6, <1>7, BecomesIs

\* The steps that put something after at.
LEMMA PutStep ==
  ASSUME CellsAssumption, VectorAssumption, VectorIsWhole, NEW fuel \in Nat, NEW at \in 0..size, NEW s \in Seq(Item),
         NEW strong \in BOOLEAN, NEW how, strong => how,
         NEW q, Does(q, Current(fuel), at, 0, s, how), Becomes(q, at, 0, s, strong)
  PROVE  VectorIsWhole' /\ ~torn' /\ C!Next
<1> DEFINE cut == 0
<1>1. size \in Nat
  BY CurrentAt0
<1>2. cut \in 0..(size - at)
  BY <1>1
<1>3. Does(q, Current(fuel), at, cut, s, how) /\ Becomes(q, at, cut, s, strong)
  OBVIOUS
<1> HIDE DEF cut
<1> QED
  BY <1>2, <1>3, BecomesIs

LEMMA InsertOneStep ==
  ASSUME CellsAssumption, VectorAssumption, VectorIsWhole, InsertOne
  PROVE  VectorIsWhole' /\ ~torn' /\ C!Next
<1>1. PICK fuel \in Steps, at \in 0..size, x \in Arg :
        \/ Becomes(InsertCopy(Current(fuel), at, x), at, 0, <<Deref(Current(0), x)>>, Strong(at, 1))
        \/ Becomes(EmplaceAt(Current(fuel), at, x), at, 0, <<Deref(Current(0), x)>>, Strong(at, 1))
        \/ /\ x \in Item
           /\ Becomes(InsertMoved(Current(fuel), at, x), at, 0, <<x>>, Strong(at, 1))
  BY DEF InsertOne
<1> DEFINE o == Current(fuel)
           y == Deref(Current(0), x)
<1>2. fuel \in Nat
  BY StepsIs
<1>3. Whole(o) /\ ~o.threw /\ o.size = size
  BY <1>2, CurrentIs
<1>4. /\ size \in Nat /\ x \in Item \cup 1..o.size /\ y \in Item /\ Deref(o, x) = y
      /\ (Strong(at, 1) => StrongFor(o, at, 1)) /\ Strong(at, 1) \in BOOLEAN
  BY <1>2, CurrentAt0
<1>5. at \in 0..o.size
  BY <1>3
<1> HIDE DEF o, y
<1>6. <<y>> \in Seq(Item)
  BY <1>4
<1>7. CASE Becomes(InsertCopy(o, at, x), at, 0, <<y>>, Strong(at, 1))
  <2>1. Does(InsertCopy(o, at, x), o, at, 0, <<y>>, StrongFor(o, at, 1))
    <3>1. Does(InsertCopy(o, at, x), o, at, 0, <<Deref(o, x)>>, StrongFor(o, at, 1))
      BY <1>3, <1>4, <1>5, InsertCopyIs
    <3> QED
      BY <3>1, <1>4
  <2> QED
    BY <2>1, <1>2, <1>4, <1>6, <1>7, PutStep DEF o
<1>8. CASE Becomes(EmplaceAt(o, at, x), at, 0, <<y>>, Strong(at, 1))
  <2>1. Does(EmplaceAt(o, at, x), o, at, 0, <<y>>, StrongFor(o, at, 1))
    <3>1. Does(EmplaceAt(o, at, x), o, at, 0, <<Deref(o, x)>>, StrongFor(o, at, 1))
      BY <1>3, <1>4, <1>5, EmplaceAtIs
    <3> QED
      BY <3>1, <1>4
  <2> QED
    BY <2>1, <1>2, <1>4, <1>6, <1>8, PutStep DEF o
<1>9. CASE x \in Item /\ Becomes(InsertMoved(o, at, x), at, 0, <<x>>, Strong(at, 1))
  <2>1. Does(InsertMoved(o, at, x), o, at, 0, <<x>>, StrongFor(o, at, 1))
    BY <1>3, <1>5, <1>9, InsertMovedIs
  <2>2. <<x>> \in Seq(Item)
    BY <1>9
  <2> QED
    BY <2>1, <2>2, <1>2, <1>4, <1>9, PutStep DEF o
<1> QED
  BY <1>1, <1>7, <1>8, <1>9 DEF o, y

LEMMA InsertCopiesStep ==
  ASSUME CellsAssumption, VectorAssumption, VectorIsWhole, InsertCopies
  PROVE  VectorIsWhole' /\ ~torn' /\ C!Next
<1>1. PICK fuel \in Steps, at \in 0..size, n \in 0..MaxCount, x \in Arg :
        Becomes(InsertCount(Current(fuel), at, n, x), at, 0, Times(n, Deref(Current(0), x)), Strong(at, n))
  BY DEF InsertCopies
<1> DEFINE o == Current(fuel)
           y == Deref(Current(0), x)
           q == InsertCount(o, at, n, x)
           s == Times(n, y)
           strong == Strong(at, n)
<1>2. fuel \in Nat /\ n \in Nat
  BY StepsIs DEF CellsAssumption, VectorAssumption
<1>3. Whole(o) /\ ~o.threw /\ o.size = size
  BY <1>2, CurrentIs
<1>4. /\ x \in Item \cup 1..o.size /\ y \in Item /\ Deref(o, x) = y
      /\ (Strong(at, n) => StrongFor(o, at, n)) /\ Strong(at, n) \in BOOLEAN
  BY <1>2, CurrentAt0
<1>5. at \in 0..o.size
  BY <1>3
<1> HIDE DEF o, y
<1>6. Does(q, o, at, 0, s, StrongFor(o, at, n))
  <2>1. Does(q, o, at, 0, Times(n, Deref(o, x)), StrongFor(o, at, n))
    BY <1>2, <1>3, <1>4, <1>5, InsertCountIs
  <2> QED
    BY <2>1, <1>4
<1>7. s \in Seq(Item)
  BY <1>2, <1>4, TimesIs
<1>8. Becomes(q, at, 0, s, strong)
  BY <1>1 DEF o, y
<1> HIDE DEF q, s, strong
<1> QED
  BY <1>2, <1>4, <1>6, <1>7, <1>8, PutStep DEF o, strong

LEMMA InsertForwardStep ==
  ASSUME CellsAssumption, VectorAssumption, VectorIsWhole, InsertForward
  PROVE  VectorIsWhole' /\ ~torn' /\ C!Next
<1>1. PICK fuel \in Steps, at \in 0..size, s \in Input :
        Becomes(InsertRange(Current(fuel), at, s), at, 0, s, Strong(at, Len(s)))
  BY DEF InsertForward
<1> DEFINE o == Current(fuel)
           n == Len(s)
           q == InsertRange(o, at, s)
<1>2. fuel \in Nat /\ s \in Seq(Item)
  BY StepsIs, InputIs
<1>3. Whole(o) /\ ~o.threw /\ at \in 0..o.size
  BY <1>2, CurrentIs
<1> HIDE DEF o
<1>4. Does(q, o, at, 0, s, StrongFor(o, at, n))
  BY <1>2, <1>3, InsertRangeIs
<1> HIDE DEF n
<1>5. (Strong(at, n) => StrongFor(o, at, n)) /\ Strong(at, n) \in BOOLEAN
  BY <1>2, CurrentAt0 DEF o
<1>6. Becomes(q, at, 0, s, Strong(at, n))
  BY <1>1 DEF o, n
<1> HIDE DEF q
<1> QED
  BY <1>2, <1>4, <1>5, <1>6, PutStep DEF o

\* An insertion from an input iterator, which may tear the vector.
LEMMA InsertStreamStep ==
  ASSUME CellsAssumption, VectorAssumption, VectorIsWhole, InsertStream
  PROVE  IF torn' THEN VectorIsTorn' ELSE VectorIsWhole' /\ C!Next
<1>1. PICK fuel \in Steps, at \in 0..size, s \in Input :
        LET q == InsertInput(Current(fuel), at, s)
        IN  VectorLeft(q, at, 0, s, FALSE) /\ torn' = Tears(q, s)
  BY DEF InsertStream
<1> DEFINE o == Current(fuel)
           q == InsertInput(o, at, s)
           no == FALSE
<1>2. fuel \in Nat /\ s \in Seq(Item)
  BY StepsIs, InputIs
<1>3. Whole(o) /\ ~o.threw /\ at \in 0..o.size /\ o.cells = cells /\ o.size = size
  BY <1>2, CurrentIs
<1>4. VectorLeft(q, at, 0, s, no) /\ torn' = Tears(q, s)
  BY <1>1
<1> HIDE DEF o
<1>5. IF Tore(q, o, s) THEN Torn(q, o) ELSE Does(q, o, at, 0, s, FALSE)
  BY <1>2, <1>3, InsertInputIs
<1> HIDE DEF q
<1>6. Tears(q, s) <=> Tore(q, o, s)
  BY <1>3 DEF Tears, Tore, Capacity
<1>7. CASE torn'
  <2>1. Tears(q, s) /\ Torn(q, o)
    BY <1>4, <1>5, <1>6, <1>7
  <2>2. cells' = q.cells /\ size' = q.size
    BY <1>4 DEF VectorLeft
  <2>3. Len(cells) \in Nat /\ size \in Nat /\ Len(cells) <= MaxSize /\ size < Len(cells)
    BY <2>1, <1>3, WholeIs DEF Whole, Tears, Capacity
  <2>4. cells' \in Seq(Cell) /\ Len(cells') = Len(cells) /\ size' = Len(cells')
        /\ \A i \in 1..Len(cells') : cells'[i] = Raw <=> i > size
    BY <2>1, <2>2, <1>3 DEF Torn
  <2>5. size \in 0..(size' - 1) /\ DOMAIN cells' = 1..Len(cells')
    BY <2>3, <2>4, SeqIs
  <2>6. \E n \in 0..(size' - 1) : \A i \in DOMAIN cells' : cells'[i] = Raw <=> i > n
    BY <2>4, <2>5
  <2> QED
    BY <2>3, <2>4, <2>6, <1>7 DEF VectorIsTorn, Cell
<1>8. CASE ~torn'
  <2>1. Does(q, Current(fuel), at, 0, s, no) /\ no \in BOOLEAN
    BY <1>4, <1>5, <1>6, <1>8 DEF o
  <2>2. Becomes(q, at, 0, s, no)
    <3>1. torn' = FALSE
      BY <1>4, <1>8 DEF Tears
    <3> QED
      BY <3>1, <1>4 DEF Becomes
  <2> HIDE DEF no
  <2>3. VectorIsWhole' /\ C!Next
    BY <1>2, <2>1, <2>2, PutStep
  <2> QED
    BY <2>3, <1>8
<1> QED
  BY <1>7, <1>8

LEMMA EraseStep ==
  ASSUME CellsAssumption, VectorAssumption, VectorIsWhole, Erase
  PROVE  VectorIsWhole' /\ ~torn' /\ C!Next
<1>1. PICK fuel \in Steps, at \in 0..size : \E n \in 0..(size - at) :
        Becomes(EraseRange(Current(fuel), at, n), at, n, <<>>, at + n = size)
  BY DEF Erase
<1>0. PICK n \in 0..(size - at) :
        Becomes(EraseRange(Current(fuel), at, n), at, n, <<>>, at + n = size)
  BY <1>1
<1> DEFINE o == Current(fuel)
           q == EraseRange(o, at, n)
           s == <<>>
           strong == at + n = size
<1>2. fuel \in Nat
  BY StepsIs
<1>3. Whole(o) /\ ~o.threw /\ o.size = size
  BY <1>2, CurrentIs
<1>4. Becomes(q, at, n, s, strong) /\ s \in Seq(Item) /\ strong \in BOOLEAN
  BY <1>0
<1>5. at \in 0..o.size /\ n \in 0..(o.size - at)
  BY <1>3
<1> HIDE DEF o
<1>6. Does(q, o, at, n, s, at + n = o.size)
  BY <1>3, <1>5, EraseRangeIs
<1>7. strong => at + n = o.size
  BY <1>3
<1> HIDE DEF q, s, strong
<1> QED
  BY <1>2, <1>4, <1>6, <1>7, BecomesIs DEF o

LEMMA TruncateStep ==
  ASSUME CellsAssumption, VectorAssumption, VectorIsWhole, Truncate
  PROVE  VectorIsWhole' /\ ~torn' /\ C!Next
<1>1. PICK n \in 0..size : Becomes(DestructAtEnd(Current(0), n), n, size - n, <<>>, TRUE)
  BY DEF Truncate
<1> DEFINE fuel == 0
           o == Current(fuel)
           q == DestructAtEnd(o, n)
           s == <<>>
           strong == TRUE
           cut == size - n
<1>2. fuel \in Nat /\ size \in Nat
  BY CurrentAt0
<1>3. Becomes(q, n, cut, s, strong) /\ s \in Seq(Item) /\ strong \in BOOLEAN
  <2>1. Becomes(q, n, cut, s, strong)
    BY <1>1, Zenon
  <2>2. s \in Seq(Item) /\ strong \in BOOLEAN
    OBVIOUS
  <2> QED
    BY <2>1, <2>2, Zenon
<1> HIDE DEF fuel, strong
<1>4. Whole(o) /\ ~o.threw /\ o.size = size /\ n \in 0..o.size
  BY <1>2, CurrentIs
<1> HIDE DEF o
<1>5. Does(q, o, n, o.size - n, s, ~o.threw)
  BY <1>4, CutIs
<1>6. cut \in 0..(size - n)
  BY <1>2
<1>7. Does(q, o, n, cut, s, ~o.threw)
  BY <1>4, <1>5
<1> HIDE DEF q, s, cut
<1> QED
  BY <1>2, <1>3, <1>4, <1>6, <1>7, BecomesIs DEF o

LEMMA ResizeStep ==
  ASSUME CellsAssumption, VectorAssumption, VectorIsWhole, Resize
  PROVE  VectorIsWhole' /\ ~torn' /\ C!Next
<1>1. PICK fuel \in Steps, n \in 1..MaxCount, x \in Arg :
        Becomes(AppendCount(Current(fuel), n, x), size, 0, Times(n, Deref(Current(0), x)), Strong(size, n))
  BY DEF Resize
<1> DEFINE o == Current(fuel)
           y == Deref(Current(0), x)
           q == AppendCount(o, n, x)
           s == Times(n, y)
           at == size
           strong == Strong(at, n)
<1>2. fuel \in Nat /\ n \in Nat \ {0}
  BY StepsIs DEF CellsAssumption, VectorAssumption
<1>3. Whole(o) /\ ~o.threw /\ o.size = at
  BY <1>2, CurrentIs
<1>4. /\ x \in Item \cup 1..o.size /\ y \in Item /\ Deref(o, x) = y
      /\ (Strong(at, n) => StrongFor(o, at, n)) /\ Strong(at, n) \in BOOLEAN /\ at \in 0..size
  BY <1>2, CurrentAt0
<1> HIDE DEF o, y
<1>5. Does(q, o, at, 0, s, StrongFor(o, at, n))
  <2>1. Does(q, o, o.size, 0, Times(n, Deref(o, x)), StrongFor(o, o.size, n))
    BY <1>2, <1>3, <1>4, AppendCountIs
  <2> QED
    BY <2>1, <1>3, <1>4
<1>6. s \in Seq(Item)
  BY <1>2, <1>4, TimesIs
<1>7. Becomes(q, at, 0, s, strong)
  BY <1>1 DEF o, y
<1> HIDE DEF q, s, strong, at
<1> QED
  BY <1>2, <1>4, <1>5, <1>6, <1>7, PutStep DEF o, strong

LEMMA ReserveStep ==
  ASSUME CellsAssumption, VectorAssumption, VectorIsWhole, Reserve
  PROVE  VectorIsWhole' /\ ~torn' /\ C!Next
<1>1. PICK fuel \in Steps, n \in (Capacity + 1)..(MaxSize + 1) :
        Becomes(IF n > MaxSize THEN Throw(Current(fuel)) ELSE SwapOut(Current(fuel), Buffer(n, size, fuel), size),
              size, 0, <<>>, TRUE)
  BY DEF Reserve
<1> DEFINE o == Current(fuel)
           at == size
           q == IF n > MaxSize THEN Throw(o) ELSE SwapOut(o, Buffer(n, at, fuel), at)
           s == <<>>
           strong == TRUE
<1>2. Becomes(q, at, 0, s, strong)
  BY <1>1, Zenon
<1>3. s \in Seq(Item) /\ strong \in BOOLEAN
  OBVIOUS
<1>4. fuel \in Nat /\ at \in Nat /\ at \in 0..size
  BY StepsIs, CurrentAt0
<1>5. Whole(o) /\ o.size = at /\ o.cells = cells
  BY <1>4, CurrentIs
<1>6. n \in Nat /\ o.size <= n
  BY <1>5, WholeIs DEF Capacity
<1> HIDE DEF o, at
<1>7. Does(q, o, at, 0, s, TRUE)
  <2>1. CASE n > MaxSize
    <3>1. Whole(Throw(o)) /\ Throw(o).threw = TRUE /\ Same(Throw(o), o)
      BY <1>5, ThrowIs
    <3>2. Does(Throw(o), o, at, 0, s, TRUE)
      BY <3>1, WholeIsHeld DEF Does
    <3> QED
      BY <3>2, <2>1
  <2>2. CASE ~(n > MaxSize)
    <3>1. n <= MaxSize
      BY <2>2, <1>6 DEF CellsAssumption, VectorAssumption
    <3>2. Does(SwapOut(o, Buffer(n, at, fuel), at), o, at, 0, s, TRUE)
      BY <3>1, <1>4, <1>5, <1>6, MoveOutIs
    <3> QED
      BY <3>2, <2>2
  <2> QED
    BY <2>1, <2>2
<1> HIDE DEF q, s, strong
<1> QED
  BY <1>2, <1>3, <1>4, <1>7, PutStep DEF o

\* Nothing added to elements that are the old ones, in whatever cells.
LEMMA SameIsSpliced ==
  ASSUME NEW o, Whole(o), NEW q, Same(q, o), NEW s, Len(s) = 0
  PROVE  Spliced(q, o, o.size, 0, s)
<1> DEFINE sz == o.size
           n == Len(s)
<1>1. sz \in Nat /\ n = 0 /\ q.size = sz /\ \A i \in 1..sz : q.cells[i] = o.cells[i]
  BY WholeIs DEF Same, Keeps
<1> HIDE DEF sz, n
<1>2. q.size = sz - 0 + n
  BY <1>1
<1>3. ASSUME NEW i \in 1..q.size
      PROVE  q.cells[i] = IF i <= sz THEN o.cells[i]
                          ELSE IF i <= sz + n THEN s[i - sz] ELSE o.cells[i - n + 0]
  BY <1>1
<1> QED
  BY <1>2, <1>3 DEF Spliced, sz, n

LEMMA ShrinkToFitStep ==
  ASSUME CellsAssumption, VectorAssumption, VectorIsWhole, ShrinkToFit
  PROVE  VectorIsWhole' /\ ~torn' /\ C!Next
<1>1. PICK fuel \in Steps :
        Becomes([SwapOut(Current(fuel), Buffer(size, size, fuel), size) EXCEPT !.threw = FALSE],
              size, 0, <<>>, TRUE)
  BY DEF ShrinkToFit
<1> DEFINE o == Current(fuel)
           at == size
           v == Buffer(at, at, fuel)
           r == SwapOut(o, v, at)
           q == [r EXCEPT !.threw = FALSE]
           s == <<>>
           strong == TRUE
<1>2. Becomes(q, at, 0, s, strong)
  BY <1>1, Zenon
<1>3. s \in Seq(Item) /\ strong \in BOOLEAN /\ Len(s) = 0
  OBVIOUS
<1>4. fuel \in Nat /\ at \in Nat /\ at \in 0..size
  BY StepsIs, CurrentAt0
<1>5. Whole(o) /\ o.size = at
  BY <1>4, CurrentIs
<1>6. at <= MaxSize /\ MaxSize \in Nat
  <2>1. at \in 0..Len(cells) /\ Len(cells) <= MaxSize /\ MaxSize \in Nat /\ Len(cells) \in Nat
    BY <1>5, WholeIs, CurrentIs, <1>4 DEF CellsAssumption, VectorAssumption, VectorIsWhole
  <2> QED
    BY <2>1
<1> HIDE DEF o, at
<1>7. GrowsOrThrows(r, o, at, s)
  <2>1. Ready(v, at, s, at)
    BY <1>4, <1>6, BufferIs
  <2>2. at \in 0..o.size /\ o.size + Len(s) <= at
    BY <1>3, <1>4, <1>5
  <2> HIDE DEF v, s
  <2> QED
    BY <2>1, <2>2, <1>3, <1>4, <1>5, <1>6, SwapOutIs
<1> HIDE DEF r
<1>8. Held(r) /\ r \in Progress
  BY <1>7, WholeIsHeld DEF GrowsOrThrows
<1>9. q.cells = r.cells /\ q.size = r.size /\ q.threw = FALSE
  BY <1>8 DEF Progress
<1> HIDE DEF q, s, strong
<1>10. Spliced(r, o, at, 0, s)
  <2>1. CASE r.threw
    BY <2>1, <1>3, <1>5, <1>7, SameIsSpliced DEF GrowsOrThrows
  <2>2. CASE ~r.threw
    BY <2>2, <1>7 DEF GrowsOrThrows
  <2> QED
    BY <2>1, <2>2
<1>11. Held(q)
  BY <1>8, <1>9 DEF Held
<1>12. Spliced(q, o, at, 0, s)
  BY <1>9, <1>10 DEF Spliced
<1>13. Does(q, o, at, 0, s, TRUE)
  BY <1>9, <1>11, <1>12 DEF Does
<1> QED
  BY <1>2, <1>3, <1>4, <1>13, PutStep DEF o

\* The steps that put something in the place of all elements.
LEMMA ReplaceStep ==
  ASSUME CellsAssumption, VectorAssumption, VectorIsWhole, NEW fuel \in Nat, NEW s \in Seq(Item),
         NEW strong \in BOOLEAN,
         NEW q, NEW how, strong => how, Does(q, Current(fuel), 0, Current(fuel).size, s, how),
         Becomes(q, 0, size, s, strong)
  PROVE  VectorIsWhole' /\ ~torn' /\ C!Next
<1> DEFINE at == 0
           cut == size
<1>1. cut \in Nat /\ Current(fuel).size = cut
  BY CurrentIs, CurrentAt0
<1>2. at \in 0..size /\ cut \in 0..(size - at)
  BY <1>1
<1>3. Does(q, Current(fuel), at, cut, s, how) /\ Becomes(q, at, cut, s, strong)
  BY <1>1
<1> HIDE DEF at, cut
<1> QED
  BY <1>2, <1>3, BecomesIs

LEMMA AssignOpStep ==
  ASSUME CellsAssumption, VectorAssumption, VectorIsWhole, AssignOp
  PROVE  VectorIsWhole' /\ ~torn' /\ C!Next
<1>1. PICK fuel \in Steps, s \in Input :
        \/ Becomes(AssignSized(Current(fuel), s, FALSE), 0, size, s, FALSE)
        \/ Becomes(AssignInput(Current(fuel), s), 0, size, s, FALSE)
        \/ \E n \in 0..MaxCount, x \in Value :
             Becomes(AssignSized(Current(fuel), Times(n, x), TRUE), 0, size, Times(n, x), FALSE)
  BY DEF AssignOp
<1> DEFINE o == Current(fuel)
           no == FALSE
           yes == TRUE
<1>2. fuel \in Nat /\ s \in Seq(Item) /\ no \in BOOLEAN /\ ~no
  BY StepsIs, InputIs
<1>3. Whole(o) /\ ~o.threw
  BY <1>2, CurrentIs
<1>4. \/ Becomes(AssignSized(o, s, no), 0, size, s, no)
      \/ Becomes(AssignInput(o, s), 0, size, s, no)
      \/ \E n \in 0..MaxCount, x \in Value :
           Becomes(AssignSized(o, Times(n, x), yes), 0, size, Times(n, x), no)
  BY <1>1, Zenon
<1> HIDE DEF o, no, yes
<1>5. CASE Becomes(AssignSized(o, s, no), 0, size, s, no)
  <2>1. Does(AssignSized(o, s, no), o, 0, o.size, s, FALSE)
    BY <1>2, <1>3, AssignSizedIs
  <2> QED
    BY <2>1, <1>2, <1>5, ReplaceStep DEF o
<1>6. CASE Becomes(AssignInput(o, s), 0, size, s, no)
  <2>1. Does(AssignInput(o, s), o, 0, o.size, s, FALSE)
    BY <1>2, <1>3, AssignInputIs
  <2> QED
    BY <2>1, <1>2, <1>6, ReplaceStep DEF o
<1>7. ASSUME NEW n \in 0..MaxCount, NEW x \in Value,
             Becomes(AssignSized(o, Times(n, x), yes), 0, size, Times(n, x), no)
      PROVE  VectorIsWhole' /\ ~torn' /\ C!Next
  <2> DEFINE t == Times(n, x)
  <2>1. n \in Nat /\ x \in Item
    BY DEF CellsAssumption, VectorAssumption, Item
  <2>2. t \in Seq(Item)
    BY <2>1, TimesIs
  <2>3. Becomes(AssignSized(o, t, yes), 0, size, t, no)
    BY <1>7
  <2> HIDE DEF t
  <2>4. Does(AssignSized(o, t, yes), o, 0, o.size, t, FALSE)
    BY <2>2, <1>3, AssignSizedIs
  <2> QED
    BY <2>2, <2>3, <2>4, <1>2, ReplaceStep DEF o
<1> QED
  BY <1>4, <1>5, <1>6, <1>7

\* A step that has the elements of s, and no exception.
LEMMA HasIsSpliced ==
  ASSUME NEW o, Whole(o), NEW q, Held(q), NEW s, Len(s) \in Nat, ~q.threw, Has(q, s)
  PROVE  Does(q, o, 0, o.size, s, TRUE)
<1>1. Does(q, o, 0, o.size, s, FALSE)
  BY HasDoes
<1> QED
  BY <1>1 DEF Does

LEMMA TakeStep ==
  ASSUME CellsAssumption, VectorAssumption, VectorIsWhole, Take
  PROVE  VectorIsWhole' /\ ~torn' /\ C!Next
<1>1. PICK s \in Input, spare \in 0..MaxCount :
        /\ Len(s) + spare <= MaxSize
        /\ Becomes([Current(0) EXCEPT !.cells = s \o Times(spare, Raw), !.size = Len(s)],
                 0, size, s, TRUE)
  BY DEF Take
<1> DEFINE fuel == 0
           o == Current(fuel)
           n == Len(s)
           t == Times(spare, Raw)
           c == s \o t
           q == [o EXCEPT !.cells = c, !.size = n]
           strong == TRUE
<1>2. Becomes(q, 0, size, s, strong)
  BY <1>1, Zenon
<1>3. strong \in BOOLEAN /\ fuel \in Nat
  OBVIOUS
<1> HIDE DEF fuel, strong
<1>4. spare \in Nat /\ s \in Seq(Item) /\ n \in Nat /\ n + spare <= MaxSize
  BY <1>1, InputIs DEF CellsAssumption, VectorAssumption
<1>5. Whole(o) /\ o \in Progress /\ ~o.threw /\ o.threw \in BOOLEAN
  BY <1>3, CurrentIs, WholeIs
<1> HIDE DEF o
<1>6. t \in Seq(Cell) /\ Len(t) = spare /\ \A i \in 1..spare : t[i] = Raw
  <2>1. Raw \in Cell
    BY DEF Cell
  <2> QED
    BY <2>1, <1>4, TimesIs
<1> HIDE DEF t
<1>7. s \in Seq(Cell) /\ \A i \in 1..n : s[i] \in Item
  BY <1>4, SeqIs DEF Cell
<1>8. c \in Seq(Cell) /\ Len(c) = n + spare
      /\ \A i \in 1..(n + spare) : c[i] = IF i <= n THEN s[i] ELSE t[i - n]
  BY <1>6, <1>7, ConcatProperties
<1> HIDE DEF c, n
<1>9. q.cells = c /\ q.size = n /\ q.threw = FALSE
  BY <1>5 DEF Progress
<1> HIDE DEF q
<1>10. ASSUME NEW i \in 1..(n + spare) PROVE c[i] = Raw <=> i > n
  <2>1. CASE i <= n
    <3>1. i \in 1..n /\ ~(i > n)
      BY <2>1, <1>4
    <3>2. c[i] \in Item
      BY <2>1, <3>1, <1>7, <1>8
    <3> QED
      BY <3>1, <3>2, ItemIsNotRaw
  <2>2. CASE ~(i <= n)
    <3>1. i - n \in 1..spare /\ i > n
      BY <2>2, <1>4
    <3> QED
      BY <3>1, <2>2, <1>6, <1>8
  <2> QED
    BY <2>1, <2>2
<1>11. Held(q)
  <2>1. n <= n + spare /\ n \in Nat /\ n + spare <= MaxSize
    BY <1>4
  <2>2. /\ q.cells \in Seq(Cell) /\ q.size \in Nat /\ q.threw \in BOOLEAN
        /\ q.size <= Len(q.cells) /\ Len(q.cells) <= MaxSize
    BY <2>1, <1>8, <1>9
  <2>3. \A i \in 1..Len(q.cells) : q.cells[i] = Raw <=> i > q.size
    BY <1>8, <1>9, <1>10
  <2> QED
    BY <2>2, <2>3 DEF Held
<1>12. Has(q, s)
  BY <1>4, <1>8, <1>9 DEF Has, n
<1>13. Does(q, o, 0, o.size, s, TRUE)
  BY <1>4, <1>5, <1>9, <1>11, <1>12, HasIsSpliced DEF n
<1> QED
  BY <1>2, <1>3, <1>4, <1>13, ReplaceStep DEF o

LEMMA GiveStep ==
  ASSUME CellsAssumption, VectorAssumption, VectorIsWhole, Give
  PROVE  VectorIsWhole' /\ ~torn' /\ C!Next
<1> DEFINE fuel == 0
           o == Current(fuel)
           s == <<>>
           q == [o EXCEPT !.cells = <<>>, !.size = 0]
           strong == TRUE
<1>1. Becomes(q, 0, size, s, strong)
  BY Zenon DEF Give
<1>2. strong \in BOOLEAN /\ fuel \in Nat /\ s \in Seq(Item) /\ Len(s) = 0
  OBVIOUS
<1> HIDE DEF fuel, strong
<1>3. Whole(o)
  BY <1>2, CurrentIs
<1>4. q = [cells |-> <<>>, size |-> 0, left |-> fuel, threw |-> FALSE]
  <2> DEFINE none == <<>>
             zero == 0
             no == FALSE
  <2>1. o = [cells |-> cells, size |-> size, left |-> fuel, threw |-> no]
    BY DEF Current
  <2>2. q = [o EXCEPT !.cells = none, !.size = zero]
    OBVIOUS
  <2> HIDE DEF o, q, none, zero, no
  <2>3. q = [cells |-> none, size |-> zero, left |-> fuel, threw |-> no]
    BY <2>1, <2>2
  <2> QED
    BY <2>3 DEF none, zero, no
<1> HIDE DEF o
<1> DEFINE left == fuel
           threw == FALSE
<1>5. left \in Int /\ threw \in BOOLEAN /\ (~threw => left \in Nat)
  BY <1>2
<1>14. q = [cells |-> <<>>, size |-> 0, left |-> left, threw |-> threw] /\ ~threw
  BY <1>4
<1> HIDE DEF left, threw
<1>6. Whole([cells |-> <<>>, size |-> 0, left |-> left, threw |-> threw])
  BY <1>5, NoneIs
<1>7. Held(q) /\ q.size = 0 /\ ~q.threw
  BY <1>14, <1>6, WholeIsHeld
<1> HIDE DEF q
<1>8. Has(q, s)
  <2>1. \A i : i \notin 1..0
    OBVIOUS
  <2> QED
    BY <2>1, <1>2, <1>7 DEF Has
<1> HIDE DEF s
<1>9. Does(q, o, 0, o.size, s, TRUE)
  <2>1. Len(s) \in Nat
    BY <1>2
  <2> QED
    BY <2>1, <1>3, <1>7, <1>8, HasIsSpliced
<1> QED
  BY <1>1, <1>2, <1>9, ReplaceStep DEF o

LEMMA CreateVectorStep ==
  ASSUME CellsAssumption, VectorAssumption, VectorIsWhole, CreateVector
  PROVE  VectorIsWhole' /\ ~torn' /\ C!Next
<1>1. PICK fuel \in Steps, s \in Input, counted \in BOOLEAN :
        Becomes(Constructed(fuel, s, counted), 0, size, s, FALSE)
  BY DEF CreateVector
<1> DEFINE o == Current(fuel)
           q == Constructed(fuel, s, counted)
           no == FALSE
<1>2. Becomes(q, 0, size, s, no)
  BY <1>1, Zenon
<1>3. no \in BOOLEAN /\ ~no /\ fuel \in Nat /\ s \in Seq(Item)
  BY StepsIs, InputIs
<1>4. Whole(o)
  BY <1>3, CurrentIs
<1> HIDE DEF o
<1>5. Does(q, o, 0, o.size, s, FALSE)
  BY <1>3, <1>4, ConstructedIs
<1> HIDE DEF q, no
<1> QED
  BY <1>2, <1>3, <1>5, ReplaceStep DEF o

-----------------------------------------------------------------------------
(* The vector. *)

LEMMA InitHolds ==
  ASSUME CellsAssumption, VectorAssumption, VectorInit
  PROVE  VectorIsWhole /\ ~torn /\ C!Init
<1>1. cells = <<>> /\ size = 0 /\ vectorCall = C!NoCall /\ ~torn
  BY DEF VectorInit
<1> DEFINE s == <<>>
           zero == 0
<1>2. s \in Seq(Item \cup {Raw}) /\ Len(s) = zero /\ MaxSize \in Nat /\ zero \in 0..Len(s)
      /\ zero <= MaxSize /\ DOMAIN s = 1..0
  BY DEF CellsAssumption, VectorAssumption
<1>3. \A i : i \notin 1..0
  OBVIOUS
<1>4. cells = s /\ size = zero
  BY <1>1
<1> HIDE DEF s, zero
<1>5. VectorIsWhole
  BY <1>2, <1>3, <1>4 DEF VectorIsWhole
<1>6. Elements \in Seq(Item)
  BY <1>5, CurrentAt0, CurrentIs, WholeIs, ElementsIs DEF Elements, VectorIsWhole
<1> QED
  BY <1>1, <1>5, <1>6 DEF C!Init

LEMMA StepIs ==
  ASSUME CellsAssumption, VectorAssumption, VectorHoldsItsElements, [VectorNext]_vectorVars
  PROVE  VectorHoldsItsElements' /\ [C!Next \/ torn']_<<Elements, vectorCall>>
<1>1. CASE UNCHANGED vectorVars
  BY <1>1 DEF vectorVars, VectorHoldsItsElements, VectorIsWhole, VectorIsTorn, Elements
<1>2. CASE StayTorn
  BY <1>1, <1>2 DEF StayTorn
<1>3. CASE ~torn /\ ~UNCHANGED vectorVars /\ ~StayTorn
  <2>1. VectorIsWhole
    BY <1>3 DEF VectorHoldsItsElements
  <2>2. CASE InsertStream
    BY <2>1, <2>2, InsertStreamStep DEF VectorHoldsItsElements
  <2>3. CASE ~InsertStream
    <3>1. CASE PushBack \/ InsertOne \/ InsertCopies \/ InsertForward
      BY <2>1, <3>1, PushBackStep, InsertOneStep, InsertCopiesStep, InsertForwardStep
         DEF VectorHoldsItsElements
    <3>2. CASE Erase \/ Truncate \/ Resize \/ Reserve \/ ShrinkToFit
      BY <2>1, <3>2, EraseStep, TruncateStep, ResizeStep, ReserveStep, ShrinkToFitStep
         DEF VectorHoldsItsElements
    <3>3. CASE AssignOp \/ Take \/ Give \/ CreateVector
      BY <2>1, <3>3, AssignOpStep, TakeStep, GiveStep, CreateVectorStep
         DEF VectorHoldsItsElements
    <3> QED
      BY <3>1, <3>2, <3>3, <2>3, <1>3 DEF VectorNext
  <2> QED
    BY <2>2, <2>3
<1> QED
  BY <1>1, <1>2, <1>3 DEF VectorNext

\* Growth, aliased arguments and a throw at any step of any call leave elements
\* before end_ and raw cells behind it, for vectors of any length; but for an
\* insertion from input iterators that throws after it filled the spare cells, and
\* that leaves end_ behind cells it destroyed.
THEOREM VectorHolds ==
  ASSUME VectorAssumption
  PROVE  VectorSpec => []VectorHoldsItsElements
<1>0. CellsAssumption
  BY DEF VectorAssumption
<1>1. VectorInit => VectorHoldsItsElements
  BY <1>0, InitHolds DEF VectorHoldsItsElements
<1>2. VectorHoldsItsElements /\ [VectorNext]_vectorVars => VectorHoldsItsElements'
  BY <1>0, StepIs
<1> QED
  BY <1>1, <1>2, PTL DEF VectorSpec

\* Every call does to the elements what Container promises: those after the
\* position give way to the arguments as they were when the call was made, or the
\* call throws, and has then done nothing where it has the strong guarantee; but
\* for the insertion that tears the vector.
THEOREM VectorContains ==
  ASSUME VectorAssumption
  PROVE  VectorSpec => VectorIsContainer
<1>0. CellsAssumption
  BY DEF VectorAssumption
<1>1. VectorInit => VectorHoldsItsElements /\ C!Init
  BY <1>0, InitHolds DEF VectorHoldsItsElements
<1>2. VectorHoldsItsElements /\ [VectorNext]_vectorVars
        => VectorHoldsItsElements' /\ [C!Next \/ torn']_<<Elements, vectorCall>>
  BY <1>0, StepIs
<1> QED
  BY <1>1, <1>2, PTL DEF VectorSpec, VectorIsContainer

-----------------------------------------------------------------------------
(* The vector whose cells are its own. *)

\* A call of an inplace vector under way: it has all its cells.
Fits(o) == Whole(o) /\ Len(o.cells) = MaxSize

\* The call has put s in the place of cut elements of o, in the same cells.
Replaces(q, o, at, cut, s, strong) ==
  Does(q, o, at, cut, s, strong) /\ Len(q.cells) = Len(o.cells)

LEMMA ThrowReplaces ==
  ASSUME NEW o, Whole(o), NEW at, NEW cut, NEW s, NEW strong
  PROVE  Replaces(Throw(o), o, at, cut, s, strong)
<1> DEFINE q == Throw(o)
<1>1. Whole(q) /\ q.threw = TRUE /\ Same(q, o) /\ q.cells = o.cells
  BY ThrowIs
<1> HIDE DEF q
<1>2. Held(q)
  BY <1>1, WholeIsHeld
<1>3. Replaces(q, o, at, cut, s, strong)
  BY <1>1, <1>2 DEF Replaces, Does
<1> QED
  BY <1>3 DEF q

LEMMA InplaceEmplaceBackIs ==
  ASSUME CellsAssumption, NEW o, Fits(o), ~o.threw, NEW y \in Item
  PROVE  LET q == InplaceEmplaceBack(o, y)
         IN  Fits(q) /\ Replaces(q, o, o.size, 0, <<y>>, TRUE)
<1> DEFINE q == InplaceEmplaceBack(o, y)
           s == <<y>>
<1>1. Whole(o) /\ Len(o.cells) = MaxSize /\ o.size \in Nat /\ o.size <= Len(o.cells) /\ Len(o.cells) \in Nat
  BY WholeIs DEF Fits
<1>2. s \in Seq(Item) /\ Len(s) = 1
  OBVIOUS
<1>3. CASE o.size = MaxSize
  <2>1. q = Throw(o)
    BY <1>3 DEF InplaceEmplaceBack
  <2>2. Whole(Throw(o)) /\ Throw(o).cells = o.cells
    BY <1>1, ThrowIs
  <2> HIDE DEF q, s
  <2>3. Replaces(q, o, o.size, 0, s, TRUE)
    BY <2>1, <1>1, ThrowReplaces
  <2> QED
    BY <2>1, <2>2, <2>3, <1>1 DEF Fits, q, s
<1>4. CASE o.size # MaxSize
  <2>1. q = ConstructAtEnd(o, s)
    BY <1>4 DEF InplaceEmplaceBack
  <2>2. o.size < Len(o.cells) /\ o.size + Len(s) <= Len(o.cells)
    BY <1>1, <1>2, <1>4
  <2>3. Does(q, o, o.size, 0, s, TRUE) /\ Whole(q)
    BY <2>1, <2>2, <1>1, ConstructOneIs
  <2> HIDE DEF q, s
  <2>4. Len(q.cells) = Len(o.cells)
    BY <2>1, <2>2, <1>1, <1>2, ConstructAtEndIs
  <2>5. Fits(q) /\ Replaces(q, o, o.size, 0, s, TRUE)
    BY <2>3, <2>4, <1>1 DEF Fits, Replaces
  <2> QED
    BY <2>5 DEF q, s
<1> QED
  BY <1>3, <1>4

\* What a call has put at the end, or it has thrown.
PutsAtEnd(q, o, s) == Fits(q) /\ (~q.threw => Spliced(q, o, o.size, 0, s))

LEMMA InplacePushAllIs ==
  ASSUME CellsAssumption, NEW o, Fits(o), ~o.threw, NEW s \in Seq(Item)
  PROVE  PutsAtEnd(InplacePushAll(o, s), o, s)
<1> DEFINE n == Len(s)
           V == {q \in Progress : Fits(q)}
           Add(q, k) == IF q.threw THEN q ELSE InplaceEmplaceBack(q, s[k])
           Def(g) == [k \in 0..n |-> IF k = 0 THEN o ELSE Add(g[k - 1], k)]
           pushed == CHOOSE g : g = Def(g)
           F == [k \in 1..n |-> [q \in V |-> Add(q, k)]]
<1>1. n \in Nat /\ \A i \in 1..n : s[i] \in Item
  BY SeqIs
<1>2. o \in V
  BY WholeIs DEF Fits
<1> HIDE DEF n
<1>3. ASSUME NEW q, Fits(q), ~q.threw, NEW k \in 1..n
      PROVE  Fits(Add(q, k)) /\ (~Add(q, k).threw => Spliced(Add(q, k), q, q.size, 0, <<s[k]>>))
  <2> DEFINE y == s[k]
             p == InplaceEmplaceBack(q, y)
  <2>1. Add(q, k) = p
    BY <1>3
  <2>2. y \in Item
    BY <1>1
  <2> HIDE DEF y
  <2>3. Fits(p) /\ Replaces(p, q, q.size, 0, <<y>>, TRUE)
    BY <2>2, <1>3, InplaceEmplaceBackIs
  <2> QED
    BY <2>1, <2>3 DEF Replaces, Does, y
<1> HIDE DEF Add
<1>4. ASSUME NEW q \in V, NEW k \in 1..n PROVE Add(q, k) \in V
  <2>1. Fits(Add(q, k))
    BY <1>3 DEF Add
  <2> QED
    BY <2>1, WholeIs DEF Fits
<1>5. F \in [1..n -> [V -> V]] /\ \A k \in 1..n, q \in V : F[k][q] = Add(q, k)
  <2> HIDE DEF V
  <2> QED
    BY <1>4
<1> HIDE DEF V, F
<1>6. \E g : g = Def(g)
  <2>1. PICK g : IsDefinedTo(g, n, V, o, F)
    BY <1>1, <1>2, <1>5, RecursionTo
  <2>2. g \in [0..n -> V] /\ g = [k \in 0..n |-> IF k = 0 THEN o ELSE F[k][g[k - 1]]]
    BY <2>1 DEF IsDefinedTo
  <2>3. ASSUME NEW k \in 0..n, k # 0 PROVE F[k][g[k - 1]] = Add(g[k - 1], k)
    <3>1. k \in 1..n /\ k - 1 \in 0..n
      BY <2>3, <1>1
    <3> QED
      BY <3>1, <2>2, <1>5
  <2>4. g = [k \in 0..n |-> IF k = 0 THEN o ELSE Add(g[k - 1], k)]
    BY <2>2, <2>3
  <2> QED
    BY <2>4
<1>7. pushed = Def(pushed)
  <2> HIDE DEF Def
  <2> QED
    BY <1>6
<1>8. InplacePushAll(o, s) = pushed[n]
  BY DEF InplacePushAll, Then, Add, n
<1> HIDE DEF pushed
<1>9. pushed[0] = o /\ \A k \in 1..n : pushed[k] = Add(pushed[k - 1], k)
  BY <1>1, <1>7
<1>10. ASSUME NEW k \in 1..n, pushed[k - 1] \in V PROVE AddsTo(pushed[k], pushed[k - 1], s[k], V)
  <2> DEFINE q == pushed[k - 1]
             p == Add(q, k)
  <2>1. pushed[k] = p
    BY <1>9
  <2>2. p \in V /\ (~q.threw => Fits(q)) /\ (q.threw => p = q)
    BY <1>4, <1>10 DEF V, Add
  <2>3. ~q.threw => Fits(p) /\ (~p.threw => Spliced(p, q, q.size, 0, <<s[k]>>))
    BY <2>2, <1>3
  <2> HIDE DEF p, q
  <2>4. AddsTo(p, q, s[k], V)
    BY <2>2, <2>3 DEF AddsTo
  <2> QED
    BY <2>1, <2>4 DEF q
<1>11. pushed[n] \in V /\ (~pushed[n].threw => Spliced(pushed[n], o, o.size, 0, s))
  <2>1. Sized(V)
    BY WholeIs DEF V, Sized, Fits
  <2>2. Pushes(pushed, o, s, V)
    BY <1>9, <1>10 DEF Pushes, n
  <2> QED
    BY <2>1, <2>2, <1>2, PushedIs DEF n
<1> QED
  BY <1>8, <1>11 DEF V, PutsAtEnd

LEMMA InplaceRangeAtEnd ==
  ASSUME CellsAssumption, NEW o, Fits(o), ~o.threw, NEW s \in Seq(Item), o.size + Len(s) <= MaxSize
  PROVE  LET q == ConstructRange(o, s) IN PutsAtEnd(q, o, s) /\ (q.threw => Same(q, o))
<1> DEFINE q == ConstructRange(o, s)
<1>1. Whole(o) /\ Len(o.cells) = MaxSize
  BY DEF Fits
<1>2. /\ Whole(q) /\ Len(q.cells) = Len(o.cells)
      /\ q.threw => Same(q, o)
      /\ ~q.threw => Spliced(q, o, o.size, 0, s)
  BY <1>1, ConstructRangeIs
<1> HIDE DEF q
<1>3. PutsAtEnd(q, o, s) /\ (q.threw => Same(q, o))
  BY <1>1, <1>2 DEF PutsAtEnd, Fits
<1> QED
  BY <1>3 DEF q

\* What was put at the end is rotated into its place.
LEMMA RotatedIs ==
  ASSUME CellsAssumption, NEW o, Fits(o), NEW at \in 0..o.size, NEW s \in Seq(Item),
         NEW q, PutsAtEnd(q, o, s), NEW strong, strong => nothrowMove \/ at = o.size,
         q.threw /\ strong => Same(q, o)
  PROVE  Replaces(IF q.threw THEN q ELSE Rotate(q, at, o.size), o, at, 0, s, strong)
<1> DEFINE sz == o.size
           t == Rotate(q, at, sz)
           r == IF q.threw THEN q ELSE t
<1>1. (IF q.threw THEN q ELSE Rotate(q, at, o.size)) = r
  OBVIOUS
<1>2. Whole(o) /\ Whole(q) /\ Len(q.cells) = MaxSize /\ Len(o.cells) = MaxSize /\ Held(q)
  BY WholeIsHeld DEF PutsAtEnd, Fits
<1>3. sz \in Nat
  BY <1>2, WholeIs
<1>4. CASE q.threw
  <2>1. r = q
    BY <1>4
  <2> HIDE DEF r
  <2>2. Replaces(r, o, at, 0, s, strong)
    BY <2>1, <1>2, <1>4 DEF Replaces, Does
  <2> QED
    BY <2>2, <1>1
<1>5. CASE ~q.threw /\ t = Throw(q) /\ ~nothrowMove /\ at < sz
  <2>1. r = Throw(q) /\ ~strong
    BY <1>3, <1>5 DEF sz
  <2>2. Whole(Throw(q)) /\ Throw(q).threw = TRUE /\ Throw(q).cells = q.cells
    BY <1>2, ThrowIs
  <2> HIDE DEF r
  <2>3. Held(r) /\ r.threw = TRUE /\ Len(r.cells) = MaxSize
    BY <2>1, <2>2, <1>2, WholeIsHeld
  <2>4. Replaces(r, o, at, 0, s, strong)
    BY <2>1, <2>3, <1>2 DEF Replaces, Does
  <2> QED
    BY <2>4, <1>1
<1>6. CASE ~q.threw /\ ~t.threw
  <2>1. Spliced(q, o, o.size, 0, s)
    BY <1>6 DEF PutsAtEnd
  <2>2. Held(t) /\ Spliced(t, o, at, 0, s) /\ Len(t.cells) = Len(q.cells)
    BY <2>1, <1>2, <1>6, RotateIs
  <2>3. r = t
    BY <1>6
  <2> HIDE DEF r, t
  <2>4. Replaces(r, o, at, 0, s, strong)
    BY <2>2, <2>3, <1>2, <1>6 DEF Replaces, Does
  <2> QED
    BY <2>4, <1>1
<1>7. q.threw \/ (~q.threw /\ t = Throw(q) /\ ~nothrowMove /\ at < sz) \/ (~q.threw /\ ~t.threw)
  <2>1. CASE ~nothrowMove /\ q.left = 0 /\ at < sz /\ sz < q.size
    BY <2>1 DEF Rotate
  <2>2. CASE ~(~nothrowMove /\ q.left = 0 /\ at < sz /\ sz < q.size)
    <3>1. t.threw = q.threw
      <4>1. q \in Progress
        BY <1>2, WholeIs
      <4> QED
        BY <4>1, <2>2 DEF Rotate, Progress
    <3> QED
      BY <3>1
  <2> QED
    BY <2>1, <2>2
<1> QED
  BY <1>4, <1>5, <1>6, <1>7

LEMMA InplaceEmplaceIs ==
  ASSUME CellsAssumption, NEW o, Fits(o), ~o.threw, NEW at \in 0..o.size, NEW y \in Item,
         NEW strong, strong => nothrowMove \/ at = o.size
  PROVE  Replaces(InplaceEmplace(o, at, y), o, at, 0, <<y>>, strong)
<1> DEFINE q == InplaceEmplaceBack(o, y)
           s == <<y>>
           r == IF q.threw THEN q ELSE Rotate(q, at, o.size)
<1>1. InplaceEmplace(o, at, y) = r
  BY DEF InplaceEmplace, Then
<1>2. s \in Seq(Item)
  OBVIOUS
<1>3. Fits(q) /\ Replaces(q, o, o.size, 0, s, TRUE)
  BY InplaceEmplaceBackIs
<1> HIDE DEF q, s
<1>4. PutsAtEnd(q, o, s) /\ (q.threw => Same(q, o))
  BY <1>3 DEF PutsAtEnd, Replaces, Does
<1>5. Replaces(r, o, at, 0, s, strong)
  BY <1>2, <1>4, RotatedIs
<1> QED
  BY <1>1, <1>5 DEF s

LEMMA InplaceInsertRangeIs ==
  ASSUME CellsAssumption, NEW o, Fits(o), ~o.threw, NEW at \in 0..o.size, NEW s \in Seq(Item),
         NEW strong, strong => nothrowMove \/ at = o.size
  PROVE  Replaces(InplaceInsertRange(o, at, s), o, at, 0, s, strong)
<1> DEFINE q == ConstructRange(o, s)
           r == IF q.threw THEN q ELSE Rotate(q, at, o.size)
           n == Len(s)
<1>1. n \in Nat /\ o.size \in Nat /\ MaxSize \in Nat /\ Whole(o)
  BY SeqIs, WholeIs DEF CellsAssumption, Fits
<1>2. CASE MaxSize - o.size < n
  <2>1. InplaceInsertRange(o, at, s) = Throw(o)
    BY <1>2 DEF InplaceInsertRange
  <2> QED
    BY <2>1, <1>1, ThrowReplaces
<1>3. CASE ~(MaxSize - o.size < n)
  <2>1. InplaceInsertRange(o, at, s) = r
    BY <1>3 DEF InplaceInsertRange, Then
  <2>2. o.size + Len(s) <= MaxSize
    BY <1>1, <1>3
  <2>3. PutsAtEnd(q, o, s) /\ (q.threw => Same(q, o))
    BY <2>2, InplaceRangeAtEnd
  <2> HIDE DEF q
  <2>4. Replaces(r, o, at, 0, s, strong)
    BY <2>3, RotatedIs
  <2> QED
    BY <2>1, <2>4
<1> QED
  BY <1>2, <1>3

LEMMA InplaceInsertCountIs ==
  ASSUME CellsAssumption, NEW o, Fits(o), ~o.threw, NEW at \in 0..o.size, NEW n \in Nat, NEW y \in Item,
         NEW strong, strong => nothrowMove \/ at = o.size
  PROVE  Replaces(InplaceInsertCount(o, at, n, y), o, at, 0, Times(n, y), strong)
<1> DEFINE s == Times(n, y)
<1>1. s \in Seq(Item) /\ Len(s) = n
  BY TimesIs
<1>2. InplaceInsertCount(o, at, n, y) = InplaceInsertRange(o, at, s)
  BY <1>1 DEF InplaceInsertCount, InplaceInsertRange, Then
<1> HIDE DEF s
<1>3. Replaces(InplaceInsertRange(o, at, s), o, at, 0, s, strong)
  BY <1>1, InplaceInsertRangeIs
<1> QED
  BY <1>2, <1>3 DEF s

LEMMA InplaceInsertInputIs ==
  ASSUME CellsAssumption, NEW o, Fits(o), ~o.threw, NEW at \in 0..o.size, NEW s \in Seq(Item)
  PROVE  Replaces(InplaceInsertInput(o, at, s), o, at, 0, s, FALSE)
<1> DEFINE q == InplacePushAll(o, s)
           r == IF q.threw THEN q ELSE Rotate(q, at, o.size)
           no == FALSE
<1>1. InplaceInsertInput(o, at, s) = r
  BY DEF InplaceInsertInput, Then
<1>2. PutsAtEnd(q, o, s)
  BY InplacePushAllIs
<1>3. ~no
  OBVIOUS
<1> HIDE DEF q, no
<1>4. Replaces(r, o, at, 0, s, no)
  BY <1>2, <1>3, RotatedIs
<1> QED
  BY <1>1, <1>4 DEF no

LEMMA InplaceEraseIs ==
  ASSUME CellsAssumption, NEW o, Fits(o), ~o.threw, NEW at \in 0..o.size, NEW n \in 0..(o.size - at)
  PROVE  Replaces(EraseRange(o, at, n), o, at, n, <<>>, at + n = o.size)
BY EraseRangeIs DEF Fits, Replaces

\* pop_back and clear, and a resize to fewer elements
LEMMA InplaceTruncateIs ==
  ASSUME NEW o, Fits(o), ~o.threw, NEW n \in 0..o.size, NEW s, Len(s) = 0, NEW strong
  PROVE  Replaces(DestructAtEnd(o, n), o, n, o.size - n, s, strong)
<1> DEFINE q == DestructAtEnd(o, n)
           none == <<>>
<1>1. Whole(o)
  BY DEF Fits
<1>2. Does(q, o, n, o.size - n, none, ~o.threw) /\ Len(q.cells) = Len(o.cells) /\ ~q.threw
  BY <1>1, CutIs, DestructAtEndIs
<1>3. Len(none) = 0
  OBVIOUS
<1> HIDE DEF q, none
<1>4. Held(q) /\ Spliced(q, o, n, o.size - n, none)
  BY <1>2 DEF Does
<1>5. n \in Nat /\ q.size = o.size - (o.size - n) + 0
  BY <1>1, <1>3, <1>4, WholeIs DEF Spliced
<1>6. Spliced(q, o, n, o.size - n, s)
  <2>1. /\ q.size = o.size - (o.size - n) + Len(s)
        /\ \A i \in 1..q.size : i <= n => q.cells[i] = o.cells[i]
    BY <1>3, <1>4, <1>5 DEF Spliced
  <2>2. q.size = n
    BY <1>1, <1>5, WholeIs
  <2> QED
    BY <2>1, <2>2, <1>5 DEF Spliced
<1>7. Replaces(q, o, n, o.size - n, s, strong)
  BY <1>2, <1>4, <1>6 DEF Replaces, Does
<1> QED
  BY <1>7 DEF q

\* resize to no fewer elements: a throw leaves those there were, and else the sum
\* of the sizes is the new one for an empty vector only.
LEMMA ResizeMoreIs ==
  ASSUME CellsAssumption, NEW o, Fits(o), ~o.threw, NEW n \in Nat, o.size <= n, NEW x \in Item, NEW strong
  PROVE  LET r == ResizeTo(o, n, x)
         IN  /\ r.threw \/ o.size = 0 => Replaces(r, o, o.size, 0, Times(n - o.size, x), strong)
             /\ ~r.threw => /\ n <= MaxSize /\ r.size = o.size + n
                            /\ r.cells \in Seq(Cell) /\ Len(r.cells) = MaxSize
                            /\ \A i \in 1..MaxSize : r.cells[i] = Raw <=> i > n
<1> DEFINE at == o.size
           more == n - at
           s == Times(more, x)
           q == ConstructRange(o, s)
           r == ResizeTo(o, n, x)
           zero == 0
<1>1. Whole(o) /\ Len(o.cells) = MaxSize /\ MaxSize \in Nat /\ zero \in Nat /\ at \in Nat /\ more \in Nat
  <2>1. Whole(o) /\ at \in Nat
    BY WholeIs DEF Fits
  <2> QED
    BY <2>1 DEF Fits, CellsAssumption
<1>2. s \in Seq(Item) /\ Len(s) = more
  BY <1>1, TimesIs
<1>3. CASE n > MaxSize
  <2>1. r = Throw(o)
    <3>1. ~(n < o.size)
      BY <1>1
    <3> QED
      BY <3>1, <1>3 DEF ResizeTo
  <2>2. Throw(o).threw = TRUE
    BY <1>1, ThrowIs
  <2>3. Replaces(Throw(o), o, at, zero, s, strong)
    BY <1>1, ThrowReplaces
  <2> HIDE DEF r
  <2> QED
    BY <2>1, <2>2, <2>3 DEF r
<1>4. CASE ~(n > MaxSize)
  <2>1. ~(n < at) /\ at + more = n /\ n <= MaxSize
    BY <1>1, <1>4
  <2>2. r = IF q.threw THEN q ELSE [q EXCEPT !.size = at + n]
    BY <2>1, <1>4 DEF ResizeTo, Then
  <2>3. o.size + Len(s) <= MaxSize
    BY <2>1, <1>2
  <2> HIDE DEF q, s, r
  <2>4. PutsAtEnd(q, o, s) /\ (q.threw => Same(q, o))
    BY <2>3, <1>2, InplaceRangeAtEnd DEF q
  <2>5. Whole(q) /\ Held(q) /\ Len(q.cells) = MaxSize /\ q \in Progress
    BY <2>4, WholeIsHeld DEF PutsAtEnd, Fits
  <2>6. CASE q.threw
    <3>1. r = q
      BY <2>2, <2>6
    <3>2. Replaces(q, o, at, zero, s, strong)
      BY <1>1, <2>4, <2>5, <2>6 DEF Replaces, Does
    <3> QED
      BY <3>1, <3>2, <2>6 DEF r, s
  <2>7. CASE ~q.threw
    <3>1. q.size = o.size - 0 + Len(s)
      BY <2>4, <2>7 DEF PutsAtEnd, Spliced
    <3>2. q.size = n
      BY <3>1, <2>1, <1>1, <1>2
    <3>3. r = [q EXCEPT !.size = at + n] /\ at + n \in Nat
      BY <2>2, <2>7, <1>1
    <3>4. r.cells = q.cells /\ r.size = at + n /\ r.threw = q.threw
      BY <3>3, <2>5 DEF Progress
    <3>5. r.cells \in Seq(Cell) /\ \A i \in 1..MaxSize : r.cells[i] = Raw <=> i > n
      BY <3>2, <3>4, <2>5 DEF Held
    <3>6. ASSUME at = 0 PROVE Replaces(r, o, at, zero, s, strong)
      <4>1. r = q
        <5>1. at + n = q.size
          BY <3>2, <3>6
        <5>2. [q EXCEPT !.size = q.size] = q
          BY <2>5 DEF Progress
        <5> QED
          BY <3>3, <5>1, <5>2
      <4>2. Spliced(q, o, at, zero, s)
        BY <2>4, <2>7 DEF PutsAtEnd, zero
      <4> QED
        BY <1>1, <4>1, <4>2, <2>5, <2>7 DEF Replaces, Does
    <3> QED
      BY <3>4, <3>5, <3>6, <2>1, <2>5, <2>7 DEF r, s
  <2> QED
    BY <2>6, <2>7
<1> QED
  BY <1>3, <1>4

LEMMA AllOfIt ==
  ASSUME NEW S, NEW s \in Seq(S)
  PROVE  SubSeq(s, 1, Len(s)) = s
<1> DEFINE n == Len(s)
           t == SubSeq(s, 1, n)
<1>1. n \in Nat /\ \A i \in 1..n : s[i] \in S
  BY SeqIs
<1> HIDE DEF n
<1>2. t \in Seq(S) /\ Len(t) = n /\ \A i \in 1..n : t[i] = s[i]
  BY <1>1, FirstIs
<1> HIDE DEF t
<1>3. t = s
  BY <1>2, SeqEqual DEF n
<1> QED
  BY <1>3 DEF t, n

LEMMA InplaceAssignFromIs ==
  ASSUME CellsAssumption, NEW o, Fits(o), ~o.threw, NEW s \in Seq(Item), Len(s) <= MaxSize
  PROVE  Replaces(InplaceAssignFrom(o, s), o, 0, o.size, s, FALSE)
<1> DEFINE n == Len(s)
           sz == o.size
           t == SubSeq(s, 1, Lesser(sz, n))
           r == Write(o, 0, t)
           q == InplaceAssignFrom(o, s)
<1>1. n \in Nat /\ sz \in Nat /\ MaxSize \in Nat /\ Whole(o) /\ Len(o.cells) = MaxSize
  BY SeqIs, WholeIs DEF CellsAssumption, Fits
<1>2. /\ Whole(r) /\ r.size = sz /\ Len(r.cells) = Len(o.cells)
      /\ ~r.threw => \A i \in 1..Lesser(sz, n) : r.cells[i] = s[i]
  BY <1>1, OverwrittenIs
<1>3. CASE n <= sz
  <2>1. Lesser(sz, n) = n /\ t = s
    <3>1. Lesser(sz, n) = n
      BY <1>1, <1>3 DEF Lesser
    <3> QED
      BY <3>1, AllOfIt
  <2>2. q = IF r.threw THEN r ELSE DestructAtEnd(r, n)
    BY <2>1, <1>3 DEF InplaceAssignFrom, Then
  <2>3. n \in 0..sz
    BY <1>1, <1>3
  <2> HIDE DEF q, r, t
  <2>4. CASE r.threw
    <3>1. Held(q) /\ q.threw /\ Len(q.cells) = Len(o.cells)
      BY <2>2, <2>4, <1>2, WholeIsHeld
    <3>2. Does(q, o, 0, o.size, s, FALSE)
      BY <3>1, <1>1, HasDoes
    <3> QED
      BY <3>1, <3>2 DEF Replaces, q
  <2>5. CASE ~r.threw
    <3>1. q = DestructAtEnd(r, n)
      BY <2>2, <2>5
    <3>2. n \in 0..r.size /\ \A i \in 1..n : r.cells[i] = s[i]
      BY <2>1, <2>3, <2>5, <1>2
    <3>3. Whole(q) /\ Has(q, s)
      BY <3>1, <3>2, <2>5, <1>2, CutHas
    <3>4. Len(q.cells) = Len(o.cells)
      BY <3>1, <3>2, <1>2, DestructAtEndIs
    <3>5. Does(q, o, 0, o.size, s, FALSE)
      BY <3>3, <1>1, HasDoes, WholeIsHeld
    <3> QED
      BY <3>4, <3>5 DEF Replaces, q
  <2> QED
    BY <2>4, <2>5
<1>4. CASE ~(n <= sz)
  <2> DEFINE rest == SubSeq(s, sz + 1, n)
             p == ConstructRange(r, rest)
  <2>1. Lesser(sz, n) = sz /\ sz <= n
    BY <1>1, <1>4 DEF Lesser
  <2>2. q = IF r.threw THEN r ELSE p
    BY <2>1, <1>4 DEF InplaceAssignFrom, Then
  <2>3. rest \in Seq(Item) /\ Len(rest) = n - sz
    BY <2>1, <1>1, RestIs
  <2> HIDE DEF q, r, t
  <2>4. CASE r.threw
    <3>1. Held(q) /\ q.threw /\ Len(q.cells) = Len(o.cells)
      BY <2>2, <2>4, <1>2, WholeIsHeld
    <3>2. Does(q, o, 0, o.size, s, FALSE)
      BY <3>1, <1>1, HasDoes
    <3> QED
      BY <3>1, <3>2 DEF Replaces, q
  <2>5. CASE ~r.threw
    <3>1. r.size + Len(rest) <= Len(r.cells)
      <4> HIDE DEF rest, n, sz
      <4>1. Len(r.cells) = MaxSize /\ r.size = sz /\ n <= MaxSize
        BY <1>1, <1>2 DEF n
      <4> QED
        BY <4>1, <2>3, <1>1
    <3>2. rest = SubSeq(s, r.size + 1, Len(s))
      BY <1>2
    <3> HIDE DEF rest
    <3>3. /\ Whole(p) /\ Len(p.cells) = Len(r.cells)
          /\ ~p.threw => Spliced(p, r, r.size, 0, rest)
      BY <3>1, <2>3, <2>5, <1>2, ConstructRangeIs
    <3> HIDE DEF p
    <3>4. ~p.threw => Has(p, s)
      <4>1. r.size <= Len(s) /\ \A i \in 1..r.size : r.cells[i] = s[i]
        BY <2>1, <2>5, <1>2
      <4> QED
        BY <4>1, <3>2, <3>3, <1>2, AppendedHas
    <3>5. Does(p, o, 0, o.size, s, FALSE)
      BY <3>3, <3>4, <1>1, HasDoes, WholeIsHeld
    <3>6. q = p /\ Len(p.cells) = Len(o.cells)
      BY <2>2, <2>5, <3>3, <1>2
    <3> QED
      BY <3>5, <3>6 DEF Replaces, q
  <2> QED
    BY <2>4, <2>5
<1> QED
  BY <1>3, <1>4

LEMMA InplaceAssignIs ==
  ASSUME CellsAssumption, NEW o, Fits(o), ~o.threw, NEW s \in Seq(Item), NEW strong, strong => Len(s) > MaxSize
  PROVE  Replaces(InplaceAssign(o, s), o, 0, o.size, s, strong)
<1> DEFINE n == Len(s)
<1>1. n \in Nat /\ MaxSize \in Nat /\ Whole(o) /\ o.size \in Nat /\ o.size <= MaxSize
  BY SeqIs, WholeIs DEF CellsAssumption, Fits
<1>2. CASE n > MaxSize
  <2>1. ~(n <= o.size)
    BY <1>1, <1>2
  <2>2. InplaceAssign(o, s) = Throw(o)
    BY <2>1, <1>2 DEF InplaceAssign
  <2> QED
    BY <2>2, <1>1, ThrowReplaces
<1>3. CASE ~(n > MaxSize)
  <2>1. ~strong /\ n <= MaxSize
    BY <1>1, <1>3
  <2>2. InplaceAssign(o, s) = InplaceAssignFrom(o, s)
    <3>1. CASE n <= o.size
      BY <3>1, <1>3 DEF InplaceAssign, InplaceAssignFrom, Then
    <3>2. CASE ~(n <= o.size)
      BY <3>2, <1>3 DEF InplaceAssign, InplaceAssignFrom, Then
    <3> QED
      BY <3>1, <3>2
  <2> DEFINE q == InplaceAssignFrom(o, s)
  <2>3. Replaces(q, o, 0, o.size, s, FALSE)
    BY <2>1, InplaceAssignFromIs
  <2> HIDE DEF q
  <2>4. Replaces(q, o, 0, o.size, s, strong)
    BY <2>1, <2>3 DEF Replaces, Does
  <2> QED
    BY <2>2, <2>4 DEF q
<1> QED
  BY <1>2, <1>3

LEMMA InplaceConstructedIs ==
  ASSUME CellsAssumption, NEW o, Fits(o), NEW fuel \in Nat, NEW s \in Seq(Item), NEW counted
  PROVE  Replaces(InplaceConstructed(fuel, s, counted), o, 0, o.size, s, FALSE)
<1> DEFINE raw == Times(MaxSize, Raw)
           zero == 0
           no == FALSE
           none == [StartInplace(fuel) EXCEPT !.cells = raw, !.size = zero]
           built == CASE ~counted -> InplacePushAll(none, s)
                      [] counted /\ Len(s) > MaxSize -> Throw(none)
                      [] OTHER -> ConstructRange(none, s)
           q == InplaceConstructed(fuel, s, counted)
<1>1. q = IF built.threw THEN Throw(none) ELSE built
  BY DEF InplaceConstructed
<1>2. Len(s) \in Nat /\ MaxSize \in Nat /\ Whole(o) /\ Len(o.cells) = MaxSize
  BY SeqIs DEF CellsAssumption, Fits
<1>3. Fits(none) /\ none.threw = FALSE /\ none.size = 0
  <2>1. Raw \in Cell
    BY DEF Cell
  <2>2. Len(raw) = MaxSize
    BY ZenonT(60), <2>1, <1>2, TimesIs
  <2>3. Whole([cells |-> raw, size |-> zero, left |-> fuel, threw |-> no])
    BY <1>2, FreshIs
  <2>4. none = [[cells |-> data, size |-> count, left |-> fuel, threw |-> no] EXCEPT !.cells = raw, !.size = zero]
    BY DEF StartInplace
  <2> HIDE DEF none, raw, zero, no
  <2>5. none = [cells |-> raw, size |-> zero, left |-> fuel, threw |-> no]
    BY <2>4
  <2>6. none.cells = raw /\ none.size = zero /\ none.threw = no
    BY <2>5
  <2> QED
    BY <2>2, <2>3, <2>5, <2>6 DEF Fits, zero, no
<1> HIDE DEF none, q, raw, zero, no
<1>4. Fits(built) /\ (~built.threw => Has(built, s))
  <2>1. CASE counted /\ Len(s) > MaxSize
    <3>1. built = Throw(none)
      BY <2>1
    <3> HIDE DEF built
    <3> QED
      BY <3>1, <1>3, ThrowIs DEF Fits
  <2>2. CASE counted /\ ~(Len(s) > MaxSize)
    <3>1. built = ConstructRange(none, s)
      BY <2>2
    <3> HIDE DEF built
    <3>2. none.size + Len(s) <= MaxSize
      BY <2>2, <1>2, <1>3
    <3>3. PutsAtEnd(built, none, s)
      BY <3>1, <3>2, <1>3, InplaceRangeAtEnd
    <3> QED
      BY <3>3, <1>3, MadeHas DEF PutsAtEnd, Fits
  <2>3. CASE ~counted
    <3>1. built = InplacePushAll(none, s)
      BY <2>3
    <3> HIDE DEF built
    <3>2. PutsAtEnd(built, none, s)
      BY <3>1, <1>3, InplacePushAllIs
    <3> QED
      BY <3>2, <1>3, MadeHas DEF PutsAtEnd, Fits
  <2> QED
    BY <2>1, <2>2, <2>3
<1> HIDE DEF built
<1>5. Held(q) /\ Len(q.cells) = Len(o.cells) /\ (~q.threw => Has(q, s))
  <2>1. CASE built.threw
    <3>1. q = Throw(none)
      BY <2>1, <1>1
    <3>2. Whole(q) /\ q.threw = TRUE /\ q.cells = none.cells
      BY <3>1, <1>3, ThrowIs DEF Fits
    <3> QED
      BY <3>2, <1>2, <1>3, WholeIsHeld DEF Fits
  <2>2. CASE ~built.threw
    <3>1. q = built
      BY <2>2, <1>1
    <3> QED
      BY <3>1, <2>2, <1>2, <1>4, WholeIsHeld DEF Fits
  <2> QED
    BY <2>1, <2>2
<1>6. Does(q, o, 0, o.size, s, FALSE)
  BY <1>2, <1>5, HasDoes
<1> QED
  BY <1>5, <1>6 DEF Replaces, q

\* The elements of s, and raw cells behind them.
LEMMA PaddedIs ==
  ASSUME CellsAssumption, NEW s \in Seq(Item), Len(s) <= MaxSize
  PROVE  LET c == s \o Times(MaxSize - Len(s), Raw)
         IN  /\ c \in Seq(Cell) /\ Len(c) = MaxSize
             /\ \A i \in 1..Len(s) : c[i] = s[i]
             /\ \A i \in 1..MaxSize : c[i] = Raw <=> i > Len(s)
<1> DEFINE n == Len(s)
           m == MaxSize - n
           r == Times(m, Raw)
           c == s \o r
<1>1. n \in Nat /\ MaxSize \in Nat /\ m \in Nat /\ n + m = MaxSize /\ \A i \in 1..n : s[i] \in Item
  BY SeqIs DEF CellsAssumption
<1>2. s \in Seq(Cell)
  BY DEF Cell
<1> HIDE DEF m
<1>3. r \in Seq(Cell) /\ Len(r) = m /\ \A i \in 1..m : r[i] = Raw
  <2>1. Raw \in Cell
    BY DEF Cell
  <2> QED
    BY <2>1, <1>1, TimesIs
<1> HIDE DEF r
<1>4. /\ c \in Seq(Cell) /\ Len(c) = Len(s) + Len(r)
      /\ \A i \in 1..(Len(s) + Len(r)) : c[i] = IF i <= Len(s) THEN s[i] ELSE r[i - Len(s)]
  BY <1>2, <1>3, ConcatProperties
<1> HIDE DEF c, n
<1>5. /\ Len(c) = MaxSize
      /\ \A i \in 1..MaxSize : c[i] = IF i <= n THEN s[i] ELSE r[i - n]
  BY <1>1, <1>3, <1>4 DEF n
<1>6. \A i \in 1..n : c[i] = s[i]
  BY <1>1, <1>5
<1>7. ASSUME NEW i \in 1..MaxSize PROVE c[i] = Raw <=> i > n
  <2>1. CASE i <= n
    <3>1. i \in 1..n /\ ~(i > n)
      BY <2>1, <1>1
    <3> QED
      BY <3>1, <1>1, <1>6, ItemIsNotRaw
  <2>2. CASE ~(i <= n)
    <3>1. i - n \in 1..m /\ i > n
      BY <2>2, <1>1
    <3> QED
      BY <3>1, <2>2, <1>3, <1>5
  <2> QED
    BY <2>1, <2>2
<1> QED
  BY <1>4, <1>5, <1>6, <1>7 DEF c, r, m, n

LEMMA SwapWithIs ==
  ASSUME CellsAssumption, NEW o, Fits(o), ~o.threw, NEW s \in Seq(Item), Len(s) <= MaxSize,
         NEW strong, strong => nothrowMove
  PROVE  Replaces(SwapWith(o, s), o, 0, o.size, s, strong)
<1> DEFINE q == SwapWith(o, s)
           n == Len(s)
           sz == o.size
           own == SubSeq(o.cells, 1, sz)
           common == Lesser(Len(own), n)
           cost == 3 * common + Greater(Len(own), n) - common
           k == o.left \div 3
           m == Lesser(common, k)
           t == SubSeq(s, 1, m)
           r == [o EXCEPT !.cells = Put(@, 0, t)]
           c == s \o Times(MaxSize - n, Raw)
<1>1. /\ n \in Nat /\ sz \in Nat /\ MaxSize \in Nat /\ Whole(o) /\ Len(o.cells) = MaxSize /\ sz <= MaxSize
      /\ o \in Progress /\ o.left \in Nat /\ o.cells \in Seq(Cell)
  BY SeqIs, WholeIs DEF CellsAssumption, Fits, Whole
<1>2. q = IF Relocates(o, cost) THEN [o EXCEPT !.cells = c, !.size = n] ELSE Throw(r)
  BY DEF SwapWith
<1>3. Len(own) = sz
  <2>1. \A i \in 1..sz : o.cells[i] \in Item
    BY <1>1, WholeIs
  <2> QED
    BY <2>1, <1>1, FirstIs
<1> HIDE DEF cost, own, c
<1>4. CASE Relocates(o, cost)
  <2>1. /\ c \in Seq(Cell) /\ Len(c) = MaxSize
        /\ \A i \in 1..n : c[i] = s[i]
        /\ \A i \in 1..MaxSize : c[i] = Raw <=> i > n
    BY PaddedIs DEF c
  <2>2. q = [o EXCEPT !.cells = c, !.size = n]
    BY <1>2, <1>4
  <2> HIDE DEF q, n
  <2>3. q.cells = c /\ q.size = n /\ q.threw = o.threw /\ o.threw \in BOOLEAN
    BY <2>2, <1>1 DEF Progress
  <2>4. Held(q) /\ ~q.threw /\ Len(q.cells) = MaxSize
    BY <2>1, <2>3, <1>1 DEF Held, n
  <2>5. Has(q, s)
    BY <2>1, <2>3 DEF Has, n
  <2>6. Does(q, o, 0, o.size, s, FALSE)
    BY <2>4, <2>5, <1>1, HasDoes DEF n
  <2>7. Replaces(q, o, 0, o.size, s, strong)
    BY <2>4, <2>6, <1>1 DEF Replaces, Does
  <2> QED
    BY <2>7 DEF q
<1>5. CASE ~Relocates(o, cost)
  <2>1. ~strong /\ q = Throw(r)
    BY <1>2, <1>5 DEF Relocates
  <2>2. k \in Nat
    BY <1>1
  <2>3. m \in 0..n /\ m <= sz
    <3>1. common \in Nat /\ common <= n /\ common <= sz
      <4> HIDE DEF n, sz
      <4>1. Lesser(sz, n) \in 0..n /\ Lesser(sz, n) <= sz
        BY <1>1, LesserIs
      <4> QED
        BY <4>1, <1>1, <1>3
    <3> HIDE DEF common, k
    <3>2. m \in 0..k /\ m <= common
      BY <3>1, <2>2, LesserIs
    <3> QED
      BY <3>1, <3>2, <1>1
  <2> HIDE DEF m, q
  <2>4. t \in Seq(Item) /\ Len(t) = m
    <3>1. m \in Nat /\ \A i \in 1..m : s[i] \in Item
      BY <2>3, <1>1, SeqIs
    <3> QED
      BY <3>1, FirstIs
  <2>5. \A i \in 1..m : t[i] \in Item
    BY <2>4, SeqIs
  <2> HIDE DEF t, n
  <2> DEFINE zero == 0
             d == Put(o.cells, zero, t)
  <2>6. /\ d \in Seq(Cell) /\ Len(d) = MaxSize
        /\ \A i \in 1..MaxSize : d[i] = IF i - zero \in 1..m THEN t[i - zero] ELSE o.cells[i]
    <3>1. t \in Seq(Cell) /\ zero \in Int
      BY <2>4 DEF Cell
    <3> HIDE DEF zero
    <3>2. /\ d \in Seq(Cell) /\ Len(d) = Len(o.cells)
          /\ \A i \in 1..Len(o.cells) : d[i] = IF i - zero \in 1..Len(t) THEN t[i - zero] ELSE o.cells[i]
      BY SMTT(30), <3>1, <1>1, PutIs
    <3> HIDE DEF d
    <3> QED
      BY <3>2, <2>4, <1>1
  <2>7. r = [o EXCEPT !.cells = d]
    OBVIOUS
  <2> HIDE DEF r, d
  <2>8. r \in Progress /\ r.cells = d /\ r.size = o.size /\ r.left = o.left
    BY <2>6, <2>7, <1>1 DEF Progress
  <2>9. \A i \in 1..sz : d[i] \in Item
    <3>1. \A i \in 1..sz : i \in 1..MaxSize /\ o.cells[i] \in Item /\ i - zero = i
      BY <1>1, WholeIs
    <3> HIDE DEF zero
    <3> QED
      BY <3>1, <2>5, <2>6
  <2>10. \A i \in 1..MaxSize : i > sz => d[i] = o.cells[i]
    <3>1. \A i \in 1..MaxSize : i > sz => i - zero \notin 1..m
      BY <2>3, <1>1
    <3> HIDE DEF zero
    <3> QED
      BY <3>1, <2>6
  <2>11. Whole(r)
    <3>1. Filled(r, o)
      <4> HIDE DEF zero
      <4> QED
        BY <2>6, <2>8, <2>9, <2>10, <1>1 DEF Filled
    <3> QED
      BY <3>1, <1>1, FilledIsWhole
  <2>12. Whole(q) /\ q.threw = TRUE /\ q.cells = d
    BY <2>1, <2>8, <2>11, ThrowIs
  <2>13. Replaces(q, o, 0, o.size, s, strong)
    BY <2>1, <2>6, <2>12, <1>1, WholeIsHeld DEF Replaces, Does
  <2> QED
    BY <2>13 DEF q
<1> QED
  BY <1>4, <1>5

-----------------------------------------------------------------------------
(* Steps of the vector whose cells are its own. *)

LEMMA StartInplaceIs ==
  ASSUME CellsAssumption, InplaceIsWhole, NEW fuel \in Nat
  PROVE  LET o == StartInplace(fuel)
         IN  Fits(o) /\ ~o.threw /\ o.cells = data /\ o.size = count /\ count \in Nat
<1> DEFINE o == StartInplace(fuel)
<1>1. MaxSize \in Nat /\ data \in [1..MaxSize -> Cell] /\ count \in 0..MaxSize /\ count \in Nat
      /\ \A i \in 1..MaxSize : data[i] = Raw <=> i > count
  BY DEF CellsAssumption, InplaceIsWhole, Cell
<1>2. data \in Seq(Cell) /\ Len(data) = MaxSize
  BY <1>1, FunctionIsSeq
<1>3. o \in Progress /\ o.left = fuel /\ o.threw = FALSE /\ o.cells = data /\ o.size = count
  BY <1>1, <1>2 DEF Progress, StartInplace
<1> HIDE DEF o
<1>4. Fits(o)
  BY <1>1, <1>2, <1>3 DEF Fits, Whole
<1> QED
  BY <1>1, <1>3, <1>4 DEF o

LEMMA InplaceArgIs ==
  ASSUME CellsAssumption, InplaceIsWhole
  PROVE  \A x \in InplaceArg : InplaceDeref(x) \in Item
<1>1. MaxSize \in Nat /\ data \in [1..MaxSize -> Cell] /\ count \in 0..MaxSize
      /\ \A i \in 1..MaxSize : data[i] = Raw <=> i > count
  BY DEF CellsAssumption, InplaceIsWhole, Cell
<1>2. ASSUME NEW i \in 1..count PROVE i \in DOMAIN data /\ data[i] \in Item
  <2>1. i \in 1..MaxSize /\ ~(i > count)
    BY <1>1
  <2>2. data[i] \in Cell /\ data[i] # Raw
    BY <2>1, <1>1
  <2> QED
    BY <2>1, <2>2, <1>1 DEF Cell
<1>3. ASSUME NEW x \in Item PROVE x \notin DOMAIN data
  <2>1. x \notin Nat
    BY DEF CellsAssumption
  <2> QED
    BY <2>1, <1>1
<1>4. ASSUME NEW x \in InplaceArg PROVE InplaceDeref(x) \in Item
  <2>1. CASE x \in Item
    BY <2>1, <1>3 DEF InplaceDeref
  <2>2. CASE x \in 1..count
    BY <2>2, <1>2 DEF InplaceDeref
  <2> QED
    BY <2>1, <2>2 DEF InplaceArg
<1> QED
  BY <1>4

LEMMA InplaceInputIs ==
  ASSUME NEW n \in Nat
  PROVE  \A s \in InplaceInput(n) : s \in Seq(Item) /\ Len(s) \in Nat /\ Len(s) <= n
<1>1. ASSUME NEW s \in InplaceInput(n) PROVE s \in Seq(Item) /\ Len(s) \in Nat /\ Len(s) <= n
  <2>1. PICK k \in 0..n : s \in [1..k -> Value]
    BY DEF InplaceInput
  <2>2. k \in Nat /\ k <= n /\ s \in [1..k -> Item]
    BY <2>1 DEF Item
  <2>3. s \in Seq(Item) /\ Len(s) = k
    BY <2>2, FunctionIsSeq
  <2> QED
    BY <2>2, <2>3
<1> QED
  BY <1>1

LEMMA InplaceFuelIs ==
  ASSUME CellsAssumption
  PROVE  \A fuel \in InplaceFuel : fuel \in Nat
BY DEF InplaceFuel, CellsAssumption

\* A step of the vector that keeps what it promises.
InplaceMoves == InplaceIsWhole' /\ ~stretched' /\ UNCHANGED nothrowMove /\ InplaceContainer!Next

\* A call that does what it says takes the vector, and its elements, such a step.
LEMMA InplaceEndedIs ==
  ASSUME CellsAssumption, InplaceIsWhole, NEW fuel \in Nat, NEW q,
         NEW at \in 0..count, NEW cut \in 0..(count - at), NEW s \in Seq(Item), NEW strong \in BOOLEAN,
         Replaces(q, StartInplace(fuel), at, cut, s, strong), InplaceEnded(q, at, cut, s, strong)
  PROVE  InplaceMoves
<1> DEFINE o == StartInplace(fuel)
<1>1. Whole(o) /\ Len(o.cells) = MaxSize /\ o.cells = data /\ o.size = count /\ count \in Nat
  BY StartInplaceIs DEF Fits
<1> HIDE DEF o
<1>2. Held(q) /\ Does(q, o, at, cut, s, strong) /\ Len(q.cells) = MaxSize
  BY <1>1 DEF Replaces, Does, o
<1>3. /\ data' = q.cells /\ count' = q.size
      /\ inplaceCall' = [at |-> at, cut |-> cut, put |-> s, strong |-> strong, threw |-> q.threw]
      /\ UNCHANGED nothrowMove /\ ~stretched'
  BY DEF InplaceEnded, InplaceLeft
<1>4. InplaceIsWhole'
  <2>1. /\ q.cells \in Seq(Cell) /\ q.size \in Nat /\ q.size <= MaxSize /\ MaxSize \in Nat
        /\ \A i \in 1..MaxSize : q.cells[i] = Raw <=> i > q.size
    BY <1>2 DEF Held, CellsAssumption
  <2>2. q.cells \in [1..MaxSize -> Cell]
    BY <2>1, <1>2
  <2>3. /\ data' \in [1..MaxSize -> Cell] /\ count' \in 0..MaxSize
        /\ \A i \in 1..MaxSize : data'[i] = Raw <=> i > count'
    BY <2>1, <2>2, <1>3
  <2> QED
    BY <2>3 DEF InplaceIsWhole, Cell
<1> DEFINE e == SubSeq(o.cells, 1, o.size)
           f == SubSeq(q.cells, 1, q.size)
<1>5. /\ e \in Seq(Item) /\ f \in Seq(Item)
      /\ ~q.threw => f = Exchanged(e, at, cut, s)
      /\ q.threw /\ strong => f = e
  BY <1>1, <1>2, DoneIs
<1>6. InplaceElements = e /\ InplaceElements' = f
  <2>1. Lesser(count, MaxSize) = count /\ Lesser(q.size, MaxSize) = q.size
    BY <1>1, <1>2, WholeIs DEF Held, Lesser, CellsAssumption
  <2> QED
    BY <2>1, <1>1, <1>3 DEF InplaceElements
<1> HIDE DEF e, f
<1>7. inplaceCall' \in InplaceContainer!Call /\ inplaceCall'.threw = q.threw /\ inplaceCall'.strong = strong
      /\ inplaceCall'.at = at /\ inplaceCall'.cut = cut /\ inplaceCall'.put = s
  <2>1. at \in Nat /\ cut \in Nat /\ q.threw \in BOOLEAN
    BY <1>1, <1>2 DEF Held
  <2> QED
    BY <2>1, <1>3 DEF InplaceContainer!Call
<1>8. CASE ~q.threw
  <2>1. f = InplaceContainer!Splice(e, at, cut, s)
    <3>1. InplaceContainer!Splice(e, at, cut, s) = Exchanged(e, at, cut, s)
      BY Zenon DEF InplaceContainer!Splice, Exchanged
    <3> QED
      BY <3>1, <1>5, <1>8
  <2>2. InplaceContainer!Return
    BY <2>1, <1>6, <1>7, <1>8 DEF InplaceContainer!Return
  <2> QED
    BY <2>2, <1>3, <1>4, <1>7 DEF InplaceContainer!Next, InplaceMoves
<1>9. CASE q.threw
  <2>1. InplaceContainer!Throw
    BY <1>5, <1>6, <1>7, <1>9 DEF InplaceContainer!Throw
  <2> QED
    BY <2>1, <1>3, <1>4, <1>7 DEF InplaceContainer!Next, InplaceMoves
<1> QED
  BY <1>8, <1>9

\* The steps that put something after at, and those that exchange all elements.
LEMMA InplacePutStep ==
  ASSUME CellsAssumption, InplaceIsWhole, NEW fuel \in Nat, NEW at \in 0..count, NEW s \in Seq(Item),
         NEW strong \in BOOLEAN,
         NEW q, Replaces(q, StartInplace(fuel), at, 0, s, strong), InplaceEnded(q, at, 0, s, strong)
  PROVE  InplaceMoves
<1> DEFINE cut == 0
<1>1. count \in Nat
  BY StartInplaceIs
<1>2. cut \in 0..(count - at)
  BY <1>1
<1>3. Replaces(q, StartInplace(fuel), at, cut, s, strong) /\ InplaceEnded(q, at, cut, s, strong)
  OBVIOUS
<1> HIDE DEF cut
<1> QED
  BY <1>2, <1>3, InplaceEndedIs

LEMMA InplaceReplaceStep ==
  ASSUME CellsAssumption, InplaceIsWhole, NEW fuel \in Nat, NEW s \in Seq(Item), NEW strong \in BOOLEAN,
         NEW q, Replaces(q, StartInplace(fuel), 0, StartInplace(fuel).size, s, strong),
         InplaceEnded(q, 0, count, s, strong)
  PROVE  InplaceMoves
<1> DEFINE at == 0
           cut == count
<1>1. cut \in Nat /\ StartInplace(fuel).size = cut
  BY StartInplaceIs
<1>2. at \in 0..count /\ cut \in 0..(count - at)
  BY <1>1
<1>3. Replaces(q, StartInplace(fuel), at, cut, s, strong) /\ InplaceEnded(q, at, cut, s, strong)
  BY <1>1
<1> HIDE DEF at, cut
<1> QED
  BY <1>2, <1>3, InplaceEndedIs

LEMMA InplacePushBackStep ==
  ASSUME CellsAssumption, InplaceIsWhole, InplacePushBack
  PROVE  InplaceMoves
<1> DEFINE yes == TRUE
<1>1. PICK fuel \in InplaceFuel, x \in InplaceArg :
        LET y == InplaceDeref(x)
        IN  InplaceEnded(InplaceEmplaceBack(StartInplace(fuel), y), count, 0, <<y>>, yes)
  BY Zenon DEF InplacePushBack
<1> DEFINE o == StartInplace(fuel)
           y == InplaceDeref(x)
           q == InplaceEmplaceBack(o, y)
           s == <<y>>
<1>2. InplaceEnded(q, count, 0, s, yes)
  BY <1>1
<1>3. fuel \in Nat /\ y \in Item /\ yes \in BOOLEAN
  BY InplaceFuelIs, InplaceArgIs
<1>4. Fits(o) /\ ~o.threw /\ o.size = count /\ count \in 0..count
  BY <1>3, StartInplaceIs
<1> HIDE DEF o, y
<1>5. s \in Seq(Item)
  BY <1>3
<1>6. Replaces(q, o, count, 0, s, yes)
  BY <1>3, <1>4, InplaceEmplaceBackIs
<1> HIDE DEF q, s, yes
<1> QED
  BY <1>2, <1>3, <1>4, <1>5, <1>6, InplacePutStep DEF o

LEMMA TryPushBackStep ==
  ASSUME CellsAssumption, InplaceIsWhole, TryPushBack
  PROVE  InplaceMoves
<1> DEFINE yes == TRUE
           none == <<>>
<1>1. PICK fuel \in InplaceFuel, x \in InplaceArg :
        LET y == InplaceDeref(x)
        IN  IF count = MaxSize THEN InplaceEnded(StartInplace(fuel), count, 0, none, yes)
            ELSE InplaceEnded(ConstructAtEnd(StartInplace(fuel), <<y>>), count, 0, <<y>>, yes)
  BY Zenon DEF TryPushBack
<1> DEFINE o == StartInplace(fuel)
           y == InplaceDeref(x)
           s == <<y>>
           q == ConstructAtEnd(o, s)
<1>2. fuel \in Nat /\ y \in Item /\ yes \in BOOLEAN /\ none \in Seq(Item) /\ Len(none) = 0
  BY InplaceFuelIs, InplaceArgIs
<1>3. Fits(o) /\ ~o.threw /\ o.size = count /\ count \in 0..count /\ Whole(o) /\ Len(o.cells) = MaxSize
      /\ count \in Nat /\ MaxSize \in Nat /\ count <= MaxSize
  BY <1>2, StartInplaceIs, WholeIs DEF Fits, CellsAssumption
<1>4. CASE count = MaxSize
  <2>1. InplaceEnded(o, count, 0, none, yes)
    BY <1>1, <1>4
  <2> HIDE DEF o, none, yes
  <2>2. Spliced(o, o, count, 0, none) /\ Held(o)
    BY <1>2, <1>3, SplicedByNone, WholeIsHeld
  <2>3. Replaces(o, o, count, 0, none, yes)
    BY <2>2, <1>3 DEF Replaces, Does
  <2> QED
    BY <2>1, <2>3, <1>2, <1>3, InplacePutStep DEF o
<1>5. CASE count # MaxSize
  <2>1. InplaceEnded(q, count, 0, s, yes)
    BY <1>1, <1>5
  <2>2. s \in Seq(Item) /\ Len(s) = 1
    BY <1>2
  <2> HIDE DEF o, y, yes
  <2>3. Does(q, o, count, 0, s, yes)
    <3>1. o.size < Len(o.cells)
      BY <1>3, <1>5
    <3>2. Does(ConstructAtEnd(o, <<y>>), o, o.size, 0, <<y>>, yes)
      BY <3>1, <1>2, <1>3, ConstructOneIs
    <3> QED
      BY <3>2, <1>3
  <2>4. Len(q.cells) = Len(o.cells)
    <3> HIDE DEF s
    <3>1. o.size + Len(s) <= Len(o.cells)
      BY <2>2, <1>3, <1>5
    <3> QED
      BY <3>1, <2>2, <1>3, ConstructAtEndIs
  <2>5. Replaces(q, o, count, 0, s, yes)
    BY <2>3, <2>4 DEF Replaces
  <2> HIDE DEF q, s
  <2> QED
    BY <2>1, <2>2, <2>5, <1>2, <1>3, InplacePutStep DEF o
<1> QED
  BY <1>4, <1>5

LEMMA InplaceInsertOneStep ==
  ASSUME CellsAssumption, InplaceIsWhole, InplaceInsertOne
  PROVE  InplaceMoves
<1>1. PICK fuel \in InplaceFuel, at \in 0..count, x \in InplaceArg :
        LET y == InplaceDeref(x)
        IN  InplaceEnded(InplaceEmplace(StartInplace(fuel), at, y), at, 0, <<y>>, nothrowMove \/ at = count)
  BY DEF InplaceInsertOne
<1> DEFINE o == StartInplace(fuel)
           y == InplaceDeref(x)
           s == <<y>>
           q == InplaceEmplace(o, at, y)
           strong == nothrowMove \/ at = count
<1>2. InplaceEnded(q, at, 0, s, strong)
  BY <1>1
<1>3. fuel \in Nat /\ y \in Item /\ strong \in BOOLEAN
  BY InplaceFuelIs, InplaceArgIs
<1>4. Fits(o) /\ ~o.threw /\ o.size = count /\ at \in 0..o.size
  BY <1>3, StartInplaceIs
<1> HIDE DEF o, y
<1>5. s \in Seq(Item) /\ (strong => nothrowMove \/ at = o.size)
  BY <1>3, <1>4
<1> HIDE DEF strong
<1>6. Replaces(q, o, at, 0, s, strong)
  BY <1>3, <1>4, <1>5, InplaceEmplaceIs
<1> HIDE DEF q, s
<1> QED
  BY <1>2, <1>3, <1>4, <1>5, <1>6, InplacePutStep DEF o

LEMMA InplaceInsertCopiesStep ==
  ASSUME CellsAssumption, InplaceIsWhole, InplaceInsertCopies
  PROVE  InplaceMoves
<1>1. PICK fuel \in InplaceFuel, at \in 0..count, n \in 0..MaxSize, x \in InplaceArg :
        LET y == InplaceDeref(x)
        IN  InplaceEnded(InplaceInsertCount(StartInplace(fuel), at, n, y), at, 0, Times(n, y),
                         nothrowMove \/ at = count)
  BY DEF InplaceInsertCopies
<1> DEFINE o == StartInplace(fuel)
           y == InplaceDeref(x)
           s == Times(n, y)
           q == InplaceInsertCount(o, at, n, y)
           strong == nothrowMove \/ at = count
<1>2. InplaceEnded(q, at, 0, s, strong)
  BY <1>1
<1>3. fuel \in Nat /\ y \in Item /\ strong \in BOOLEAN /\ n \in Nat
  BY InplaceFuelIs, InplaceArgIs DEF CellsAssumption
<1>4. Fits(o) /\ ~o.threw /\ o.size = count /\ at \in 0..o.size
  BY <1>3, StartInplaceIs
<1> HIDE DEF o, y
<1>5. s \in Seq(Item) /\ (strong => nothrowMove \/ at = o.size)
  BY <1>3, <1>4, TimesIs
<1> HIDE DEF strong
<1>6. Replaces(q, o, at, 0, s, strong)
  BY <1>3, <1>4, <1>5, InplaceInsertCountIs
<1> HIDE DEF q, s
<1> QED
  BY <1>2, <1>3, <1>4, <1>5, <1>6, InplacePutStep DEF o

LEMMA InplaceInsertForwardStep ==
  ASSUME CellsAssumption, InplaceIsWhole, InplaceInsertForward
  PROVE  InplaceMoves
<1>1. PICK fuel \in InplaceFuel, at \in 0..count, s \in InplaceInput(MaxSize) :
        InplaceEnded(InplaceInsertRange(StartInplace(fuel), at, s), at, 0, s, nothrowMove \/ at = count)
  BY DEF InplaceInsertForward
<1> DEFINE o == StartInplace(fuel)
           q == InplaceInsertRange(o, at, s)
           strong == nothrowMove \/ at = count
<1>2. InplaceEnded(q, at, 0, s, strong)
  BY <1>1
<1>3. fuel \in Nat /\ s \in Seq(Item) /\ strong \in BOOLEAN
  BY InplaceFuelIs, InplaceInputIs DEF CellsAssumption
<1>4. Fits(o) /\ ~o.threw /\ o.size = count /\ at \in 0..o.size
  BY <1>3, StartInplaceIs
<1> HIDE DEF o
<1>5. strong => nothrowMove \/ at = o.size
  BY <1>4
<1> HIDE DEF strong
<1>6. Replaces(q, o, at, 0, s, strong)
  BY <1>3, <1>4, <1>5, InplaceInsertRangeIs
<1> HIDE DEF q
<1> QED
  BY <1>2, <1>3, <1>4, <1>6, InplacePutStep DEF o

LEMMA InplaceInsertStreamStep ==
  ASSUME CellsAssumption, InplaceIsWhole, InplaceInsertStream
  PROVE  InplaceMoves
<1> DEFINE no == FALSE
<1>1. PICK fuel \in InplaceFuel, at \in 0..count, s \in InplaceInput(MaxSize) :
        InplaceEnded(InplaceInsertInput(StartInplace(fuel), at, s), at, 0, s, no)
  BY Zenon DEF InplaceInsertStream
<1> DEFINE o == StartInplace(fuel)
           q == InplaceInsertInput(o, at, s)
<1>2. InplaceEnded(q, at, 0, s, no)
  BY <1>1
<1>3. fuel \in Nat /\ s \in Seq(Item) /\ no \in BOOLEAN
  BY InplaceFuelIs, InplaceInputIs DEF CellsAssumption
<1>4. Fits(o) /\ ~o.threw /\ at \in 0..o.size
  BY <1>3, StartInplaceIs
<1> HIDE DEF o
<1>5. Replaces(q, o, at, 0, s, no)
  BY <1>3, <1>4, InplaceInsertInputIs
<1> HIDE DEF q, no
<1> QED
  BY <1>2, <1>3, <1>5, InplacePutStep DEF o

LEMMA InplaceEraseStep ==
  ASSUME CellsAssumption, InplaceIsWhole, InplaceErase
  PROVE  InplaceMoves
<1> DEFINE none == <<>>
<1>1. PICK fuel \in InplaceFuel, at \in 0..count : \E n \in 0..(count - at) :
        InplaceEnded(EraseRange(StartInplace(fuel), at, n), at, n, none, at + n = count)
  BY DEF InplaceErase
<1>2. PICK n \in 0..(count - at) :
        InplaceEnded(EraseRange(StartInplace(fuel), at, n), at, n, none, at + n = count)
  BY <1>1
<1> DEFINE o == StartInplace(fuel)
           q == EraseRange(o, at, n)
           strong == at + n = count
<1>3. InplaceEnded(q, at, n, none, strong)
  BY <1>2
<1>4. fuel \in Nat /\ none \in Seq(Item) /\ strong \in BOOLEAN
  BY InplaceFuelIs
<1>5. Fits(o) /\ ~o.threw /\ o.size = count /\ at \in 0..o.size /\ n \in 0..(o.size - at)
  BY <1>4, StartInplaceIs
<1> HIDE DEF o
<1>6. Replaces(q, o, at, n, none, strong)
  <2>1. Replaces(EraseRange(o, at, n), o, at, n, none, at + n = o.size)
    BY <1>5, InplaceEraseIs
  <2> QED
    BY <2>1, <1>5
<1> HIDE DEF q, strong, none
<1> QED
  BY <1>3, <1>4, <1>6, InplaceEndedIs DEF o

LEMMA InplaceTruncateStep ==
  ASSUME CellsAssumption, InplaceIsWhole, InplaceTruncate
  PROVE  InplaceMoves
<1> DEFINE none == <<>>
           yes == TRUE
           zero == 0
<1>1. PICK n \in {0, count - 1} \cap 0..count :
        InplaceEnded(DestructAtEnd(StartInplace(zero), n), n, count - n, none, yes)
  BY Zenon DEF InplaceTruncate
<1> DEFINE o == StartInplace(zero)
           q == DestructAtEnd(o, n)
           cut == count - n
<1>2. InplaceEnded(q, n, cut, none, yes)
  BY <1>1
<1>3. zero \in Nat /\ none \in Seq(Item) /\ Len(none) = 0 /\ yes \in BOOLEAN
  OBVIOUS
<1> HIDE DEF zero, none, yes
<1>4. Fits(o) /\ ~o.threw /\ o.size = count /\ count \in Nat
  BY <1>3, StartInplaceIs
<1>5. n \in 0..count /\ n \in 0..o.size /\ cut \in 0..(count - n)
  BY <1>4
<1> HIDE DEF o
<1>6. Replaces(q, o, n, cut, none, yes)
  BY <1>3, <1>4, <1>5, InplaceTruncateIs
<1> HIDE DEF q, cut
<1> QED
  BY <1>2, <1>3, <1>5, <1>6, InplaceEndedIs DEF o

LEMMA InplaceResizeStep ==
  ASSUME CellsAssumption, InplaceIsWhole, InplaceResize
  PROVE  IF stretched' THEN InplaceIsStretched' /\ UNCHANGED nothrowMove ELSE InplaceMoves
<1> DEFINE yes == TRUE
<1>1. PICK fuel \in InplaceFuel, n \in 0..(MaxSize + 1), x \in Value :
        LET r == ResizeTo(StartInplace(fuel), n, x)
        IN  /\ InplaceLeft(r, Lesser(n, count), count - Lesser(n, count),
                           Times(Greater(0, n - count), x), yes)
            /\ stretched' = (~r.threw /\ 0 < count /\ count <= n)
  BY Zenon DEF InplaceResize
<1> DEFINE o == StartInplace(fuel)
           q == ResizeTo(o, n, x)
           at == Lesser(n, count)
           cut == count - at
           more == Greater(0, n - count)
           s == Times(more, x)
<1>2. InplaceLeft(q, at, cut, s, yes) /\ stretched' = (~q.threw /\ 0 < count /\ count <= n)
  BY <1>1
<1>3. fuel \in Nat /\ n \in Nat /\ x \in Item /\ yes \in BOOLEAN
  BY InplaceFuelIs DEF CellsAssumption, Item
<1>4. Fits(o) /\ ~o.threw /\ o.size = count /\ count \in Nat /\ MaxSize \in Nat /\ count <= MaxSize
  BY <1>3, StartInplaceIs, WholeIs DEF Fits, CellsAssumption
<1>5. CASE n < count
  <2>1. at = n /\ more = 0 /\ n \in 0..count /\ cut \in 0..(count - n) /\ cut = count - n
    BY <1>3, <1>4, <1>5 DEF Lesser, Greater
  <2>2. s \in Seq(Item) /\ Len(s) = 0
    BY <2>1, <1>3, TimesIs
  <2>3. q = DestructAtEnd(o, n)
    <3>1. ~(n > MaxSize) /\ n < o.size
      BY <1>3, <1>4, <1>5
    <3> QED
      BY <3>1 DEF ResizeTo
  <2> HIDE DEF q, s, o, at, cut, yes
  <2>4. Replaces(q, o, n, cut, s, yes)
    BY <2>1, <2>2, <2>3, <1>4, InplaceTruncateIs
  <2>5. InplaceEnded(q, n, cut, s, yes) /\ ~stretched'
    <3>1. ~(count <= n)
      BY <1>3, <1>4, <1>5
    <3>2. stretched' = FALSE
      BY <3>1, <1>2, Zenon
    <3> QED
      BY <3>2, <2>1, <1>2 DEF InplaceEnded
  <2> QED
    BY <2>1, <2>2, <2>4, <2>5, <1>3, InplaceEndedIs DEF o
<1>6. CASE ~(n < count)
  <2> DEFINE zero == 0
  <2>1. at = count /\ cut = zero /\ more = n - count /\ more \in Nat
    <3>1. Lesser(n, count) = count /\ Greater(0, n - count) = n - count /\ count - count = 0
      BY <1>3, <1>4, <1>6 DEF Lesser, Greater
    <3> QED
      BY <3>1, <1>3, <1>4, <1>6
  <2>2. s \in Seq(Item)
    BY <2>1, <1>3, TimesIs
  <2>3. /\ q.threw \/ count = 0 => Replaces(q, o, count, zero, s, yes)
        /\ ~q.threw => /\ n <= MaxSize /\ q.size = count + n
                       /\ q.cells \in Seq(Cell) /\ Len(q.cells) = MaxSize
                       /\ \A i \in 1..MaxSize : q.cells[i] = Raw <=> i > n
    <3>1. o.size <= n /\ s = Times(n - o.size, x)
      BY <2>1, <1>3, <1>4, <1>6
    <3> HIDE DEF o, s, yes, zero
    <3>2. /\ q.threw \/ o.size = 0 => Replaces(q, o, o.size, 0, Times(n - o.size, x), yes)
          /\ ~q.threw => /\ n <= MaxSize /\ q.size = o.size + n
                         /\ q.cells \in Seq(Cell) /\ Len(q.cells) = MaxSize
                         /\ \A i \in 1..MaxSize : q.cells[i] = Raw <=> i > n
      BY <3>1, <1>3, <1>4, ResizeMoreIs
    <3> HIDE DEF q
    <3> QED
      BY <3>1, <3>2, <1>4 DEF zero
  <2> HIDE DEF s, o, at, cut, q, yes
  <2>4. data' = q.cells /\ count' = q.size /\ UNCHANGED nothrowMove
    BY <1>2 DEF InplaceLeft
  <2>5. CASE q.threw \/ count = 0
    <3>1. stretched' = FALSE
      <4>1. count = 0 => ~(0 < count)
        BY <1>4
      <4> QED
        BY <4>1, <2>5, <1>2, Zenon
    <3>2. InplaceEnded(q, count, zero, s, yes)
      BY <3>1, <2>1, <1>2 DEF InplaceEnded
    <3>3. count \in 0..count
      BY <1>4
    <3> QED
      BY <3>1, <3>2, <3>3, <2>2, <2>3, <2>5, <1>3, InplacePutStep DEF o
  <2>6. CASE ~(q.threw \/ count = 0)
    <3>1. 0 < count /\ count <= n
      BY <2>6, <1>3, <1>4, <1>6
    <3>2. stretched'
      BY <3>1, <2>6, <1>2, Zenon
    <3>3. data' \in [1..MaxSize -> Cell] /\ \A i \in 1..MaxSize : data'[i] = Raw <=> i > n
      BY <2>3, <2>4, <2>6, SeqIs
    <3>4. n \in 1..MaxSize /\ count' \in (n + 1)..(2 * n)
      BY <3>1, <2>3, <2>4, <2>6, <1>3, <1>4
    <3> QED
      BY <3>3, <3>4, <3>2, <2>4 DEF InplaceIsStretched, Cell
  <2> QED
    BY <2>5, <2>6
<1> QED
  BY <1>5, <1>6

LEMMA InplaceAssignOpStep ==
  ASSUME CellsAssumption, InplaceIsWhole, InplaceAssignOp
  PROVE  InplaceMoves
<1>1. PICK fuel \in InplaceFuel, s \in InplaceInput(MaxSize + 1) :
        InplaceEnded(InplaceAssign(StartInplace(fuel), s), 0, count, s, Len(s) > MaxSize)
  BY DEF InplaceAssignOp
<1> DEFINE o == StartInplace(fuel)
           q == InplaceAssign(o, s)
           strong == Len(s) > MaxSize
<1>2. InplaceEnded(q, 0, count, s, strong)
  BY <1>1
<1>3. fuel \in Nat /\ s \in Seq(Item) /\ strong \in BOOLEAN
  <2>1. MaxSize + 1 \in Nat
    BY DEF CellsAssumption
  <2> QED
    BY <2>1, InplaceFuelIs, InplaceInputIs
<1>4. Fits(o) /\ ~o.threw
  BY <1>3, StartInplaceIs
<1>5. strong => Len(s) > MaxSize
  OBVIOUS
<1> HIDE DEF o, strong
<1>6. Replaces(q, o, 0, o.size, s, strong)
  BY <1>3, <1>4, <1>5, InplaceAssignIs
<1> HIDE DEF q
<1> QED
  BY <1>2, <1>3, <1>6, InplaceReplaceStep DEF o

LEMMA AssignOtherStep ==
  ASSUME CellsAssumption, InplaceIsWhole, AssignOther
  PROVE  InplaceMoves
<1> DEFINE no == FALSE
<1>1. PICK fuel \in InplaceFuel, s \in InplaceInput(MaxSize) :
        InplaceEnded(InplaceAssignFrom(StartInplace(fuel), s), 0, count, s, no)
  BY Zenon DEF AssignOther
<1> DEFINE o == StartInplace(fuel)
           q == InplaceAssignFrom(o, s)
<1>2. InplaceEnded(q, 0, count, s, no)
  BY <1>1
<1>3. fuel \in Nat /\ s \in Seq(Item) /\ Len(s) <= MaxSize /\ no \in BOOLEAN
  BY InplaceFuelIs, InplaceInputIs DEF CellsAssumption
<1>4. Fits(o) /\ ~o.threw
  BY <1>3, StartInplaceIs
<1> HIDE DEF o
<1>5. Replaces(q, o, 0, o.size, s, no)
  BY <1>3, <1>4, InplaceAssignFromIs
<1> HIDE DEF q, no
<1> QED
  BY <1>2, <1>3, <1>5, InplaceReplaceStep DEF o

LEMMA InplaceSwapStep ==
  ASSUME CellsAssumption, nothrowMove \in BOOLEAN, InplaceIsWhole, InplaceSwap
  PROVE  InplaceMoves
<1> DEFINE strong == nothrowMove
<1>1. PICK fuel \in InplaceFuel, s \in InplaceInput(MaxSize) :
        InplaceEnded(SwapWith(StartInplace(fuel), s), 0, count, s, strong)
  BY DEF InplaceSwap
<1> DEFINE o == StartInplace(fuel)
           q == SwapWith(o, s)
<1>2. InplaceEnded(q, 0, count, s, strong)
  BY <1>1
<1>3. fuel \in Nat /\ s \in Seq(Item) /\ Len(s) <= MaxSize
  BY InplaceFuelIs, InplaceInputIs DEF CellsAssumption
<1>4. Fits(o) /\ ~o.threw /\ (strong => nothrowMove)
  BY <1>3, StartInplaceIs
<1>5. strong \in BOOLEAN
  OBVIOUS
<1> HIDE DEF o, strong
<1>6. Replaces(q, o, 0, o.size, s, strong)
  BY <1>3, <1>4, SwapWithIs
<1> HIDE DEF q
<1> QED
  BY <1>2, <1>3, <1>5, <1>6, InplaceReplaceStep DEF o

LEMMA InplaceCreateStep ==
  ASSUME CellsAssumption, InplaceIsWhole, InplaceCreate
  PROVE  InplaceMoves
<1> DEFINE no == FALSE
<1>1. PICK fuel \in InplaceFuel, s \in InplaceInput(MaxSize + 1), counted \in BOOLEAN :
        InplaceEnded(InplaceConstructed(fuel, s, counted), 0, count, s, no)
  BY Zenon DEF InplaceCreate
<1> DEFINE o == StartInplace(fuel)
           q == InplaceConstructed(fuel, s, counted)
<1>2. InplaceEnded(q, 0, count, s, no)
  BY <1>1
<1>3. fuel \in Nat /\ s \in Seq(Item) /\ no \in BOOLEAN
  <2>1. MaxSize + 1 \in Nat
    BY DEF CellsAssumption
  <2> QED
    BY <2>1, InplaceFuelIs, InplaceInputIs
<1>4. Fits(o)
  BY <1>3, StartInplaceIs
<1> HIDE DEF o
<1>5. Replaces(q, o, 0, o.size, s, no)
  BY <1>3, <1>4, InplaceConstructedIs
<1> HIDE DEF q, no
<1> QED
  BY <1>2, <1>3, <1>5, InplaceReplaceStep DEF o

LEMMA InplaceInitHolds ==
  ASSUME CellsAssumption, InplaceInit
  PROVE  nothrowMove \in BOOLEAN /\ InplaceIsWhole /\ ~stretched /\ InplaceContainer!Init
<1> DEFINE zero == 0
<1>1. /\ nothrowMove \in BOOLEAN /\ data = Times(MaxSize, Raw) /\ count = zero
      /\ inplaceCall = InplaceContainer!NoCall /\ ~stretched
  BY DEF InplaceInit
<1>2. MaxSize \in Nat /\ zero \in Nat /\ zero \in 0..MaxSize /\ \A i \in 1..MaxSize : i > zero
  BY DEF CellsAssumption
<1>3. data \in [1..MaxSize -> Cell] /\ \A i \in 1..MaxSize : data[i] = Raw
  BY <1>1 DEF Times, Cell
<1> HIDE DEF zero
<1>4. InplaceIsWhole
  BY <1>1, <1>2, <1>3 DEF InplaceIsWhole, Cell
<1>5. InplaceElements \in Seq(Item)
  <2>1. data \in Seq(Cell) /\ Len(data) = MaxSize
    BY <1>2, <1>3, FunctionIsSeq
  <2>2. count \in 0..Len(data) /\ \A i \in 1..Len(data) : data[i] = Raw <=> i > count
    BY <2>1, <1>1, <1>2, <1>3
  <2> QED
    <3>1. Lesser(count, MaxSize) = count
      BY <1>1, <1>2 DEF Lesser
    <3> QED
      BY <3>1, <2>1, <2>2, ElementsIs DEF InplaceElements
<1> QED
  BY <1>1, <1>4, <1>5 DEF InplaceContainer!Init

LEMMA InplaceStepIs ==
  ASSUME CellsAssumption, nothrowMove \in BOOLEAN, InplaceHoldsItsElements, [InplaceNext]_inplaceVars
  PROVE  /\ (nothrowMove \in BOOLEAN)' /\ InplaceHoldsItsElements'
         /\ [InplaceContainer!Next \/ stretched']_<<InplaceElements, inplaceCall>>
<1>1. CASE UNCHANGED inplaceVars
  BY <1>1 DEF inplaceVars, InplaceHoldsItsElements, InplaceIsWhole, InplaceIsStretched, InplaceElements
<1>2. CASE StayStretched
  BY <1>1, <1>2 DEF StayStretched
<1>3. CASE ~stretched /\ ~UNCHANGED inplaceVars /\ ~StayStretched
  <2>1. InplaceIsWhole
    BY <1>3 DEF InplaceHoldsItsElements
  <2>2. ASSUME InplaceMoves
        PROVE  /\ nothrowMove' \in BOOLEAN /\ InplaceHoldsItsElements'
               /\ [InplaceContainer!Next]_<<InplaceElements, inplaceCall>>
    BY <2>2 DEF InplaceMoves, InplaceHoldsItsElements
  <2>3. CASE InplaceResize
    BY <2>1, <2>2, <2>3, InplaceResizeStep DEF InplaceHoldsItsElements
  <2>4. CASE ~InplaceResize
    <3>1. CASE InplacePushBack \/ TryPushBack \/ InplaceInsertOne \/ InplaceInsertCopies
      BY <2>1, <2>2, <3>1, InplacePushBackStep, TryPushBackStep, InplaceInsertOneStep, InplaceInsertCopiesStep
    <3>2. CASE InplaceInsertForward \/ InplaceInsertStream \/ InplaceErase \/ InplaceTruncate
      BY <2>1, <2>2, <3>2, InplaceInsertForwardStep, InplaceInsertStreamStep, InplaceEraseStep,
         InplaceTruncateStep
    <3>3. CASE InplaceAssignOp \/ AssignOther \/ InplaceSwap \/ InplaceCreate
      BY <2>1, <2>2, <3>3, InplaceAssignOpStep, AssignOtherStep, InplaceSwapStep, InplaceCreateStep
    <3> QED
      BY <3>1, <3>2, <3>3, <2>4, <1>3 DEF InplaceNext
  <2> QED
    BY <2>3, <2>4
<1> QED
  BY <1>1, <1>2, <1>3 DEF InplaceNext

\* Wherever a construction, a move or a rotation throws, the first size_ cells
\* hold elements and the others none, for any capacity: but for a resize that keeps
\* or grows a vector with elements, whose size is the sum of the old and the new.
THEOREM InplaceHolds ==
  ASSUME InplaceVectorAssumption
  PROVE  InplaceSpec => []InplaceHoldsItsElements
<1> DEFINE Inv == nothrowMove \in BOOLEAN /\ InplaceHoldsItsElements
<1>0. CellsAssumption
  BY DEF InplaceVectorAssumption
<1>1. InplaceInit => Inv
  BY <1>0, InplaceInitHolds DEF InplaceHoldsItsElements
<1>2. Inv /\ [InplaceNext]_inplaceVars => Inv'
  BY <1>0, InplaceStepIs
<1> QED
  BY <1>1, <1>2, PTL DEF InplaceSpec

\* Every call puts its arguments in the place of the elements it says, or throws:
\* a call with the strong guarantee has then done nothing.  The elements are
\* those of Container, but for the resize that stretches the vector.
THEOREM InplaceContains ==
  ASSUME InplaceVectorAssumption
  PROVE  InplaceSpec => InplaceIsContainer
<1> DEFINE Inv == nothrowMove \in BOOLEAN /\ InplaceHoldsItsElements
           Keep == [InplaceContainer!Next \/ stretched']_<<InplaceElements, inplaceCall>>
<1>0. CellsAssumption
  BY DEF InplaceVectorAssumption
<1>1. InplaceInit => Inv /\ InplaceContainer!Init
  BY <1>0, InplaceInitHolds DEF InplaceHoldsItsElements
<1>2. Inv /\ [InplaceNext]_inplaceVars => Inv' /\ Keep
  BY <1>0, InplaceStepIs
<1> QED
  BY <1>1, <1>2, PTL DEF InplaceSpec, InplaceIsContainer

=============================================================================

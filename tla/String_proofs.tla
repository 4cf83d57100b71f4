----------------------------- MODULE String_proofs -----------------------------
(***************************************************************************)
(* Proofs about plg::basic_string, for any characters, any lengths, any    *)
(* sizes of the buffer in the object and of those on the heap, and an      *)
(* allocation that throws or not: the terminator follows the characters,   *)
(* and every call keeps to what Container promises, when the argument is a *)
(* part of the string that moves under the call too.                       *)
(***************************************************************************)
EXTENDS String, Basics

Cell == Value \cup {Raw, Gone}

\* A call in progress.
Progress == [long : BOOLEAN, cells : Seq(Cell), size : Nat, left : Nat, threw : BOOLEAN]

\* Its characters fit the buffer, and the terminator follows them.
Held(o) ==
  /\ o \in Progress
  /\ o.size < Len(o.cells)
  /\ IF o.long THEN Len(o.cells) >= MinCap ELSE Len(o.cells) = MinCap
  /\ o.cells[o.size + 1] = Gone
  /\ \A i \in 1..o.size : o.cells[i] \in Value

\* The first n of c are the characters of o, s in the place of cut ones after at.
Shows(c, n, o, at, cut, s) ==
  \A i \in 1..n : c[i] = IF i <= at THEN o.cells[i]
                         ELSE IF i <= at + Len(s) THEN s[i - at] ELSE o.cells[i - Len(s) + cut]

\* The call has put s there.
Spliced(q, o, at, cut, s) ==
  q.size = o.size - cut + Len(s) /\ Shows(q.cells, q.size, o, at, cut, s)

\* It has left the characters as they were.
Same(q, o) == q.size = o.size /\ \A i \in 1..o.size : q.cells[i] = o.cells[i]

Does(q, o, at, cut, s) ==
  /\ Held(q)
  /\ IF q.threw THEN Same(q, o) ELSE Spliced(q, o, at, cut, s)

\* The string is s now.
Has(q, s) == q.size = Len(s) /\ \A i \in 1..Len(s) : q.cells[i] = s[i]

-----------------------------------------------------------------------------
(* Representations. *)

LEMMA HeldIs ==
  ASSUME NEW o, Held(o)
  PROVE  /\ o.long \in BOOLEAN /\ o.cells \in Seq(Cell) /\ o.size \in Nat /\ o.left \in Nat
         /\ o.threw \in BOOLEAN
         /\ Len(o.cells) \in Nat /\ DOMAIN o.cells = 1..Len(o.cells)
         /\ o.size < Len(o.cells) /\ Cap(o) = Len(o.cells) - 1 /\ Cap(o) \in Nat /\ o.size <= Cap(o)
         /\ \A i \in 1..Len(o.cells) : o.cells[i] \in Cell
         /\ \A i \in 1..o.size : o.cells[i] \in Value
<1>1. o \in Progress /\ o.size < Len(o.cells) /\ \A i \in 1..o.size : o.cells[i] \in Value
  BY DEF Held
<1>2. /\ o.long \in BOOLEAN /\ o.cells \in Seq(Cell) /\ o.size \in Nat /\ o.left \in Nat
      /\ o.threw \in BOOLEAN
  BY <1>1 DEF Progress
<1>3. Len(o.cells) \in Nat /\ DOMAIN o.cells = 1..Len(o.cells) /\ \A i \in 1..Len(o.cells) : o.cells[i] \in Cell
  BY <1>2, SeqIs
<1>4. Cap(o) = Len(o.cells) - 1
  BY Zenon DEF Cap
<1>5. Cap(o) \in Nat /\ o.size <= Cap(o)
  BY <1>1, <1>2, <1>3, <1>4
<1> QED
  BY Zenon, <1>1, <1>2, <1>3, <1>4, <1>5

LEMMA CharactersAreCells == \A s \in Seq(Value) : s \in Seq(Cell)
BY DEF Cell

LEMMA TextIs ==
  ASSUME NEW o, Held(o)
  PROVE  Text(o) \in Seq(Value) /\ Len(Text(o)) = o.size /\ \A i \in 1..o.size : Text(o)[i] = o.cells[i]
<1>1. o.size \in Nat /\ \A i \in 1..o.size : o.cells[i] \in Value
  BY HeldIs
<1>2. Text(o) = SubSeq(o.cells, 1, o.size)
  BY Zenon DEF Text
<1> QED
  BY <1>1, <1>2, FirstIs

\* The buffer of a string.
Buffer(c, n, s) ==
  /\ c \in Seq(Cell) /\ Len(c) = n /\ c[Len(s) + 1] = Gone
  /\ \A i \in 1..Len(s) : c[i] = s[i]

LEMMA RepIs ==
  ASSUME NEW isLong \in BOOLEAN, NEW n \in Nat, NEW s \in Seq(Value), Len(s) < n
  PROVE  LET r == Rep(isLong, n, s)
         IN  r = [long |-> isLong, cells |-> r.cells, size |-> Len(s)] /\ Buffer(r.cells, n, s)
<1> DEFINE k == Len(s)
           t == <<Gone>>
           u == Times(n - k - 1, Raw)
           c == s \o t \o u
<1>1. k \in Nat /\ n - k - 1 \in Nat /\ s \in Seq(Cell)
  BY SeqIs, CharactersAreCells
<1>2. t \in Seq(Cell) /\ Len(t) = 1 /\ t[1] = Gone
  BY DEF Cell
<1>3. u \in Seq(Cell) /\ Len(u) = n - k - 1
  <2> HIDE DEF k
  <2>1. Raw \in Cell
    BY DEF Cell
  <2> QED
    BY <1>1, <2>1, TimesIs
<1>4. Rep(isLong, n, s) = [long |-> isLong, cells |-> c, size |-> k]
  BY Zenon DEF Rep
<1> HIDE DEF t, u
<1>5. /\ c \in Seq(Cell) /\ Len(c) = Len(s) + Len(t) + Len(u)
      /\ \A i \in 1..(Len(s) + Len(t) + Len(u)) :
           c[i] = IF i <= Len(s) THEN s[i]
                  ELSE IF i <= Len(s) + Len(t) THEN t[i - Len(s)]
                  ELSE u[i - (Len(s) + Len(t))]
  <2> HIDE DEF k
  <2>1. s \in Seq(Cell) /\ t \in Seq(Cell) /\ u \in Seq(Cell)
    BY <1>1, <1>2, <1>3
  <2> QED
    BY <2>1, JoinIs
<1> HIDE DEF c, k
<1>6. /\ c \in Seq(Cell) /\ Len(c) = n
      /\ \A i \in 1..n : c[i] = IF i <= k THEN s[i] ELSE IF i <= k + 1 THEN t[i - k] ELSE u[i - (k + 1)]
  <2>1. k + 1 + (n - k - 1) = n
    BY <1>1
  <2> QED
    BY <2>1, <1>2, <1>3, <1>5 DEF k
<1>7. k + 1 \in 1..n /\ ~(k + 1 <= k) /\ k + 1 <= k + 1 /\ (k + 1) - k = 1 /\ \A i \in 1..k : i \in 1..n /\ i <= k
  <2>1. k < n
    BY DEF k
  <2> QED
    BY <2>1, <1>1
<1>8. c[k + 1] = Gone /\ \A i \in 1..k : c[i] = s[i]
  <2>1. c[k + 1] = t[(k + 1) - k]
    BY <1>6, <1>7
  <2>2. c[k + 1] = Gone
    BY <2>1, <1>2, <1>7
  <2>3. \A i \in 1..k : c[i] = s[i]
    BY <1>6, <1>7
  <2> QED
    BY <2>2, <2>3
<1>9. Buffer(c, n, s)
  BY <1>6, <1>8 DEF Buffer, k
<1>10. Rep(isLong, n, s).cells = c
  BY <1>4
<1> QED
  BY Zenon, <1>4, <1>9, <1>10 DEF k

LEMMA RecommendIs ==
  ASSUME StringAssumption, NEW n \in Nat
  PROVE  RecommendLength(n) \in Nat /\ RecommendLength(n) >= n /\ RecommendLength(n) + 1 >= MinCap
<1> DEFINE k == (n + Boundary) \div Boundary
           guess == Boundary * k - 1
<1>1. MinCap \in Nat /\ MinCap > 0 /\ Boundary \in Nat /\ Boundary > 0
  BY DEF StringAssumption
<1>2. Boundary * k > n
  <2> DEFINE r == (n + Boundary) % Boundary
  <2>1. n + Boundary = Boundary * k + r /\ r < Boundary /\ r \in Nat /\ k \in Nat
    BY <1>1
  <2>2. Boundary * k \in Nat
    BY <2>1, <1>1
  <2> DEFINE p == Boundary * k
  <2> HIDE DEF r, k, p
  <2>3. p > n
    BY <2>1, <2>2, <1>1 DEF p
  <2> QED
    BY <2>3 DEF p
<1>3. k \in Nat /\ Boundary * k \in Nat
  BY <1>1
<1>4. RecommendLength(n) = CASE n < MinCap -> MinCap - 1
                       [] n >= MinCap /\ guess = MinCap -> guess + 1
                       [] OTHER -> guess
  BY DEF RecommendLength
<1> DEFINE p == Boundary * k
<1>5. p \in Nat /\ p > n /\ guess = p - 1
  BY <1>2, <1>3
<1> HIDE DEF p, guess, k
<1>6. CASE n < MinCap
  BY <1>1, <1>4, <1>6
<1>7. CASE n >= MinCap /\ guess = MinCap
  BY <1>1, <1>4, <1>5, <1>7
<1>8. CASE n >= MinCap /\ guess # MinCap
  BY <1>1, <1>4, <1>5, <1>8
<1> QED
  BY <1>1, <1>6, <1>7, <1>8

LEMMA ThrowIs ==
  ASSUME NEW o, Held(o)
  PROVE  Held(Throw(o)) /\ Throw(o).threw /\ Same(Throw(o), o)
<1> DEFINE q == Throw(o)
           yes == TRUE
<1>1. o \in Progress /\ yes \in BOOLEAN
  BY DEF Held
<1>2. q = [o EXCEPT !.threw = yes]
  BY DEF Throw
<1> HIDE DEF q, yes
<1>3. /\ q \in Progress /\ q.threw = yes
      /\ q.long = o.long /\ q.cells = o.cells /\ q.size = o.size
  BY <1>1, <1>2 DEF Progress
<1>4. Held(q)
  BY Zenon, <1>3 DEF Held
<1>5. Same(q, o)
  BY <1>3 DEF Same
<1> QED
  BY <1>3, <1>4, <1>5 DEF q, yes

LEMMA ThrowDoes ==
  ASSUME NEW o, Held(o), NEW at, NEW cut, NEW s
  PROVE  Does(Throw(o), o, at, cut, s)
BY ThrowIs DEF Does

\* A representation of s in the place of another.
LEMMA WithIs ==
  ASSUME NEW o, Held(o), NEW r, NEW l \in BOOLEAN, NEW n \in Nat, NEW s \in Seq(Value), Len(s) < n,
         IF l THEN n >= MinCap ELSE n = MinCap,
         r.long = l, r.size = Len(s), Buffer(r.cells, n, s)
  PROVE  LET q == With(o, r)
         IN  /\ q = [long |-> l, cells |-> r.cells, size |-> Len(s), left |-> o.left, threw |-> o.threw]
             /\ Held(q) /\ Has(q, s) /\ q.threw = o.threw /\ q.left = o.left
<1> DEFINE c == r.cells
           k == Len(s)
           q == With(o, r)
<1>1. o \in Progress /\ o.left \in Nat /\ o.threw \in BOOLEAN
  BY HeldIs DEF Held
<1>2. k \in Nat /\ k < n /\ \A i \in 1..k : s[i] \in Value
  BY SeqIs
<1>3. /\ c \in Seq(Cell) /\ Len(c) = n /\ c[k + 1] = Gone
      /\ \A i \in 1..k : c[i] = s[i]
  BY DEF Buffer
<1>4. q = [o EXCEPT !.long = l, !.cells = c, !.size = k]
  BY DEF With
<1> HIDE DEF c, k, q
<1>5. q = [long |-> l, cells |-> c, size |-> k, left |-> o.left, threw |-> o.threw]
  BY <1>1, <1>4 DEF Progress
<1>6. q \in Progress
  BY <1>1, <1>2, <1>3, <1>5 DEF Progress
<1>7. q.long = l /\ q.cells = c /\ q.size = k /\ q.threw = o.threw /\ q.left = o.left
  BY <1>5
<1>8. \A i \in 1..k : c[i] \in Value
  BY <1>2, <1>3
<1>9. Held(q)
  BY Zenon, <1>2, <1>3, <1>6, <1>7, <1>8 DEF Held
<1>10. Has(q, s)
  BY Zenon, <1>3, <1>7 DEF Has, k
<1> QED
  BY Zenon, <1>5, <1>7, <1>9, <1>10 DEF q, c, k

LEMMA WithRepIs ==
  ASSUME NEW o, Held(o), NEW l \in BOOLEAN, NEW n \in Nat, NEW s \in Seq(Value), Len(s) < n,
         IF l THEN n >= MinCap ELSE n = MinCap
  PROVE  LET q == With(o, Rep(l, n, s))
         IN  /\ q = [long |-> l, cells |-> q.cells, size |-> Len(s), left |-> o.left, threw |-> o.threw]
             /\ Held(q) /\ Has(q, s) /\ q.threw = o.threw /\ q.left = o.left
<1> DEFINE r == Rep(l, n, s)
<1>1. r = [long |-> l, cells |-> r.cells, size |-> Len(s)] /\ Buffer(r.cells, n, s)
  BY RepIs
<1> HIDE DEF r
<1>2. r.long = l /\ r.size = Len(s)
  BY <1>1
<1> DEFINE q == With(o, r)
<1>3. /\ q = [long |-> l, cells |-> r.cells, size |-> Len(s), left |-> o.left, threw |-> o.threw]
      /\ Held(q) /\ Has(q, s) /\ q.threw = o.threw /\ q.left = o.left
  BY <1>1, <1>2, WithIs
<1> HIDE DEF q
<1>4. q.cells = r.cells
  BY <1>3
<1> QED
  BY Zenon, <1>3, <1>4 DEF q, r

\* The string s, or a throw that leaves what there was.
Becomes(q, o, s) == Held(q) /\ IF q.threw THEN Same(q, o) ELSE Has(q, s)

LEMMA InNewBufferIs ==
  ASSUME StringAssumption, NEW o, Held(o), ~o.threw, NEW n \in Nat, NEW s \in Seq(Value), Len(s) <= n
  PROVE  Becomes(InNewBuffer(o, n, s), o, s)
<1> DEFINE l == TRUE
           b == RecommendLength(n) + 1
           w == With(o, Rep(l, b, s))
           q == InNewBuffer(o, n, s)
           k == Len(s)
<1>1. CASE o.left = 0
  <2>1. q = Throw(o)
    BY <1>1 DEF InNewBuffer
  <2> QED
    BY <2>1, ThrowIs DEF Becomes
<1>2. CASE o.left # 0
  <2>1. q = [w EXCEPT !.left = @ - 1]
    BY <1>2 DEF InNewBuffer
  <2>2. l \in BOOLEAN /\ b \in Nat /\ k < b /\ b >= MinCap
    <3>1. k \in Nat /\ k <= n
      BY SeqIs
    <3>2. RecommendLength(n) \in Nat /\ RecommendLength(n) >= n /\ RecommendLength(n) + 1 >= MinCap
      BY RecommendIs
    <3> DEFINE g == RecommendLength(n)
    <3> HIDE DEF k, g
    <3>3. g + 1 \in Nat /\ k < g + 1 /\ g + 1 >= MinCap
      BY <3>1, <3>2 DEF g
    <3> QED
      BY <3>3 DEF g
  <2>3. IF l THEN b >= MinCap ELSE b = MinCap
    BY <2>2
  <2> HIDE DEF l, b
  <2>4. /\ w = [long |-> l, cells |-> w.cells, size |-> Len(s), left |-> o.left, threw |-> o.threw]
        /\ Held(w) /\ Has(w, s) /\ w.threw = o.threw /\ w.left = o.left
    BY <2>2, <2>3, WithRepIs
  <2> HIDE DEF w, q
  <2>5. w \in Progress /\ w.left - 1 \in Nat
    BY SMTT(30), <2>4, <1>2, HeldIs DEF Held
  <2>6. /\ q \in Progress /\ q.long = w.long /\ q.cells = w.cells /\ q.size = w.size /\ q.threw = w.threw
    BY <2>1, <2>5 DEF Progress
  <2>7. Held(q) /\ Has(q, s) /\ ~q.threw
    BY Zenon, <2>4, <2>6 DEF Held, Has
  <2> QED
    BY <2>7 DEF Becomes, q
<1> QED
  BY <1>1, <1>2

LEMMA HasDoes ==
  ASSUME NEW o, Held(o), NEW s \in Seq(Value), NEW q, Becomes(q, o, s)
  PROVE  Does(q, o, 0, o.size, s)
<1> DEFINE k == Len(s)
<1>1. k \in Nat /\ o.size \in Nat
  BY SeqIs, HeldIs
<1>2. Held(q) /\ IF q.threw THEN Same(q, o) ELSE q.size = k /\ \A i \in 1..k : q.cells[i] = s[i]
  BY DEF Becomes, Has
<1> HIDE DEF k
<1>3. o.size - o.size + k = k /\ \A i \in 1..k : ~(i <= 0) /\ i <= 0 + k /\ i - 0 = i
  BY <1>1
<1>4. CASE ~q.threw
  <2>1. q.size = k /\ \A i \in 1..k : q.cells[i] = s[i]
    BY <1>2, <1>4
  <2>2. \A i \in 1..q.size :
          q.cells[i] = IF i <= 0 THEN o.cells[i]
                       ELSE IF i <= 0 + k THEN s[i - 0] ELSE o.cells[i - k + o.size]
    BY <1>3, <2>1
  <2>3. Spliced(q, o, 0, o.size, s)
    BY <1>3, <2>1, <2>2 DEF Spliced, Shows, k
  <2> QED
    BY <1>2, <1>4, <2>3 DEF Does
<1> QED
  BY <1>2, <1>4 DEF Does

-----------------------------------------------------------------------------
(* Growth. *)

\* What o holds when cut characters after at have given way to s, in a new buffer.
Joined(o, at, cut, s) == SubSeq(o.cells, 1, at) \o s \o SubSeq(o.cells, at + cut + 1, o.size)

LEMMA JoinedIs ==
  ASSUME NEW o, Held(o), NEW at \in 0..o.size, NEW cut \in 0..(o.size - at), NEW s \in Seq(Value)
  PROVE  LET t == Joined(o, at, cut, s)
         IN  /\ t \in Seq(Value) /\ Len(t) = o.size - cut + Len(s)
             /\ \A i \in 1..(o.size - cut + Len(s)) :
                  t[i] = IF i <= at THEN o.cells[i]
                         ELSE IF i <= at + Len(s) THEN s[i - at] ELSE o.cells[i - Len(s) + cut]
<1> DEFINE n == o.size
           k == Len(s)
           a == SubSeq(o.cells, 1, at)
           from == at + cut
           b == SubSeq(o.cells, from + 1, n)
           t == Joined(o, at, cut, s)
<1>1. k \in Nat /\ n \in Nat /\ \A i \in 1..n : o.cells[i] \in Value
  BY SeqIs, HeldIs
<1>2. at \in 0..n /\ cut \in 0..(n - at)
  OBVIOUS
<1>3. t = a \o s \o b
  BY Zenon DEF Joined
<1> HIDE DEF n, k, t
<1>4. at \in Nat /\ from \in Nat /\ from <= n /\ n - from = n - at - cut
      /\ (\A i \in 1..at : i \in 1..n) /\ (\A i \in (from + 1)..n : i \in 1..n)
  BY <1>1, <1>2
<1>5. a \in Seq(Value) /\ Len(a) = at /\ \A i \in 1..at : a[i] = o.cells[i]
  BY <1>1, <1>4, FirstIs
<1> HIDE DEF a
<1>6. b \in Seq(Value) /\ Len(b) = n - from /\ \A i \in 1..(n - from) : b[i] = o.cells[from + i]
  <2> HIDE DEF from
  <2> QED
    BY <1>1, <1>4, PartIs
<1> HIDE DEF b
<1>7. /\ a \o s \o b \in Seq(Value) /\ Len(a \o s \o b) = Len(a) + Len(s) + Len(b)
      /\ \A i \in 1..(Len(a) + Len(s) + Len(b)) :
           (a \o s \o b)[i] = IF i <= Len(a) THEN a[i]
                              ELSE IF i <= Len(a) + Len(s) THEN s[i - Len(a)]
                              ELSE b[i - (Len(a) + Len(s))]
  BY SMTT(30), <1>5, <1>6, JoinIs
<1>8. Len(a) + Len(s) + Len(b) = n - cut + k
  BY <1>1, <1>2, <1>5, <1>6 DEF k
<1>9. ASSUME NEW i \in 1..(n - cut + k)
      PROVE  t[i] = IF i <= at THEN o.cells[i] ELSE IF i <= at + k THEN s[i - at] ELSE o.cells[i - k + cut]
  <2>1. t[i] = IF i <= at THEN a[i] ELSE IF i <= at + k THEN s[i - at] ELSE b[i - (at + k)]
    BY <1>3, <1>5, <1>7, <1>8 DEF k
  <2>2. i <= at => i \in 1..at
    BY <1>4
  <2>3. ~(i <= at + k) => i - (at + k) \in 1..(n - from) /\ from + (i - (at + k)) = i - k + cut
    BY <1>1, <1>2
  <2>4. ~(i <= at + k) => b[i - (at + k)] = o.cells[i - k + cut]
    BY <2>3, <1>6
  <2> QED
    BY <2>1, <2>2, <2>4, <1>5
<1> QED
  BY <1>3, <1>7, <1>8, <1>9 DEF n, k, t

\* A string that has become the joined one.
LEMMA JoinedDoes ==
  ASSUME NEW o, Held(o), NEW at \in 0..o.size, NEW cut \in 0..(o.size - at), NEW s \in Seq(Value),
         NEW q, Becomes(q, o, Joined(o, at, cut, s))
  PROVE  Does(q, o, at, cut, s)
<1> DEFINE t == Joined(o, at, cut, s)
           n == o.size - cut + Len(s)
<1>1. /\ Len(t) = n
      /\ \A i \in 1..n : t[i] = IF i <= at THEN o.cells[i]
                                ELSE IF i <= at + Len(s) THEN s[i - at] ELSE o.cells[i - Len(s) + cut]
  BY JoinedIs
<1>2. Becomes(q, o, t)
  OBVIOUS
<1> HIDE DEF t
<1>3. ~q.threw => Spliced(q, o, at, cut, s)
  <2> SUFFICES ASSUME ~q.threw PROVE Spliced(q, o, at, cut, s)
    OBVIOUS
  <2>1. q.size = n /\ \A i \in 1..n : q.cells[i] = t[i]
    BY <1>1, <1>2 DEF Becomes, Has
  <2> QED
    BY <2>1, <1>1 DEF Spliced, Shows
<1> QED
  BY <1>2, <1>3 DEF Becomes, Does

LEMMA GrowByIs ==
  ASSUME StringAssumption, NEW o, Held(o), ~o.threw, NEW delta \in Nat,
         NEW at \in 0..o.size, NEW cut \in 0..(o.size - at), NEW s \in Seq(Value),
         o.size - cut + Len(s) <= Cap(o) + delta
  PROVE  Does(GrowBy(o, delta, at, cut, s), o, at, cut, s)
<1> DEFINE c == Cap(o)
           more == Greater(c + delta, 2 * c)
           n == IF c < MaxLength \div 2 - Alignment THEN RecommendLength(more) ELSE MaxLength
           t == Joined(o, at, cut, s)
           q == GrowBy(o, delta, at, cut, s)
<1>1. c \in Nat /\ MaxLength \in Nat
  BY HeldIs DEF StringAssumption
<1>2. q = IF delta > MaxLength - c THEN Throw(o) ELSE InNewBuffer(o, n, t)
  BY Zenon DEF GrowBy, Joined
<1>3. t \in Seq(Value) /\ Len(t) <= c + delta
  BY JoinedIs
<1> HIDE DEF q, t, c
<1>4. CASE delta > MaxLength - c
  BY <1>2, <1>4, ThrowDoes DEF q
<1>5. CASE ~(delta > MaxLength - c)
  <2>1. RecommendLength(more) \in Nat /\ RecommendLength(more) >= c + delta
    <3>1. c + delta \in Nat /\ 2 * c \in Nat
      BY <1>1
    <3>2. more \in Nat /\ more >= c + delta
      BY <3>1 DEF Greater
    <3> HIDE DEF more
    <3>3. RecommendLength(more) \in Nat /\ RecommendLength(more) >= more
      BY <3>2, RecommendIs
    <3> QED
      BY <3>1, <3>2, <3>3
  <2>2. n \in Nat /\ n >= c + delta
    <3> HIDE DEF more
    <3> QED
      BY <2>1, <1>1, <1>5
  <2> HIDE DEF n
  <2>3. Len(t) \in Nat /\ Len(t) <= n
    BY <2>2, <1>1, <1>3, SeqIs
  <2>4. q = InNewBuffer(o, n, t)
    BY <1>2, <1>5
  <2>5. Becomes(q, o, t)
    BY <2>2, <2>3, <2>4, <1>3, InNewBufferIs
  <2>6. Does(q, o, at, cut, s)
    BY <2>5, JoinedDoes DEF t
  <2> QED
    BY <2>6 DEF q
<1> QED
  BY <1>4, <1>5

-----------------------------------------------------------------------------
(* Calls that stay in the buffer. *)

\* r is o with other cells.
InPlace(r, o) ==
  /\ r \in Progress
  /\ r.long = o.long /\ r.size = o.size /\ r.left = o.left /\ r.threw = o.threw
  /\ Len(r.cells) = Len(o.cells)

LEMMA InPlaceIs ==
  ASSUME NEW o, Held(o)
  PROVE  InPlace(o, o)
BY Zenon DEF InPlace, Held

LEMMA WriteIs ==
  ASSUME NEW o, NEW p, InPlace(o, p), NEW at \in Int, NEW s \in Seq(Cell)
  PROVE  LET r == [o EXCEPT !.cells = Put(o.cells, at, s)]
         IN  /\ InPlace(r, p)
             /\ \A i \in 1..Len(p.cells) :
                  r.cells[i] = IF i - at \in 1..Len(s) THEN s[i - at] ELSE o.cells[i]
<1> DEFINE c == Put(o.cells, at, s)
           r == [o EXCEPT !.cells = c]
<1>1. o \in Progress /\ o.cells \in Seq(Cell) /\ Len(o.cells) = Len(p.cells)
  BY DEF InPlace, Progress
<1>2. /\ c \in Seq(Cell) /\ Len(c) = Len(o.cells)
      /\ \A i \in 1..Len(o.cells) : c[i] = IF i - at \in 1..Len(s) THEN s[i - at] ELSE o.cells[i]
  BY <1>1, PutIs
<1> HIDE DEF c
<1>3. /\ r \in Progress /\ r.cells = c
      /\ r.long = o.long /\ r.size = o.size /\ r.left = o.left /\ r.threw = o.threw
  BY <1>1, <1>2 DEF Progress
<1> HIDE DEF r
<1>4. InPlace(r, p)
  BY Zenon, <1>1, <1>2, <1>3 DEF InPlace
<1>5. \A i \in 1..Len(p.cells) : r.cells[i] = IF i - at \in 1..Len(s) THEN s[i - at] ELSE o.cells[i]
  BY Zenon, <1>1, <1>2, <1>3
<1> QED
  BY Zenon, <1>4, <1>5 DEF r, c

LEMMA MoveTailIs ==
  ASSUME NEW o, NEW p, InPlace(o, p), NEW from \in 0..o.size, NEW to \in Nat, o.size <= Len(o.cells)
  PROVE  LET r == MoveTail(o, from, to)
         IN  /\ InPlace(r, p)
             /\ \A i \in 1..Len(p.cells) :
                  r.cells[i] = IF i - to \in 1..(o.size - from) THEN o.cells[i - to + from] ELSE o.cells[i]
<1> DEFINE s == SubSeq(o.cells, from + 1, o.size)
           r == MoveTail(o, from, to)
<1>1. o \in Progress /\ o.cells \in Seq(Cell) /\ o.size \in Nat
  BY DEF InPlace, Progress
<1>2. Len(o.cells) \in Nat /\ \A i \in 1..Len(o.cells) : o.cells[i] \in Cell
  BY <1>1, SeqIs
<1>3. from \in Nat /\ from <= o.size /\ to \in Int /\ \A i \in (from + 1)..o.size : i \in 1..Len(o.cells)
  BY <1>1, <1>2
<1>4. s \in Seq(Cell) /\ Len(s) = o.size - from /\ \A i \in 1..(o.size - from) : s[i] = o.cells[from + i]
  BY <1>1, <1>2, <1>3, PartIs
<1>5. r = [o EXCEPT !.cells = Put(o.cells, to, s)]
  BY DEF MoveTail
<1> HIDE DEF s, r
<1>6. /\ InPlace(r, p)
      /\ \A i \in 1..Len(p.cells) : r.cells[i] = IF i - to \in 1..Len(s) THEN s[i - to] ELSE o.cells[i]
  BY SMTT(30), <1>3, <1>4, <1>5, WriteIs
<1>7. ASSUME NEW i \in 1..Len(p.cells)
      PROVE  r.cells[i] = IF i - to \in 1..(o.size - from) THEN o.cells[i - to + from] ELSE o.cells[i]
  <2>1. r.cells[i] = IF i - to \in 1..(o.size - from) THEN s[i - to] ELSE o.cells[i]
    BY <1>4, <1>6
  <2>2. from + (i - to) = i - to + from
    BY <1>3
  <2> QED
    BY <2>1, <2>2, <1>4
<1> QED
  BY Zenon, <1>6, <1>7 DEF r

\* r has n characters of a call that put s in the place of cut ones of o after at.
Leaves(r, n, o, at, cut, s) ==
  /\ InPlace(r, o)
  /\ n = o.size - cut + Len(s) /\ n <= Cap(o)
  /\ Shows(r.cells, n, o, at, cut, s)

\* With the terminator behind them the call is done.
LEMMA TerminatedIs ==
  ASSUME NEW o, Held(o), ~o.threw, NEW at \in 0..o.size, NEW cut \in 0..(o.size - at),
         NEW s \in Seq(Value), NEW r, NEW n \in Nat, Leaves(r, n, o, at, cut, s)
  PROVE  Does(Terminated(r, n), o, at, cut, s)
<1> DEFINE k == Len(s)
           z == o.size
           L == Len(o.cells)
           t == <<Gone>>
           c == Put(r.cells, n, t)
           q == Terminated(r, n)
<1>1. k \in Nat /\ \A i \in 1..k : s[i] \in Value
  BY SeqIs
<1>2. z \in Nat /\ L \in Nat /\ Cap(o) = L - 1 /\ \A i \in 1..z : o.cells[i] \in Value
  BY HeldIs
<1>3. at \in 0..z /\ cut \in 0..(z - at) /\ n = z - cut + k /\ n <= Cap(o)
  BY DEF Leaves
<1>4. r \in Progress /\ r.cells \in Seq(Cell) /\ Len(r.cells) = L /\ r.long = o.long /\ ~r.threw
  BY DEF InPlace, Progress, Leaves
<1>5. t \in Seq(Cell)
  BY DEF Cell
<1>16. Len(t) = 1 /\ t[1] = Gone
  OBVIOUS
<1>6. q = [r EXCEPT !.cells = c, !.size = n]
  BY DEF Terminated
<1> HIDE DEF t
<1> DEFINE S(i) == IF i <= at THEN o.cells[i] ELSE IF i <= at + k THEN s[i - at] ELSE o.cells[i - k + cut]
<1> HIDE DEF k, z, L, S
<1>8. n \in Nat /\ n < L /\ n \in Int
  BY <1>1, <1>2, <1>3
<1>9. /\ c \in Seq(Cell) /\ Len(c) = L
      /\ \A i \in 1..L : c[i] = IF i - n \in 1..1 THEN t[i - n] ELSE r.cells[i]
  <2>1. /\ c \in Seq(Cell) /\ Len(c) = Len(r.cells)
        /\ \A i \in 1..Len(r.cells) : c[i] = IF i - n \in 1..Len(t) THEN t[i - n] ELSE r.cells[i]
    <3>1. r.cells \in Seq(Cell)
      BY <1>4
    <3> QED
      BY <3>1, <1>5, PutIs
  <2> HIDE DEF c
  <2> QED
    BY <2>1, <1>4, <1>16
<1> HIDE DEF c, q
<1>10. c[n + 1] = Gone /\ \A i \in 1..n : c[i] = r.cells[i]
  <2>1. n + 1 \in 1..L /\ (n + 1) - n = 1 /\ 1 \in 1..1
    BY <1>2, <1>8
  <2>2. \A i \in 1..n : i \in 1..L /\ i - n \notin 1..1
    BY <1>2, <1>8
  <2>3. c[n + 1] = t[1]
    BY <2>1, <1>9
  <2>4. \A i \in 1..n : c[i] = r.cells[i]
    BY <2>2, <1>9
  <2> QED
    BY Zenon, <2>3, <2>4, <1>16
<1>7. \A i \in 1..n : r.cells[i] = S(i)
  BY DEF Leaves, Shows, S, k
<1>11. \A i \in 1..n : S(i) \in Value
  <2> SUFFICES ASSUME NEW i \in 1..n PROVE S(i) \in Value
    OBVIOUS
  <2>1. CASE i <= at
    <3>1. i \in 1..z
      BY <2>1, <1>2, <1>3, <1>8
    <3> QED
      BY <2>1, <3>1, <1>2 DEF S
  <2>2. CASE ~(i <= at) /\ i <= at + k
    <3>1. i - at \in 1..k
      BY <2>2, <1>1, <1>2, <1>3, <1>8
    <3> QED
      BY <2>2, <3>1, <1>1 DEF S
  <2>3. CASE ~(i <= at) /\ ~(i <= at + k)
    <3>1. i - k + cut \in 1..z
      BY <2>3, <1>1, <1>2, <1>3, <1>8
    <3> QED
      BY <2>3, <3>1, <1>2 DEF S
  <2> QED
    BY <2>1, <2>2, <2>3
<1>12. /\ q \in Progress /\ q.cells = c /\ q.size = n /\ q.long = o.long /\ ~q.threw
  BY <1>4, <1>6, <1>8, <1>9 DEF Progress
<1>13. Held(q)
  <2>1. IF o.long THEN L >= MinCap ELSE L = MinCap
    BY DEF Held, L
  <2>2. \A i \in 1..n : c[i] \in Value
    BY <1>7, <1>10, <1>11
  <2> QED
    BY Zenon, <2>1, <2>2, <1>8, <1>9, <1>10, <1>12 DEF Held
<1>14. \A i \in 1..n : q.cells[i] = S(i)
  BY <1>7, <1>10, <1>12
<1>15. Spliced(q, o, at, cut, s)
  BY Zenon, <1>3, <1>12, <1>14 DEF Spliced, Shows, S, k, z
<1> QED
  BY Zenon, <1>12, <1>13, <1>15 DEF Does, q

\* A source: characters, or a part of the first n cells.
Source(src, n) ==
  /\ src \in [own : BOOLEAN, at : Nat, n : Nat, text : Seq(Value)]
  /\ IF src.own THEN src.at + src.n <= n ELSE Len(src.text) = src.n

LEMMA ReadIs ==
  ASSUME NEW c \in Seq(Cell), NEW src, Source(src, Len(c))
  PROVE  /\ Read(c, src) \in Seq(Cell) /\ Len(Read(c, src)) = src.n
         /\ \A i \in 1..src.n : Read(c, src)[i] = IF src.own THEN c[src.at + i] ELSE src.text[i]
<1>1. /\ src.own \in BOOLEAN /\ src.at \in Nat /\ src.n \in Nat /\ src.text \in Seq(Value)
      /\ IF src.own THEN src.at + src.n <= Len(c) ELSE Len(src.text) = src.n
  BY DEF Source
<1>2. CASE src.own
  <2> DEFINE from == src.at
             to == src.at + src.n
  <2>1. Len(c) \in Nat /\ \A i \in 1..Len(c) : c[i] \in Cell
    BY SeqIs
  <2>2. from \in Nat /\ to \in Nat /\ from <= to /\ to - from = src.n /\ \A i \in (from + 1)..to : i \in 1..Len(c)
    BY <1>1, <1>2, <2>1
  <2>3. Read(c, src) = SubSeq(c, from + 1, to)
    BY <1>2 DEF Read
  <2>5. src.at = from
    OBVIOUS
  <2> HIDE DEF from, to
  <2>4. /\ SubSeq(c, from + 1, to) \in Seq(Cell) /\ Len(SubSeq(c, from + 1, to)) = to - from
        /\ \A i \in 1..(to - from) : SubSeq(c, from + 1, to)[i] = c[from + i]
    BY <2>1, <2>2, PartIs
  <2> QED
    BY <2>2, <2>3, <2>4, <2>5, <1>2
<1>3. CASE ~src.own
  <2>1. Read(c, src) = src.text
    BY <1>3 DEF Read
  <2>2. src.text \in Seq(Cell)
    BY <1>1, CharactersAreCells
  <2> QED
    BY <2>1, <2>2, <1>1, <1>3
<1> QED
  BY <1>1, <1>2, <1>3

\* The characters a source stands for when the call is made.
LEMMA SourceIs ==
  ASSUME NEW o, Held(o), NEW src, Source(src, o.size)
  PROVE  LET s == Read(o.cells, src)
         IN  /\ s \in Seq(Value) /\ Len(s) = src.n
             /\ \A i \in 1..src.n : s[i] = IF src.own THEN o.cells[src.at + i] ELSE src.text[i]
<1> DEFINE s == Read(o.cells, src)
<1>1. /\ o.cells \in Seq(Cell) /\ o.size \in Nat /\ o.size <= Len(o.cells)
      /\ \A i \in 1..o.size : o.cells[i] \in Value
  BY HeldIs
<1>3. /\ src.own \in BOOLEAN /\ src.at \in Nat /\ src.n \in Nat /\ src.text \in Seq(Value)
      /\ IF src.own THEN src.at + src.n <= o.size ELSE Len(src.text) = src.n
  BY DEF Source
<1>2. Source(src, Len(o.cells))
  <2>1. o.size \in Nat /\ Len(o.cells) \in Nat /\ o.size <= Len(o.cells)
    BY HeldIs
  <2>2. src.own => src.at + src.n <= Len(o.cells)
    BY <2>1, <1>3
  <2> QED
    BY Zenon, <1>3, <2>2 DEF Source
<1>4. /\ s \in Seq(Cell) /\ Len(s) = src.n
      /\ \A i \in 1..src.n : s[i] = IF src.own THEN o.cells[src.at + i] ELSE src.text[i]
  BY <1>1, <1>2, ReadIs
<1> HIDE DEF s
<1>5. \A i \in 1..src.n : s[i] \in Value
  <2> SUFFICES ASSUME NEW i \in 1..src.n PROVE s[i] \in Value
    OBVIOUS
  <2>1. CASE src.own
    <3>1. src.at + i \in 1..o.size
      BY <2>1, <1>1, <1>3
    <3> QED
      BY <2>1, <3>1, <1>1, <1>4
  <2>2. CASE ~src.own
    <3>1. i \in 1..Len(src.text)
      BY <2>2, <1>3
    <3> QED
      BY <2>2, <3>1, <1>3, <1>4, SeqIs
  <2> QED
    BY <2>1, <2>2
<1>6. s \in Seq(Value)
  <2>1. s \in [1..src.n -> Value]
    <3>1. DOMAIN s = 1..src.n /\ s = [i \in DOMAIN s |-> s[i]]
      BY <1>4, SeqIs
    <3> QED
      BY <3>1, <1>5
  <2> QED
    BY <2>1, <1>3
<1> QED
  BY <1>4, <1>6 DEF s

\* The source is where s is found in the cells c.
Finds(c, src, s) ==
  Len(s) = src.n /\ \A i \in 1..src.n : s[i] = IF src.own THEN c[src.at + i] ELSE src.text[i]

\* Read from cells that hold them where the source is now, they are the same.
LEMMA ReadAgain ==
  ASSUME NEW c \in Seq(Cell), NEW src, Source(src, Len(c)), NEW s \in Seq(Value), Len(s) = src.n,
         \A i \in 1..src.n : s[i] = IF src.own THEN c[src.at + i] ELSE src.text[i]
  PROVE  Read(c, src) = s
<1>1. s \in Seq(Cell)
  BY CharactersAreCells
<1>2. /\ Read(c, src) \in Seq(Cell) /\ Len(Read(c, src)) = src.n
      /\ \A i \in 1..src.n : Read(c, src)[i] = IF src.own THEN c[src.at + i] ELSE src.text[i]
  BY ReadIs
<1>3. \A i \in 1..Len(Read(c, src)) : Read(c, src)[i] = s[i]
  BY <1>2
<1> QED
  BY <1>1, <1>2, <1>3, SeqEqual

-----------------------------------------------------------------------------
(* Operations with a source. *)

\* w is r with s after the first at cells, in a call on o.
Writes(w, r, o, at, s) ==
  /\ InPlace(w, o)
  /\ \A i \in 1..Len(o.cells) : w.cells[i] = IF i - at \in 1..Len(s) THEN s[i - at] ELSE r.cells[i]

\* A source read and written in place, after the cells moved or not.
LEMMA WriteSourceIs ==
  ASSUME NEW r, NEW o, InPlace(r, o), NEW src, Source(src, Len(o.cells)),
         NEW s \in Seq(Value), NEW at \in Nat, Finds(r.cells, src, s)
  PROVE  Writes([r EXCEPT !.cells = Put(r.cells, at, Read(r.cells, src))], r, o, at, s)
<1>1. r.cells \in Seq(Cell) /\ Source(src, Len(r.cells)) /\ s \in Seq(Cell)
  BY CharactersAreCells DEF InPlace, Progress
<1>2. Read(r.cells, src) = s
  BY <1>1, ReadAgain DEF Finds
<1>3. at \in Int
  OBVIOUS
<1> DEFINE w == [r EXCEPT !.cells = Put(r.cells, at, s)]
<1>4. /\ InPlace(w, o)
      /\ \A i \in 1..Len(o.cells) : w.cells[i] = IF i - at \in 1..Len(s) THEN s[i - at] ELSE r.cells[i]
  BY <1>1, <1>3, WriteIs
<1> HIDE DEF w
<1>5. w = [r EXCEPT !.cells = Put(r.cells, at, Read(r.cells, src))]
  BY Zenon, <1>2 DEF w
<1> QED
  BY Zenon, <1>4, <1>5 DEF Writes

LEMMA SourceFits ==
  ASSUME NEW o, Held(o), NEW src, Source(src, o.size)
  PROVE  Source(src, Len(o.cells)) /\ src.own \in BOOLEAN /\ src.n \in Nat /\ src.at \in Nat
         /\ (src.own => src.at + src.n <= o.size)
<1>1. o.size \in Nat /\ Len(o.cells) \in Nat /\ o.size <= Len(o.cells)
  BY HeldIs
<1>2. /\ src \in [own : BOOLEAN, at : Nat, n : Nat, text : Seq(Value)]
      /\ IF src.own THEN src.at + src.n <= o.size ELSE Len(src.text) = src.n
  BY DEF Source
<1>3. src.own \in BOOLEAN /\ src.n \in Nat /\ src.at \in Nat
  BY <1>2
<1>4. src.own => src.at + src.n <= Len(o.cells)
  BY <1>1, <1>2, <1>3
<1>5. Source(src, Len(o.cells))
  BY Zenon, <1>2, <1>4 DEF Source
<1> QED
  BY Zenon, <1>2, <1>3, <1>5

LEMMA AppendedDoes ==
  ASSUME StringAssumption, NEW o, Held(o), ~o.threw, NEW src, Source(src, o.size)
  PROVE  Does(Appended(o, src), o, o.size, 0, Read(o.cells, src))
<1> DEFINE s == Read(o.cells, src)
           z == o.size
           c == Cap(o)
           k == src.n
           q == Appended(o, src)
<1>1. s \in Seq(Value) /\ Len(s) = k /\ \A i \in 1..k : s[i] = IF src.own THEN o.cells[src.at + i] ELSE src.text[i]
  BY SourceIs
<1>2. z \in Nat /\ c \in Nat /\ z <= c /\ c = Len(o.cells) - 1 /\ Len(o.cells) \in Nat
  BY HeldIs
<1>3. Source(src, Len(o.cells)) /\ k \in Nat
  BY SourceFits
<1>7. Len(s) = k
  BY <1>1
<1> DEFINE zero == 0
<1>4. zero \in 0..(z - z) /\ z \in 0..z /\ z - zero + k = z + k
  BY <1>2, <1>3
<1>5. CASE c - z < k
  <2> DEFINE delta == z + k - c
  <2>1. q = GrowBy(o, delta, z, zero, s)
    BY Zenon, <1>5 DEF Appended
  <2>2. delta \in Nat /\ z - zero + k <= c + delta
    BY SMTT(30), <1>2, <1>3, <1>5
  <2> HIDE DEF delta, zero, s, q
  <2>3. Does(q, o, z, zero, s)
    BY <2>1, <2>2, <1>1, <1>4, GrowByIs
  <2> QED
    BY Zenon, <2>3 DEF zero, s, q
<1>6. CASE ~(c - z < k)
  <2> DEFINE w == [o EXCEPT !.cells = Put(o.cells, z, Read(o.cells, src))]
             n == z + k
  <2>1. q = Terminated(w, n)
    BY <1>6 DEF Appended
  <2>2. InPlace(o, o)
    BY InPlaceIs
  <2> HIDE DEF s, q, k
  <2>3. /\ InPlace(w, o)
        /\ \A i \in 1..Len(o.cells) : w.cells[i] = IF i - z \in 1..Len(s) THEN s[i - z] ELSE o.cells[i]
    <3>1. Finds(o.cells, src, s) /\ z \in Nat /\ Source(src, Len(o.cells)) /\ s \in Seq(Value)
      BY <1>1, <1>2, <1>3 DEF Finds, k
    <3>2. Writes(w, o, o, z, s)
      BY <3>1, <2>2, WriteSourceIs
    <3> QED
      BY Zenon, <3>2 DEF Writes
  <2> HIDE DEF w, zero
  <2>4. n \in Nat /\ n = z - zero + Len(s) /\ n <= c
    <3>1. n \in Nat /\ n <= c
      BY <1>2, <1>3, <1>6
    <3> QED
      BY Zenon, <3>1, <1>4, <1>7
  <2>5. Shows(w.cells, n, o, z, zero, s)
    <3> SUFFICES ASSUME NEW i \in 1..n
                 PROVE  w.cells[i] = IF i <= z THEN o.cells[i]
                                     ELSE IF i <= z + Len(s) THEN s[i - z] ELSE o.cells[i - Len(s) + zero]
      BY DEF Shows
    <3>1. i \in 1..Len(o.cells) /\ (i - z \in 1..k <=> ~(i <= z)) /\ i <= z + k
      BY <2>4, <1>1, <1>2, <1>3
    <3> QED
      BY <3>1, <2>3, <1>1
  <2>6. Leaves(w, n, o, z, zero, s)
    BY Zenon, <2>3, <2>4, <2>5 DEF Leaves
  <2>7. Does(q, o, z, zero, s)
    BY <2>1, <2>4, <2>6, <1>1, <1>4, TerminatedIs
  <2> QED
    BY Zenon, <2>7 DEF zero, s, q
<1> QED
  BY <1>5, <1>6

\* The tail moved away, then the characters written where they go.
LEMMA WrittenLeaves ==
  ASSUME NEW o, Held(o), NEW pos \in 0..o.size, NEW n1 \in 0..(o.size - pos),
         NEW s \in Seq(Value), NEW n \in Nat, n = o.size - n1 + Len(s), n <= Cap(o),
         NEW from \in Nat, from = pos + n1, NEW to \in Nat, to = pos + Len(s),
         NEW moved, Source(moved, Len(o.cells)), Finds(MoveTail(o, from, to).cells, moved, s)
  PROVE  Leaves([MoveTail(o, from, to) EXCEPT
                   !.cells = Put(MoveTail(o, from, to).cells, pos, Read(MoveTail(o, from, to).cells, moved))],
                n, o, pos, n1, s)
<1> DEFINE r == MoveTail(o, from, to)
           w == [r EXCEPT !.cells = Put(r.cells, pos, Read(r.cells, moved))]
           L == Len(o.cells)
           z == o.size
           k == Len(s)
<1>1. z \in Nat /\ L \in Nat /\ z <= L /\ Cap(o) = L - 1 /\ k \in Nat
  BY SMTT(30), HeldIs, SeqIs
<1>2. from \in 0..z /\ pos \in Nat /\ n <= L /\ pos \in 0..z /\ n1 \in 0..(z - pos) /\ n = z - n1 + k
      /\ from = pos + n1 /\ to = pos + k
  BY SMTT(30), <1>1
<1>3. /\ InPlace(r, o)
      /\ \A i \in 1..L : r.cells[i] = IF i - to \in 1..(z - from) THEN o.cells[i - to + from] ELSE o.cells[i]
  <2>1. InPlace(o, o) /\ from \in 0..o.size /\ o.size <= Len(o.cells) /\ to \in Nat
    BY <1>1, <1>2, InPlaceIs
  <2> QED
    BY SMTT(30), <2>1, MoveTailIs
<1>4. Finds(r.cells, moved, s)
  OBVIOUS
<1> HIDE DEF r
<1>5. /\ InPlace(w, o)
      /\ \A i \in 1..L : w.cells[i] = IF i - pos \in 1..k THEN s[i - pos] ELSE r.cells[i]
  <2>1. Writes(w, r, o, pos, s)
    BY <1>2, <1>3, <1>4, WriteSourceIs
  <2> QED
    BY Zenon, <2>1 DEF Writes
<1> HIDE DEF w, L, z, k
<1>6. ASSUME NEW i \in 1..n
      PROVE  w.cells[i] = IF i <= pos THEN o.cells[i]
                          ELSE IF i <= pos + k THEN s[i - pos] ELSE o.cells[i - k + n1]
  <2>1. i \in 1..L
    BY <1>1, <1>2
  <2>2. CASE i <= pos
    <3>1. i - pos \notin 1..k /\ i - to \notin 1..(z - from)
      BY <2>2, <1>1, <1>2
    <3> QED
      BY <2>1, <2>2, <3>1, <1>3, <1>5
  <2>3. CASE ~(i <= pos) /\ i <= pos + k
    <3>1. i - pos \in 1..k
      BY <2>3, <1>1, <1>2
    <3> QED
      BY <2>1, <2>3, <3>1, <1>5
  <2>4. CASE ~(i <= pos) /\ ~(i <= pos + k)
    <3>1. i - pos \notin 1..k /\ i - to \in 1..(z - from) /\ i - to + from = i - k + n1
      BY SMTT(30), <2>4, <1>1, <1>2
    <3> QED
      BY <2>1, <2>4, <3>1, <1>3, <1>5
  <2> QED
    BY <2>2, <2>3, <2>4
<1>7. Shows(w.cells, n, o, pos, n1, s)
  BY <1>6 DEF Shows, k
<1>8. Leaves(w, n, o, pos, n1, s)
  BY Zenon, <1>5, <1>7, <1>2 DEF Leaves, z, k
<1> QED
  BY Zenon, <1>8 DEF w, r

\* What is read behind the place of the insertion is found where it moved.
LEMMA InsertDoes ==
  ASSUME StringAssumption, NEW o, Held(o), ~o.threw, NEW pos \in Nat, NEW src, Source(src, o.size)
  PROVE  Does(Insert(o, pos, src), o, pos, 0, Read(o.cells, src))
<1> DEFINE s == Read(o.cells, src)
           z == o.size
           c == Cap(o)
           k == src.n
           moved == IF src.own /\ src.at \in pos..(z - 1) THEN Ahead(src, k) ELSE src
           zero == 0
           q == Insert(o, pos, src)
<1>1. s \in Seq(Value) /\ Len(s) = k /\ \A i \in 1..k : s[i] = IF src.own THEN o.cells[src.at + i] ELSE src.text[i]
  BY SourceIs
<1>2. z \in Nat /\ c \in Nat /\ z <= c /\ c = Len(o.cells) - 1 /\ Len(o.cells) \in Nat
  BY HeldIs
<1>3. Source(src, Len(o.cells)) /\ k \in Nat /\ src.at \in Nat /\ (src.own => src.at + k <= z)
  BY SourceFits
<1>4. CASE pos > z
  <2>1. q = Throw(o)
    <3>1. ~(pos <= z)
      BY <1>2, <1>4
    <3> QED
      BY Zenon, <1>4, <3>1 DEF Insert
  <2> QED
    BY <2>1, ThrowDoes
<1>5. CASE pos <= z /\ c - z < k
  <2> DEFINE delta == z + k - c
  <2>1. q = GrowBy(o, delta, pos, zero, s)
    <3>1. ~(pos > z)
      BY <1>2, <1>5
    <3> QED
      BY Zenon, <1>5, <3>1 DEF Insert
  <2>2. delta \in Nat /\ z - zero + k <= c + delta /\ zero \in 0..(z - pos) /\ pos \in 0..z
    BY SMTT(30), <1>2, <1>3, <1>5
  <2> HIDE DEF delta, zero, s, q
  <2>3. Does(q, o, pos, zero, s)
    BY <2>1, <2>2, <1>1, GrowByIs
  <2> QED
    BY Zenon, <2>3 DEF zero, s, q
<1>6. CASE pos <= z /\ ~(c - z < k)
  <2> DEFINE to == pos + k
             r == MoveTail(o, pos, to)
             w == [r EXCEPT !.cells = Put(r.cells, pos, Read(r.cells, moved))]
             n == z + k
  <2>1. q = Terminated(w, n)
    <3>1. ~(pos > z)
      BY <1>2, <1>6
    <3> QED
      BY <1>6, <3>1 DEF Insert
  <2>2. /\ InPlace(r, o)
        /\ \A i \in 1..Len(o.cells) : r.cells[i] = IF i - to \in 1..(z - pos) THEN o.cells[i - to + pos] ELSE o.cells[i]
    <3>1. InPlace(o, o) /\ pos \in 0..z /\ to \in Nat /\ z <= Len(o.cells)
      BY <1>2, <1>3, <1>6, InPlaceIs
    <3> HIDE DEF to
    <3> QED
      BY <3>1, MoveTailIs
  <2> HIDE DEF r, s, q
  <2>3. /\ Source(moved, Len(o.cells)) /\ moved.n = k /\ moved.own = src.own /\ moved.text = src.text
        /\ moved.at = IF src.own /\ src.at \in pos..(z - 1) THEN src.at + k ELSE src.at
    <3>1. src \in [own : BOOLEAN, at : Nat, n : Nat, text : Seq(Value)]
      BY <1>3 DEF Source
    <3>2. CASE src.own /\ src.at \in pos..(z - 1)
      <4>1. src.at + k \in Nat
        BY <1>3
      <4> DEFINE a == src.at + k
      <4>2. moved = [src EXCEPT !.at = a]
        BY <3>2 DEF Ahead
      <4> HIDE DEF a, moved
      <4>3. moved = [own |-> src.own, at |-> a, n |-> k, text |-> src.text]
        BY <3>1, <4>2
      <4>4. moved \in [own : BOOLEAN, at : Nat, n : Nat, text : Seq(Value)] /\ moved.own = src.own
            /\ moved.at = a /\ moved.n = k /\ moved.text = src.text
        BY <3>1, <4>1, <4>3 DEF a
      <4>5. a + k <= Len(o.cells)
        BY <1>2, <1>3, <1>6, <3>2 DEF a
      <4>6. Source(moved, Len(o.cells))
        BY Zenon, <4>4, <4>5, <3>2 DEF Source
      <4> QED
        BY Zenon, <4>4, <4>6, <3>2 DEF a
    <3>3. CASE ~(src.own /\ src.at \in pos..(z - 1))
      BY Zenon, <3>3, <1>3
    <3> QED
      BY <3>2, <3>3
  <2> HIDE DEF moved
  <2>4. ASSUME NEW i \in 1..moved.n
        PROVE  s[i] = IF moved.own THEN r.cells[moved.at + i] ELSE moved.text[i]
    <3>1. i \in 1..k
      BY <2>3
    <3>2. CASE ~src.own
      BY <3>1, <3>2, <1>1, <2>3
    <3>3. CASE src.own /\ src.at \in pos..(z - 1)
      <4> DEFINE a == src.at
                 L == Len(o.cells)
                 j == moved.at + i
      <4>1. a \in Nat /\ pos <= a /\ a + k <= z /\ z + k < L /\ L \in Nat /\ j = a + k + i
        BY <3>3, <1>2, <1>3, <1>6, <2>3
      <4>2. s[i] = o.cells[a + i]
        BY <3>1, <3>3, <1>1
      <4> HIDE DEF a, L, k, z, j
      <4>3. j \in 1..L /\ j - to \in 1..(z - pos) /\ j - to + pos = a + i
        BY <3>1, <4>1, <1>2, <1>3
      <4> HIDE DEF to
      <4>4. r.cells[j] = o.cells[a + i]
        BY <4>3, <2>2 DEF L, z
      <4> QED
        BY <4>2, <4>4, <3>3, <2>3 DEF j
    <3>4. CASE src.own /\ ~(src.at \in pos..(z - 1))
      <4> DEFINE a == src.at
                 L == Len(o.cells)
                 j == a + i
      <4>1. a \in Nat /\ a < pos /\ a + k <= z /\ z < L /\ L \in Nat /\ moved.at = a
        <5>1. a < pos
          BY <3>1, <3>4, <1>2, <1>3
        <5> QED
          BY <5>1, <3>4, <1>2, <1>3, <2>3
      <4>2. s[i] = o.cells[j]
        BY <3>1, <3>4, <1>1
      <4> HIDE DEF a, L, k, z
      <4>3. j \in 1..L /\ ~(j - to \in 1..(z - pos))
        BY <3>1, <4>1, <1>2, <1>3
      <4> HIDE DEF to, j
      <4>4. r.cells[j] = o.cells[j]
        BY <4>3, <2>2 DEF L, z
      <4>5. moved.at + i = j
        BY <4>1 DEF j
      <4> QED
        BY <4>2, <4>4, <4>5, <3>4, <2>3
    <3> QED
      BY <3>2, <3>3, <3>4, <1>3
  <2>6. /\ n \in Nat /\ n = z - zero + Len(s) /\ n <= c /\ zero \in 0..(z - pos) /\ pos \in 0..z
        /\ pos \in Nat /\ pos = pos + zero /\ to \in Nat /\ to = pos + Len(s)
    BY SMTT(30), <1>1, <1>2, <1>3, <1>6
  <2>7. Finds(r.cells, moved, s)
    BY <2>3, <2>4, <1>1 DEF Finds
  <2> HIDE DEF n, to, moved, zero
  <2>8. Leaves(w, n, o, pos, zero, s)
    BY <2>3, <2>6, <2>7, <1>1, WrittenLeaves DEF r
  <2> HIDE DEF n
  <2>9. Does(q, o, pos, zero, s)
    BY <2>1, <2>6, <2>8, <1>1, TerminatedIs
  <2> QED
    BY Zenon, <2>9 DEF zero, s, q
<1> QED
  BY <1>2, <1>4, <1>5, <1>6

\* No more characters come than go: they are written before the tail moves down.
LEMMA NarrowerLeaves ==
  ASSUME NEW o, Held(o), NEW pos \in 0..o.size, NEW n1 \in 0..(o.size - pos), NEW src, Source(src, o.size),
         NEW n \in Nat, n = o.size - n1 + src.n, n1 >= src.n
  PROVE  Leaves(MoveTail([o EXCEPT !.cells = Put(o.cells, pos, Read(o.cells, src))], pos + n1, pos + src.n),
                n, o, pos, n1, Read(o.cells, src))
<1> DEFINE s == Read(o.cells, src)
           L == Len(o.cells)
           z == o.size
           k == src.n
           from == pos + n1
           to == pos + k
           r == [o EXCEPT !.cells = Put(o.cells, pos, Read(o.cells, src))]
           w == MoveTail(r, from, to)
<1>1. s \in Seq(Value) /\ Len(s) = k /\ \A i \in 1..k : s[i] = IF src.own THEN o.cells[src.at + i] ELSE src.text[i]
  BY SourceIs
<1>2. z \in Nat /\ L \in Nat /\ z <= L /\ z < L /\ Cap(o) = L - 1
  BY HeldIs
<1>3. Source(src, L) /\ k \in Nat
  BY SourceFits
<1> HIDE DEF s
<1>4. /\ InPlace(r, o)
      /\ \A i \in 1..L : r.cells[i] = IF i - pos \in 1..Len(s) THEN s[i - pos] ELSE o.cells[i]
  <2>1. InPlace(o, o) /\ pos \in Nat /\ Finds(o.cells, src, s)
    BY <1>1, InPlaceIs DEF Finds
  <2>2. Writes(r, o, o, pos, s)
    BY <2>1, <1>1, <1>3, WriteSourceIs
  <2> QED
    BY Zenon, <2>2 DEF Writes
<1>5. from \in 0..z /\ to \in Nat /\ n <= L - 1 /\ n1 \in Nat /\ pos \in 0..z /\ n1 <= z - pos /\ k <= n1
      /\ n = z - n1 + k
  BY SMTT(30), <1>2, <1>3
<1> HIDE DEF r
<1>6. /\ InPlace(w, o)
      /\ \A i \in 1..L : w.cells[i] = IF i - to \in 1..(z - from) THEN r.cells[i - to + from] ELSE r.cells[i]
  <2>1. r.size = z /\ Len(r.cells) = L /\ r.size <= Len(r.cells) /\ from \in 0..r.size
    BY <1>2, <1>4, <1>5 DEF InPlace
  <2> HIDE DEF from, to, z
  <2> QED
    BY SMTT(30), <2>1, <1>4, <1>5, MoveTailIs
<1> HIDE DEF w, L, z, k
<1>7. ASSUME NEW i \in 1..n
      PROVE  w.cells[i] = IF i <= pos THEN o.cells[i]
                          ELSE IF i <= pos + k THEN s[i - pos] ELSE o.cells[i - k + n1]
  <2>1. i \in 1..L
    BY <1>2, <1>5
  <2>2. CASE i <= pos
    <3>1. i - pos \notin 1..k /\ i - to \notin 1..(z - from)
      BY <2>2, <1>2, <1>3, <1>5
    <3> QED
      BY <2>1, <2>2, <3>1, <1>1, <1>4, <1>6
  <2>3. CASE ~(i <= pos) /\ i <= pos + k
    <3>1. i - pos \in 1..k /\ i - to \notin 1..(z - from)
      BY <2>3, <1>2, <1>3, <1>5
    <3> QED
      BY <2>1, <2>3, <3>1, <1>1, <1>4, <1>6
  <2>4. CASE ~(i <= pos) /\ ~(i <= pos + k)
    <3> DEFINE j == i - k + n1
    <3>1. i - to \in 1..(z - from) /\ i - to + from = j /\ j \in 1..L /\ j - pos \notin 1..k
      BY <2>4, <1>2, <1>3, <1>5
    <3> HIDE DEF j
    <3>2. w.cells[i] = r.cells[j]
      BY <2>1, <3>1, <1>6
    <3>3. r.cells[j] = o.cells[j]
      BY <3>1, <1>1, <1>4
    <3> QED
      BY <2>4, <3>2, <3>3 DEF j
  <2> QED
    BY <2>2, <2>3, <2>4
<1>8. Shows(w.cells, n, o, pos, n1, s)
  <2>1. Len(s) = k
    BY <1>1
  <2> QED
    BY <2>1, <1>7 DEF Shows
<1>9. n = o.size - n1 + Len(s) /\ n <= Cap(o)
  BY <1>1, <1>2, <1>5 DEF z
<1>10. Leaves(w, n, o, pos, n1, s)
  BY Zenon, <1>6, <1>8, <1>9 DEF Leaves
<1> QED
  BY Zenon, <1>10 DEF w, r, s, k

LEMMA OwnIs ==
  ASSUME NEW at \in Nat, NEW k \in Nat, NEW n \in Nat, at + k <= n
  PROVE  Source(Own(at, k), n) /\ Own(at, k).own /\ Own(at, k).at = at /\ Own(at, k).n = k
<1> DEFINE src == Own(at, k)
           none == <<>>
           yes == TRUE
<1>1. none \in Seq(Value) /\ yes \in BOOLEAN
  OBVIOUS
<1>2. src = [own |-> yes, at |-> at, n |-> k, text |-> none]
  BY Zenon DEF Own
<1>5. yes
  OBVIOUS
<1> HIDE DEF src, none, yes
<1>3. src \in [own : BOOLEAN, at : Nat, n : Nat, text : Seq(Value)]
  BY <1>1, <1>2
<1>4. src.own = yes /\ src.at = at /\ src.n = k
  BY <1>2
<1>6. Source(src, n)
  BY Zenon, <1>3, <1>4, <1>5 DEF Source
<1> QED
  BY Zenon, <1>4, <1>5, <1>6 DEF src

\* The source begins in the part that goes, and is longer.
Overlaps(src, pos, n1) == n1 < src.n /\ src.own /\ pos < src.at /\ src.at < pos + n1

\* More come than go, from a part of the string that begins before the tail and
\* ends in it: the first are written before the tail moves up, the rest after.
LEMMA WiderLeaves ==
  ASSUME NEW o, Held(o), NEW pos \in 0..o.size, NEW n1 \in 0..(o.size - pos), NEW src, Source(src, o.size),
         NEW n \in Nat, n = o.size - n1 + src.n, n <= Cap(o), Overlaps(src, pos, n1)
  PROVE  LET r == [o EXCEPT !.cells = Put(o.cells, pos, Read(o.cells, Part(src, 0, n1)))]
             t == MoveTail(r, pos + n1, pos + src.n)
             w == [t EXCEPT !.cells = Put(t.cells, pos + n1, Read(t.cells, Own(src.at + src.n, src.n - n1)))]
         IN  Leaves(w, n, o, pos, n1, Read(o.cells, src))
<1> DEFINE r == [o EXCEPT !.cells = Put(o.cells, pos, Read(o.cells, Part(src, 0, n1)))]
           t == MoveTail(r, pos + n1, pos + src.n)
           w == [t EXCEPT !.cells = Put(t.cells, pos + n1, Read(t.cells, Own(src.at + src.n, src.n - n1)))]
           s == Read(o.cells, src)
           L == Len(o.cells)
           z == o.size
           k == src.n
           a == src.at
           from == pos + n1
           to == pos + k
           left == k - n1
           head == Part(src, 0, n1)
           rest == Own(a + k, left)
           s1 == SubSeq(s, 1, n1)
           s2 == SubSeq(s, n1 + 1, k)
<1> HIDE DEF r, t, w
<1>1. s \in Seq(Value) /\ Len(s) = k /\ (\A i \in 1..k : s[i] = o.cells[a + i]) /\ \A i \in 1..k : s[i] \in Value
  <2>1. s \in Seq(Value) /\ Len(s) = k /\ \A i \in 1..k : s[i] = o.cells[a + i]
    BY SourceIs DEF Overlaps
  <2> HIDE DEF s
  <2> QED
    BY <2>1, SeqIs
<1>2. z \in Nat /\ L \in Nat /\ z <= L /\ z < L /\ Cap(o) = L - 1
  BY HeldIs
<1>3. Source(src, L) /\ k \in Nat /\ a \in Nat /\ a + k <= z
  <2>1. src.own
    BY DEF Overlaps
  <2> QED
    BY <2>1, SourceFits
<1>18. /\ pos \in 0..z /\ n1 \in 0..(z - pos) /\ n1 < k /\ pos < a /\ a < pos + n1 /\ n = z - n1 + k
       /\ n <= L - 1 /\ src.own
  BY <1>2 DEF Overlaps
<1> HIDE DEF s, z, k, a, L
<1>4. /\ pos \in 0..z /\ n1 \in Nat /\ n1 <= z - pos /\ n1 < k /\ pos < a /\ a < from /\ n = z - n1 + k /\ n <= L - 1
      /\ from \in 0..z /\ to \in Nat /\ left \in Nat /\ n1 <= k /\ k \in Nat /\ a \in Nat
  BY <1>2, <1>3, <1>18
<1>6. Source(head, L) /\ head.own /\ head.at = a /\ head.n = n1
  <2>1. a + 0 = a /\ a + n1 <= L
    BY <1>2, <1>3, <1>4
  <2>2. head = Own(a, n1)
    BY Zenon, <1>18, <2>1 DEF Part, a
  <2> HIDE DEF head
  <2> QED
    BY <2>1, <2>2, <1>2, <1>3, <1>4, OwnIs
<1>7. Source(rest, L) /\ rest.own /\ rest.at = a + k /\ rest.n = left
  <2> DEFINE m == a + k
  <2>1. m \in Nat /\ m + left <= L
    BY <1>2, <1>3, <1>4
  <2>2. rest = Own(m, left)
    OBVIOUS
  <2> HIDE DEF rest, m, left
  <2>3. left \in Nat
    BY <1>4 DEF left
  <2>4. Source(rest, L) /\ rest.own /\ rest.at = m /\ rest.n = left
    BY <2>1, <2>2, <2>3, <1>2, OwnIs
  <2> QED
    BY <2>4 DEF m
<1>8. s1 \in Seq(Value) /\ Len(s1) = n1 /\ \A i \in 1..n1 : s1[i] = s[i]
  <2>1. \A i \in 1..n1 : i \in 1..k
    BY <1>4
  <2> QED
    BY <2>1, <1>1, <1>4, FirstIs
<1>9. s2 \in Seq(Value) /\ Len(s2) = left /\ \A i \in 1..left : s2[i] = s[n1 + i]
  <2>1. \A i \in (n1 + 1)..k : i \in 1..k
    BY <1>4
  <2> QED
    BY <2>1, <1>1, <1>3, <1>4, PartIs
<1> HIDE DEF head, rest, s1, s2
<1>10. /\ InPlace(r, o)
       /\ \A i \in 1..L : r.cells[i] = IF i - pos \in 1..n1 THEN s1[i - pos] ELSE o.cells[i]
  <2>1. Finds(o.cells, head, s1)
    <3>1. \A i \in 1..n1 : s1[i] = o.cells[a + i]
      <4>1. \A i \in 1..n1 : i \in 1..k
        BY <1>4
      <4> QED
        BY <4>1, <1>1, <1>8
    <3> QED
      BY <3>1, <1>6, <1>8 DEF Finds
  <2>2. pos \in Nat /\ InPlace(o, o)
    BY <1>4, InPlaceIs
  <2>4. r = [o EXCEPT !.cells = Put(o.cells, pos, Read(o.cells, head))]
    BY DEF r, head
  <2>3. Writes(r, o, o, pos, s1)
    BY <2>1, <2>2, <2>4, <1>6, <1>8, WriteSourceIs DEF L
  <2> QED
    BY <2>3, <1>8 DEF Writes, L
<1>11. /\ InPlace(t, o)
       /\ \A i \in 1..L : t.cells[i] = IF i - to \in 1..(z - from) THEN r.cells[i - to + from] ELSE r.cells[i]
  <2>1. r.size = z /\ r.size <= Len(r.cells) /\ from \in 0..r.size
    BY <1>2, <1>4, <1>10 DEF InPlace, z, L
  <2>2. t = MoveTail(r, from, to)
    BY DEF t, k
  <2>3. /\ InPlace(t, o)
        /\ \A i \in 1..Len(o.cells) :
             t.cells[i] = IF i - to \in 1..(r.size - from) THEN r.cells[i - to + from] ELSE r.cells[i]
    <3> HIDE DEF from, to
    <3> QED
      BY SMTT(30), <2>1, <2>2, <1>4, <1>10, MoveTailIs
  <2> QED
    BY <2>1, <2>3 DEF L
<1>12. ASSUME NEW i \in 1..left PROVE s2[i] = t.cells[(a + k) + i]
  <2> DEFINE j == (a + k) + i
             m == a + (n1 + i)
  <2>1. /\ j \in 1..L /\ j - to \in 1..(z - from) /\ j - to + from = m /\ m \in 1..L /\ m - pos \notin 1..n1
        /\ n1 + i \in 1..k
    BY <1>2, <1>3, <1>4
  <2>2. s2[i] = o.cells[m]
    BY <2>1, <1>1, <1>9
  <2> HIDE DEF j, m
  <2>3. t.cells[j] = r.cells[m] /\ r.cells[m] = o.cells[m]
    BY <2>1, <1>10, <1>11
  <2> QED
    BY <2>2, <2>3 DEF j
<1>13. /\ InPlace(w, o)
       /\ \A i \in 1..L : w.cells[i] = IF i - from \in 1..left THEN s2[i - from] ELSE t.cells[i]
  <2>1. Finds(t.cells, rest, s2)
    BY <1>7, <1>9, <1>12 DEF Finds
  <2>2. from \in Nat
    BY <1>4
  <2>3. w = [t EXCEPT !.cells = Put(t.cells, from, Read(t.cells, rest))]
    BY DEF w, rest, a, k
  <2> HIDE DEF from
  <2>4. Writes(w, t, o, from, s2)
    BY <2>1, <2>2, <2>3, <1>7, <1>9, <1>11, WriteSourceIs DEF L
  <2> QED
    BY <2>4, <1>9 DEF Writes, L
<1>14. ASSUME NEW i \in 1..n
       PROVE  w.cells[i] = IF i <= pos THEN o.cells[i]
                           ELSE IF i <= pos + k THEN s[i - pos] ELSE o.cells[i - k + n1]
  <2>1. i \in 1..L
    BY <1>2, <1>4
  <2>2. CASE i <= pos
    <3>1. i - pos \notin 1..n1 /\ i - to \notin 1..(z - from) /\ i - from \notin 1..left
      BY <2>2, <1>2, <1>3, <1>4
    <3> QED
      BY <2>1, <2>2, <3>1, <1>10, <1>11, <1>13
  <2>3. CASE ~(i <= pos) /\ i <= from
    <3>1. i - pos \in 1..n1 /\ i - to \notin 1..(z - from) /\ i - from \notin 1..left /\ i <= pos + k
      BY <2>3, <1>2, <1>3, <1>4
    <3>2. w.cells[i] = s1[i - pos]
      BY <2>1, <2>3, <3>1, <1>10, <1>11, <1>13
    <3>3. s1[i - pos] = s[i - pos]
      BY <3>1, <1>8
    <3> QED
      BY <2>3, <3>1, <3>2, <3>3
  <2>4. CASE ~(i <= from) /\ i <= pos + k
    <3>1. i - from \in 1..left /\ ~(i <= pos) /\ n1 + (i - from) = i - pos
      BY <2>4, <1>2, <1>3, <1>4
    <3>2. w.cells[i] = s2[i - from]
      BY <2>1, <3>1, <1>13
    <3>3. s2[i - from] = s[i - pos]
      BY <3>1, <1>9
    <3> QED
      BY <2>4, <3>1, <3>2, <3>3
  <2>5. CASE ~(i <= pos + k)
    <3> DEFINE j == i - k + n1
    <3>1. /\ ~(i <= pos) /\ i - from \notin 1..left /\ i - to \in 1..(z - from) /\ i - to + from = j
          /\ j \in 1..L /\ j - pos \notin 1..n1
      BY <2>5, <1>2, <1>3, <1>4
    <3> HIDE DEF j
    <3>2. w.cells[i] = r.cells[j]
      BY <2>1, <3>1, <1>11, <1>13
    <3>3. r.cells[j] = o.cells[j]
      BY <3>1, <1>10
    <3> QED
      BY <2>5, <3>1, <3>2, <3>3 DEF j
  <2>6. i <= pos => i <= from
    BY <1>3, <1>4
  <2> QED
    BY <2>2, <2>3, <2>4, <2>5, <2>6
<1>15. Shows(w.cells, n, o, pos, n1, s)
  <2>1. Len(s) = k
    BY <1>1
  <2> QED
    BY <2>1, <1>14 DEF Shows
<1>16. n = o.size - n1 + Len(s) /\ n <= Cap(o)
  BY <1>1, <1>2, <1>4 DEF z
<1>17. Leaves(w, n, o, pos, n1, s)
  BY Zenon, <1>13, <1>15, <1>16 DEF Leaves
<1> QED
  BY Zenon, <1>17 DEF w, t, r, s

\* The source as it is after the tail moved: where the tail took it, if it is in it.
LEMMA AheadIs ==
  ASSUME NEW src, NEW m \in Nat, Source(src, m), NEW by \in Nat, NEW n \in Nat, src.own, src.at + by + src.n <= n
  PROVE  LET q == Ahead(src, by)
         IN  Source(q, n) /\ q.own /\ q.n = src.n /\ q.at = src.at + by
<1> DEFINE a == src.at + by
           q == Ahead(src, by)
<1>1. src \in [own : BOOLEAN, at : Nat, n : Nat, text : Seq(Value)]
  BY DEF Source
<1>2. a \in Nat /\ a + src.n <= n
  BY <1>1
<1>3. q = [src EXCEPT !.at = a]
  BY DEF Ahead
<1> HIDE DEF a, q
<1>4. q \in [own : BOOLEAN, at : Nat, n : Nat, text : Seq(Value)] /\ q.own = src.own /\ q.at = a /\ q.n = src.n
  BY <1>1, <1>2, <1>3
<1>5. Source(q, n)
  BY Zenon, <1>2, <1>4 DEF Source
<1> QED
  BY Zenon, <1>4, <1>5 DEF a, q

\* More come than go, from the tail.
LEMMA AheadLeaves ==
  ASSUME NEW o, Held(o), NEW pos \in 0..o.size, NEW n1 \in 0..(o.size - pos), NEW src, Source(src, o.size),
         NEW n \in Nat, n = o.size - n1 + src.n, n <= Cap(o), src.own, n1 < src.n, pos + n1 <= src.at
  PROVE  LET t == MoveTail(o, pos + n1, pos + src.n)
             w == [t EXCEPT !.cells = Put(t.cells, pos, Read(t.cells, Ahead(src, src.n - n1)))]
         IN  Leaves(w, n, o, pos, n1, Read(o.cells, src))
<1> DEFINE s == Read(o.cells, src)
           L == Len(o.cells)
           z == o.size
           k == src.n
           a == src.at
           by == k - n1
           from == pos + n1
           to == pos + k
           t == MoveTail(o, from, to)
           moved == Ahead(src, by)
           w == [t EXCEPT !.cells = Put(t.cells, pos, Read(t.cells, moved))]
<1>1. s \in Seq(Value) /\ Len(s) = k /\ \A i \in 1..k : s[i] = o.cells[a + i]
  BY SourceIs
<1>2. z \in Nat /\ L \in Nat /\ z <= L /\ z < L /\ Cap(o) = L - 1
  BY HeldIs
<1>3. k \in Nat /\ a \in Nat /\ a + k <= z
  BY SourceFits
<1>4. pos \in 0..z /\ n1 \in 0..(z - pos) /\ n1 < k /\ from <= a /\ n = z - n1 + k /\ n <= L - 1
  BY <1>2
<1>5. from \in 0..z /\ from \in Nat /\ to \in Nat /\ by \in Nat /\ a + by + k <= L /\ n1 \in Nat
  <2> HIDE DEF z, k, a, L
  <2> QED
    BY <1>2, <1>3, <1>4
<1> HIDE DEF s, t, moved
<1>6. Source(moved, L) /\ moved.own /\ moved.n = k /\ moved.at = a + by
  <2> HIDE DEF by
  <2> QED
    BY <1>2, <1>5, AheadIs DEF moved
<1>7. /\ InPlace(t, o)
      /\ \A i \in 1..L : t.cells[i] = IF i - to \in 1..(z - from) THEN o.cells[i - to + from] ELSE o.cells[i]
  <2>1. InPlace(o, o) /\ from \in 0..o.size /\ o.size <= Len(o.cells) /\ to \in Nat
    BY <1>2, <1>5, InPlaceIs
  <2> HIDE DEF from, to, t, z, L
  <2>2. /\ InPlace(t, o)
        /\ \A i \in 1..Len(o.cells) :
             t.cells[i] = IF i - to \in 1..(o.size - from) THEN o.cells[i - to + from] ELSE o.cells[i]
    BY <2>1, MoveTailIs DEF t
  <2> QED
    BY <2>2 DEF z, L
<1> HIDE DEF z, k, a, L
<1>8. ASSUME NEW i \in 1..k PROVE s[i] = t.cells[(a + by) + i]
  <2> DEFINE j == (a + by) + i
  <2>1. j \in 1..L /\ j - to \in 1..(z - from) /\ j - to + from = a + i
    BY <1>2, <1>3, <1>4, <1>5
  <2> HIDE DEF j, to, from
  <2>2. t.cells[j] = o.cells[a + i]
    BY <2>1, <1>7
  <2>3. s[i] = o.cells[a + i]
    BY <1>1
  <2> QED
    BY <2>2, <2>3 DEF j
<1>9. Finds(t.cells, moved, s)
  <2>1. \A i \in 1..moved.n : s[i] = t.cells[moved.at + i]
    BY <1>6, <1>8
  <2> QED
    BY <2>1, <1>1, <1>6 DEF Finds
<1>10. n = o.size - n1 + Len(s) /\ n <= Cap(o) /\ from = pos + n1 /\ to = pos + Len(s)
  <2>1. n <= Cap(o)
    OBVIOUS
  <2> QED
    BY <2>1, <1>1, <1>4 DEF z
<1> HIDE DEF from, to
<1>11. Leaves(w, n, o, pos, n1, s)
  BY <1>1, <1>5, <1>6, <1>9, <1>10, WrittenLeaves DEF t, L
<1> QED
  BY Zenon, <1>11 DEF w, t, moved, s, k, from, to

\* More come than go, and the tail goes nowhere they are read from.
LEMMA ApartLeaves ==
  ASSUME NEW o, Held(o), NEW pos \in 0..o.size, NEW n1 \in 0..(o.size - pos), NEW src, Source(src, o.size),
         NEW n \in Nat, n = o.size - n1 + src.n, n <= Cap(o), n1 < src.n,
         src.own => src.at <= pos \/ pos + n1 = o.size
  PROVE  LET t == MoveTail(o, pos + n1, pos + src.n)
             w == [t EXCEPT !.cells = Put(t.cells, pos, Read(t.cells, src))]
         IN  Leaves(w, n, o, pos, n1, Read(o.cells, src))
<1> DEFINE s == Read(o.cells, src)
           L == Len(o.cells)
           z == o.size
           k == src.n
           a == src.at
           from == pos + n1
           to == pos + k
           t == MoveTail(o, from, to)
           w == [t EXCEPT !.cells = Put(t.cells, pos, Read(t.cells, src))]
<1>1. s \in Seq(Value) /\ Len(s) = k /\ \A i \in 1..k : s[i] = IF src.own THEN o.cells[a + i] ELSE src.text[i]
  BY SourceIs
<1>2. z \in Nat /\ L \in Nat /\ z <= L /\ z < L /\ Cap(o) = L - 1
  BY HeldIs
<1>3. k \in Nat /\ a \in Nat /\ Source(src, L) /\ (src.own => a + k <= z)
  BY SourceFits
<1>4. /\ pos \in 0..z /\ n1 \in 0..(z - pos) /\ n1 < k /\ n = z - n1 + k /\ n <= L - 1
      /\ (src.own => a <= pos \/ from = z)
  BY <1>2
<1>5. from \in 0..z /\ from \in Nat /\ to \in Nat /\ n1 \in Nat
  <2> HIDE DEF z, k, a, L
  <2> QED
    BY <1>2, <1>3, <1>4
<1> HIDE DEF s, t
<1>7. /\ InPlace(t, o)
      /\ \A i \in 1..L : t.cells[i] = IF i - to \in 1..(z - from) THEN o.cells[i - to + from] ELSE o.cells[i]
  <2>1. InPlace(o, o) /\ from \in 0..o.size /\ o.size <= Len(o.cells) /\ to \in Nat
    BY <1>2, <1>5, InPlaceIs
  <2> HIDE DEF from, to
  <2> QED
    BY <2>1, MoveTailIs DEF t
<1> HIDE DEF z, k, a, L
<1>8. ASSUME NEW i \in 1..k, src.own PROVE s[i] = t.cells[a + i]
  <2> DEFINE j == a + i
  <2>1. a + k <= z /\ (a <= pos \/ from = z)
    BY <1>3, <1>4, <1>8
  <2>2. j \in 1..L /\ ~(j - to \in 1..(z - from))
    <3>1. CASE a <= pos
      BY <2>1, <3>1, <1>2, <1>3, <1>4, <1>5
    <3>2. CASE from = z
      BY <2>1, <3>2, <1>2, <1>3, <1>4, <1>5
    <3> QED
      BY <2>1, <3>1, <3>2
  <2> HIDE DEF j, to, from
  <2>3. t.cells[j] = o.cells[j]
    BY <2>2, <1>7
  <2>4. s[i] = o.cells[a + i]
    BY <1>1, <1>8
  <2> QED
    BY <2>3, <2>4 DEF j
<1>9. Finds(t.cells, src, s)
  BY <1>1, <1>8 DEF Finds, a, k
<1>10. n = o.size - n1 + Len(s) /\ n <= Cap(o) /\ from = pos + n1 /\ to = pos + Len(s)
  <2>1. n <= Cap(o)
    OBVIOUS
  <2> QED
    BY <2>1, <1>1, <1>4 DEF z
<1> HIDE DEF from, to
<1>11. Leaves(w, n, o, pos, n1, s)
  BY <1>1, <1>3, <1>5, <1>9, <1>10, WrittenLeaves DEF t, L
<1> QED
  BY Zenon, <1>11 DEF w, t, s, k, from, to

LEMMA ReplaceInPlaceDoes ==
  ASSUME NEW o, Held(o), ~o.threw, NEW pos \in 0..o.size, NEW n1 \in 0..(o.size - pos),
         NEW src, Source(src, o.size), o.size - n1 + src.n <= Cap(o)
  PROVE  Does(ReplaceInPlace(o, pos, n1, src), o, pos, n1, Read(o.cells, src))
<1> DEFINE s == Read(o.cells, src)
           z == o.size
           k == src.n
           a == src.at
           n == z - n1 + k
           q == ReplaceInPlace(o, pos, n1, src)
           Written(at, u) ==
             [MoveTail(o, pos + n1, pos + k) EXCEPT
                !.cells = Put(MoveTail(o, pos + n1, pos + k).cells, at,
                              Read(MoveTail(o, pos + n1, pos + k).cells, u))]
           First == [o EXCEPT !.cells = Put(o.cells, pos, Read(o.cells, Part(src, 0, n1)))]
           Up == MoveTail(First, pos + n1, pos + k)
           inside == src.own /\ a \in (pos + 1)..(z - 1)
           narrow == MoveTail([o EXCEPT !.cells = Put(o.cells, pos, Read(o.cells, src))], pos + n1, pos + k)
           ahead == Written(pos, Ahead(src, k - n1))
           wide == [Up EXCEPT !.cells = Put(Up.cells, pos + n1, Read(Up.cells, Own(a + k, k - n1)))]
           apart == Written(pos, src)
           done ==
             CASE n1 >= k -> narrow
               [] n1 < k /\ inside /\ pos + n1 <= a -> ahead
               [] n1 < k /\ inside /\ pos + n1 > a /\ pos + n1 < z -> wide
               [] OTHER -> apart
<1>1. s \in Seq(Value) /\ Len(s) = k
  BY SourceIs
<1>2. z \in Nat /\ Cap(o) \in Nat
  BY HeldIs
<1>3. k \in Nat /\ a \in Nat /\ (src.own => a + k <= z) /\ src.own \in BOOLEAN
  BY SourceFits
<1>4. n \in Nat /\ n = o.size - n1 + src.n /\ n <= Cap(o) /\ pos \in 0..z /\ n1 \in 0..(z - pos)
  <2>1. n <= Cap(o) /\ pos \in 0..z /\ n1 \in 0..(z - pos)
    OBVIOUS
  <2> QED
    BY <2>1, <1>2, <1>3
<1>5. q = Terminated(done, n)
  BY DEF ReplaceInPlace
<1> HIDE DEF s, n, q
<1>6. Leaves(done, n, o, pos, n1, s)
  <2>1. CASE n1 >= k
    <3>1. done = narrow
      <4> DEFINE g1 == n1 >= k
                 g2 == n1 < k /\ inside /\ pos + n1 <= a
                 g3 == n1 < k /\ inside /\ pos + n1 > a /\ pos + n1 < z
      <4>1. g1 /\ ~g2 /\ ~g3
        BY <2>1, <1>3, <1>4
      <4>2. done = CASE g1 -> narrow [] g2 -> ahead [] g3 -> wide [] OTHER -> apart
        OBVIOUS
      <4> HIDE DEF g1, g2, g3, done, narrow, ahead, wide, apart
      <4> QED
        BY <4>1, <4>2
    <3> HIDE DEF done
    <3>2. Leaves(narrow, n, o, pos, n1, s)
      BY <2>1, <1>4, NarrowerLeaves DEF s
    <3> QED
      BY Zenon, <3>1, <3>2
  <2>2. CASE n1 < k /\ inside /\ pos + n1 <= a
    <3>1. ~(n1 >= k) /\ ~(n1 < k /\ inside /\ pos + n1 > a /\ pos + n1 < z)
      BY <2>2, <1>3, <1>4
    <3>2. done = ahead
      <4> DEFINE g1 == n1 >= k
                 g2 == n1 < k /\ inside /\ pos + n1 <= a
                 g3 == n1 < k /\ inside /\ pos + n1 > a /\ pos + n1 < z
      <4>1. ~g1 /\ g2 /\ ~g3
        BY <2>2, <3>1
      <4>2. done = CASE g1 -> narrow [] g2 -> ahead [] g3 -> wide [] OTHER -> apart
        OBVIOUS
      <4> HIDE DEF g1, g2, g3, done, narrow, ahead, wide, apart
      <4> QED
        BY <4>1, <4>2
    <3> HIDE DEF done
    <3>3. Leaves(ahead, n, o, pos, n1, s)
      BY <2>2, <1>4, AheadLeaves DEF s
    <3> QED
      BY Zenon, <3>2, <3>3
  <2>3. CASE n1 < k /\ inside /\ pos + n1 > a /\ pos + n1 < z
    <3>1. ~(n1 >= k) /\ ~(n1 < k /\ inside /\ pos + n1 <= a)
      BY <2>3, <1>3, <1>4
    <3>2. done = wide
      BY Zenon, <2>3, <3>1
    <3> HIDE DEF done
    <3>3. Overlaps(src, pos, n1)
      <4>1. pos < a /\ a < pos + n1
        BY <2>3, <1>3, <1>4
      <4> QED
        BY <4>1, <2>3 DEF Overlaps
    <3>4. Leaves(wide, n, o, pos, n1, s)
      BY <3>3, <1>4, WiderLeaves DEF s
    <3> QED
      BY Zenon, <3>2, <3>4
  <2>4. CASE /\ ~(n1 >= k) /\ ~(n1 < k /\ inside /\ pos + n1 <= a)
             /\ ~(n1 < k /\ inside /\ pos + n1 > a /\ pos + n1 < z)
    <3>1. done = apart
      BY Zenon, <2>4
    <3> HIDE DEF done
    <3>2. n1 < k
      BY <2>4, <1>3, <1>4
    <3>3. src.own => a <= pos \/ pos + n1 = z
      <4> SUFFICES ASSUME src.own, ~(a <= pos) PROVE pos + n1 = z
        OBVIOUS
      <4>1. a + k <= z
        BY <1>3
      <4>2. a \in (pos + 1)..(z - 1)
        BY <4>1, <3>2, <1>2, <1>3, <1>4
      <4>3. ~(pos + n1 <= a) /\ ~(pos + n1 > a /\ pos + n1 < z)
        BY <4>2, <3>2, <2>4
      <4>4. pos + n1 > a
        BY <4>3, <1>2, <1>3, <1>4
      <4>5. ~(pos + n1 < z)
        BY <4>3, <4>4
      <4> QED
        BY <4>5, <1>2, <1>4
    <3>4. Leaves(apart, n, o, pos, n1, s)
      BY <3>2, <3>3, <1>4, ApartLeaves DEF s
    <3> QED
      BY Zenon, <3>1, <3>4
  <2> QED
    BY Zenon, <2>1, <2>2, <2>3, <2>4
<1> HIDE DEF done, z, k
<1>7. Does(Terminated(done, n), o, pos, n1, s)
  BY <1>1, <1>4, <1>6, TerminatedIs DEF z
<1> QED
  BY Zenon, <1>5, <1>7 DEF q, s

LEMMA ReplaceDoes ==
  ASSUME StringAssumption, NEW o, Held(o), ~o.threw, NEW pos \in Nat, NEW del \in Nat,
         NEW src, Source(src, o.size)
  PROVE  LET n1 == Lesser(del, o.size - pos)
         IN  /\ pos <= o.size => Does(Replace(o, pos, del, src), o, pos, n1, Read(o.cells, src))
             /\ pos > o.size => Replace(o, pos, del, src) = Throw(o)
<1> DEFINE z == o.size
           n1 == Lesser(del, z - pos)
           s == Read(o.cells, src)
           c == Cap(o)
           k == src.n
           q == Replace(o, pos, del, src)
           delta == z - n1 + k - c
<1>1. z \in Nat /\ c \in Nat /\ z <= c
  BY HeldIs
<1>2. k \in Nat
  BY SourceFits
<1>3. s \in Seq(Value) /\ Len(s) = k
  BY SourceIs
<1>4. pos > z => q = Throw(o)
  <2> SUFFICES ASSUME pos > z PROVE q = Throw(o)
    OBVIOUS
  <2>1. ~(pos <= z)
    BY <1>1
  <2> QED
    BY Zenon, <2>1 DEF Replace
<1>5. ASSUME pos <= z PROVE Does(q, o, pos, n1, s)
  <2>1. pos \in 0..z /\ z - pos \in Nat /\ ~(pos > z)
    BY <1>1, <1>5
  <2>2. n1 \in 0..(z - pos)
    BY <2>1, LesserIs
  <2>3. CASE c - z + n1 < k
    <3>1. q = GrowBy(o, delta, pos, n1, s)
      BY Zenon, <2>1, <2>3, <1>5 DEF Replace
    <3> HIDE DEF n1, s, q, k, c
    <3>2. delta \in Nat /\ z - n1 + k <= c + delta
      BY <2>1, <2>2, <2>3, <1>1, <1>2
    <3>3. z - n1 + Len(s) <= c + delta
      BY <3>2, <1>3
    <3> HIDE DEF delta
    <3> QED
      BY <2>1, <2>2, <3>1, <3>2, <3>3, <1>3, GrowByIs DEF c
  <2>4. CASE ~(c - z + n1 < k)
    <3>1. q = ReplaceInPlace(o, pos, n1, src)
      BY Zenon, <2>1, <2>4, <1>5 DEF Replace
    <3> HIDE DEF n1, q
    <3>2. z - n1 + k <= c
      <4> HIDE DEF k, c, z
      <4> QED
        BY <2>1, <2>2, <2>4, <1>1, <1>2
    <3> QED
      BY <2>1, <2>2, <3>1, <3>2, ReplaceInPlaceDoes DEF s
  <2> QED
    BY <2>3, <2>4
<1> QED
  BY <1>4, <1>5

-----------------------------------------------------------------------------
(* Operations that replace all the characters, or take some away.           *)

\* The characters written over the others.
LEMMA TerminatedHas ==
  ASSUME NEW o, Held(o), ~o.threw, NEW r, InPlace(r, o), NEW s \in Seq(Value), NEW n \in Nat, n = Len(s),
         n <= Cap(o), \A i \in 1..n : r.cells[i] = s[i]
  PROVE  LET q == Terminated(r, n)
         IN  Held(q) /\ ~q.threw /\ Has(q, s)
<1> DEFINE q == Terminated(r, n)
           zero == 0
           z == o.size
<1>1. z \in Nat /\ zero \in 0..z /\ z \in 0..(z - zero) /\ z - z + n = n
  BY HeldIs
<1>2. \A i \in 1..n : ~(i <= zero) /\ i <= zero + n /\ i - zero = i
  OBVIOUS
<1> HIDE DEF zero
<1>3. Shows(r.cells, n, o, zero, z, s)
  BY <1>2 DEF Shows
<1>4. n = o.size - z + Len(s) /\ n <= Cap(o)
  BY <1>1
<1>5. Leaves(r, n, o, zero, z, s)
  BY Zenon, <1>3, <1>4 DEF Leaves
<1> HIDE DEF q
<1>6. Does(q, o, zero, z, s)
  BY <1>1, <1>5, TerminatedIs DEF q
<1>7. ~q.threw
  <2> DEFINE c == Put(r.cells, n, <<Gone>>)
  <2>1. q = [r EXCEPT !.cells = c, !.size = n]
    BY DEF q, Terminated
  <2> HIDE DEF c
  <2>2. r \in Progress /\ r.threw = o.threw
    BY DEF InPlace
  <2> QED
    BY <2>1, <2>2 DEF Progress
<1>8. Held(q) /\ Spliced(q, o, zero, z, s)
  BY <1>6, <1>7 DEF Does
<1>9. q.size = n /\ Shows(q.cells, q.size, o, zero, z, s)
  BY <1>1, <1>8 DEF Spliced
<1>10. \A i \in 1..n : q.cells[i] = s[i]
  BY <1>2, <1>9 DEF Shows
<1>11. Has(q, s)
  BY <1>9, <1>10 DEF Has
<1> QED
  BY Zenon, <1>7, <1>8, <1>11 DEF q

LEMMA AssignDoes ==
  ASSUME StringAssumption, NEW o, Held(o), ~o.threw, NEW src, Source(src, o.size)
  PROVE  Does(AssignChars(o, src), o, 0, o.size, Read(o.cells, src))
<1> DEFINE s == Read(o.cells, src)
           z == o.size
           c == Cap(o)
           k == src.n
           zero == 0
           q == AssignChars(o, src)
<1>1. s \in Seq(Value) /\ Len(s) = k
      /\ \A i \in 1..k : s[i] = IF src.own THEN o.cells[src.at + i] ELSE src.text[i]
  BY SourceIs
<1>2. z \in Nat /\ c \in Nat /\ z <= c /\ c = Len(o.cells) - 1 /\ Len(o.cells) \in Nat
  BY HeldIs
<1>3. Source(src, Len(o.cells)) /\ k \in Nat
  BY SourceFits
<1>4. zero \in 0..z /\ z \in 0..(z - zero) /\ z - z + k = k /\ zero \in Nat
  BY <1>2, <1>3
<1>5. CASE c >= k
  <2> DEFINE w == [o EXCEPT !.cells = Put(o.cells, zero, Read(o.cells, src))]
  <2>1. q = Terminated(w, k)
    BY <1>5 DEF AssignChars
  <2> HIDE DEF s
  <2>2. Finds(o.cells, src, s) /\ InPlace(o, o)
    BY <1>1, InPlaceIs DEF Finds
  <2>3. Writes(w, o, o, zero, s)
    BY <2>2, <1>1, <1>3, <1>4, WriteSourceIs
  <2>6. \A i \in 1..k : i \in 1..Len(o.cells) /\ i - zero \in 1..k /\ i - zero = i
    BY <1>2, <1>3, <1>5
  <2> HIDE DEF w, zero, q
  <2>4. InPlace(w, o) /\ \A i \in 1..k : w.cells[i] = s[i]
    BY <2>3, <2>6, <1>1 DEF Writes
  <2>5. k <= Cap(o)
    BY <1>2, <1>3, <1>5
  <2>7. Held(q) /\ ~q.threw /\ Has(q, s)
    BY <2>1, <2>4, <2>5, <1>1, <1>3, TerminatedHas
  <2>8. Becomes(q, o, s)
    BY <2>7 DEF Becomes
  <2>9. Does(q, o, 0, o.size, s)
    BY <2>8, <1>1, HasDoes
  <2> QED
    BY <2>9 DEF s, q
<1>6. CASE ~(c >= k)
  <2> DEFINE delta == k - c
  <2>1. q = GrowBy(o, delta, zero, z, s)
    BY Zenon, <1>6 DEF AssignChars
  <2>2. delta \in Nat /\ z - z + k <= c + delta
    BY <1>2, <1>3, <1>6
  <2> HIDE DEF delta, zero, s, q
  <2>3. Does(q, o, zero, z, s)
    BY <2>1, <2>2, <1>1, <1>4, GrowByIs
  <2> QED
    BY Zenon, <2>3 DEF zero, s, q
<1> QED
  BY <1>5, <1>6

LEMMA EraseDoes ==
  ASSUME NEW o, Held(o), ~o.threw, NEW pos \in Nat, NEW del \in Nat
  PROVE  LET n == Lesser(del, o.size - pos)
         IN  /\ pos <= o.size => Does(EraseChars(o, pos, del), o, pos, n, <<>>)
             /\ pos > o.size => EraseChars(o, pos, del) = Throw(o)
<1> DEFINE z == o.size
           n == Lesser(del, z - pos)
           L == Len(o.cells)
           none == <<>>
           q == EraseChars(o, pos, del)
<1>1. z \in Nat /\ L \in Nat /\ z < L /\ Cap(o) = L - 1 /\ z <= L
  BY HeldIs
<1>2. pos > z => q = Throw(o)
  BY Zenon DEF EraseChars
<1>3. ASSUME pos <= z PROVE Does(q, o, pos, n, none)
  <2> DEFINE from == pos + n
             w == MoveTail(o, from, pos)
             m == z - n
  <2>1. pos \in 0..z /\ z - pos \in Nat /\ ~(pos > z)
    BY <1>1, <1>3
  <2>2. n \in 0..(z - pos)
    BY <2>1, LesserIs
  <2>3. q = Terminated(w, m)
    BY Zenon, <2>1, <1>3 DEF EraseChars
  <2>4. none \in Seq(Value) /\ Len(none) = 0
    OBVIOUS
  <2> HIDE DEF n, q, w, none
  <2>5. from \in 0..z /\ m \in Nat /\ m <= L - 1
    BY <2>1, <2>2, <1>1
  <2>6. /\ InPlace(w, o)
        /\ \A i \in 1..L : w.cells[i] = IF i - pos \in 1..(z - from) THEN o.cells[i - pos + from] ELSE o.cells[i]
    <3> HIDE DEF from
    <3> QED
      BY <2>5, <1>1, InPlaceIs, MoveTailIs DEF w
  <2> HIDE DEF z, L
  <2>7. ASSUME NEW i \in 1..m PROVE w.cells[i] = IF i <= pos THEN o.cells[i] ELSE o.cells[i + n]
    <3>1. i \in 1..L
      BY <2>5, <1>1
    <3>2. i <= pos => i - pos \notin 1..(z - from)
      BY <2>1, <2>2, <2>5, <1>1
    <3>3. ~(i <= pos) => i - pos \in 1..(z - from) /\ i - pos + from = i + n
      BY <2>1, <2>2, <2>5, <1>1
    <3> QED
      BY <3>1, <3>2, <3>3, <2>6
  <2>8. Shows(w.cells, m, o, pos, n, none)
    <3>1. \A i \in 1..m : (i <= pos + 0 <=> i <= pos) /\ i - 0 + n = i + n
      BY <2>1, <2>2, <2>5
    <3> QED
      BY <3>1, <2>4, <2>7 DEF Shows
  <2>9. m = o.size - n + Len(none) /\ m <= Cap(o)
    BY <2>1, <2>2, <2>4, <2>5, <1>1 DEF z
  <2>10. Leaves(w, m, o, pos, n, none)
    BY Zenon, <2>6, <2>8, <2>9 DEF Leaves
  <2> QED
    BY <2>1, <2>2, <2>3, <2>4, <2>5, <2>10, TerminatedIs DEF z
<1> QED
  BY <1>2, <1>3

LEMMA FreshIs ==
  ASSUME NEW s \in Seq(Value), NEW n \in Nat
  PROVE  Source(Fresh(s), n) /\ Fresh(s).n = Len(s) /\ \A c : Read(c, Fresh(s)) = s
<1> DEFINE src == Fresh(s)
           none == 0
           k == Len(s)
           no == FALSE
<1>1. k \in Nat /\ none \in Nat /\ no \in BOOLEAN /\ ~no
  BY SeqIs
<1>2. src = [own |-> no, at |-> none, n |-> k, text |-> s]
  BY Zenon DEF Fresh
<1>3. k = Len(s)
  OBVIOUS
<1> HIDE DEF src, none, k, no
<1>4. src \in [own : BOOLEAN, at : Nat, n : Nat, text : Seq(Value)] /\ src.own = no /\ src.n = k /\ src.text = s
  BY <1>1, <1>2
<1>5. Source(src, n)
  BY Zenon, <1>1, <1>3, <1>4 DEF Source
<1>6. \A c : Read(c, src) = s
  BY Zenon, <1>1, <1>4 DEF Read
<1> QED
  BY Zenon, <1>3, <1>4, <1>5, <1>6 DEF src

LEMMA ResizeDoes ==
  ASSUME StringAssumption, NEW o, Held(o), ~o.threw, NEW n \in Nat, NEW x \in Value
  PROVE  LET m == Lesser(n, o.size)
         IN  Does(ResizeLength(o, n, x), o, m, o.size - m, Times(Greater(0, n - o.size), x))
<1> DEFINE z == o.size
           m == Lesser(n, z)
           t == Times(Greater(0, n - z), x)
           q == ResizeLength(o, n, x)
<1>1. z \in Nat /\ Cap(o) \in Nat /\ z <= Cap(o)
  BY HeldIs
<1>2. CASE n > z
  <2> DEFINE u == Times(n - z, x)
             src == Fresh(u)
             zero == 0
  <2>1. n - z \in Nat /\ m = z /\ Greater(0, n - z) = n - z /\ z - z = zero
    BY <1>1, <1>2 DEF Lesser, Greater
  <2>2. t = u /\ z - m = zero
    BY <2>1
  <2>3. u \in Seq(Value)
    BY <2>1, TimesIs
  <2>4. q = Appended(o, src)
    BY Zenon, <1>2 DEF ResizeLength
  <2> HIDE DEF u, src, t, m, q, zero
  <2>5. Source(src, o.size) /\ Read(o.cells, src) = u
    BY <2>3, <1>1, FreshIs DEF src
  <2>6. Does(q, o, z, 0, u)
    BY <2>4, <2>5, AppendedDoes
  <2>7. Does(q, o, m, z - m, t)
    BY Zenon, <2>1, <2>2, <2>6 DEF zero
  <2> QED
    BY <2>7 DEF q, m, t
<1>3. CASE ~(n > z)
  <2> DEFINE none == <<>>
             zero == 0
  <2>1. m = n /\ Greater(0, n - z) = 0 /\ n \in 0..z /\ z - n \in 0..(z - n) /\ z - (z - n) = n /\ n <= Cap(o)
    BY <1>1, <1>3 DEF Lesser, Greater
  <2>2. t = none
    BY <2>1 DEF Times
  <2>3. none \in Seq(Value) /\ Len(none) = zero
    OBVIOUS
  <2>4. q = Terminated(o, n)
    BY Zenon, <1>3 DEF ResizeLength
  <2> HIDE DEF q, t, m, none
  <2>5. Shows(o.cells, n, o, n, z - n, none)
    <3>1. \A i \in 1..n : i <= n
      OBVIOUS
    <3> QED
      BY <3>1 DEF Shows
  <2>6. n = o.size - (z - n) + Len(none)
    BY <2>1, <2>3, <1>1
  <2>7. Leaves(o, n, o, n, z - n, none)
    BY Zenon, <2>1, <2>5, <2>6, InPlaceIs DEF Leaves
  <2> DEFINE k == z - n
  <2>8. k \in 0..(o.size - n) /\ n \in 0..o.size
    BY <2>1
  <2>9. Leaves(o, n, o, n, k, none)
    BY <2>7
  <2> HIDE DEF k
  <2>10. Does(q, o, n, k, none)
    BY <2>3, <2>4, <2>8, <2>9, TerminatedIs
  <2>11. Does(q, o, m, z - m, t)
    BY Zenon, <2>1, <2>2, <2>10 DEF k
  <2> QED
    BY <2>11 DEF q, m, t
<1> QED
  BY <1>2, <1>3

-----------------------------------------------------------------------------
(* Operations that keep the characters.                                     *)

LEMMA KeptDoes ==
  ASSUME NEW o, Held(o), NEW q, Becomes(q, o, Text(o))
  PROVE  Does(q, o, o.size, 0, <<>>)
<1> DEFINE t == Text(o)
           z == o.size
           none == <<>>
           zero == 0
<1>1. t \in Seq(Value) /\ Len(t) = z /\ \A i \in 1..z : t[i] = o.cells[i]
  BY TextIs
<1>2. z \in Nat /\ Len(none) = zero /\ z - zero + zero = z
  BY HeldIs
<1> HIDE DEF t, none
<1>3. ~q.threw => q.size = z /\ \A i \in 1..z : q.cells[i] = o.cells[i]
  BY <1>1 DEF Becomes, Has, t
<1>4. \A i \in 1..z : i <= z
  BY <1>2
<1>5. ~q.threw => Spliced(q, o, z, zero, none)
  BY <1>2, <1>3, <1>4 DEF Spliced, Shows
<1>6. Does(q, o, z, zero, none)
  BY <1>5 DEF Becomes, Does
<1> QED
  BY <1>6 DEF none

LEMMA Unchanged ==
  ASSUME NEW o, Held(o)
  PROVE  Becomes(o, o, Text(o))
<1>1. Has(o, Text(o))
  BY TextIs DEF Has
<1>2. Same(o, o)
  BY DEF Same
<1> QED
  BY <1>1, <1>2 DEF Becomes

LEMMA ReserveDoes ==
  ASSUME StringAssumption, NEW o, Held(o), ~o.threw, NEW n \in Nat
  PROVE  Does(ReserveLength(o, n), o, o.size, 0, <<>>)
<1> DEFINE q == ReserveLength(o, n)
<1>1. MaxLength \in Nat /\ Cap(o) \in Nat /\ o.size \in Nat /\ o.size <= Cap(o)
  BY HeldIs DEF StringAssumption
<1>2. Text(o) \in Seq(Value) /\ Len(Text(o)) = o.size
  BY TextIs
<1>3. CASE n > MaxLength
  <2>1. ~(n <= MaxLength /\ n <= Cap(o))
    BY <1>1, <1>3
  <2>2. q = Throw(o)
    BY Zenon, <2>1, <1>3 DEF ReserveLength
  <2> QED
    BY <2>2, ThrowDoes
<1>4. CASE ~(n > MaxLength) /\ n <= Cap(o)
  <2>1. n <= MaxLength
    BY <1>1, <1>4
  <2>2. q = o
    BY Zenon, <2>1, <1>4 DEF ReserveLength
  <2> QED
    BY Zenon, <2>2, Unchanged, KeptDoes
<1>5. CASE ~(n > MaxLength) /\ ~(n <= Cap(o))
  <2>1. q = InNewBuffer(o, n, Text(o))
    BY Zenon, <1>5 DEF ReserveLength
  <2>2. Len(Text(o)) <= n
    BY <1>1, <1>2, <1>5
  <2> HIDE DEF q
  <2>3. Becomes(q, o, Text(o))
    BY <2>1, <2>2, <1>2, InNewBufferIs
  <2> QED
    BY <2>3, KeptDoes DEF q
<1> QED
  BY <1>3, <1>4, <1>5

LEMMA ShrunkDoes ==
  ASSUME StringAssumption, NEW o, Held(o), ~o.threw
  PROVE  Does(Shrunk(o), o, o.size, 0, <<>>)
<1> DEFINE q == Shrunk(o)
           t == Text(o)
           z == o.size
           g == RecommendLength(z)
           new == InNewBuffer(o, z, t)
           short == With(o, Rep(FALSE, MinCap, t))
<1>1. z \in Nat /\ Cap(o) \in Nat /\ g \in Nat /\ g >= z /\ MinCap \in Nat
  BY HeldIs, RecommendIs DEF StringAssumption
<1>2. t \in Seq(Value) /\ Len(t) = z
  BY TextIs
<1>3. q = CASE g = Cap(o) -> o
            [] g # Cap(o) /\ g < MinCap -> short
            [] OTHER -> IF new.threw \/ Cap(new) >= Cap(o) THEN o ELSE new
  BY Zenon DEF Shrunk
<1>4. z < MinCap => Becomes(short, o, t)
  <2> SUFFICES ASSUME z < MinCap PROVE Becomes(short, o, t)
    OBVIOUS
  <2> DEFINE l == FALSE
             w == With(o, Rep(l, MinCap, t))
  <2>1. l \in BOOLEAN /\ (IF l THEN MinCap >= MinCap ELSE MinCap = MinCap) /\ Len(t) < MinCap
    BY <1>1, <1>2
  <2>2. short = w
    OBVIOUS
  <2> HIDE DEF l, t
  <2>3. Held(w) /\ Has(w, t) /\ w.threw = o.threw
    BY <2>1, <1>1, <1>2, WithRepIs
  <2> HIDE DEF w, short
  <2> QED
    BY <2>2, <2>3 DEF Becomes
<1>5. Becomes(new, o, t)
  <2> HIDE DEF t, z
  <2>1. Len(t) <= z
    BY <1>1, <1>2
  <2> QED
    BY <2>1, <1>1, <1>2, InNewBufferIs
<1>6. Becomes(o, o, t)
  BY Unchanged
<1> HIDE DEF q, g, new, short, t
<1>7. q \in {o, short, new} /\ (q = short => q \in {o, new} \/ g < MinCap)
  BY <1>3
<1>8. Becomes(q, o, t)
  <2>1. g < MinCap => z < MinCap
    BY <1>1
  <2>2. CASE q \in {o, new}
    BY <2>2, <1>5, <1>6
  <2>3. CASE ~(q \in {o, new})
    <3>1. q = short /\ g < MinCap
      BY <2>3, <1>7
    <3> QED
      BY Zenon, <2>1, <3>1, <1>4
  <2> QED
    BY <2>2, <2>3
<1> QED
  BY <1>8, KeptDoes DEF q, t

-----------------------------------------------------------------------------
(* Other strings.                                                           *)

\* s, in the object or in a buffer.
Other(other, s) ==
  /\ s \in Seq(Value)
  /\ \E l \in BOOLEAN, n \in Nat :
       Len(s) < n /\ (IF l THEN n >= MinCap ELSE n = MinCap) /\ other = Rep(l, n, s)

LEMMA OtherIs ==
  ASSUME NEW other, NEW s, Other(other, s)
  PROVE  /\ other.size = Len(s) /\ Text(other) = s
         /\ \A i \in 1..Len(s) : other.cells[i] = s[i]
<1>1. PICK l \in BOOLEAN, n \in Nat : Len(s) < n /\ other = Rep(l, n, s)
  BY DEF Other
<1>2. s \in Seq(Value) /\ Len(s) \in Nat /\ \A i \in 1..Len(s) : s[i] \in Value
  BY SeqIs DEF Other
<1>3. other = [long |-> l, cells |-> other.cells, size |-> Len(s)] /\ Buffer(other.cells, n, s)
  BY <1>1, <1>2, RepIs
<1>4. other.size = Len(s)
  BY <1>3
<1>5. \A i \in 1..Len(s) : other.cells[i] = s[i]
  BY <1>3 DEF Buffer
<1>6. Text(other) = s
  <2> DEFINE k == Len(s)
             t == Text(other)
  <2>1. t = SubSeq(other.cells, 1, k)
    BY <1>4 DEF Text
  <2>2. \A i \in 1..k : other.cells[i] \in Value
    BY <1>2, <1>5
  <2> HIDE DEF k, t
  <2>3. t \in Seq(Value) /\ Len(t) = k /\ \A i \in 1..k : t[i] = other.cells[i]
    BY <2>1, <2>2, <1>2, FirstIs DEF k
  <2>4. \A i \in 1..Len(t) : t[i] = s[i]
    BY <2>3, <1>5 DEF k
  <2>5. t = s
    BY <2>3, <2>4, <1>2, SeqEqual DEF k
  <2> QED
    BY <2>5 DEF t
<1> QED
  BY <1>4, <1>5, <1>6

LEMMA WithOtherIs ==
  ASSUME NEW o, Held(o), NEW other, NEW s, Other(other, s)
  PROVE  LET q == With(o, other)
         IN  Held(q) /\ Has(q, s) /\ q.threw = o.threw
<1>1. PICK l \in BOOLEAN, n \in Nat :
        Len(s) < n /\ (IF l THEN n >= MinCap ELSE n = MinCap) /\ other = Rep(l, n, s)
  BY DEF Other
<1>2. s \in Seq(Value)
  BY DEF Other
<1> QED
  BY <1>1, <1>2, WithRepIs

LEMMA WithOtherDoes ==
  ASSUME NEW o, Held(o), ~o.threw, NEW other, NEW s, Other(other, s)
  PROVE  Does(With(o, other), o, 0, o.size, s)
<1> DEFINE q == With(o, other)
<1>1. Held(q) /\ Has(q, s) /\ q.threw = o.threw
  BY WithOtherIs
<1> HIDE DEF q
<1>2. Becomes(q, o, s) /\ s \in Seq(Value)
  BY <1>1 DEF Becomes, Other
<1> QED
  BY <1>2, HasDoes DEF q

LEMMA AssignCopyDoes ==
  ASSUME StringAssumption, NEW o, Held(o), ~o.threw, NEW other, NEW s, Other(other, s)
  PROVE  Does(AssignCopy(o, other), o, 0, o.size, s)
<1> DEFINE z == o.size
           c == Cap(o)
           k == Len(s)
           zero == 0
           delta == k - c
           w == [o EXCEPT !.cells = Put(o.cells, zero, s)]
           copy == With(o, other)
           grown == GrowBy(o, delta, zero, z, s)
           put == Terminated(w, k)
           q == AssignCopy(o, other)
<1>1. s \in Seq(Value) /\ k \in Nat /\ s \in Seq(Cell)
  BY SeqIs, CharactersAreCells DEF Other
<1>2. z \in Nat /\ c \in Nat /\ z <= c /\ c = Len(o.cells) - 1 /\ Len(o.cells) \in Nat
  BY HeldIs
<1>3. Text(other) = s /\ other.size = k
  BY OtherIs
<1>4. q = CASE ~o.long /\ ~other.long -> copy
            [] (o.long \/ other.long) /\ k > c -> grown
            [] OTHER -> put
  BY Zenon, <1>3 DEF AssignCopy
<1>5. zero \in 0..z /\ z \in 0..(z - zero) /\ z - z + k = k /\ zero \in Int
  BY <1>1, <1>2
<1>6. q = copy \/ (q = grown /\ k > c) \/ (q = put /\ ~(k > c))
  <2> HIDE DEF q, copy, grown, put, k, c
  <2>1. CASE ~o.long /\ ~other.long
    <3>1. ~((o.long \/ other.long) /\ k > c)
      BY <2>1
    <3> QED
      BY Zenon, <2>1, <3>1, <1>4
  <2>2. CASE ~(~o.long /\ ~other.long) /\ k > c
    <3>1. (o.long \/ other.long) /\ k > c
      BY <2>2
    <3> QED
      BY Zenon, <2>2, <3>1, <1>4
  <2>3. CASE ~(~o.long /\ ~other.long) /\ ~(k > c)
    BY Zenon, <2>3, <1>4
  <2> QED
    BY <2>1, <2>2, <2>3
<1>7. CASE q = copy
  BY <1>7, WithOtherDoes
<1>8. CASE q = grown /\ k > c
  <2>4. k > c /\ k \in Nat /\ c \in Nat /\ z \in Nat
    BY <1>1, <1>2, <1>8
  <2>1. delta \in Nat /\ z - z + k <= c + delta
    <3> HIDE DEF k, c, z
    <3> QED
      BY <2>4
  <2> HIDE DEF delta, zero, q
  <2>2. Does(grown, o, zero, z, s)
    BY <2>1, <1>1, <1>5, GrowByIs
  <2>3. q = grown
    BY <1>8
  <2> QED
    BY Zenon, <2>2, <2>3 DEF zero, q
<1>9. CASE q = put /\ ~(k > c)
  <2> HIDE DEF zero, q
  <2>1. InPlace(o, o) /\ zero \in Int /\ s \in Seq(Cell)
    BY <1>1, <1>5, InPlaceIs
  <2>2. /\ InPlace(w, o)
        /\ \A i \in 1..Len(o.cells) : w.cells[i] = IF i - zero \in 1..Len(s) THEN s[i - zero] ELSE o.cells[i]
    BY <2>1, WriteIs
  <2>3. \A i \in 1..k : i \in 1..Len(o.cells) /\ i - zero \in 1..k /\ i - zero = i
    BY <1>1, <1>2, <1>9 DEF zero
  <2> HIDE DEF w
  <2>4. \A i \in 1..k : w.cells[i] = s[i]
    BY <2>2, <2>3
  <2>5. k <= Cap(o)
    BY <1>1, <1>2, <1>9
  <2>6. q = put
    BY <1>9
  <2>7. Held(q) /\ ~q.threw /\ Has(q, s)
    BY <2>2, <2>4, <2>5, <2>6, <1>1, TerminatedHas
  <2>8. Becomes(q, o, s)
    BY <2>7 DEF Becomes
  <2>9. Does(q, o, 0, o.size, s)
    BY <2>8, <1>1, HasDoes
  <2> QED
    BY <2>9 DEF q
<1> QED
  BY <1>6, <1>7, <1>8, <1>9

LEMMA ConstructedIs ==
  ASSUME StringAssumption, NEW o, Held(o), ~o.threw, NEW s \in Seq(Value)
  PROVE  Becomes(ConstructedText(o, s), o, s)
<1> DEFINE k == Len(s)
           q == ConstructedText(o, s)
           l == FALSE
           short == With(o, Rep(l, MinCap, s))
<1>1. k \in Nat /\ MinCap \in Nat /\ MaxLength \in Nat
  BY SeqIs DEF StringAssumption
<1>2. CASE k > MaxLength
  <2>1. ~(k <= MaxLength /\ k < MinCap)
    BY <1>1, <1>2
  <2>2. q = Throw(o)
    BY Zenon, <2>1, <1>2 DEF ConstructedText
  <2> QED
    BY <2>2, ThrowIs DEF Becomes
<1>3. CASE ~(k > MaxLength) /\ k < MinCap
  <2>1. k <= MaxLength
    BY <1>1, <1>3
  <2>2. q = short
    BY Zenon, <2>1, <1>3 DEF ConstructedText
  <2>3. l \in BOOLEAN /\ (IF l THEN MinCap >= MinCap ELSE MinCap = MinCap) /\ Len(s) < MinCap
    BY <1>1, <1>3
  <2> HIDE DEF l
  <2>4. Held(short) /\ Has(short, s) /\ short.threw = o.threw
    BY <2>3, <1>1, WithRepIs
  <2> HIDE DEF q, short
  <2>5. Becomes(q, o, s)
    BY <2>2, <2>4 DEF Becomes
  <2> QED
    BY <2>5 DEF q
<1>4. CASE ~(k > MaxLength) /\ ~(k < MinCap)
  <2>1. q = InNewBuffer(o, k, s)
    BY Zenon, <1>4 DEF ConstructedText
  <2>2. Len(s) <= k
    BY <1>1
  <2> HIDE DEF q
  <2>3. Becomes(q, o, s)
    BY <2>1, <2>2, <1>1, InNewBufferIs
  <2> QED
    BY <2>3 DEF q
<1> QED
  BY <1>2, <1>3, <1>4

LEMMA ConstructedDoes ==
  ASSUME StringAssumption, NEW o, Held(o), ~o.threw, NEW s \in Seq(Value)
  PROVE  Does(ConstructedText(o, s), o, 0, o.size, s)
BY ConstructedIs, HasDoes

\* A string constructed from the characters and others after or before them.
LEMMA ConcatenatedDoes ==
  ASSUME StringAssumption, NEW o, Held(o), ~o.threw, NEW s \in Seq(Value)
  PROVE  /\ Does(ConstructedText(o, Text(o) \o s), o, o.size, 0, s)
         /\ Does(ConstructedText(o, s \o Text(o)), o, 0, 0, s)
<1> DEFINE z == o.size
           zero == 0
           t == Text(o)
           none == <<>>
<1>1. z \in Nat /\ zero \in 0..z /\ z \in 0..z /\ zero \in 0..(z - zero) /\ zero \in 0..(z - z)
      /\ z + zero + 1 = z + 1 /\ zero + zero + 1 = 1
  BY HeldIs
<1>2. t \in Seq(Value) /\ t = SubSeq(o.cells, 1, z)
  BY TextIs DEF Text
<1>3. SubSeq(o.cells, z + 1, z) = none /\ SubSeq(o.cells, 1, zero) = none
  BY <1>1
<1> HIDE DEF zero, t, z
<1>4. t \o s \o none = t \o s /\ none \o s = s /\ t \o s \in Seq(Value) /\ s \o t \in Seq(Value)
  BY <1>2
<1>5. Joined(o, z, zero, s) = t \o s
  BY <1>1, <1>2, <1>3, <1>4 DEF Joined, z
<1>6. Joined(o, zero, zero, s) = s \o t
  BY <1>1, <1>2, <1>3, <1>4 DEF Joined, z
<1>7. Becomes(ConstructedText(o, t \o s), o, t \o s) /\ Becomes(ConstructedText(o, s \o t), o, s \o t)
  BY <1>4, ConstructedIs
<1>8. Does(ConstructedText(o, t \o s), o, z, zero, s)
  BY <1>1, <1>5, <1>7, JoinedDoes DEF z
<1>9. Does(ConstructedText(o, s \o t), o, zero, zero, s)
  BY <1>1, <1>6, <1>7, JoinedDoes DEF z
<1> QED
  BY <1>8, <1>9 DEF zero, t, z

\* The rest of another string, in its buffer.
LEMMA PilferedDoes ==
  ASSUME NEW o, Held(o), ~o.threw, NEW other, NEW s, Other(other, s), NEW pos \in Nat, NEW n \in Nat
  PROVE  LET t == SubSeq(s, pos + 1, Lesser(pos + n, Len(s)))
         IN  t \in Seq(Value) /\ Does(Pilfered(o, other, pos, n), o, 0, o.size, t)
<1> DEFINE k == Len(s)
           to == Lesser(pos + n, k)
           t == SubSeq(s, pos + 1, to)
           len == Lesser(n, k - pos)
           q == Pilfered(o, other, pos, n)
           r == With(o, other)
<1>1. s \in Seq(Value) /\ k \in Nat /\ \A i \in 1..k : s[i] \in Value
  BY SeqIs DEF Other
<1>2. other.size = k
  BY OtherIs
<1>3. CASE pos > k
  <2>1. to < pos + 1 /\ to \in Int /\ pos + 1 \in Int
    BY <1>1, <1>3 DEF Lesser
  <2> DEFINE none == <<>>
  <2>2. t = none
    <3> HIDE DEF to
    <3> QED
      BY <2>1
  <2>3. q = Throw(o)
    BY Zenon, <1>2, <1>3 DEF Pilfered
  <2>4. t \in Seq(Value)
    <3>1. none \in Seq(Value)
      OBVIOUS
    <3> QED
      BY Zenon, <2>2, <3>1
  <2> HIDE DEF t
  <2> QED
    BY <2>3, <2>4, ThrowDoes DEF t
<1>4. CASE ~(pos > k)
  <2>1. to = pos + len /\ len \in Nat /\ pos <= to /\ to <= k /\ to - pos = len /\ to \in Nat
    BY <1>1, <1>4 DEF Lesser
  <2> DEFINE c == SubSeq(r.cells, pos + 1, pos + len)
             zero == 0
             w == [r EXCEPT !.cells = Put(r.cells, zero, c)]
  <2>2. q = Terminated(w, len)
    BY Zenon, <1>2, <1>4 DEF Pilfered
  <2>3. Held(r) /\ Has(r, s) /\ ~r.threw
    BY WithOtherIs
  <2> HIDE DEF k, to, t, len, q, r
  <2>4. r.size = k /\ \A i \in 1..k : r.cells[i] = s[i]
    BY <2>3 DEF Has, k
  <2>5. \A i \in (pos + 1)..to : i \in 1..k
    BY <2>1, <1>1
  <2>6. t \in Seq(Value) /\ Len(t) = len /\ \A i \in 1..len : t[i] = s[pos + i]
    BY <2>1, <2>5, <1>1, PartIs DEF t
  <2>7. c \in Seq(Value) /\ Len(c) = len /\ \A i \in 1..len : c[i] = r.cells[pos + i]
    <3>1. \A i \in (pos + 1)..to : r.cells[i] \in Value
      BY <2>4, <2>5, <1>1
    <3>2. SubSeq(r.cells, pos + 1, to) \in Seq(Value) /\ Len(SubSeq(r.cells, pos + 1, to)) = to - pos
          /\ \A i \in 1..(to - pos) : SubSeq(r.cells, pos + 1, to)[i] = r.cells[pos + i]
      BY <2>1, <3>1, PartIs
    <3> QED
      BY <2>1, <3>2
  <2>8. \A i \in 1..len : c[i] = t[i]
    <3>1. \A i \in 1..len : pos + i \in 1..k
      BY <2>1, <1>1
    <3> QED
      BY <3>1, <2>4, <2>6, <2>7
  <2>9. c \in Seq(Cell) /\ zero \in Int
    <3>1. zero \in Int
      OBVIOUS
    <3> HIDE DEF c
    <3> QED
      BY <2>7, <3>1, CharactersAreCells
  <2>14. \A i \in 1..len : i - zero = i
    BY <2>1
  <2> HIDE DEF c, zero
  <2>10. InPlace(r, r) /\ Len(r.cells) \in Nat /\ Cap(r) = Len(r.cells) - 1 /\ k < Len(r.cells)
    BY <2>3, <2>4, InPlaceIs, HeldIs
  <2>11. /\ InPlace(w, r)
         /\ \A i \in 1..Len(r.cells) : w.cells[i] = IF i - zero \in 1..Len(c) THEN c[i - zero] ELSE r.cells[i]
    BY <2>9, <2>10, WriteIs
  <2> HIDE DEF w
  <2>12. \A i \in 1..len : w.cells[i] = t[i]
    <3>1. \A i \in 1..len : i \in 1..Len(r.cells)
      BY <2>1, <2>10, <1>1
    <3> QED
      BY <3>1, <2>7, <2>8, <2>11, <2>14
  <2>13. len <= Cap(r)
    BY <2>1, <2>10, <1>1
  <2>15. Held(q) /\ ~q.threw /\ Has(q, t)
    BY <2>1, <2>2, <2>3, <2>6, <2>11, <2>12, <2>13, TerminatedHas
  <2>16. Becomes(q, o, t)
    BY <2>15 DEF Becomes
  <2>17. Does(q, o, 0, o.size, t)
    BY <2>6, <2>16, HasDoes
  <2> QED
    BY <2>6, <2>17 DEF q, t, to, k
<1> QED
  BY <1>3, <1>4

-----------------------------------------------------------------------------
(* Steps. *)

LEMMA CurrentIs ==
  ASSUME StringTerminated, NEW fuel \in Nat
  PROVE  /\ Held(StartText(fuel)) /\ ~StartText(fuel).threw /\ StartText(fuel).cells = chars /\ StartText(fuel).size = length
         /\ length \in Nat
<1> DEFINE no == FALSE
           o == StartText(fuel)
<1>1. /\ long \in BOOLEAN /\ chars \in Seq(Value \cup {Raw, Gone}) /\ length \in Nat
      /\ length < Len(chars) /\ (IF long THEN Len(chars) >= MinCap ELSE Len(chars) = MinCap)
      /\ chars[length + 1] = Gone /\ \A i \in 1..length : chars[i] \in Value
  BY Zenon DEF StringTerminated
<1>2. o = [long |-> long, cells |-> chars, size |-> length, left |-> fuel, threw |-> no] /\ no \in BOOLEAN /\ ~no
  BY DEF StartText
<1> HIDE DEF o, no
<1>3. o.long = long /\ o.cells = chars /\ o.size = length /\ o.threw = no
  BY <1>2
<1>4. o \in Progress
  BY <1>1, <1>2 DEF Progress, Cell
<1>5. Held(o)
  BY Zenon, <1>1, <1>3, <1>4 DEF Held
<1> QED
  BY Zenon, <1>1, <1>2, <1>3, <1>5 DEF o

\* The call has done to o what was asked, or has thrown before it did anything.
Answers(q, o, at, cut, s) ==
  q = Throw(o) \/ (at \in 0..o.size /\ Does(q, o, at, Lesser(cut, o.size - at), s))

LEMMA DoesAnswers ==
  ASSUME NEW o, Held(o), NEW at \in 0..o.size, NEW cut \in 0..(o.size - at), NEW q, NEW s,
         Does(q, o, at, cut, s)
  PROVE  Answers(q, o, at, cut, s)
<1>1. o.size \in Nat
  BY HeldIs
<1>2. Lesser(cut, o.size - at) = cut
  BY <1>1 DEF Lesser
<1> QED
  BY Zenon, <1>2 DEF Answers

\* All the characters give way.
LEMMA AllAnswers ==
  ASSUME NEW o, Held(o), NEW q, NEW s, Does(q, o, 0, o.size, s)
  PROVE  Answers(q, o, 0, o.size, s)
<1> DEFINE zero == 0
           z == o.size
<1>1. zero \in 0..z /\ z \in 0..(z - zero)
  BY HeldIs
<1>2. Does(q, o, zero, z, s)
  OBVIOUS
<1> HIDE DEF zero
<1>3. Answers(q, o, zero, z, s)
  BY <1>1, <1>2, DoesAnswers
<1> QED
  BY <1>3 DEF zero

\* None do.
LEMMA NoneAnswers ==
  ASSUME NEW o, Held(o), NEW at \in 0..o.size, NEW q, NEW s, Does(q, o, at, 0, s)
  PROVE  Answers(q, o, at, 0, s)
<1> DEFINE zero == 0
<1>1. zero \in 0..(o.size - at)
  BY HeldIs
<1>2. Does(q, o, at, zero, s)
  OBVIOUS
<1> HIDE DEF zero
<1>3. Answers(q, o, at, zero, s)
  BY <1>1, <1>2, DoesAnswers
<1> QED
  BY <1>3 DEF zero

\* g is e, of z elements, with s in the place of n of them.
IsSpliced(g, e, z, at, n, s) ==
  /\ n \in 0..(z - at) /\ g \in Seq(Value) /\ Len(g) = z - n + Len(s)
  /\ \A i \in 1..(z - n + Len(s)) :
       g[i] = IF i <= at THEN e[i] ELSE IF i <= at + Len(s) THEN s[i - at] ELSE e[i - Len(s) + n]

\* A cut may be longer than what there is to cut.
LEMMA SpliceIs ==
  ASSUME NEW e \in Seq(Value), NEW z \in Nat, z = Len(e), NEW at \in 0..z, NEW cut \in Nat, NEW s \in Seq(Value)
  PROVE  IsSpliced(StringContainer!Splice(e, at, cut, s), e, z, at, Lesser(cut, z - at), s)
<1> DEFINE n == Lesser(cut, z - at)
           g == StringContainer!Splice(e, at, cut, s)
<1>1. n \in 0..(z - at) /\ (n = cut \/ (n = z - at /\ cut > z - at))
  BY DEF Lesser
<1>2. g = Exchanged(e, at, n, s)
  <2>1. SubSeq(e, at + n + 1, z) = SubSeq(e, at + cut + 1, z)
    <3>1. CASE n = cut
      BY <3>1
    <3>2. CASE n = z - at /\ cut > z - at
      <4> DEFINE a == at + n + 1
                 b == at + cut + 1
      <4>1. a \in Int /\ b \in Int /\ z < a /\ z < b
        BY <3>2
      <4> HIDE DEF a, b
      <4>2. SubSeq(e, a, z) = <<>> /\ SubSeq(e, b, z) = <<>>
        BY <4>1
      <4> QED
        BY <4>2 DEF a, b
    <3> QED
      BY <1>1, <3>1, <3>2
  <2> QED
    BY Zenon, <2>1 DEF StringContainer!Splice, Exchanged
<1> HIDE DEF g, n
<1>3. at \in 0..Len(e) /\ n \in 0..(Len(e) - at)
  BY <1>1
<1>4. /\ Exchanged(e, at, n, s) \in Seq(Value)
      /\ Len(Exchanged(e, at, n, s)) = Len(e) - n + Len(s)
      /\ \A i \in 1..(Len(e) - n + Len(s)) :
           Exchanged(e, at, n, s)[i] = IF i <= at THEN e[i]
                                       ELSE IF i <= at + Len(s) THEN s[i - at] ELSE e[i - Len(s) + n]
  BY SMTT(30), <1>3, ExchangedIs
<1>5. z = Len(e)
  OBVIOUS
<1> QED
  BY Zenon, <1>1, <1>2, <1>4, <1>5 DEF g, n, IsSpliced

\* What a call leaves is what the next one finds.
LEMMA EndedIs ==
  ASSUME StringTerminated, NEW fuel \in Nat, NEW q, NEW at \in Nat, NEW cut \in Nat, NEW s \in Seq(Value),
         Answers(q, StartText(fuel), at, cut, s), TextEnded(q, at, cut, s)
  PROVE  StringTerminated' /\ StringContainer!Next
<1> DEFINE o == StartText(fuel)
           e == Characters
           f == Characters'
           L == Len(q.cells)
           m == q.size
           z == length
<1>1. Held(o) /\ ~o.threw /\ o.cells = chars /\ o.size = z /\ z \in Nat
  BY CurrentIs
<1>2. /\ q = Throw(o) \/ (at \in 0..o.size /\ Does(q, o, at, Lesser(cut, o.size - at), s))
  BY Zenon DEF Answers
<1> HIDE DEF o
<1>3. Held(q) /\ (q.threw => Same(q, o))
      /\ (~q.threw => at \in 0..z /\ Spliced(q, o, at, Lesser(cut, z - at), s))
  <2>1. CASE q = Throw(o)
    BY <2>1, <1>1, ThrowIs
  <2>2. CASE at \in 0..o.size /\ Does(q, o, at, Lesser(cut, o.size - at), s)
    BY <2>2, <1>1 DEF Does
  <2> QED
    BY <1>2, <2>1, <2>2
<1>4. /\ q.long \in BOOLEAN /\ q.cells \in Seq(Cell) /\ m \in Nat /\ q.threw \in BOOLEAN
      /\ L \in Nat /\ DOMAIN q.cells = 1..L /\ m < L
      /\ (\A i \in 1..L : q.cells[i] \in Cell) /\ \A i \in 1..m : q.cells[i] \in Value
  BY <1>3, HeldIs
<1>5. (IF q.long THEN L >= MinCap ELSE L = MinCap) /\ q.cells[m + 1] = Gone
  BY <1>3 DEF Held
<1>6. /\ long' = q.long /\ chars' = [i \in 1..L |-> IF i <= m + 1 THEN q.cells[i] ELSE Raw] /\ length' = m
      /\ stringCall' = [at |-> at, cut |-> cut, put |-> s, strong |-> TRUE, threw |-> q.threw]
  BY <1>4 DEF TextEnded
<1> HIDE DEF L, m, z
<1>7. chars' \in Seq(Cell) /\ Len(chars') = L
  <2> DEFINE F(i) == IF i <= m + 1 THEN q.cells[i] ELSE Raw
  <2>1. \A i \in 1..L : F(i) \in Cell
    BY <1>4 DEF Cell
  <2> HIDE DEF F
  <2>2. [i \in 1..L |-> F(i)] \in [1..L -> Cell]
    BY <2>1
  <2>3. chars' = [i \in 1..L |-> F(i)]
    BY <1>6 DEF F
  <2> QED
    BY <2>2, <2>3, <1>4, FunctionIsSeq
<1>8. chars'[m + 1] = Gone /\ \A i \in 1..m : chars'[i] = q.cells[i]
  <2>1. m + 1 \in 1..L /\ m + 1 <= m + 1 /\ \A i \in 1..m : i \in 1..L /\ i <= m + 1
    BY <1>4
  <2> QED
    BY <2>1, <1>5, <1>6
<1>9. \A i \in 1..m : chars'[i] \in Value
  BY <1>4, <1>8
<1>10. StringTerminated'
  BY Zenon, <1>4, <1>5, <1>6, <1>7, <1>8, <1>9 DEF StringTerminated, Cell
<1>11. f \in Seq(Value) /\ Len(f) = m /\ \A i \in 1..m : f[i] = q.cells[i]
  <2> DEFINE c == chars'
  <2>1. f = SubSeq(c, 1, m)
    BY <1>6 DEF Characters
  <2>2. \A i \in 1..m : c[i] \in Value /\ c[i] = q.cells[i]
    BY <1>8, <1>9
  <2> HIDE DEF c, f
  <2> QED
    BY <2>1, <2>2, <1>4, FirstIs
<1>12. e \in Seq(Value) /\ Len(e) = z /\ \A i \in 1..z : e[i] = o.cells[i]
  <2>1. e = SubSeq(o.cells, 1, z)
    BY <1>1 DEF Characters, z
  <2>2. \A i \in 1..z : o.cells[i] \in Value
    BY <1>1, HeldIs
  <2> HIDE DEF e
  <2> QED
    BY <2>1, <2>2, <1>1, FirstIs
<1>13. stringCall' \in StringContainer!Call /\ stringCall'.threw = q.threw /\ stringCall'.at = at /\ stringCall'.cut = cut /\ stringCall'.put = s
  <2> DEFINE yes == TRUE
             t == q.threw
  <2>1. yes \in BOOLEAN /\ t \in BOOLEAN
    BY <1>4
  <2>2. stringCall' = [at |-> at, cut |-> cut, put |-> s, strong |-> yes, threw |-> t]
    BY <1>6
  <2> HIDE DEF yes, t
  <2>3. stringCall' \in StringContainer!Call /\ stringCall'.threw = t /\ stringCall'.at = at /\ stringCall'.cut = cut /\ stringCall'.put = s
    BY <2>1, <2>2 DEF StringContainer!Call
  <2> QED
    BY <2>3 DEF t
<1> HIDE DEF e, f
<1>14. CASE q.threw
  <2>1. m = z /\ \A i \in 1..z : q.cells[i] = o.cells[i]
    BY <1>1, <1>3, <1>14 DEF Same, m
  <2>2. \A i \in 1..Len(f) : f[i] = e[i]
    BY <2>1, <1>11, <1>12
  <2>3. f = e
    BY <2>1, <2>2, <1>11, <1>12, SeqEqual
  <2> QED
    BY <2>3, <1>10, <1>11, <1>13, <1>14 DEF StringContainer!Next, StringContainer!Throw, e, f
<1>15. CASE ~q.threw
  <2> DEFINE n == Lesser(cut, z - at)
             g == StringContainer!Splice(e, at, cut, s)
             k == Len(s)
  <2>1. at \in 0..z /\ m = z - n + k
        /\ \A i \in 1..m : q.cells[i] = IF i <= at THEN o.cells[i]
                                        ELSE IF i <= at + k THEN s[i - at] ELSE o.cells[i - k + n]
    BY <1>1, <1>3, <1>15 DEF Spliced, Shows, m
  <2>2. /\ n \in 0..(z - at) /\ g \in Seq(Value) /\ Len(g) = m
        /\ \A i \in 1..m : g[i] = IF i <= at THEN e[i]
                                  ELSE IF i <= at + k THEN s[i - at] ELSE e[i - k + n]
    <3>1. z = Len(e) /\ z \in Nat /\ e \in Seq(Value) /\ at \in 0..z
      BY <2>1, <1>1, <1>12
    <3>2. IsSpliced(g, e, z, at, n, s)
      BY <3>1, SpliceIs
    <3>3. m = z - n + k
      BY <2>1
    <3> HIDE DEF z, m, g, n
    <3> QED
      BY Zenon, <3>2, <3>3 DEF IsSpliced
  <2>3. k \in Nat
    BY SeqIs
  <2> HIDE DEF n, g, k
  <2>4. ASSUME NEW i \in 1..m PROVE f[i] = g[i]
    <3>1. i <= at => i \in 1..z
      BY <2>1, <1>1, <1>4
    <3>2. ~(i <= at) /\ ~(i <= at + k) => i - k + n \in 1..z
      BY <2>1, <2>2, <2>3, <1>1, <1>4
    <3>3. i <= at => e[i] = o.cells[i]
      BY <3>1, <1>12
    <3>4. ~(i <= at) /\ ~(i <= at + k) => e[i - k + n] = o.cells[i - k + n]
      BY <3>2, <1>12
    <3>5. f[i] = IF i <= at THEN o.cells[i] ELSE IF i <= at + k THEN s[i - at] ELSE o.cells[i - k + n]
      BY <2>1, <1>11
    <3>6. g[i] = IF i <= at THEN e[i] ELSE IF i <= at + k THEN s[i - at] ELSE e[i - k + n]
      BY <2>2
    <3> QED
      BY Zenon, <3>3, <3>4, <3>5, <3>6
  <2>5. f = g
    BY <2>2, <2>4, <1>11, SeqEqual
  <2> QED
    BY <2>5, <1>10, <1>13, <1>15 DEF StringContainer!Next, StringContainer!Return, e, f, g
<1> QED
  BY <1>4, <1>14, <1>15

LEMMA TextsAre ==
  ASSUME NEW n \in Nat, NEW s \in Texts(n)
  PROVE  s \in Seq(Value) /\ Len(s) \in Nat /\ Len(s) <= n
<1>1. PICK k \in 0..n : s \in [1..k -> Value]
  BY DEF Texts
<1>2. k \in Nat /\ k <= n
  OBVIOUS
<1>3. s \in Seq(Value) /\ Len(s) = k
  BY <1>1, <1>2, FunctionIsSeq
<1> QED
  BY <1>2, <1>3

LEMMA SourcesAre ==
  ASSUME StringAssumption, StringTerminated, NEW fuel \in Nat, NEW src \in Sources
  PROVE  /\ Source(src, StartText(fuel).size)
         /\ Read(chars, src) \in Seq(Value) /\ Read(chars, src) = Read(StartText(fuel).cells, src)
<1>1. Held(StartText(fuel)) /\ StartText(fuel).cells = chars /\ StartText(fuel).size = length /\ length \in Nat
  BY CurrentIs
<1>2. MaxText \in Nat
  BY DEF StringAssumption
<1>3. CASE src \in {Fresh(s) : s \in TextInput}
  <2>1. PICK s \in TextInput : src = Fresh(s)
    BY <1>3
  <2>2. s \in Seq(Value)
    BY <2>1, <1>2, TextsAre DEF TextInput
  <2> QED
    BY <2>1, <2>2, <1>1, FreshIs
<1>4. CASE src \in UNION {{Own(i, n) : n \in 0..(length - i)} : i \in 0..length}
  <2>1. PICK i \in 0..length : \E n \in 0..(length - i) : src = Own(i, n)
    BY <1>4
  <2>2. PICK n \in 0..(length - i) : src = Own(i, n)
    BY <2>1
  <2>3. i \in Nat /\ n \in Nat /\ i + n <= length
    BY <1>1
  <2>4. Source(src, length)
    BY <2>2, <2>3, <1>1, OwnIs
  <2>5. Source(src, StartText(fuel).size)
    BY <2>4, <1>1
  <2>6. Read(StartText(fuel).cells, src) \in Seq(Value)
    BY <2>5, <1>1, SourceIs
  <2> QED
    BY <2>5, <2>6, <1>1
<1> QED
  BY <1>3, <1>4 DEF Sources

LEMMA OthersAre ==
  ASSUME StringAssumption, NEW other \in Others
  PROVE  \E s : Other(other, s)
<1>1. MinCap \in Nat /\ MinCap > 0 /\ MinCap - 1 \in Nat
  BY DEF StringAssumption
<1>2. CASE other \in {Short(s) : s \in Texts(MinCap - 1)}
  <2> DEFINE no == FALSE
  <2>1. no \in BOOLEAN /\ ~no
    OBVIOUS
  <2>2. PICK s \in Texts(MinCap - 1) : other = Short(s)
    BY <1>2
  <2>3. s \in Seq(Value) /\ Len(s) <= MinCap - 1 /\ Len(s) \in Nat
    BY <1>1, TextsAre
  <2>4. Len(s) < MinCap
    BY <2>3, <1>1
  <2>5. other = Rep(no, MinCap, s)
    BY <2>2 DEF Short
  <2> HIDE DEF no
  <2>6. Other(other, s)
    BY Zenon, <2>1, <2>3, <2>4, <2>5, <1>1 DEF Other
  <2> QED
    BY <2>6
<1>3. CASE other \in {Long(n, s) : n \in MinCap..(MinCap + 1), s \in Texts(MinCap)}
  <2> DEFINE yes == TRUE
  <2>1. PICK n \in MinCap..(MinCap + 1), s \in Texts(MinCap) : other = Long(n, s)
    BY <1>3
  <2> DEFINE b == RecommendLength(n) + 1
  <2>2. yes \in BOOLEAN /\ yes /\ n \in Nat /\ n >= MinCap
    BY <1>1
  <2>3. other = Rep(yes, b, s)
    BY <2>1 DEF Long
  <2>4. s \in Seq(Value) /\ Len(s) <= MinCap /\ Len(s) \in Nat
    BY <1>1, TextsAre
  <2> HIDE DEF yes
  <2>5. RecommendLength(n) \in Nat /\ RecommendLength(n) >= n
    BY <2>2, RecommendIs
  <2> DEFINE g == RecommendLength(n)
  <2> HIDE DEF g
  <2>6. b \in Nat /\ Len(s) < b /\ b >= MinCap
    <3>1. g + 1 \in Nat /\ Len(s) < g + 1 /\ g + 1 >= MinCap
      BY <2>2, <2>4, <2>5, <1>1 DEF g
    <3> QED
      BY <3>1 DEF g
  <2> HIDE DEF b
  <2>7. Other(other, s)
    BY Zenon, <2>2, <2>3, <2>4, <2>6 DEF Other
  <2> QED
    BY <2>7
<1> QED
  BY <1>2, <1>3 DEF Others

LEMMA FuelIs == \A fuel \in TextFuel : fuel \in Nat
BY DEF TextFuel

LEMMA AppendTextStep ==
  ASSUME StringAssumption, StringTerminated, AppendText
  PROVE  StringTerminated' /\ StringContainer!Next
<1>1. PICK fuel \in TextFuel, src \in Sources :
        TextEnded(Appended(StartText(fuel), src), length, 0, Read(chars, src))
  BY DEF AppendText
<1> DEFINE o == StartText(fuel)
           q == Appended(o, src)
           s == Read(chars, src)
<1>2. fuel \in Nat /\ Held(o) /\ ~o.threw /\ o.size = length /\ length \in Nat /\ length \in 0..length /\ 0 \in Nat
  BY FuelIs, CurrentIs
<1>3. Source(src, o.size) /\ s \in Seq(Value) /\ s = Read(o.cells, src)
  BY <1>2, SourcesAre
<1> HIDE DEF o, s
<1>4. Does(q, o, o.size, 0, s)
  BY <1>2, <1>3, AppendedDoes
<1> HIDE DEF q
<1>5. Answers(q, o, length, 0, s)
  BY <1>2, <1>4, NoneAnswers
<1>6. TextEnded(q, length, 0, s)
  BY <1>1 DEF q, o, s
<1> QED
  BY <1>2, <1>3, <1>5, <1>6, EndedIs DEF o

LEMMA InsertAnswers ==
  ASSUME StringAssumption, NEW o, Held(o), ~o.threw, NEW pos \in Nat, NEW src, Source(src, o.size)
  PROVE  Answers(Insert(o, pos, src), o, pos, 0, Read(o.cells, src))
<1> DEFINE q == Insert(o, pos, src)
           s == Read(o.cells, src)
<1>1. o.size \in Nat
  BY HeldIs
<1>2. CASE pos > o.size
  <2>1. ~(pos <= o.size)
    BY <1>1, <1>2
  <2>2. q = Throw(o)
    BY Zenon, <2>1, <1>2 DEF Insert
  <2> QED
    BY <2>2 DEF Answers
<1>3. CASE ~(pos > o.size)
  <2>1. pos \in 0..o.size
    BY <1>1, <1>3
  <2>2. Does(q, o, pos, 0, s)
    BY InsertDoes
  <2> HIDE DEF q, s
  <2> QED
    BY <2>1, <2>2, NoneAnswers DEF q, s
<1> QED
  BY <1>2, <1>3

LEMMA InsertTextStep ==
  ASSUME StringAssumption, StringTerminated, InsertText
  PROVE  StringTerminated' /\ StringContainer!Next
<1>1. PICK fuel \in TextFuel, pos \in 0..(length + 1), src \in Sources :
        TextEnded(Insert(StartText(fuel), pos, src), pos, 0, Read(chars, src))
  BY DEF InsertText
<1> DEFINE o == StartText(fuel)
           q == Insert(o, pos, src)
           s == Read(chars, src)
<1>2. fuel \in Nat /\ Held(o) /\ ~o.threw /\ length \in Nat /\ pos \in Nat /\ 0 \in Nat
  BY FuelIs, CurrentIs
<1>3. Source(src, o.size) /\ s \in Seq(Value) /\ s = Read(o.cells, src)
  BY <1>2, SourcesAre
<1> HIDE DEF o, s
<1>4. Answers(q, o, pos, 0, s)
  BY <1>2, <1>3, InsertAnswers
<1>5. TextEnded(q, pos, 0, s)
  BY <1>1 DEF o, s
<1> HIDE DEF q
<1> QED
  BY <1>2, <1>3, <1>4, <1>5, EndedIs DEF o

LEMMA ReplaceTextStep ==
  ASSUME StringAssumption, StringTerminated, ReplaceText
  PROVE  StringTerminated' /\ StringContainer!Next
<1>1. PICK fuel \in TextFuel, pos \in 0..(length + 1), n \in 0..length, src \in Sources :
        TextEnded(Replace(StartText(fuel), pos, n, src), pos, n, Read(chars, src))
  BY DEF ReplaceText
<1> DEFINE o == StartText(fuel)
           q == Replace(o, pos, n, src)
           s == Read(chars, src)
<1>2. fuel \in Nat /\ Held(o) /\ ~o.threw /\ o.size = length /\ length \in Nat /\ pos \in Nat /\ n \in Nat
  BY FuelIs, CurrentIs
<1>3. Source(src, o.size) /\ s \in Seq(Value) /\ s = Read(o.cells, src)
  BY <1>2, SourcesAre
<1> HIDE DEF o, s
<1>4. /\ pos <= o.size => Does(q, o, pos, Lesser(n, o.size - pos), s)
      /\ pos > o.size => q = Throw(o)
  BY <1>2, <1>3, ReplaceDoes
<1>5. TextEnded(q, pos, n, s)
  BY <1>1 DEF o, s
<1> HIDE DEF q
<1>6. Answers(q, o, pos, n, s)
  <2>1. pos \in 0..o.size \/ pos > o.size
    BY <1>2
  <2>2. pos \in 0..o.size => pos <= o.size
    BY <1>2
  <2> QED
    BY Zenon, <2>1, <2>2, <1>4 DEF Answers
<1> QED
  BY <1>2, <1>3, <1>5, <1>6, EndedIs DEF o

LEMMA EraseTextStep ==
  ASSUME StringAssumption, StringTerminated, EraseText
  PROVE  StringTerminated' /\ StringContainer!Next
<1> DEFINE fuel == 0
           s == <<>>
<1>1. PICK pos \in 0..(length + 1), n \in 0..length : TextEnded(EraseChars(StartText(fuel), pos, n), pos, n, s)
  BY DEF EraseText
<1> DEFINE o == StartText(fuel)
           q == EraseChars(o, pos, n)
<1>2. fuel \in Nat /\ s \in Seq(Value)
  OBVIOUS
<1>3. Held(o) /\ ~o.threw /\ o.size = length /\ length \in Nat /\ pos \in Nat /\ n \in Nat
  BY <1>2, CurrentIs
<1> HIDE DEF o
<1>4. /\ pos <= o.size => Does(q, o, pos, Lesser(n, o.size - pos), s)
      /\ pos > o.size => q = Throw(o)
  BY <1>3, EraseDoes
<1> HIDE DEF s, fuel
<1>5. TextEnded(q, pos, n, s)
  BY <1>1 DEF o
<1> HIDE DEF q
<1>6. Answers(q, o, pos, n, s)
  <2>1. pos \in 0..o.size \/ pos > o.size
    BY <1>3
  <2>2. pos \in 0..o.size => pos <= o.size
    BY <1>3
  <2> QED
    BY Zenon, <2>1, <2>2, <1>4 DEF Answers
<1> QED
  BY <1>2, <1>3, <1>5, <1>6, EndedIs DEF o

LEMMA AssignTextStep ==
  ASSUME StringAssumption, StringTerminated, AssignText
  PROVE  StringTerminated' /\ StringContainer!Next
<1>1. PICK fuel \in TextFuel, src \in Sources : TextEnded(AssignChars(StartText(fuel), src), 0, length, Read(chars, src))
  BY DEF AssignText
<1> DEFINE o == StartText(fuel)
           q == AssignChars(o, src)
           s == Read(chars, src)
<1>2. fuel \in Nat /\ Held(o) /\ ~o.threw /\ o.size = length /\ length \in Nat /\ 0 \in Nat
  BY FuelIs, CurrentIs
<1>3. Source(src, o.size) /\ s \in Seq(Value) /\ s = Read(o.cells, src)
  BY <1>2, SourcesAre
<1> HIDE DEF o, s
<1>4. Does(q, o, 0, o.size, s)
  BY <1>2, <1>3, AssignDoes
<1>5. TextEnded(q, 0, length, s)
  BY <1>1 DEF o, s
<1> HIDE DEF q
<1>6. Answers(q, o, 0, length, s)
  BY <1>2, <1>4, AllAnswers
<1> QED
  BY <1>2, <1>3, <1>5, <1>6, EndedIs DEF o

LEMMA ResizeToStep ==
  ASSUME StringAssumption, StringTerminated, ResizeText
  PROVE  StringTerminated' /\ StringContainer!Next
<1>1. PICK fuel \in TextFuel, n \in 0..(MaxLength + 1), x \in Value :
        TextEnded(ResizeLength(StartText(fuel), n, x), Lesser(n, length), length - Lesser(n, length), Times(Greater(0, n - length), x))
  BY DEF ResizeText
<1> DEFINE o == StartText(fuel)
           q == ResizeLength(o, n, x)
           at == Lesser(n, length)
           cut == length - at
           k == Greater(0, n - length)
           s == Times(k, x)
<1>2. fuel \in Nat /\ Held(o) /\ ~o.threw /\ o.size = length /\ length \in Nat
  BY FuelIs, CurrentIs
<1>3. n \in Nat
  BY DEF StringAssumption
<1>4. at \in 0..length /\ at \in Nat /\ cut \in Nat /\ cut \in 0..(length - at) /\ k \in Nat
  BY <1>2, <1>3 DEF Lesser, Greater
<1>5. s \in Seq(Value)
  <2> HIDE DEF k
  <2> QED
    BY <1>4, TimesIs
<1> HIDE DEF o
<1>6. Does(q, o, Lesser(n, o.size), o.size - Lesser(n, o.size), Times(Greater(0, n - o.size), x))
  BY <1>2, <1>3, ResizeDoes
<1>7. Does(q, o, at, cut, s)
  BY Zenon, <1>2, <1>6
<1>8. TextEnded(q, at, cut, s)
  BY <1>1 DEF o
<1> HIDE DEF q, at, cut, s
<1>9. Answers(q, o, at, cut, s)
  <2>1. at \in 0..o.size /\ cut \in 0..(o.size - at)
    BY <1>2, <1>4
  <2> QED
    BY <2>1, <1>2, <1>7, DoesAnswers
<1> QED
  BY <1>2, <1>4, <1>5, <1>8, <1>9, EndedIs DEF o

\* A call that keeps the characters.
LEMMA KeptStep ==
  ASSUME StringTerminated, NEW fuel \in Nat, NEW q,
         Does(q, StartText(fuel), StartText(fuel).size, 0, <<>>), TextEnded(q, length, 0, <<>>)
  PROVE  StringTerminated' /\ StringContainer!Next
<1> DEFINE o == StartText(fuel)
           s == <<>>
           zero == 0
<1>1. Held(o) /\ ~o.threw /\ o.size = length /\ length \in Nat /\ length \in 0..length /\ zero \in Nat
      /\ s \in Seq(Value) /\ length \in 0..o.size
  BY CurrentIs
<1>2. Does(q, o, length, 0, s) /\ TextEnded(q, length, zero, s)
  BY <1>1
<1> HIDE DEF o, s
<1>3. Answers(q, o, length, 0, s)
  BY <1>1, <1>2, NoneAnswers
<1>4. Answers(q, o, length, zero, s)
  BY <1>3
<1> HIDE DEF zero
<1> QED
  BY <1>1, <1>2, <1>4, EndedIs DEF o

LEMMA ReserveForStep ==
  ASSUME StringAssumption, StringTerminated, ReserveFor
  PROVE  StringTerminated' /\ StringContainer!Next
<1>1. PICK fuel \in TextFuel, n \in 0..(MaxLength + 1) : TextEnded(ReserveLength(StartText(fuel), n), length, 0, <<>>)
  BY DEF ReserveFor
<1>2. fuel \in Nat /\ n \in Nat /\ Held(StartText(fuel)) /\ ~StartText(fuel).threw
  BY FuelIs, CurrentIs DEF StringAssumption
<1>3. Does(ReserveLength(StartText(fuel), n), StartText(fuel), StartText(fuel).size, 0, <<>>)
  BY <1>2, ReserveDoes
<1> QED
  BY <1>1, <1>2, <1>3, KeptStep

LEMMA ShrinkToFitStep ==
  ASSUME StringAssumption, StringTerminated, ShrinkText
  PROVE  StringTerminated' /\ StringContainer!Next
<1>1. PICK fuel \in TextFuel : TextEnded(Shrunk(StartText(fuel)), length, 0, <<>>)
  BY DEF ShrinkText
<1>2. fuel \in Nat /\ Held(StartText(fuel)) /\ ~StartText(fuel).threw
  BY FuelIs, CurrentIs
<1>3. Does(Shrunk(StartText(fuel)), StartText(fuel), StartText(fuel).size, 0, <<>>)
  BY <1>2, ShrunkDoes
<1> QED
  BY <1>1, <1>2, <1>3, KeptStep

\* A call that leaves s.
LEMMA AllStep ==
  ASSUME StringTerminated, NEW fuel \in Nat, NEW s \in Seq(Value), NEW q,
         Does(q, StartText(fuel), 0, StartText(fuel).size, s), TextEnded(q, 0, length, s)
  PROVE  StringTerminated' /\ StringContainer!Next
<1> DEFINE o == StartText(fuel)
           zero == 0
<1>1. Held(o) /\ ~o.threw /\ o.size = length /\ length \in Nat /\ zero \in Nat
  BY CurrentIs
<1>2. Does(q, o, 0, o.size, s) /\ TextEnded(q, zero, length, s)
  OBVIOUS
<1> HIDE DEF o
<1>3. Answers(q, o, zero, length, s)
  BY <1>1, <1>2, AllAnswers
<1> HIDE DEF zero
<1> QED
  BY <1>1, <1>2, <1>3, EndedIs DEF o

LEMMA AssignStringStep ==
  ASSUME StringAssumption, StringTerminated, AssignString
  PROVE  StringTerminated' /\ StringContainer!Next
<1>1. PICK fuel \in TextFuel, other \in Others :
        \/ TextEnded(AssignCopy(StartText(fuel), other), 0, length, Text(other))
        \/ TextEnded(With(StartText(fuel), other), 0, length, Text(other))
  BY DEF AssignString
<1>2. fuel \in Nat /\ Held(StartText(fuel)) /\ ~StartText(fuel).threw
  BY FuelIs, CurrentIs
<1>3. PICK s : Other(other, s)
  BY OthersAre
<1>4. s \in Seq(Value) /\ Text(other) = s
  BY <1>3, OtherIs DEF Other
<1>5. CASE TextEnded(AssignCopy(StartText(fuel), other), 0, length, Text(other))
  <2>1. Does(AssignCopy(StartText(fuel), other), StartText(fuel), 0, StartText(fuel).size, s)
    BY <1>2, <1>3, AssignCopyDoes
  <2> QED
    BY <2>1, <1>2, <1>4, <1>5, AllStep
<1>6. CASE TextEnded(With(StartText(fuel), other), 0, length, Text(other))
  <2>1. Does(With(StartText(fuel), other), StartText(fuel), 0, StartText(fuel).size, s)
    BY <1>2, <1>3, WithOtherDoes
  <2> QED
    BY <2>1, <1>2, <1>4, <1>6, AllStep
<1> QED
  BY <1>1, <1>5, <1>6

LEMMA SwapStep ==
  ASSUME StringAssumption, StringTerminated, SwapText
  PROVE  StringTerminated' /\ StringContainer!Next
<1> DEFINE fuel == 0
<1>1. PICK other \in Others : TextEnded(With(StartText(fuel), other), 0, length, Text(other))
  BY DEF SwapText
<1>2. fuel \in Nat
  OBVIOUS
<1> HIDE DEF fuel
<1>3. Held(StartText(fuel)) /\ ~StartText(fuel).threw
  BY <1>2, CurrentIs
<1>4. PICK s : Other(other, s)
  BY OthersAre
<1>5. s \in Seq(Value) /\ Text(other) = s
  BY <1>4, OtherIs DEF Other
<1>6. Does(With(StartText(fuel), other), StartText(fuel), 0, StartText(fuel).size, s)
  BY <1>3, <1>4, WithOtherDoes
<1> QED
  BY <1>1, <1>2, <1>5, <1>6, AllStep

LEMMA ConcatenateStep ==
  ASSUME StringAssumption, StringTerminated, Concatenate
  PROVE  StringTerminated' /\ StringContainer!Next
<1>1. PICK fuel \in TextFuel, src \in Sources, rvalue \in BOOLEAN :
        LET o == StartText(fuel)
            s == Read(chars, src)
        IN  \/ TextEnded(IF rvalue THEN Appended(o, src) ELSE ConstructedText(o, Text(o) \o s), length, 0, s)
            \/ TextEnded(IF rvalue THEN Insert(o, 0, src) ELSE ConstructedText(o, s \o Text(o)), 0, 0, s)
  BY Zenon DEF Concatenate
<1> DEFINE o == StartText(fuel)
           s == Read(chars, src)
           zero == 0
           after == IF rvalue THEN Appended(o, src) ELSE ConstructedText(o, Text(o) \o s)
           before == IF rvalue THEN Insert(o, zero, src) ELSE ConstructedText(o, s \o Text(o))
<1>2. /\ fuel \in Nat /\ Held(o) /\ ~o.threw /\ o.size = length /\ length \in Nat
      /\ zero \in Nat /\ length \in 0..o.size /\ zero \in 0..o.size
  BY FuelIs, CurrentIs
<1>3. Source(src, o.size) /\ s \in Seq(Value) /\ s = Read(o.cells, src)
  BY <1>2, SourcesAre
<1>4. TextEnded(after, length, zero, s) \/ TextEnded(before, zero, zero, s)
  BY Zenon, <1>1
<1> HIDE DEF o, s
<1>5. Does(ConstructedText(o, Text(o) \o s), o, o.size, 0, s) /\ Does(ConstructedText(o, s \o Text(o)), o, 0, 0, s)
  BY <1>2, <1>3, ConcatenatedDoes
<1>6. Does(Appended(o, src), o, o.size, 0, s)
  BY <1>2, <1>3, AppendedDoes
<1>7. Answers(after, o, length, zero, s)
  <2>1. Does(after, o, length, 0, s)
    <3>1. CASE rvalue
      BY <3>1, <1>2, <1>6
    <3>2. CASE ~rvalue
      BY <3>2, <1>2, <1>5
    <3> QED
      BY <3>1, <3>2
  <2> HIDE DEF after
  <2> QED
    BY <2>1, <1>2, NoneAnswers
<1>8. Answers(before, o, zero, zero, s)
  <2>1. CASE rvalue
    <3>1. before = Insert(o, zero, src)
      BY Zenon, <2>1
    <3> HIDE DEF before
    <3>2. zero \in Nat
      OBVIOUS
    <3>3. Answers(before, o, zero, 0, s)
      <4> HIDE DEF zero
      <4> QED
        BY <3>1, <3>2, <1>2, <1>3, InsertAnswers
    <3> QED
      BY <3>3
  <2>2. CASE ~rvalue
    <3>1. before = ConstructedText(o, s \o Text(o))
      BY Zenon, <2>2
    <3> HIDE DEF before
    <3>2. Does(before, o, zero, 0, s)
      BY <3>1, <1>5
    <3>3. Answers(before, o, zero, 0, s)
      <4> HIDE DEF zero
      <4> QED
        BY <3>2, <1>2, NoneAnswers
    <3> QED
      BY <3>3
  <2> QED
    BY <2>1, <2>2
<1> HIDE DEF after, before, zero
<1>9. CASE TextEnded(after, length, zero, s)
  BY <1>2, <1>3, <1>7, <1>9, EndedIs DEF o
<1>10. CASE TextEnded(before, zero, zero, s)
  BY <1>2, <1>3, <1>8, <1>10, EndedIs DEF o
<1> QED
  BY <1>4, <1>9, <1>10

LEMMA CreateStep ==
  ASSUME StringAssumption, StringTerminated, CreateText
  PROVE  StringTerminated' /\ StringContainer!Next
<1>1. PICK fuel \in TextFuel, s \in TextInput \cup {Times(MaxLength + 1, x) : x \in Value} :
        TextEnded(ConstructedText(StartText(fuel), s), 0, length, s)
  BY DEF CreateText
<1>2. fuel \in Nat /\ Held(StartText(fuel)) /\ ~StartText(fuel).threw /\ MaxText \in Nat /\ MaxLength + 1 \in Nat
  BY FuelIs, CurrentIs DEF StringAssumption
<1>3. s \in Seq(Value)
  <2>1. CASE s \in TextInput
    BY <2>1, <1>2, TextsAre DEF TextInput
  <2>2. CASE s \in {Times(MaxLength + 1, x) : x \in Value}
    <3> DEFINE n == MaxLength + 1
    <3>1. PICK x \in Value : s = Times(n, x)
      BY <2>2
    <3>2. n \in Nat
      BY <1>2
    <3> HIDE DEF n
    <3> QED
      BY <3>1, <3>2, TimesIs
  <2> QED
    BY <2>1, <2>2
<1>4. Does(ConstructedText(StartText(fuel), s), StartText(fuel), 0, StartText(fuel).size, s)
  BY <1>2, <1>3, ConstructedDoes
<1> QED
  BY <1>1, <1>2, <1>3, <1>4, AllStep

LEMMA CreatePartStep ==
  ASSUME StringAssumption, StringTerminated, CreatePart
  PROVE  StringTerminated' /\ StringContainer!Next
<1> DEFINE fuel == 0
<1>1. PICK other \in Others : \E pos \in 0..(other.size + 1), n \in 0..other.size :
        TextEnded(Pilfered(StartText(fuel), other, pos, n), 0, length,
              SubSeq(Text(other), pos + 1, Lesser(pos + n, other.size)))
  BY DEF CreatePart
<1>2. PICK pos \in 0..(other.size + 1), n \in 0..other.size :
        TextEnded(Pilfered(StartText(fuel), other, pos, n), 0, length,
              SubSeq(Text(other), pos + 1, Lesser(pos + n, other.size)))
  BY <1>1
<1>3. fuel \in Nat
  OBVIOUS
<1> HIDE DEF fuel
<1>4. Held(StartText(fuel)) /\ ~StartText(fuel).threw
  BY <1>3, CurrentIs
<1>5. PICK s : Other(other, s)
  BY OthersAre
<1>6. Text(other) = s /\ other.size = Len(s)
  BY <1>5, OtherIs
<1>7. pos \in Nat /\ n \in Nat
  OBVIOUS
<1> DEFINE t == SubSeq(s, pos + 1, Lesser(pos + n, Len(s)))
           q == Pilfered(StartText(fuel), other, pos, n)
<1>8. t \in Seq(Value) /\ Does(q, StartText(fuel), 0, StartText(fuel).size, t)
  BY <1>4, <1>5, <1>7, PilferedDoes
<1>9. TextEnded(q, 0, length, t)
  BY Zenon, <1>2, <1>6
<1> HIDE DEF t, q
<1> QED
  BY <1>3, <1>8, <1>9, AllStep

-----------------------------------------------------------------------------
(* The string. *)

LEMMA InitHolds ==
  ASSUME StringAssumption, StringInit
  PROVE  StringTerminated /\ StringContainer!Init
<1> DEFINE none == <<>>
           no == FALSE
           r == Rep(no, MinCap, none)
           zero == 0
<1>1. MinCap \in Nat /\ MinCap > 0 /\ none \in Seq(Value) /\ Len(none) = zero /\ no \in BOOLEAN /\ ~no
      /\ Len(none) < MinCap /\ zero \in Nat
  BY DEF StringAssumption
<1>2. long = no /\ chars = r.cells /\ length = zero /\ stringCall = StringContainer!NoCall
  BY Zenon DEF StringInit
<1> HIDE DEF no, zero
<1>3. Buffer(r.cells, MinCap, none)
  <2> HIDE DEF none
  <2> QED
    BY <1>1, RepIs
<1> HIDE DEF r, none
<1>4. chars \in Seq(Cell) /\ Len(chars) = MinCap /\ chars[length + 1] = Gone
  BY <1>1, <1>2, <1>3 DEF Buffer
<1>5. \A i \in 1..length : chars[i] \in Value
  BY <1>2 DEF zero
<1>6. length < Len(chars)
  BY <1>1, <1>2, <1>4
<1>7. StringTerminated
  BY Zenon, <1>1, <1>2, <1>4, <1>5, <1>6 DEF StringTerminated, Cell
<1>8. Characters \in Seq(Value)
  <2>1. length \in Nat
    BY <1>1, <1>2
  <2> QED
    BY <2>1, <1>5, FirstIs DEF Characters
<1> QED
  BY <1>2, <1>7, <1>8 DEF StringContainer!Init

LEMMA StepIs ==
  ASSUME StringAssumption, StringTerminated, [StringNext]_stringVars
  PROVE  StringTerminated' /\ [StringContainer!Next]_<<Characters, stringCall>>
<1>1. CASE AppendText
  BY <1>1, AppendTextStep
<1>2. CASE InsertText
  BY <1>2, InsertTextStep
<1>3. CASE ReplaceText
  BY <1>3, ReplaceTextStep
<1>4. CASE AssignText
  BY <1>4, AssignTextStep
<1>5. CASE EraseText
  BY <1>5, EraseTextStep
<1>6. CASE ResizeText
  BY <1>6, ResizeToStep
<1>7. CASE ReserveFor
  BY <1>7, ReserveForStep
<1>8. CASE ShrinkText
  BY <1>8, ShrinkToFitStep
<1>9. CASE AssignString
  BY <1>9, AssignStringStep
<1>10. CASE SwapText
  BY <1>10, SwapStep
<1>11. CASE Concatenate
  BY <1>11, ConcatenateStep
<1>12. CASE CreateText
  BY <1>12, CreateStep
<1>13. CASE CreatePart
  BY <1>13, CreatePartStep
<1>14. CASE UNCHANGED stringVars
  BY <1>14 DEF stringVars, StringTerminated, Characters
<1> QED
  BY <1>1, <1>2, <1>3, <1>4, <1>5, <1>6, <1>7, <1>8, <1>9, <1>10, <1>11, <1>12, <1>13, <1>14 DEF StringNext

\* However long the string, wherever the argument of a call is, in the string
\* itself too, and whether or not memory runs out, the characters fit the buffer
\* and the terminator follows them.
THEOREM StringIsTerminated ==
  ASSUME StringAssumption
  PROVE  StringSpec => []StringTerminated
<1>1. StringInit => StringTerminated
  BY InitHolds
<1>2. StringTerminated /\ [StringNext]_stringVars => StringTerminated'
  BY StepIs
<1> QED
  BY <1>1, <1>2, PTL DEF StringSpec

\* Every call does to the characters what Container promises, with the strong
\* guarantee: those after the position give way to the argument as it was when the
\* call was made, though it moves under the call, or the call throws and has done
\* nothing.
THEOREM StringContains ==
  ASSUME StringAssumption
  PROVE  StringSpec => StringIsContainer
<1>1. StringInit => StringTerminated /\ StringContainer!Init
  BY InitHolds
<1>2. StringTerminated /\ [StringNext]_stringVars => StringTerminated' /\ [StringContainer!Next]_<<Characters, stringCall>>
  BY StepIs
<1> QED
  BY <1>1, <1>2, PTL DEF StringSpec, StringIsContainer, StringContainer!Spec

=============================================================================

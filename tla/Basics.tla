-------------------------------- MODULE Basics --------------------------------
(***************************************************************************)
(* What the proofs about several components rest on: induction and         *)
(* recursion over the naturals, stated of sets and of functions, since     *)
(* inclusion is well-founded on finite sets; and pieces of sequences.      *)
(***************************************************************************)
EXTENDS Places, FiniteSetTheorems, SequenceTheorems, TLAPS

\* Induction over the naturals, for a set of them.
LEMMA Induction ==
  ASSUME NEW S, 0 \in S, \A n \in S \cap Nat : n + 1 \in S
  PROVE  Nat \subseteq S
<1>1. SUFFICES ASSUME NEW k \in Nat \ S PROVE FALSE
  OBVIOUS
<1> DEFINE T == {0..n : n \in Nat \ S}
<1>2. T \subseteq FiniteSubsetsOf(Nat)
  <2>1. \A n \in Nat : IsFiniteSet(0..n)
    BY FS_Interval
  <2> QED
    BY <2>1 DEF FiniteSubsetsOf
<1>3. 0..k \in T
  OBVIOUS
<1>4. PICK x \in T : \A y \in T : <<y, x>> \notin StrictSubsetOrdering(Nat)
  <2> HIDE DEF T
  <2> QED
  BY <1>2, <1>3, FS_StrictSubsetOrderingWellFounded, WFMin
<1>5. PICK n \in Nat \ S : x = 0..n
  BY <1>4
<1>6. n # 0
  BY <1>5
<1>7. n - 1 \in Nat /\ (n - 1) + 1 = n
  BY <1>5, <1>6
<1>8. n - 1 \notin S
  BY <1>7
<1>9. 0..(n - 1) \in T
  BY <1>7, <1>8
<1>10. <<0..(n - 1), 0..n>> \in StrictSubsetOrdering(Nat)
  <2>1. 0..(n - 1) \subseteq 0..n /\ n \in 0..n /\ n \notin 0..(n - 1) /\ 0..n \in SUBSET Nat
    BY <1>7
  <2> QED
    BY <2>1 DEF StrictSubsetOrdering
<1> QED
  BY <1>4, <1>5, <1>9, <1>10

\* g is defined on the numbers to n by recursion: from c, by F.
RecursiveTo(g, n, V, c, F) ==
  g \in [0..n -> V] /\ g[0] = c /\ \A i \in 0..(n - 1) : g[i + 1] = F[i][g[i]]

LEMMA RecursiveNext ==
  ASSUME NEW V, NEW c \in V, NEW F \in [Nat -> [V -> V]], NEW n \in Nat,
         NEW g, RecursiveTo(g, n, V, c, F)
  PROVE  \E h : RecursiveTo(h, n + 1, V, c, F)
<1> DEFINE h == [i \in 0..(n + 1) |-> IF i = n + 1 THEN F[n][g[n]] ELSE g[i]]
<1>1. g \in [0..n -> V] /\ g[0] = c /\ \A i \in 0..(n - 1) : g[i + 1] = F[i][g[i]]
  BY DEF RecursiveTo
<1>2. n \in 0..n /\ (n + 1) - 1 = n /\ 0 # n + 1 /\ 0 \in 0..(n + 1) /\ n # n + 1
  OBVIOUS
<1>3. F[n][g[n]] \in V
  BY <1>1, <1>2
<1>4. h \in [0..(n + 1) -> V]
  BY <1>1, <1>3
<1>5. h[0] = c
  BY <1>1, <1>2
<1>6. ASSUME NEW i \in 0..n PROVE h[i + 1] = F[i][h[i]]
  <2>1. h[i] = g[i]
    BY <1>2
  <2>2. CASE i = n
    BY <2>1, <2>2
  <2>3. CASE i # n
    <3>1. i \in 0..(n - 1) /\ i + 1 \in 0..(n + 1) /\ i + 1 # n + 1
      BY <2>3
    <3>2. h[i + 1] = g[i + 1]
      BY <3>1
    <3> QED
      BY <3>1, <3>2, <2>1, <1>1
  <2> QED
    BY <2>2, <2>3
<1> HIDE DEF h
<1> QED
  BY ZenonT(60), <1>2, <1>4, <1>5, <1>6 DEF RecursiveTo

LEMMA RecursiveUnique ==
  ASSUME NEW V, NEW c \in V, NEW F \in [Nat -> [V -> V]], NEW n \in Nat, NEW m \in Nat, n <= m,
         NEW g, RecursiveTo(g, n, V, c, F), NEW h, RecursiveTo(h, m, V, c, F)
  PROVE  g[n] = h[n]
<1> DEFINE S == {i \in Nat : i <= n => g[i] = h[i]}
<1>1. 0 \in S
  BY DEF RecursiveTo
<1>2. ASSUME NEW i \in Nat, i <= n => g[i] = h[i], i + 1 <= n PROVE g[i + 1] = h[i + 1]
  <2>1. i \in 0..(n - 1) /\ i \in 0..(m - 1) /\ g[i] = h[i]
    BY <1>2
  <2> QED
    BY <2>1 DEF RecursiveTo
<1>3. ASSUME NEW i \in S \cap Nat PROVE i + 1 \in S
  BY <1>2
<1> HIDE DEF S
<1>4. Nat \subseteq S
  BY <1>1, <1>3, Induction
<1> QED
  BY <1>4 DEF S

\* g is defined on all of them.
IsRecursive(g, V, c, F) ==
  g \in [Nat -> V] /\ g[0] = c /\ \A n \in Nat : g[n + 1] = F[n][g[n]]

\* What a recursive definition over the naturals defines exists, and has its type.
LEMMA Recursion ==
  ASSUME NEW V, NEW c \in V, NEW F \in [Nat -> [V -> V]]
  PROVE  \E g : IsRecursive(g, V, c, F)
<1> DEFINE One(n) == CHOOSE g : RecursiveTo(g, n, V, c, F)
           Whole == [n \in Nat |-> One(n)[n]]
           S == {n \in Nat : \E g : RecursiveTo(g, n, V, c, F)}
<1>1. 0 \in S
  <2>1. RecursiveTo([i \in 0..0 |-> c], 0, V, c, F)
    BY DEF RecursiveTo
  <2> QED
    BY <2>1
<1>2. ASSUME NEW n \in S \cap Nat PROVE n + 1 \in S
  BY RecursiveNext
<1>3. Nat \subseteq S
  <2> HIDE DEF S
  <2> QED
    BY <1>1, <1>2, Induction
<1>4. \A n \in Nat : RecursiveTo(One(n), n, V, c, F)
  <2>1. ASSUME NEW n \in Nat PROVE RecursiveTo(One(n), n, V, c, F)
    <3>1. \E g : RecursiveTo(g, n, V, c, F)
      BY <1>3
    <3> QED
      BY <3>1
  <2> QED
    BY <2>1
<1> HIDE DEF S, One
<1>5. ASSUME NEW n \in Nat PROVE One(n)[n] \in V
  <2>1. RecursiveTo(One(n), n, V, c, F)
    BY <1>4
  <2> QED
    BY <2>1 DEF RecursiveTo
<1>6. One(0)[0] = c
  BY <1>4 DEF RecursiveTo
<1>7. ASSUME NEW n \in Nat PROVE One(n + 1)[n + 1] = F[n][One(n)[n]]
  <2>1. RecursiveTo(One(n + 1), n + 1, V, c, F) /\ n \in 0..((n + 1) - 1)
    BY <1>4
  <2>2. One(n + 1)[n + 1] = F[n][One(n + 1)[n]]
    BY <2>1 DEF RecursiveTo
  <2>3. RecursiveTo(One(n), n, V, c, F) /\ n + 1 \in Nat /\ n <= n + 1
    BY <1>4
  <2>4. One(n)[n] = One(n + 1)[n]
    BY <2>1, <2>3, RecursiveUnique
  <2> QED
    BY <2>2, <2>4
<1>8. IsRecursive(Whole, V, c, F)
  BY <1>5, <1>6, <1>7 DEF IsRecursive
<1> HIDE DEF Whole
<1> QED
  BY <1>8

\* So does what one defines up to some number.
IsDefinedTo(g, n, V, c, F) ==
  g \in [0..n -> V] /\ g = [k \in 0..n |-> IF k = 0 THEN c ELSE F[k][g[k - 1]]]

LEMMA RecursionTo ==
  ASSUME NEW V, NEW c \in V, NEW n \in Nat, NEW F \in [1..n -> [V -> V]]
  PROVE  \E g : IsDefinedTo(g, n, V, c, F)
<1> DEFINE Whole == [k \in Nat |-> IF k + 1 \in 1..n THEN F[k + 1] ELSE [x \in V |-> x]]
<1>1. Whole \in [Nat -> [V -> V]] /\ \A k \in Nat : k + 1 \in 1..n => Whole[k] = F[k + 1]
  OBVIOUS
<1> HIDE DEF Whole
<1>2. PICK f : IsRecursive(f, V, c, Whole)
  BY <1>1, Recursion
<1>3. f \in [Nat -> V] /\ f[0] = c /\ \A k \in Nat : f[k + 1] = Whole[k][f[k]]
  BY <1>2 DEF IsRecursive
<1> DEFINE g == [k \in 0..n |-> f[k]]
<1>4. g \in [0..n -> V]
  BY <1>3
<1>5. ASSUME NEW k \in 0..n PROVE g[k] = IF k = 0 THEN c ELSE F[k][g[k - 1]]
  <2>1. CASE k = 0
    BY <2>1, <1>3
  <2>2. CASE k # 0
    <3>1. k - 1 \in Nat /\ (k - 1) + 1 = k /\ k \in 1..n /\ k - 1 \in 0..n
      BY <2>2
    <3>2. f[k] = Whole[k - 1][f[k - 1]] /\ Whole[k - 1] = F[k]
      BY <3>1, <1>1, <1>3
    <3> QED
      BY <3>1, <3>2, <2>2
  <2> QED
    BY <2>1, <2>2
<1> HIDE DEF g
<1>6. g = [k \in 0..n |-> g[k]]
  BY <1>4
<1>7. g = [k \in 0..n |-> IF k = 0 THEN c ELSE F[k][g[k - 1]]]
  BY <1>5, <1>6
<1> QED
  BY <1>4, <1>7 DEF IsDefinedTo

-----------------------------------------------------------------------------
(* Sequences. *)

LEMMA FunctionIsSeq ==
  ASSUME NEW S, NEW n \in Nat, NEW f \in [1..n -> S]
  PROVE  f \in Seq(S) /\ Len(f) = n /\ DOMAIN f = 1..n
OBVIOUS

LEMMA SeqIs ==
  ASSUME NEW S, NEW s \in Seq(S)
  PROVE  Len(s) \in Nat /\ DOMAIN s = 1..Len(s) /\ \A i \in 1..Len(s) : s[i] \in S
BY LenProperties, ElementOfSeq

LEMMA TimesIs ==
  ASSUME NEW S, NEW n \in Nat, NEW x \in S
  PROVE  Times(n, x) \in Seq(S) /\ Len(Times(n, x)) = n /\ \A i \in 1..n : Times(n, x)[i] = x
BY DEF Times

LEMMA OneIs ==
  ASSUME NEW S, NEW x \in S
  PROVE  <<x>> \in Seq(S) /\ Len(<<x>>) = 1 /\ <<x>>[1] = x
OBVIOUS

LEMMA PieceIs ==
  ASSUME NEW S, NEW s \in Seq(S), NEW m \in 1..(Len(s) + 1), NEW n \in (m - 1)..Len(s)
  PROVE  /\ SubSeq(s, m, n) \in Seq(S) /\ Len(SubSeq(s, m, n)) = n - m + 1
         /\ \A i \in 1..(n - m + 1) : SubSeq(s, m, n)[i] = s[m + i - 1]
<1>1. Len(s) \in Nat /\ \A i \in m..n : s[i] \in S
  BY SeqIs
<1>2. m \in Int /\ n \in Int /\ (n < m => n - m + 1 = 0)
  BY <1>1
<1> QED
  BY <1>1, <1>2, SubSeqProperties

\* The elements of a sequence after the first from ones, up to another.
LEMMA PartIs ==
  ASSUME NEW S, NEW s, NEW from \in Nat, NEW to \in Nat, from <= to, \A i \in (from + 1)..to : s[i] \in S
  PROVE  /\ SubSeq(s, from + 1, to) \in Seq(S) /\ Len(SubSeq(s, from + 1, to)) = to - from
         /\ \A i \in 1..(to - from) : SubSeq(s, from + 1, to)[i] = s[from + i]
<1> DEFINE m == from + 1
<1>1. m \in Int /\ to \in Int /\ \A i \in m..to : s[i] \in S
  OBVIOUS
<1>2. (IF m <= to THEN to - m + 1 ELSE 0) = to - from /\ to - m + 1 = to - from
      /\ \A i \in 1..(to - from) : m + i - 1 = from + i
  OBVIOUS
<1>3. SubSeq(s, from + 1, to) = SubSeq(s, m, to)
  OBVIOUS
<1> HIDE DEF m
<1>4. /\ SubSeq(s, m, to) \in Seq(S)
      /\ Len(SubSeq(s, m, to)) = IF m <= to THEN to - m + 1 ELSE 0
      /\ \A i \in 1..(to - m + 1) : SubSeq(s, m, to)[i] = s[m + i - 1]
  BY <1>1, SubSeqProperties
<1> QED
  BY <1>2, <1>3, <1>4

\* The first elements of a sequence.
LEMMA FirstIs ==
  ASSUME NEW S, NEW s, NEW n \in Nat, \A i \in 1..n : s[i] \in S
  PROVE  /\ SubSeq(s, 1, n) \in Seq(S) /\ Len(SubSeq(s, 1, n)) = n
         /\ \A i \in 1..n : SubSeq(s, 1, n)[i] = s[i]
<1> DEFINE zero == 0
<1>1. zero \in Nat /\ zero <= n /\ zero + 1 = 1 /\ n - zero = n /\ \A i \in 1..n : zero + i = i
  OBVIOUS
<1> HIDE DEF zero
<1>2. /\ SubSeq(s, zero + 1, n) \in Seq(S) /\ Len(SubSeq(s, zero + 1, n)) = n - zero
      /\ \A i \in 1..(n - zero) : SubSeq(s, zero + 1, n)[i] = s[zero + i]
  BY <1>1, PartIs
<1> QED
  BY <1>1, <1>2

LEMMA PutIs ==
  ASSUME NEW S, NEW c \in Seq(S), NEW at \in Int, NEW s \in Seq(S)
  PROVE  /\ Put(c, at, s) \in Seq(S) /\ Len(Put(c, at, s)) = Len(c)
         /\ \A i \in 1..Len(c) :
              Put(c, at, s)[i] = IF i - at \in 1..Len(s) THEN s[i - at] ELSE c[i]
<1> DEFINE e(i) == IF i - at \in 1..Len(s) THEN s[i - at] ELSE c[i]
<1>1. Len(c) \in Nat /\ DOMAIN c = 1..Len(c) /\ DOMAIN s = 1..Len(s)
  BY SeqIs
<1>2. Put(c, at, s) = [i \in 1..Len(c) |-> e(i)]
  BY <1>1 DEF Put
<1>3. \A i \in 1..Len(c) : e(i) \in S
  BY SeqIs
<1> HIDE DEF e
<1>4. [i \in 1..Len(c) |-> e(i)] \in [1..Len(c) -> S]
  BY <1>3
<1>5. Put(c, at, s) \in Seq(S) /\ Len(Put(c, at, s)) = Len(c)
  BY <1>1, <1>2, <1>4, FunctionIsSeq
<1>6. \A i \in 1..Len(c) : Put(c, at, s)[i] = e(i)
  BY <1>2
<1> QED
  BY <1>5, <1>6 DEF e

LEMMA LesserIs ==
  ASSUME NEW m \in Nat, NEW n \in Nat
  PROVE  /\ Lesser(m, n) \in 0..n /\ Lesser(m, n) <= m /\ (Lesser(m, n) = m \/ Lesser(m, n) = n)
         /\ (Lesser(m, n) < n <=> m < n)
BY DEF Lesser

LEMMA GreaterIs ==
  ASSUME NEW m \in Int, NEW n \in Int
  PROVE  /\ Greater(m, n) \in Int /\ Greater(m, n) >= m /\ Greater(m, n) >= n
         /\ (Greater(m, n) = m \/ Greater(m, n) = n)
BY DEF Greater

LEMMA JoinIs ==
  ASSUME NEW S, NEW a \in Seq(S), NEW b \in Seq(S), NEW c \in Seq(S)
  PROVE  /\ a \o b \o c \in Seq(S) /\ Len(a \o b \o c) = Len(a) + Len(b) + Len(c)
         /\ \A i \in 1..(Len(a) + Len(b) + Len(c)) :
              (a \o b \o c)[i] = IF i <= Len(a) THEN a[i]
                                 ELSE IF i <= Len(a) + Len(b) THEN b[i - Len(a)]
                                 ELSE c[i - (Len(a) + Len(b))]
<1>1. Len(a) \in Nat /\ Len(b) \in Nat /\ Len(c) \in Nat
  BY SeqIs
<1>2. /\ a \o b \in Seq(S) /\ Len(a \o b) = Len(a) + Len(b)
      /\ \A i \in 1..(Len(a) + Len(b)) : (a \o b)[i] = IF i <= Len(a) THEN a[i] ELSE b[i - Len(a)]
  BY ConcatProperties
<1> DEFINE d == a \o b
<1> HIDE DEF d
<1>3. /\ d \o c \in Seq(S) /\ Len(d \o c) = Len(d) + Len(c)
      /\ \A i \in 1..(Len(d) + Len(c)) : (d \o c)[i] = IF i <= Len(d) THEN d[i] ELSE c[i - Len(d)]
  <2>1. d \in Seq(S)
    BY <1>2 DEF d
  <2> QED
    BY <2>1, ConcatProperties
<1>4. ASSUME NEW i \in 1..(Len(a) + Len(b) + Len(c))
      PROVE  (d \o c)[i] = IF i <= Len(a) THEN a[i]
                           ELSE IF i <= Len(a) + Len(b) THEN b[i - Len(a)]
                           ELSE c[i - (Len(a) + Len(b))]
  <2>1. Len(d) = Len(a) + Len(b) /\ i \in 1..(Len(d) + Len(c))
    BY <1>2 DEF d
  <2>2. (d \o c)[i] = IF i <= Len(a) + Len(b) THEN d[i] ELSE c[i - (Len(a) + Len(b))]
    BY <2>1, <1>3
  <2>3. i <= Len(a) + Len(b) => d[i] = IF i <= Len(a) THEN a[i] ELSE b[i - Len(a)]
    BY <1>1, <1>2 DEF d
  <2>4. i <= Len(a) => i <= Len(a) + Len(b)
    BY <1>1
  <2> QED
    BY <2>2, <2>3, <2>4
<1> QED
  BY <1>2, <1>3, <1>4 DEF d

\* A sequence in which s takes the place of cut elements after the first at.
Exchanged(e, at, cut, s) == SubSeq(e, 1, at) \o s \o SubSeq(e, at + cut + 1, Len(e))

LEMMA ExchangedIs ==
  ASSUME NEW S, NEW e \in Seq(S), NEW at \in 0..Len(e), NEW cut \in 0..(Len(e) - at), NEW s \in Seq(S)
  PROVE  /\ Exchanged(e, at, cut, s) \in Seq(S)
         /\ Len(Exchanged(e, at, cut, s)) = Len(e) - cut + Len(s)
         /\ \A i \in 1..(Len(e) - cut + Len(s)) :
              Exchanged(e, at, cut, s)[i] = IF i <= at THEN e[i]
                                           ELSE IF i <= at + Len(s) THEN s[i - at] ELSE e[i - Len(s) + cut]
<1> DEFINE sz == Len(e)
           n == Len(s)
           m == at + cut + 1
           a == SubSeq(e, 1, at)
           b == SubSeq(e, m, sz)
           t == a \o s \o b
<1>1. sz \in Nat /\ n \in Nat /\ at \in 0..sz /\ cut \in 0..(sz - at)
  BY SeqIs
<1>2. Exchanged(e, at, cut, s) = t
  BY DEF Exchanged
<1> HIDE DEF sz, n
<1>3. a \in Seq(S) /\ Len(a) = at /\ \A i \in 1..at : a[i] = e[i]
  <2> DEFINE one == 1
  <2>1. one \in 1..(sz + 1) /\ at \in (one - 1)..sz /\ at - one + 1 = at /\ \A i \in 1..at : one + i - 1 = i
    BY <1>1
  <2> HIDE DEF one
  <2>2. /\ SubSeq(e, one, at) \in Seq(S) /\ Len(SubSeq(e, one, at)) = at - one + 1
        /\ \A i \in 1..(at - one + 1) : SubSeq(e, one, at)[i] = e[one + i - 1]
    BY <2>1, PieceIs DEF sz
  <2>3. a = SubSeq(e, one, at)
    BY DEF one
  <2> HIDE DEF a
  <2> QED
    BY <2>1, <2>2, <2>3
<1>4. b \in Seq(S) /\ Len(b) = sz - at - cut /\ \A i \in 1..(sz - at - cut) : b[i] = e[at + cut + i]
  <2>1. /\ m \in 1..(sz + 1) /\ sz \in (m - 1)..sz /\ sz - m + 1 = sz - at - cut
        /\ \A i \in 1..(sz - at - cut) : m + i - 1 = at + cut + i
    BY <1>1
  <2> HIDE DEF m
  <2>2. /\ SubSeq(e, m, sz) \in Seq(S) /\ Len(SubSeq(e, m, sz)) = sz - m + 1
        /\ \A i \in 1..(sz - m + 1) : SubSeq(e, m, sz)[i] = e[m + i - 1]
    BY <2>1, PieceIs DEF sz
  <2> HIDE DEF b
  <2>3. b = SubSeq(e, m, sz)
    BY DEF b
  <2> QED
    BY <2>1, <2>2, <2>3
<1> HIDE DEF a, b
<1>5. /\ t \in Seq(S) /\ Len(t) = Len(a) + Len(s) + Len(b)
      /\ \A i \in 1..(Len(a) + Len(s) + Len(b)) :
           t[i] = IF i <= Len(a) THEN a[i]
                  ELSE IF i <= Len(a) + Len(s) THEN s[i - Len(a)]
                  ELSE b[i - (Len(a) + Len(s))]
  <2> HIDE DEF m
  <2>1. a \in Seq(S) /\ b \in Seq(S)
    BY <1>3, <1>4
  <2>2. /\ a \o s \o b \in Seq(S) /\ Len(a \o s \o b) = Len(a) + Len(s) + Len(b)
        /\ \A i \in 1..(Len(a) + Len(s) + Len(b)) :
             (a \o s \o b)[i] = IF i <= Len(a) THEN a[i]
                                ELSE IF i <= Len(a) + Len(s) THEN s[i - Len(a)]
                                ELSE b[i - (Len(a) + Len(s))]
    BY <2>1, JoinIs
  <2> QED
    BY <2>2
<1> HIDE DEF t
<1>6. Len(a) + Len(s) + Len(b) = sz - cut + n
  BY SMTT(30), <1>1, <1>3, <1>4 DEF n
<1>7. ASSUME NEW i \in 1..(sz - cut + n)
      PROVE  t[i] = IF i <= at THEN e[i] ELSE IF i <= at + n THEN s[i - at] ELSE e[i - n + cut]
  <2>1. t[i] = IF i <= at THEN a[i] ELSE IF i <= at + n THEN s[i - at] ELSE b[i - (at + n)]
    BY <1>3, <1>5, <1>6 DEF n
  <2>2. i <= at => i \in 1..at
    BY <1>1
  <2>3. ~(i <= at) /\ ~(i <= at + n) =>
          i - (at + n) \in 1..(sz - at - cut) /\ at + cut + (i - (at + n)) = i - n + cut
    BY <1>1
  <2> QED
    BY <2>1, <2>2, <2>3, <1>3, <1>4
<1> QED
  BY <1>2, <1>5, <1>6, <1>7 DEF sz, n

=============================================================================

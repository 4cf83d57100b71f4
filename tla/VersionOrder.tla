------------------------------ MODULE VersionOrder ------------------------------
(***************************************************************************)
(* How versions of plg compare, and the precedence semantic versioning     *)
(* gives them.  An identifier is a sequence of tokens, numbered so that    *)
(* they compare as their characters.                                       *)
(***************************************************************************)
EXTENDS Integers, Sequences

Hyphen == 4
Digit == 10..19
Letter == 20..45
Alphanumeric == Digit \cup Letter \cup {Hyphen}

IsNumeric(id) == \A i \in DOMAIN id : id[i] \in Digit

-----------------------------------------------------------------------------
(* Comparing. *)

\* The first of the differences, or rest.
FirstDifference(diffs, rest) ==
  LET differ == {i \in DOMAIN diffs : diffs[i] # 0}
  IN  IF differ = {} THEN rest
      ELSE diffs[CHOOSE i \in differ : \A j \in differ : i <= j]

Both(s, t) == DOMAIN s \cap DOMAIN t
Compare(s, t, rest) == FirstDifference([i \in Both(s, t) |-> s[i] - t[i]], rest)

CompareNumerically_AsText(x, y) == Compare(x, y, Len(x) - Len(y))
CompareNumerically(x, y) == IF Len(x) # Len(y) THEN Len(x) - Len(y) ELSE Compare(x, y, 0)

CompareIdentifier(x, y) ==
  CASE IsNumeric(x) /\ IsNumeric(y) -> CompareNumerically(x, y)
    [] ~IsNumeric(x) /\ ~IsNumeric(y) -> Compare(x, y, Len(x) - Len(y))
    [] OTHER -> IF IsNumeric(x) THEN -1 ELSE 1

ComparePrerelease(v, w) ==
  IF (v.ids = <<>>) # (w.ids = <<>>) THEN Len(w.ids) - Len(v.ids)
  ELSE FirstDifference([i \in Both(v.ids, w.ids) |-> CompareIdentifier(v.ids[i], w.ids[i])],
                       Len(v.ids) - Len(w.ids))

CompareCore(v, w) == Compare(v.core, w.core, 0)
CompareParsed(v, w) ==
  IF CompareCore(v, w) # 0 THEN CompareCore(v, w) ELSE ComparePrerelease(v, w)

-----------------------------------------------------------------------------
(* Precedence, item 11 of semver.org: which of two versions comes first.     *)

\* The versions the parser makes: no number among the identifiers begins with a
\* zero, but zero itself, which is what CompareNumerically rests on.
Identifiers ==
  {id \in Seq(Alphanumeric) :
     id # <<>> /\ (IsNumeric(id) /\ Len(id) > 1 => id[1] # 10)}
IsVersion(v) == v.core \in [1..3 -> Nat] /\ v.ids \in Seq(Identifiers)

\* The number that is written as id.
NumberIn(id) ==
  LET upto[k \in 0..Len(id)] == IF k = 0 THEN 0 ELSE 10 * upto[k - 1] + (id[k] - 10)
  IN  upto[Len(id)]

\* s comes before t: it is where t goes on, or lower in the first place they differ.
Lexically(s, t, IsLower(_, _)) ==
  \/ Len(s) < Len(t) /\ \A i \in DOMAIN s : s[i] = t[i]
  \/ \E i \in DOMAIN s \cap DOMAIN t : (\A j \in 1..(i - 1) : s[j] = t[j]) /\ IsLower(s[i], t[i])

LowerIdentifier(x, y) ==
  \/ IsNumeric(x) /\ ~IsNumeric(y)
  \/ IsNumeric(x) /\ IsNumeric(y) /\ NumberIn(x) < NumberIn(y)
  \/ ~IsNumeric(x) /\ ~IsNumeric(y) /\ Lexically(x, y, <)

Lower(v, w) ==
  \/ Lexically(v.core, w.core, <)
  \/ /\ v.core = w.core /\ v.ids # <<>>
     /\ w.ids = <<>> \/ Lexically(v.ids, w.ids, LowerIdentifier)

=============================================================================

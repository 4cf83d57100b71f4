--------------------------------- MODULE Cells ---------------------------------
(***************************************************************************)
(* The cells the containers of plg keep their elements in, each raw or     *)
(* holding an element.  A call in progress has its cells, and how many of  *)
(* them it counts as elements.  Copying an element, allocating and         *)
(* advancing an input iterator may throw.                                  *)
(*                                                                         *)
(* Elements of a type with nothrowMove are moved without a throw and leave *)
(* Gone behind; elements of any other type are copied where the code says  *)
(* std::move or move_if_noexcept.                                          *)
(***************************************************************************)
EXTENDS Throwing, Places

CONSTANT MaxSize  \* max_size(); of an inplace_vector, capacity() too

CellsAssumption ==
  /\ ThrowingAssumption
  /\ Item \cap Nat = {}  \* as an argument, a number refers to an element
  /\ MaxSize \in Nat

VARIABLE nothrowMove  \* of the element type

\* One step for each cell, until the fuel is used up.
Write(o, at, s) ==
  LET n == Lesser(o.left, Len(s))
  IN  [o EXCEPT !.cells = Put(@, at, SubSeq(s, 1, n)), !.left = @ - n, !.threw = n < Len(s)]

\* A transaction: what was constructed when it ends is in the container.
ConstructAtEnd(o, s) ==
  [Write(o, o.size, s) EXCEPT !.size = @ + Lesser(o.left, Len(s))]

DestructAtEnd(o, n) == [o EXCEPT !.cells = Put(@, n, Times(o.size - n, Raw)), !.size = n]

\* From a range: a throw destroys what was constructed, before the transaction ends.
ConstructRange(o, s) ==
  LET built == ConstructAtEnd(o, s)
  IN  IF built.threw THEN DestructAtEnd(built, o.size) ELSE built

\* std::move of the elements at the places of from, in their order.
MoveAll(o, from, by) ==
  LET n == IF nothrowMove THEN Len(from) ELSE Lesser(o.left, Len(from))
      Step(c, i) == IF nothrowMove THEN [c EXCEPT ![i + by] = c[i], ![i] = Gone]
                                   ELSE [c EXCEPT ![i + by] = c[i]]
      moved[k \in 0..n] == IF k = 0 THEN o.cells ELSE Step(moved[k - 1], from[k])
  IN  [o EXCEPT !.cells = moved[n],
                !.left = IF nothrowMove THEN @ ELSE @ - n,
                !.threw = n < Len(from)]

\* erase: what is behind the n elements after at moves down, and as many end.
EraseRange(o, at, n) ==
  LET from == [i \in 1..(o.size - at - n) |-> at + n + i]
  IN  IF n = 0 THEN o
      ELSE Then(MoveAll(o, from, -n), LAMBDA q : DestructAtEnd(q, o.size - n))

\* std::rotate: the elements behind the first old go before those behind the
\* first at.  Its swaps throw for a type whose moves do.
Rotate(o, at, old) ==
  IF ~nothrowMove /\ o.left = 0 /\ at < old /\ old < o.size THEN Throw(o)
  ELSE [o EXCEPT !.cells = Put(@, at, SubSeq(@, old + 1, o.size) \o SubSeq(@, at + 1, old))]

\* The construction of an element from an rvalue.
Moved(o) == IF nothrowMove THEN [o EXCEPT !.left = @ + 1] ELSE o

\* Elements move over to other cells and end in the old ones, or a throw in the
\* middle destroys the new ones.
Relocates(o, n) == nothrowMove \/ o.left >= n
Relocated(o, n) == IF nothrowMove THEN o.left ELSE o.left - n

=============================================================================

----------------------------- MODULE InplaceVector -----------------------------
(***************************************************************************)
(* plg::inplace_vector, used where the library has no std::inplace_vector: *)
(* its cells lie inside the object, MaxSize of them, of which the first    *)
(* size_ hold its elements.  What does not fit throws bad_alloc; what is   *)
(* inserted is constructed at the end and rotated into its place.          *)
(***************************************************************************)
EXTENDS Cells

InplaceVectorAssumption == CellsAssumption

VARIABLES
  data,  \* data_
  count,   \* size_
  stretched,  \* a resize has counted more elements than there are
  inplaceCall    \* the last call, as in Container

inplaceVars == <<nothrowMove, data, count, stretched, inplaceCall>>

\* size_ may be past the cells.
InplaceElements == SubSeq(data, 1, Lesser(count, MaxSize))
InplaceContainer == INSTANCE Container WITH items <- InplaceElements, call <- inplaceCall

InplaceInit ==
  /\ nothrowMove \in BOOLEAN
  /\ data = Times(MaxSize, Raw)
  /\ count = 0
  /\ stretched = FALSE
  /\ inplaceCall = InplaceContainer!NoCall

\* Enough for any call to come to its end.
InplaceFuel == 0..(2 * MaxSize + 1)

StartInplace(fuel) == [cells |-> data, size |-> count, left |-> fuel, threw |-> FALSE]

\* An argument is a value, or a reference to an element.
InplaceArg == Item \cup 1..count
InplaceDeref(x) == IF x \in DOMAIN data THEN data[x] ELSE x

-----------------------------------------------------------------------------
(* Operations. *)

InplaceEmplaceBack_PastEnd(o, x) ==
  IF o.size > MaxSize THEN Throw(o) ELSE ConstructAtEnd(o, <<x>>)
InplaceEmplaceBack(o, x) ==
  IF o.size = MaxSize THEN Throw(o) ELSE ConstructAtEnd(o, <<x>>)

InplacePushAll(o, s) ==
  LET pushed[k \in 0..Len(s)] ==
        IF k = 0 THEN o ELSE Then(pushed[k - 1], LAMBDA q : InplaceEmplaceBack(q, s[k]))
  IN  pushed[Len(s)]

InplaceEmplace_AtEnd(o, at, x) == InplaceEmplaceBack(o, x)
InplaceEmplace(o, at, x) ==
  Then(InplaceEmplaceBack(o, x), LAMBDA q : Rotate(q, at, o.size))

InplaceInsertCount(o, at, n, x) ==
  IF MaxSize - o.size < n THEN Throw(o)
  ELSE Then(ConstructRange(o, Times(n, x)), LAMBDA q : Rotate(q, at, o.size))

InplaceInsertRange(o, at, s) ==
  IF MaxSize - o.size < Len(s) THEN Throw(o)
  ELSE Then(ConstructRange(o, s), LAMBDA q : Rotate(q, at, o.size))

\* From input iterators: what was pushed before a throw stays at the end.
InplaceInsertInput(o, at, s) == Then(InplacePushAll(o, s), LAMBDA q : Rotate(q, at, o.size))

InplaceAssign(o, s) ==
  CASE Len(s) > MaxSize -> Throw(o)
    [] Len(s) <= o.size -> Then(Write(o, 0, s), LAMBDA q : DestructAtEnd(q, Len(s)))
    [] OTHER -> Then(Write(o, 0, SubSeq(s, 1, o.size)),
                     LAMBDA q : ConstructRange(q, SubSeq(s, o.size + 1, Len(s))))

\* resize sets the size to the sum of the old and the new one when it does not shrink.
ResizeTo(o, n, x) ==
  CASE n > MaxSize -> Throw(o)
    [] n < o.size -> DestructAtEnd(o, n)
    [] OTHER -> Then(ConstructRange(o, Times(n - o.size, x)),
                     LAMBDA q : [q EXCEPT !.size = o.size + n])

\* A constructor; what it constructed is destroyed when it throws.
InplaceConstructed(fuel, s, counted) ==
  LET none == [StartInplace(fuel) EXCEPT !.cells = Times(MaxSize, Raw), !.size = 0]
      built == CASE ~counted -> InplacePushAll(none, s)
                 [] counted /\ Len(s) > MaxSize -> Throw(none)
                 [] OTHER -> ConstructRange(none, s)
  IN  IF built.threw THEN Throw(none) ELSE built

\* operator= of the storage, from another vector.
InplaceAssignFrom(o, s) ==
  IF Len(s) <= o.size THEN Then(Write(o, 0, s), LAMBDA q : DestructAtEnd(q, Len(s)))
  ELSE Then(Write(o, 0, SubSeq(s, 1, o.size)),
            LAMBDA q : ConstructRange(q, SubSeq(s, o.size + 1, Len(s))))

\* swap exchanges the common elements and moves the rest of the longer vector.
SwapWith(o, s) ==
  LET own == SubSeq(o.cells, 1, o.size)
      common == Lesser(Len(own), Len(s))
      cost == 3 * common + Greater(Len(own), Len(s)) - common
  IN  CASE Relocates(o, cost) ->
             [o EXCEPT !.cells = s \o Times(MaxSize - Len(s), Raw), !.size = Len(s)]
        [] OTHER -> Throw([o EXCEPT !.cells = Put(@, 0, SubSeq(s, 1, Lesser(common, o.left \div 3)))])

-----------------------------------------------------------------------------
(* Actions. *)

InplaceInput(n) == UNION {[1..k -> Value] : k \in 0..n}

InplaceLeft(o, at, cut, s, strong) ==
  /\ data' = o.cells
  /\ count' = o.size
  /\ inplaceCall' = [at |-> at, cut |-> cut, put |-> s, strong |-> strong, threw |-> o.threw]
  /\ UNCHANGED nothrowMove

InplaceEnded(o, at, cut, s, strong) == InplaceLeft(o, at, cut, s, strong) /\ stretched' = FALSE

InplacePushBack == \E fuel \in InplaceFuel, x \in InplaceArg :
  LET y == InplaceDeref(x)
  IN  InplaceEnded(InplaceEmplaceBack(StartInplace(fuel), y), count, 0, <<y>>, TRUE)

\* try_emplace_back tells by nullptr that the vector is full.
TryPushBack == \E fuel \in InplaceFuel, x \in InplaceArg :
  LET y == InplaceDeref(x)
  IN  IF count = MaxSize THEN InplaceEnded(StartInplace(fuel), count, 0, <<>>, TRUE)
      ELSE InplaceEnded(ConstructAtEnd(StartInplace(fuel), <<y>>), count, 0, <<y>>, TRUE)

InplaceInsertOne == \E fuel \in InplaceFuel, at \in 0..count, x \in InplaceArg :
  LET y == InplaceDeref(x)
  IN  InplaceEnded(InplaceEmplace(StartInplace(fuel), at, y), at, 0, <<y>>,
                   nothrowMove \/ at = count)

InplaceInsertCopies ==
  \E fuel \in InplaceFuel, at \in 0..count, n \in 0..MaxSize, x \in InplaceArg :
    LET y == InplaceDeref(x)
    IN  InplaceEnded(InplaceInsertCount(StartInplace(fuel), at, n, y), at, 0, Times(n, y),
                     nothrowMove \/ at = count)

InplaceInsertForward == \E fuel \in InplaceFuel, at \in 0..count, s \in InplaceInput(MaxSize) :
  InplaceEnded(InplaceInsertRange(StartInplace(fuel), at, s), at, 0, s,
               nothrowMove \/ at = count)

InplaceInsertStream == \E fuel \in InplaceFuel, at \in 0..count, s \in InplaceInput(MaxSize) :
  InplaceEnded(InplaceInsertInput(StartInplace(fuel), at, s), at, 0, s, FALSE)

InplaceErase == \E fuel \in InplaceFuel, at \in 0..count : \E n \in 0..(count - at) :
  InplaceEnded(EraseRange(StartInplace(fuel), at, n), at, n, <<>>, at + n = count)

\* pop_back and clear
InplaceTruncate == \E n \in {0, count - 1} \cap 0..count :
  InplaceEnded(DestructAtEnd(StartInplace(0), n), n, count - n, <<>>, TRUE)

InplaceResize == \E fuel \in InplaceFuel, n \in 0..(MaxSize + 1), x \in Value :
  LET o == ResizeTo(StartInplace(fuel), n, x)
  IN  /\ InplaceLeft(o, Lesser(n, count), count - Lesser(n, count),
                     Times(Greater(0, n - count), x), TRUE)
      /\ stretched' = (~o.threw /\ 0 < count /\ count <= n)

InplaceAssignOp == \E fuel \in InplaceFuel, s \in InplaceInput(MaxSize + 1) :
  InplaceEnded(InplaceAssign(StartInplace(fuel), s), 0, count, s, Len(s) > MaxSize)

AssignOther == \E fuel \in InplaceFuel, s \in InplaceInput(MaxSize) :
  InplaceEnded(InplaceAssignFrom(StartInplace(fuel), s), 0, count, s, FALSE)

InplaceSwap == \E fuel \in InplaceFuel, s \in InplaceInput(MaxSize) :
  InplaceEnded(SwapWith(StartInplace(fuel), s), 0, count, s, nothrowMove)

\* The vector ends and another is constructed in its place.
InplaceCreate == \E fuel \in InplaceFuel, s \in InplaceInput(MaxSize + 1), counted \in BOOLEAN :
  InplaceEnded(InplaceConstructed(fuel, s, counted), 0, count, s, FALSE)

\* What a call makes of a stretched vector, its destructor included, is undefined.
StayStretched == stretched /\ UNCHANGED inplaceVars

InplaceNext ==
  \/ /\ ~stretched
     /\ \/ InplacePushBack \/ TryPushBack \/ InplaceInsertOne \/ InplaceInsertCopies
        \/ InplaceInsertForward \/ InplaceInsertStream \/ InplaceErase \/ InplaceTruncate
        \/ InplaceResize \/ InplaceAssignOp \/ AssignOther \/ InplaceSwap \/ InplaceCreate
  \/ StayStretched

InplaceSpec == InplaceInit /\ [][InplaceNext]_inplaceVars

-----------------------------------------------------------------------------
(* Properties. *)

InplaceIsWhole ==
  /\ data \in [1..MaxSize -> Item \cup {Raw}]
  /\ count \in 0..MaxSize
  /\ \A i \in 1..MaxSize : data[i] = Raw <=> i > count

\* size_ is the sum of the n elements there are and of those there were before.
InplaceIsStretched ==
  /\ data \in [1..MaxSize -> Item \cup {Raw}]
  /\ \E n \in 1..MaxSize :
       /\ count \in (n + 1)..(2 * n)
       /\ \A i \in 1..MaxSize : data[i] = Raw <=> i > n

\* The first size_ cells hold elements and the others none, whatever threw and
\* wherever a rotation stopped: the destructor destroys what was constructed.  One
\* case is excepted, and no other: a resize that keeps or grows a vector with
\* elements counts more than there are, even past its cells.
InplaceHoldsItsElements == IF stretched THEN InplaceIsStretched ELSE InplaceIsWhole

\* Every call of the vector does to its elements what Container promises, but for
\* the resize that stretches it.
InplaceIsContainer ==
  InplaceContainer!Init /\ [][InplaceContainer!Next \/ stretched']_<<InplaceElements, inplaceCall>>

=============================================================================

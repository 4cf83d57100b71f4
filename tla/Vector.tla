-------------------------------- MODULE Vector --------------------------------
(***************************************************************************)
(* plg::vector: the cells of its buffer, [begin_, cap_), of which the      *)
(* first size hold its elements.                                           *)
(***************************************************************************)
EXTENDS SplitBuffer

CONSTANT MaxCount  \* bound on the elements one call adds

VectorAssumption == CellsAssumption /\ MaxCount \in Nat

VARIABLES
  cells,  \* the buffer
  size,   \* end_ - begin_
  torn,   \* an insertion that threw left end_ behind cells it had destroyed
  vectorCall    \* the last call, as in Container

vectorVars == <<nothrowMove, cells, size, torn, vectorCall>>

Elements == SubSeq(cells, 1, size)
C == INSTANCE Container WITH items <- Elements, call <- vectorCall

VectorInit ==
  /\ nothrowMove \in BOOLEAN
  /\ cells = <<>>
  /\ size = 0
  /\ torn = FALSE
  /\ vectorCall = C!NoCall

Capacity == Len(cells)

\* Enough for any call to come to its end.
Steps == 0..(2 * MaxSize + 3 * MaxCount + 3)

Current(fuel) == [cells |-> cells, size |-> size, left |-> fuel, threw |-> FALSE]

\* move_range: the elements after at, up to last, move to the back: into raw
\* cells first to last, then over elements last to first.
Shift(o, at, last, by) ==
  LET first == Greater(at, o.size - by) + 1
      up == [i \in 1..(last - first + 1) |-> first + i - 1]
      down == [i \in 1..(first - at - 1) |-> first - i]
      built == MoveAll(o, up, by)
      done == IF nothrowMove THEN Len(up) ELSE o.left - built.left
  IN  Then([built EXCEPT !.size = @ + done], LAMBDA q : MoveAll(q, down, by))

Recommend(o, n) ==
  IF Len(o.cells) >= MaxSize \div 2 THEN MaxSize ELSE Greater(2 * Len(o.cells), n)

Grow(o, at, s) ==
  IF o.size + Len(s) > MaxSize THEN Throw(o)
  ELSE SwapOut(o, Then(Buffer(Recommend(o, o.size + Len(s)), at, o.left),
                       LAMBDA v : BufferConstruct(v, s)), at)

\* counted: from a count and a value, else from a range.
Construct(o, s, counted) == IF counted THEN ConstructAtEnd(o, s) ELSE ConstructRange(o, s)

\* vdeallocate and vallocate, then construction from nothing.
Renew(o, s, counted) ==
  LET none == [o EXCEPT !.cells = <<>>, !.size = 0]
  IN  IF Len(s) > MaxSize \/ o.left = 0 THEN Throw(none)
      ELSE Construct([none EXCEPT !.cells = Times(Recommend(none, Len(s)), Raw),
                                  !.left = @ - 1], s, counted)

-----------------------------------------------------------------------------
(* Operations.  An argument is a value, or a reference to an element. *)

Arg == Item \cup 1..size
Deref(o, x) == IF x \in DOMAIN o.cells THEN o.cells[x] ELSE x

\* A reference follows its element when the elements after at were moved.
Follow_Not(x, at, by) == x
Follow(x, at, by) == IF x \in Nat /\ x > at THEN x + by ELSE x

EmplaceBack(o, x) ==
  IF o.size < Len(o.cells) THEN ConstructAtEnd(o, <<Deref(o, x)>>)
  ELSE Grow(o, o.size, <<Deref(o, x)>>)

\* insert(position, const T&)
InsertCopy(o, at, x) ==
  CASE o.size = Len(o.cells) -> Grow(o, at, <<Deref(o, x)>>)
    [] o.size < Len(o.cells) /\ at = o.size -> ConstructAtEnd(o, <<Deref(o, x)>>)
    [] OTHER -> Then(Shift(o, at, o.size, 1),
                     LAMBDA q : Write(q, at, <<Deref(q, Follow(x, at, 1))>>))

\* insert(position, T&&)
InsertMoved(o, at, x) ==
  CASE o.size = Len(o.cells) -> Grow(Moved(o), at, <<x>>)
    [] o.size < Len(o.cells) /\ at = o.size -> ConstructAtEnd(Moved(o), <<x>>)
    [] OTHER -> Then(Shift(o, at, o.size, 1), LAMBDA q : Write(Moved(q), at, <<x>>))

\* emplace makes its element aside when others have to give way.
EmplaceAt(o, at, x) ==
  CASE o.size = Len(o.cells) -> Grow(o, at, <<Deref(o, x)>>)
    [] o.size < Len(o.cells) /\ at = o.size -> ConstructAtEnd(o, <<Deref(o, x)>>)
    [] OTHER -> IF o.left = 0 THEN Throw(o)
                ELSE InsertMoved([o EXCEPT !.left = @ - 1], at, Deref(o, x))

InsertCount(o, at, n, x) ==
  LET beyond == Greater(0, n - (o.size - at))
  IN  IF n = 0 THEN o
      ELSE IF n > Len(o.cells) - o.size THEN Grow(o, at, Times(n, Deref(o, x)))
      ELSE Then(ConstructAtEnd(o, Times(beyond, Deref(o, x))),
                LAMBDA q : IF beyond = n THEN q
                           ELSE Then(Shift(q, at, o.size, n),
                                     LAMBDA r : Write(r, at, Times(n - beyond,
                                                      Deref(r, Follow(x, at, n))))))

\* From a forward range, which lies outside the vector.
InsertRange(o, at, s) ==
  LET dx == o.size - at
  IN  CASE s = <<>> -> o
        [] Len(s) > Len(o.cells) - o.size -> Grow(o, at, s)
        [] Len(s) <= Len(o.cells) - o.size /\ Len(s) > dx ->
             Then(ConstructRange(o, SubSeq(s, dx + 1, Len(s))),
                  LAMBDA q : Then(Shift(q, at, o.size, Len(s)),
                                  LAMBDA r : Write(r, at, SubSeq(s, 1, dx))))
        [] OTHER -> Then(Shift(o, at, o.size, Len(s)), LAMBDA q : Write(q, at, s))

\* From input iterators: into the spare cells, then into a buffer of their own,
\* then both into a third.  Until what is in the spare cells has moved, a guard
\* destroys it when something throws, and leaves end_ behind it.
InsertInput(o, at, s) ==
  LET spare == Lesser(Len(o.cells) - o.size, Len(s))
      rest == Len(s) - spare
      Guarded(q) == Throw([q EXCEPT !.cells = Put(@, o.size, Times(spare, Raw))])
      Merge(q) ==
        LET v == BufferConstructAll(Buffer(0, 0, q.left), SubSeq(s, spare + 1, Len(s)))
            merged == Buffer(Recommend(q, q.size + rest), at, v.left)
            filled == BufferConstruct([merged EXCEPT !.left = Len(s)], s)
            paid == Relocated(merged, spare)
        IN  CASE v.threw \/ q.size + rest > MaxSize -> Guarded(q)
              [] ~v.threw /\ q.size + rest <= MaxSize
                   /\ (merged.threw \/ ~Relocates(merged, spare)) -> Guarded(q)
              [] OTHER ->
                   IF ~Relocates([left |-> paid], rest) THEN Throw(DestructAtEnd(q, o.size))
                   ELSE SwapOut(DestructAtEnd(q, o.size),
                                [filled EXCEPT !.left = Relocated([left |-> paid], rest)], at)
  IN  Then(ConstructAtEnd(o, SubSeq(s, 1, spare)),
           LAMBDA q : IF rest = 0 THEN Rotate(q, at, o.size) ELSE Merge(q))

\* assign writes over elements, then constructs the rest at the end or destroys
\* what is left.
AssignSized(o, s, counted) ==
  IF Len(s) > Len(o.cells) THEN Renew(o, s, counted)
  ELSE Then(Write(o, 0, SubSeq(s, 1, Lesser(o.size, Len(s)))),
            LAMBDA q : IF Len(s) > o.size
                       THEN Construct(q, SubSeq(s, o.size + 1, Len(s)), counted)
                       ELSE DestructAtEnd(q, Len(s)))

PushAll(o, s) ==
  LET pushed[k \in 0..Len(s)] ==
        IF k = 0 THEN o ELSE Then(pushed[k - 1], LAMBDA q : EmplaceBack(q, s[k]))
  IN  pushed[Len(s)]

\* From input iterators, whose length is not known.
AssignInput(o, s) ==
  Then(Write(o, 0, SubSeq(s, 1, Lesser(o.size, Len(s)))),
       LAMBDA q : IF Len(s) <= o.size THEN DestructAtEnd(q, Len(s))
                  ELSE PushAll(q, SubSeq(s, o.size + 1, Len(s))))

AppendCount(o, n, x) ==
  IF Len(o.cells) - o.size >= n THEN ConstructAtEnd(o, Times(n, Deref(o, x)))
  ELSE Grow(o, o.size, Times(n, Deref(o, x)))

\* A constructor; its guard destroys the vector when it throws.
Constructed(fuel, s, counted) ==
  LET none == [Current(fuel) EXCEPT !.cells = <<>>, !.size = 0]
      built == IF counted THEN IF s = <<>> THEN none
                               ELSE IF Len(s) > MaxSize \/ fuel = 0 THEN Throw(none)
                               ELSE ConstructAtEnd([none EXCEPT !.cells = Times(Len(s), Raw),
                                                                !.left = @ - 1], s)
               ELSE PushAll(none, s)
  IN  IF built.threw THEN [built EXCEPT !.cells = <<>>, !.size = 0] ELSE built

-----------------------------------------------------------------------------
(* Actions. *)

Input == UNION {[1..n -> Value] : n \in 0..MaxCount}

\* The call that put s in the place of cut elements after at has ended as o.
VectorLeft(o, at, cut, s, strong) ==
  /\ cells' = o.cells
  /\ size' = o.size
  /\ vectorCall' = [at |-> at, cut |-> cut, put |-> s, strong |-> strong, threw |-> o.threw]
  /\ UNCHANGED nothrowMove

Becomes(o, at, cut, s, strong) == VectorLeft(o, at, cut, s, strong) /\ torn' = FALSE

\* Growth is strong at either end; so is one element at the end.
Strong(at, n) == (n > Capacity - size /\ at \in {0, size}) \/ (n = 1 /\ at = size)

PushBack == \E fuel \in Steps, x \in Arg :
  Becomes(EmplaceBack(Current(fuel), x), size, 0, <<Deref(Current(0), x)>>, TRUE)

InsertOne == \E fuel \in Steps, at \in 0..size, x \in Arg :
  \/ Becomes(InsertCopy(Current(fuel), at, x), at, 0, <<Deref(Current(0), x)>>, Strong(at, 1))
  \/ Becomes(EmplaceAt(Current(fuel), at, x), at, 0, <<Deref(Current(0), x)>>, Strong(at, 1))
  \/ /\ x \in Item
     /\ Becomes(InsertMoved(Current(fuel), at, x), at, 0, <<x>>, Strong(at, 1))

InsertCopies == \E fuel \in Steps, at \in 0..size, n \in 0..MaxCount, x \in Arg :
  Becomes(InsertCount(Current(fuel), at, n, x), at, 0, Times(n, Deref(Current(0), x)), Strong(at, n))

InsertForward == \E fuel \in Steps, at \in 0..size, s \in Input :
  Becomes(InsertRange(Current(fuel), at, s), at, 0, s, Strong(at, Len(s)))

\* It filled the spare cells, had more to insert, and threw before what is in them
\* had moved.
Tears(o, s) ==
  o.threw /\ size < Capacity /\ Len(s) > Capacity - size /\ o.size = Capacity

InsertStream == \E fuel \in Steps, at \in 0..size, s \in Input :
  LET o == InsertInput(Current(fuel), at, s)
  IN  VectorLeft(o, at, 0, s, FALSE) /\ torn' = Tears(o, s)

Erase == \E fuel \in Steps, at \in 0..size : \E n \in 0..(size - at) :
  Becomes(EraseRange(Current(fuel), at, n), at, n, <<>>, at + n = size)

\* pop_back, clear, and resize to fewer elements
Truncate == \E n \in 0..size :
  Becomes(DestructAtEnd(Current(0), n), n, size - n, <<>>, TRUE)

Resize == \E fuel \in Steps, n \in 1..MaxCount, x \in Arg :
  Becomes(AppendCount(Current(fuel), n, x), size, 0, Times(n, Deref(Current(0), x)), Strong(size, n))

Reserve == \E fuel \in Steps, n \in (Capacity + 1)..(MaxSize + 1) :
  Becomes(IF n > MaxSize THEN Throw(Current(fuel)) ELSE SwapOut(Current(fuel), Buffer(n, size, fuel), size),
        size, 0, <<>>, TRUE)

\* shrink_to_fit keeps the exception for itself.
ShrinkToFit == \E fuel \in Steps :
  /\ Capacity > size
  /\ Becomes([SwapOut(Current(fuel), Buffer(size, size, fuel), size) EXCEPT !.threw = FALSE],
           size, 0, <<>>, TRUE)

AssignOp == \E fuel \in Steps, s \in Input :
  \/ Becomes(AssignSized(Current(fuel), s, FALSE), 0, size, s, FALSE)
  \/ Becomes(AssignInput(Current(fuel), s), 0, size, s, FALSE)
  \/ \E n \in 0..MaxCount, x \in Value :
       Becomes(AssignSized(Current(fuel), Times(n, x), TRUE), 0, size, Times(n, x), FALSE)

\* Move assignment and swap: the buffer of another vector.
Take == \E s \in Input, spare \in 0..MaxCount :
  /\ Len(s) + spare <= MaxSize
  /\ Becomes([Current(0) EXCEPT !.cells = s \o Times(spare, Raw), !.size = Len(s)],
           0, size, s, TRUE)

\* Another vector was made from, or given, the buffer of this one.
Give == Becomes([Current(0) EXCEPT !.cells = <<>>, !.size = 0], 0, size, <<>>, TRUE)

\* The vector ends and another is constructed in its place.
CreateVector == \E fuel \in Steps, s \in Input, counted \in BOOLEAN :
  Becomes(Constructed(fuel, s, counted), 0, size, s, FALSE)

\* What a call makes of a torn vector, its destructor included, is undefined.
StayTorn == torn /\ UNCHANGED vectorVars

VectorNext ==
  \/ /\ ~torn
     /\ \/ PushBack \/ InsertOne \/ InsertCopies \/ InsertForward \/ InsertStream
        \/ Erase \/ Truncate \/ Resize \/ Reserve \/ ShrinkToFit
        \/ AssignOp \/ Take \/ Give \/ CreateVector
  \/ StayTorn

VectorSpec == VectorInit /\ [][VectorNext]_vectorVars

-----------------------------------------------------------------------------
(* Properties. *)

VectorIsWhole ==
  /\ cells \in Seq(Item \cup {Raw}) /\ Len(cells) <= MaxSize
  /\ size \in 0..Len(cells)
  /\ \A i \in DOMAIN cells : cells[i] = Raw <=> i > size

\* end_ is that of a full buffer, and the cells before it from some place on are raw.
VectorIsTorn ==
  /\ cells \in Seq(Item \cup {Raw}) /\ Len(cells) <= MaxSize
  /\ size = Len(cells)
  /\ \E n \in 0..(size - 1) : \A i \in DOMAIN cells : cells[i] = Raw <=> i > n

\* [begin_, end_) holds elements and [end_, cap_) none, whatever call threw and at
\* whatever step: nothing is destroyed twice, leaked, or read before it was
\* constructed.  One case is excepted, and no other: an insertion from input
\* iterators that throws (by the iterator, a copy, an allocation or max_size) once
\* it has filled the spare cells leaves them destroyed before end_.
VectorHoldsItsElements == IF torn THEN VectorIsTorn ELSE VectorIsWhole

\* Every call of the vector does to its elements what Container promises, with
\* aliased arguments, growth and throws in the middle, but for the insertion that
\* tears the vector.
VectorIsContainer == C!Init /\ [][C!Next \/ torn']_<<Elements, vectorCall>>

=============================================================================

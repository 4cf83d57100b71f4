------------------------------ MODULE SplitBuffer ------------------------------
(***************************************************************************)
(* The split_buffer a vector grows through: elements with free cells on    *)
(* both sides, after first and up to last.  The buffer is a local of the   *)
(* call that grows; a throw destroys it with what it holds.                *)
(***************************************************************************)
EXTENDS Cells

LOCAL INSTANCE SequencesExt

\* A buffer of cap cells that will have its elements after start.
Buffer(cap, start, left) ==
  [cells |-> Times(cap, Raw), first |-> start, last |-> start,
   left |-> IF cap > 0 THEN left - 1 ELSE left, threw |-> cap > 0 /\ left = 0]

Holds(v) == SubSeq(v.cells, v.first + 1, v.last)

BufferConstruct(v, s) ==
  LET n == Lesser(v.left, Len(s))
  IN  [v EXCEPT !.cells = Put(@, v.last, SubSeq(s, 1, n)), !.last = @ + n,
                !.left = @ - n, !.threw = n < Len(s)]

\* Twice the size, at least 8, when there is no cell left.
BufferGrow(v) ==
  LET wide == Buffer(Greater(2 * Len(v.cells), 8), 0, v.left)
      n == v.last - v.first
  IN  IF wide.threw \/ ~Relocates(wide, n) THEN Throw(v)
      ELSE [wide EXCEPT !.cells = Put(@, 0, Holds(v)), !.last = n,
                        !.left = Relocated(wide, n)]

BufferConstructAll(v, s) ==
  LET Add(w, x) ==
        Then(w, LAMBDA u : Then(IF u.last = Len(u.cells) THEN BufferGrow(u) ELSE u,
                                LAMBDA t : BufferConstruct(t, <<x>>)))
  IN  FoldLeft(Add, v, s)

\* swap_out_circular_buffer: the elements after at go behind those of v, the
\* first at go before them, and the cells of v become those of the vector.
SwapOut_FrontFirst(o, v, at) ==
  LET behind == o.size - at
      rest == [v EXCEPT !.left = Relocated(v, at)]
  IN  CASE v.threw \/ ~Relocates(v, at) -> Throw(o)
        [] ~v.threw /\ Relocates(v, at) /\ ~Relocates(rest, behind) ->
             Throw([o EXCEPT !.cells = Put(@, 0, Times(at, Raw))])
        [] OTHER ->
             [cells |-> Put(v.cells, v.first - at, SubSeq(o.cells, 1, at) \o Holds(v)
                                                   \o SubSeq(o.cells, at + 1, o.size)),
              size |-> o.size + (v.last - v.first),
              left |-> Relocated(rest, behind), threw |-> FALSE]
SwapOut(o, v, at) ==
  LET behind == o.size - at
      ahead == [v EXCEPT !.left = Relocated(v, behind)]
  IN  CASE v.threw \/ ~Relocates(v, behind) -> Throw(o)
        [] ~v.threw /\ Relocates(v, behind) /\ ~Relocates(ahead, at) ->
             Throw(DestructAtEnd(o, at))
        [] OTHER ->
             [cells |-> Put(v.cells, v.first - at, SubSeq(o.cells, 1, at) \o Holds(v)
                                                   \o SubSeq(o.cells, at + 1, o.size)),
              size |-> o.size + (v.last - v.first),
              left |-> Relocated(ahead, at), threw |-> FALSE]

=============================================================================

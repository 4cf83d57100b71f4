------------------------------ MODULE Container ------------------------------
(***************************************************************************)
(* What the sequence containers of plg promise to the code that uses them: *)
(* a call replaces a piece of the sequence by copies of its arguments, as  *)
(* they were when the call was made, or it throws.  A call with the strong *)
(* guarantee that throws has done nothing; any other leaves a sequence.    *)
(***************************************************************************)
EXTENDS Naturals, Sequences

CONSTANT Item  \* element values, the one left in an element moved from included

VARIABLES
  items,  \* the elements
  call    \* the last call

Call == [at : Nat, cut : Nat, put : Seq(Item), strong : BOOLEAN, threw : BOOLEAN]

\* cut elements after the first at ones give way to put.
Splice(s, at, cut, put) == SubSeq(s, 1, at) \o put \o SubSeq(s, at + cut + 1, Len(s))

NoCall == [at |-> 0, cut |-> 0, put |-> <<>>, strong |-> TRUE, threw |-> FALSE]

\* A container may be created with elements.
Init == items \in Seq(Item) /\ call = NoCall

Return ==
  /\ ~call'.threw
  /\ items' = Splice(items, call'.at, call'.cut, call'.put)

Throw ==
  /\ call'.threw
  /\ items' \in Seq(Item)
  /\ call'.strong => items' = items

Next == call' \in Call /\ (Return \/ Throw)

Spec == Init /\ [][Next]_<<items, call>>

=============================================================================

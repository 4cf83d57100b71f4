-------------------------------- MODULE Objects --------------------------------
(***************************************************************************)
(* The objects plg::variant and plg::expected construct inside themselves, *)
(* each of one of several types.  A type's trait says which of its         *)
(* constructors and assignments cannot throw; every other one takes a unit *)
(* of the fuel of its call, and throws without.                            *)
(***************************************************************************)
EXTENDS Throwing, Naturals, Sequences

Who == {"this", "other"}
Other(w) == CHOOSE v \in Who : v # w

Trait == {"void", "nothrow", "move", "copy", "throw"}

\* Enough for any call to come to its end.
Fuel == 0..4

Values(t) == IF t = "void" THEN {Gone} ELSE Value

\* Whether a type is constructed from a const object of its own (copy), from an
\* rvalue (move), or from other arguments (args) without a throw.
Nothrow(t, how) ==
  \/ t \in {"void", "nothrow"}
  \/ t = how

\* A source is the way it is passed, its value, and whose object it is, if any.
Source(how, x, of) == [how |-> how, item |-> x, of |-> of]
Argument(x) == Source("args", x, "none")
Temporary(how, src) == Source(how, src.item, "none")

\* What an object moved from is left with.
Kept(t, x) == IF Nothrow(t, "move") THEN Gone ELSE x

-----------------------------------------------------------------------------
(* A call in progress has the object of each, the fuel left, and whether it  *)
(* threw.                                                                    *)

\* A step on an object of a type with trait t, reading src.
Step(o, t, src) ==
  IF ~Nothrow(t, src.how) /\ o.left = 0 THEN Throw(o)
  ELSE [o EXCEPT !.left = IF Nothrow(t, src.how) THEN @ ELSE @ - 1,
                 !.object = IF src.how = "move" /\ src.of \in Who
                            THEN [o.object EXCEPT ![src.of].item = Kept(t, @)] ELSE @]

\* Construction in the place of w, or assignment to its object of the same type.
Make(o, w, alt, t, src) ==
  Then(Step(o, t, src),
       LAMBDA q : [q EXCEPT !.object[w] = [alt |-> alt, item |-> src.item]])

Destroy(o, w) == [o EXCEPT !.object[w] = Raw]

\* std::swap of two objects of one type.
SwapObjects(o, alt, t) ==
  LET own == o.object["this"].item
      its == o.object["other"].item
      tmp == Source("move", own, "this")
  IN  Then(Step(o, t, tmp), LAMBDA p :
      Then(Make(p, "this", alt, t, Source("move", its, "other")), LAMBDA q :
           Make(q, "other", alt, t, Temporary("move", tmp))))

=============================================================================

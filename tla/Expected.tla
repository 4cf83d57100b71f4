-------------------------------- MODULE Expected --------------------------------
(***************************************************************************)
(* plg::expected, used where the library has no std::expected: a value or  *)
(* an error, and has_val, which tells them apart.  Two objects of one type *)
(* are the subjects of assignment and swap; expected<void, E> is the one   *)
(* whose value has the trait "void".                                       *)
(*                                                                         *)
(* swap asks for a default constructor that cannot throw where assignment  *)
(* asks for a move constructor; types with neither move are left out.      *)
(***************************************************************************)
EXTENDS Objects

Alt == {"val", "unex"}

VARIABLES
  traitOf,  \* the traits of the value and of the error
  hasVal,   \* has_val of each
  object,   \* val or unex of each
  call      \* the last call on each, as in Container

vars == <<traitOf, hasVal, object, call>>

Contained == [alt : Alt, item : Item]
ExpectedAssumption == ThrowingAssumption /\ Raw \notin Contained

Items(w) == IF object[w] = Raw THEN <<>> ELSE <<object[w]>>
This == INSTANCE Container WITH Item <- Contained, items <- Items("this"), call <- call["this"]
That == INSTANCE Container WITH Item <- Contained, items <- Items("other"), call <- call["other"]

Init ==
  /\ traitOf \in [val : Trait, unex : Trait \ {"void"}]
  /\ \E a \in Alt : Nothrow(traitOf[a], "move")
  /\ hasVal = [w \in Who |-> TRUE]
  /\ object \in [Who -> [alt : {"val"}, item : Values(traitOf.val)]]
  /\ call = [w \in Who |-> This!NoCall]

Start(fuel) == [hasVal |-> hasVal, object |-> object, left |-> fuel, threw |-> FALSE]

Passed_AlwaysMoves(how, w) == Source("move", object[w].item, w)
Passed(how, w) == Source(how, object[w].item, w)

-----------------------------------------------------------------------------
(* Operations. *)

\* The old object is destroyed when the new one can no longer throw, or is kept
\* aside to come back.
ReinitExpected_NoCatch(o, w, new, src) ==
  LET old == o.object[w].alt
      tmp == Source("move", o.object[w].item, w)
  IN  Then(Step(o, traitOf[old], tmp), LAMBDA q :
           Make(Destroy(q, w), w, new, traitOf[new], src))
ReinitExpected(o, w, new, src) ==
  LET t == traitOf[new]
      old == o.object[w].alt
      tmp == Source("move", o.object[w].item, w)
      Restored(bare, q) ==
        IF q.threw THEN Throw(Make(bare, w, old, traitOf[old], Temporary("move", tmp))) ELSE q
  IN  CASE Nothrow(t, src.how) -> Make(Destroy(o, w), w, new, t, src)
        [] ~Nothrow(t, src.how) /\ Nothrow(t, "move") ->
             Then(Step(o, t, src), LAMBDA q :
                  Make(Destroy(q, w), w, new, t, Temporary("move", src)))
        [] OTHER ->
             Then(Step(o, traitOf[old], tmp), LAMBDA q :
                  Restored(Destroy(q, w), Make(Destroy(q, w), w, new, t, src)))

Assign(o, w, alt, src) ==
  Then(IF o.hasVal[w] = (alt = "val") THEN Make(o, w, alt, traitOf[alt], src)
       ELSE ReinitExpected(o, w, alt, src),
       LAMBDA q : [q EXCEPT !.hasVal[w] = (alt = "val")])

AltOf(w) == IF hasVal[w] THEN "val" ELSE "unex"

\* Value and error change places: a's object, which moves without a throw, is
\* kept aside, and comes back if b's does not make it.
Exchange(o, a, b) ==
  LET tmp == Passed("move", a)
      bare == Destroy(Step(o, traitOf[AltOf(a)], tmp), a)
      its == Make(bare, a, AltOf(b), traitOf[AltOf(b)], Passed("move", b))
  IN  IF its.threw THEN Throw(Make(bare, a, AltOf(a), traitOf[AltOf(a)], Temporary("move", tmp)))
      ELSE [Make(Destroy(its, b), b, AltOf(a), traitOf[AltOf(a)], Temporary("move", tmp))
              EXCEPT !.hasVal = [w \in Who |-> ~hasVal[w]]]

SwapBoth(o) ==
  LET value == CHOOSE w \in Who : hasVal[w]
  IN  CASE hasVal["this"] = hasVal["other"] ->
             SwapObjects(o, AltOf("this"), traitOf[AltOf("this")])
        [] hasVal["this"] # hasVal["other"] /\ Nothrow(traitOf.unex, "move") ->
             Exchange(o, Other(value), value)
        [] OTHER -> Exchange(o, value, Other(value))

\* and_then and transform call f with the value, or_else and transform_error with
\* the error; otherwise what is there goes into the result.
Calls(op, w) == hasVal[w] = (op \in {"and_then", "transform"})
Results(op) ==
  CASE op = "transform" -> {"val"}
    [] op = "transform_error" -> {"unex"}
    [] OTHER -> Alt

-----------------------------------------------------------------------------
(* Actions. *)

\* want is what each is to contain; those in strong are as before when the call
\* throws.
Ended(o, want, strong) ==
  /\ hasVal' = o.hasVal
  /\ object' = o.object
  /\ call' = [w \in Who |-> [at |-> 0, cut |-> 1, put |-> want[w],
                              strong |-> w \in strong, threw |-> o.threw]]
  /\ UNCHANGED traitOf

One(alt, x) == <<[alt |-> alt, item |-> x]>>
Wanted(w, s) == [v \in Who |-> IF v = w THEN s ELSE Items(v)]

\* What is left of the object that was passed.
After(how, w) ==
  IF how = "move" THEN One(AltOf(w), Kept(traitOf[AltOf(w)], object[w].item)) ELSE Items(w)

\* expected<void, E> has code of its own for all of them.
Primary == traitOf.val # "void"

\* Assignment of a value or of an unexpected.
AssignedItem(alts) == \E fuel \in Fuel, w \in Who, alt \in alts, how \in {"args", "copy", "move"} :
  \E x \in Values(traitOf[alt]) :
    Ended(Assign(Start(fuel), w, alt, Source(how, x, "none")), Wanted(w, One(alt, x)), Who)

AssignedExpected == \E fuel \in Fuel, w \in Who, how \in {"copy", "move"} :
  LET v == Other(w)
  IN  Ended(Assign(Start(fuel), w, AltOf(v), Passed(how, v)),
            [u \in Who |-> IF u = w THEN Items(v) ELSE After(how, v)], Who)

AssignValue == Primary /\ AssignedItem(Alt)
AssignExpected == Primary /\ AssignedExpected
AssignVoid == ~Primary /\ (AssignedItem({"unex"}) \/ AssignedExpected)

\* Only from arguments a value is constructed from without a throw.
Emplaced == \E w \in Who, x \in Values(traitOf.val), how \in {"args", "copy", "move"} :
  /\ Nothrow(traitOf.val, how)
  /\ Ended([Make(Destroy(Start(0), w), w, "val", traitOf.val, Source(how, x, "none"))
              EXCEPT !.hasVal[w] = TRUE],
           Wanted(w, One("val", x)), {})

Emplace == Primary /\ Emplaced
EmplaceVoid == ~Primary /\ Emplaced

Swapped == \E fuel \in Fuel :
  Ended(SwapBoth(Start(fuel)), [w \in Who |-> Items(Other(w))],
        {w \in Who : hasVal["this"] # hasVal["other"] \/ Nothrow(traitOf[AltOf(w)], "move")})

Swap == Primary /\ Swapped
SwapVoid == ~Primary /\ Swapped

\* One ends and another is constructed in its place.  Nothing is left of a
\* constructor that throws.
Created == \E fuel \in Fuel, w \in Who, alt \in Alt, how \in {"args", "copy", "move"} :
  \E x \in Values(traitOf[alt]) :
    LET v == Other(w)
        as == IF how = "args" THEN alt ELSE AltOf(v)
        src == IF how = "args" THEN Argument(x) ELSE Passed(how, v)
        new == Make(Destroy(Start(fuel), w), w, as, traitOf[as], src)
    IN  /\ ~new.threw
        /\ Ended([new EXCEPT !.hasVal[w] = (as = "val")],
                 [u \in Who |-> CASE u = w -> One(as, src.item)
                                  [] u # w /\ how = "args" -> Items(v)
                                  [] OTHER -> After(how, v)], {})

Create == Primary /\ Created
CreateVoid == ~Primary /\ Created

\* The result of a monadic operation on one, of the same type, is assigned to the
\* other.  f may take the rvalue it is called with.
Chained(ops) == \E fuel \in Fuel, w \in Who, how \in {"copy", "move"}, op \in ops, takes \in BOOLEAN :
  \E alt \in (IF Calls(op, w) THEN Results(op) ELSE {AltOf(w)}) :
  \E x \in (IF Calls(op, w) THEN Values(traitOf[alt]) ELSE {object[w].item}) :
    LET o == Start(fuel)
        v == Other(w)
        moved == how = "move" /\ (Calls(op, w) => takes)
        taken == [o EXCEPT !.object[w].item = IF moved THEN Kept(traitOf[AltOf(w)], @) ELSE @]
        got == IF Calls(op, w) THEN Step(taken, traitOf[alt], Argument(x))
               ELSE Step(o, traitOf[alt], Passed(how, w))
    IN  Ended(Then(got, LAMBDA q : Assign(q, v, alt, Source("move", x, "none"))),
              [u \in Who |-> IF u = v THEN One(alt, x)
                             ELSE IF moved THEN After("move", w) ELSE Items(w)],
              IF moved THEN {v} ELSE Who)

Chain == Primary /\ Chained({"and_then", "or_else"})
Transform == Primary /\ Chained({"transform", "transform_error"})
ChainVoid == ~Primary /\ Chained({"and_then", "or_else"})
TransformVoid == ~Primary /\ Chained({"transform", "transform_error"})

Next ==
  \/ AssignValue \/ AssignExpected \/ Emplace \/ Swap \/ Create \/ Chain \/ Transform
  \/ AssignVoid \/ EmplaceVoid \/ SwapVoid \/ CreateVoid \/ ChainVoid \/ TransformVoid

Spec == Init /\ [][Next]_vars

-----------------------------------------------------------------------------
(* Properties. *)

\* An expected has a value or an error whatever threw, and has_val tells which:
\* it never gets into a "valueless_by_exception state" (reinit_expected).
ExpectedHasValTellsObject ==
  \A w \in Who : object[w] # Raw /\ (hasVal[w] <=> object[w].alt = "val")

\* Every call does to what both contain what Container promises, with the strong
\* guarantee for assignments and for the exchange of a value and an error.
ExpectedIsContainer == This!Spec /\ That!Spec

=============================================================================

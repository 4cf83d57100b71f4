-------------------------------- MODULE Variant --------------------------------
(***************************************************************************)
(* plg::variant: room for one object of any of its types (VariantTree says *)
(* where) and the index of the type.  Two variants of one type are the     *)
(* subjects of assignment and swap.                                        *)
(*                                                                         *)
(* A new object of another type is constructed after the old one is        *)
(* destroyed, and that construction may throw.                             *)
(***************************************************************************)
EXTENDS Objects

CONSTANT TraitOf  \* the trait of each type

Types == DOMAIN TraitOf
Npos == 0

Stored == [alt : Types, item : Item]

VariantAssumption ==
  /\ ThrowingAssumption /\ Raw \notin Stored
  /\ TraitOf \in Seq(Trait \ {"void"}) /\ TraitOf # <<>>

VARIABLES
  index,    \* current_ of each
  storage,  \* the object in the storage of each
  lost,     \* those whose call threw without the object they are to have
  lastCall  \* the last call on each, as in Container

variantVars == <<index, storage, lost, lastCall>>

Content(w) == IF storage[w] = Raw THEN <<>> ELSE <<storage[w]>>
ThisVariant == INSTANCE Container WITH Item <- Stored, items <- Content("this"), call <- lastCall["this"]
ThatVariant == INSTANCE Container WITH Item <- Stored, items <- Content("other"), call <- lastCall["other"]

VariantInit ==
  /\ index = [w \in Who |-> 1]
  /\ storage \in [Who -> [alt : {1}, item : Value]]
  /\ lost = {}
  /\ lastCall = [w \in Who |-> ThisVariant!NoCall]

Begin(fuel) == [index |-> index, object |-> storage, left |-> fuel, threw |-> FALSE]

Operand(how, w) == Source(how, storage[w].item, w)

-----------------------------------------------------------------------------
(* Operations. *)

\* current_ names the type before its constructor runs.
DoEmplace_KeepsIndex(o, w, i, src) == Make(o, w, i, TraitOf[i], src)
DoEmplace(o, w, i, src) == Make([o EXCEPT !.index[w] = i], w, i, TraitOf[i], src)

\* By a temporary, when that leaves a construction that cannot throw.
EmplaceNoDtor(o, w, i, src) ==
  LET t == TraitOf[i]
      By(how) == Then(Step(o, t, src), LAMBDA q : DoEmplace(q, w, i, Temporary(how, src)))
  IN  CASE Nothrow(t, src.how) -> DoEmplace(o, w, i, src)
        [] ~Nothrow(t, src.how) /\ Nothrow(t, "move") -> By("move")
        [] ~Nothrow(t, src.how) /\ ~Nothrow(t, "move") /\ Nothrow(t, "copy") -> By("copy")
        [] OTHER -> DoEmplace([o EXCEPT !.index[w] = Npos], w, i, src)

Reset(o, w) == IF o.index[w] = Npos THEN o ELSE Destroy(o, w)

EmplaceImpl(o, w, i, src) == EmplaceNoDtor(Reset(o, w), w, i, src)

\* What assignments do with the object they are given: assign it to one of its
\* type, or emplace it; a construction that may throw comes first if it can.
AssignElem(o, w, i, src) ==
  LET t == TraitOf[i]
  IN  CASE o.index[w] = i -> Make(o, w, i, t, src)
        [] o.index[w] # i /\ (src.how = "move" \/ Nothrow(t, src.how) \/ ~Nothrow(t, "move")) ->
             EmplaceImpl(o, w, i, src)
        [] OTHER -> Then(Step(o, t, src), LAMBDA q : EmplaceImpl(q, w, i, Temporary("move", src)))

AssignFrom(o, w, how) ==
  LET v == Other(w)
  IN  IF o.index[v] = Npos
      THEN [Reset(o, w) EXCEPT !.index[w] = Npos]
      ELSE AssignElem(o, w, o.index[v], Operand(how, v))

\* A full variant's object goes to an empty one.
SwapValueless(o, empty) ==
  LET full == Other(empty)
  IN  Then(EmplaceNoDtor(o, empty, o.index[full], Operand("move", full)),
           LAMBDA q : [Destroy(q, full) EXCEPT !.index[full] = Npos])

SwapDifferent_NoTmp(o, i, j) ==
  Then(EmplaceNoDtor(Destroy(o, "this"), "this", j, Operand("move", "other")), LAMBDA q :
       EmplaceNoDtor(Destroy(q, "other"), "other", i, Source("move", Gone, "none")))
SwapDifferent(o, i, j) ==
  LET tmp == Operand("move", "this")
  IN  Then(Step(o, TraitOf[i], tmp), LAMBDA p :
      Then(EmplaceNoDtor(Destroy(p, "this"), "this", j, Operand("move", "other")), LAMBDA q :
           EmplaceNoDtor(Destroy(q, "other"), "other", i, Temporary("move", tmp))))

SwapImpl(o) ==
  LET i == o.index["this"]
      j == o.index["other"]
  IN  CASE i = Npos /\ j = Npos -> o
        [] i = Npos /\ j # Npos -> SwapValueless(o, "this")
        [] i # Npos /\ j = Npos -> SwapValueless(o, "other")
        [] i # Npos /\ i = j -> SwapObjects(o, i, TraitOf[i])
        [] OTHER -> SwapDifferent(o, i, j)

-----------------------------------------------------------------------------
(* Actions. *)

\* The call has destroyed the object of w, or named a type for it.
Disturbed(o, w) == storage[w] # Raw \/ o.index[w] # index[w]

\* want is what each variant is to contain; those in strong are as before when
\* the call throws.
Finished(o, want, strong) ==
  /\ index' = o.index
  /\ storage' = o.object
  /\ lost' = {w \in Who : o.threw /\ o.object[w] = Raw /\ Disturbed(o, w)}
  /\ lastCall' = [w \in Who |-> [at |-> 0, cut |-> Len(Content(w)), put |-> want[w],
                                  strong |-> w \in strong, threw |-> o.threw]]

Single(i, x) == <<[alt |-> i, item |-> x]>>
Change(w, s) == [v \in Who |-> IF v = w THEN s ELSE Content(v)]

\* The variant whose object was passed keeps it, if it was not moved.
Leaves(how, v) ==
  CASE storage[v] = Raw -> <<>>
    [] how = "move" /\ storage[v] # Raw ->
         Single(storage[v].alt, Kept(TraitOf[storage[v].alt], storage[v].item))
    [] OTHER -> Content(v)

\* emplace, by index or by type
EmplaceArgs == \E fuel \in Fuel, w \in Who, i \in Types, x \in Value :
  Finished(EmplaceImpl(Begin(fuel), w, i, Argument(x)), Change(w, Single(i, x)), {Other(w)})

\* Assignment of a value; an overload picked its type.
AssignElement == \E fuel \in Fuel, w \in Who, i \in Types, x \in Value, how \in {"args", "copy", "move"} :
  Finished(AssignElem(Begin(fuel), w, i, Source(how, x, "none")), Change(w, Single(i, x)), Who)

\* Assignment of a variant; to itself it does nothing.
AssignVariant == \E fuel \in Fuel, w \in Who, how \in {"copy", "move"} :
  Finished(AssignFrom(Begin(fuel), w, how),
           [v \in Who |-> IF v = w THEN Content(Other(w)) ELSE Leaves(how, v)], Who)

SwapVariants == \E fuel \in Fuel :
  Finished(SwapImpl(Begin(fuel)), [v \in Who |-> Content(Other(v))],
           {v \in Who : \A i \in {index[u] : u \in Who} \ {Npos} : Nothrow(TraitOf[i], "move")})

\* A variant ends and another is constructed in its place, from arguments or
\* from the other variant.  No variant is left of a constructor that throws.
CreateVariant == \E fuel \in Fuel, w \in Who, how \in {"args", "copy", "move"}, i \in Types, x \in Value :
  LET v == Other(w)
      o == Destroy(Begin(fuel), w)
      new == CASE how = "args" -> DoEmplace(o, w, i, Argument(x))
               [] how # "args" /\ index[v] = Npos -> [o EXCEPT !.index[w] = Npos]
               [] OTHER -> EmplaceNoDtor(o, w, index[v], Operand(how, v))
  IN  /\ ~new.threw
      /\ Finished(new, [u \in Who |-> CASE u = w /\ how = "args" -> Single(i, x)
                                        [] u = w /\ how # "args" -> Content(v)
                                        [] OTHER -> Leaves(how, v)], {})

\* What a call makes of a variant whose object is lost is undefined: visit, get and
\* the destructor go to an object that is not there.
StayLost == lost # {} /\ UNCHANGED variantVars

VariantNext ==
  \/ /\ lost = {}
     /\ EmplaceArgs \/ AssignElement \/ AssignVariant \/ SwapVariants \/ CreateVariant
  \/ StayLost

VariantSpec == VariantInit /\ [][VariantNext]_variantVars

-----------------------------------------------------------------------------
(* Properties. *)

VariantIsSound(w) ==
  IF index[w] = Npos THEN storage[w] = Raw ELSE storage[w] # Raw /\ storage[w].alt = index[w]

\* index() names the type of the object there is, and is npos when there is none:
\* visit, get and the destructor touch the object it names.  One case is excepted,
\* and no other: a construction that throws when the old object is destroyed, or
\* the new type is named, leaves an index and no object.
VariantIndexTellsObject ==
  \A w \in Who : IF w \in lost THEN index[w] # Npos /\ storage[w] = Raw ELSE VariantIsSound(w)

\* Every call does to the contents of both variants what Container promises, with
\* the strong guarantee for assignments, but to one whose object is lost.
VariantIsContainer ==
  /\ ThisVariant!Init
  /\ [][ThisVariant!Next \/ "this" \in lost']_<<Content("this"), lastCall["this"]>>
  /\ ThatVariant!Init
  /\ [][ThatVariant!Next \/ "other" \in lost']_<<Content("other"), lastCall["other"]>>

\* valueless_by_exception.cpp:44: a variant whose assignment threw when it had no
\* object any more says that it is valueless.
EmptyIsValueless == \A w \in Who : storage[w] = Raw => index[w] = Npos

=============================================================================

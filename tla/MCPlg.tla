--------------------------------- MODULE MCPlg ---------------------------------
(***************************************************************************)
(* The types of plg, each on its own: "which" says the one a behaviour is  *)
(* about.  The last call is no part of the VIEW: it restricts nothing, and *)
(* the action properties look at every step all the same.                  *)
(***************************************************************************)
EXTENDS Expected, VariantTree, Vector, InplaceVector, String

CONSTANT Kinds  \* the types to check

VARIABLES
  which,
  words, pieces, text, read, ranges     \* version

vector == <<cells, size, torn>>
inplace == <<data, count, stretched>>
variant == <<index, storage, lost>>
expected == <<traitOf, hasVal, object>>
string == <<long, chars, length>>
version == <<words, pieces, text, read, ranges>>

mcVars == <<which, nothrowMove, vector, vectorCall, inplace, inplaceCall, variantVars, vars,
            string, stringCall, version>>
View == <<which, nothrowMove, vector, inplace, variant, expected, string, version>>

MCTraitOf == <<"nothrow", "move", "throw", "copy">>

-----------------------------------------------------------------------------
(* Texts of versions: of digits, a letter, marks, and wholes to get further  *)
(* with; and those of ranges, of operators, versions and spaces.             *)

D(n) == 10 + n
A == 20
Junk == 70
Release(a, b, c) == <<D(a), 3, D(b), 3, D(c)>>
Dash(v, tag) == v \o <<4>> \o tag

Vocabulary ==
  { {<<D(0)>>, <<D(1)>>, <<D(2)>>, <<A>>, <<4>>, <<3>>, <<2>>, <<Junk>>,
     <<D(1), 3, D(0), 3>>, Dash(Release(1, 0, 0), <<>>)},
    {<<1>>, <<60>>, <<50>>, <<53>>, Release(1, 0, 0), Release(0, 1, 0), Dash(Release(1, 0, 0), <<A>>)} }

Known ==
  {Release(1, 0, 0), Release(0, 1, 0), Dash(Release(0, 1, 0), <<A>>)}
    \cup {Dash(Release(1, 0, 0), tag) :
            tag \in {<<A>>, <<D(2)>>, <<D(1), D(0)>>, <<A, 3, D(1)>>, <<A, A>>}}

\* The last number of a version has up to three digits: 110 is taken for 0.
Ver == INSTANCE Version WITH IntMax <- 19, Wide <- 110, MaxPieces <- 4

ASSUME VectorAssumption /\ InplaceVectorAssumption
ASSUME VariantTreeAssumption /\ ExpectedAssumption
ASSUME StringAssumption /\ Ver!VersionAssumption

-----------------------------------------------------------------------------
\* What a behaviour is not about stays in one of its initial states.
About(kind, idle) == which = kind \/ idle

MCInit ==
  /\ which \in Kinds
  /\ VectorInit /\ InplaceInit /\ (which \in {"vector", "inplace"} \/ nothrowMove)
  /\ VariantInit /\ About("variant", \A w \in Who : storage[w].item = CHOOSE v \in Value : TRUE)
  /\ Init /\ About("expected", traitOf = [val |-> "void", unex |-> "nothrow"])
  /\ StringInit
  /\ Ver!Init /\ About("version", words = CHOOSE w \in Vocabulary : TRUE)

MCNext ==
  /\ UNCHANGED <<which, nothrowMove>>
  /\ \/ which = "vector" /\ VectorNext
        /\ UNCHANGED <<inplace, inplaceCall, variantVars, vars, string, stringCall, version>>
     \/ which = "inplace" /\ InplaceNext
        /\ UNCHANGED <<vector, vectorCall, variantVars, vars, string, stringCall, version>>
     \/ which = "variant" /\ VariantNext
        /\ UNCHANGED <<vector, vectorCall, inplace, inplaceCall, vars, string, stringCall, version>>
     \/ which = "expected" /\ Next
        /\ UNCHANGED <<vector, vectorCall, inplace, inplaceCall, variantVars, string, stringCall, version>>
     \/ which = "string" /\ StringNext
        /\ UNCHANGED <<vector, vectorCall, inplace, inplaceCall, variantVars, vars, version>>
     \/ which = "version" /\ Ver!Next
        /\ UNCHANGED <<vector, vectorCall, inplace, inplaceCall, variantVars, vars, string, stringCall>>

MCSpec == MCInit /\ [][MCNext]_mcVars

-----------------------------------------------------------------------------
(* Properties: those of the modules extended, and of the others. *)

\* version: parse reads the texts of versions and to_string gives them back, but for
\* numbers of more than 64 bits.
VersionReadsItsText == Ver!VersionReadsItsText
\* version: comparing decides precedence.
VersionOrderIsPrecedence == Ver!VersionOrderIsPrecedence
\* range_set: a set contains what its text says.
RangeMeansItsText == Ver!RangeMeansItsText

=============================================================================

------------------------------ MODULE VariantTree ------------------------------
(***************************************************************************)
(* The tree of unions a plg::variant keeps its object in, and the way get  *)
(* follows to one of its types.                                            *)
(***************************************************************************)
EXTENDS Variant

CONSTANT MaxTypes  \* bound: the most types of the trees built

VariantTreeAssumption == VariantAssumption /\ MaxTypes \in Nat /\ Raw \notin 1..MaxTypes

Leaf(a, b) == [leaf |-> TRUE, a |-> a, b |-> b, size |-> IF b = Raw THEN 1 ELSE 2]
Node(a, b) == [leaf |-> FALSE, a |-> a, b |-> b, size |-> a.size + b.size]

\* One pass pairs neighbours; an odd one goes to the back, in the first pass in a
\* leaf of its own.
FirstPass(types) ==
  [k \in 1..((Len(types) + 1) \div 2) |->
     Leaf(types[2 * k - 1], IF 2 * k <= Len(types) THEN types[2 * k] ELSE Raw)]
Pass_OddToFront(nodes) ==
  LET odd == Len(nodes) % 2
  IN  [k \in 1..((Len(nodes) + 1) \div 2) |->
         IF k = odd THEN nodes[Len(nodes)] ELSE Node(nodes[2 * (k - odd) - 1], nodes[2 * (k - odd)])]
Pass(nodes) ==
  [k \in 1..((Len(nodes) + 1) \div 2) |->
     IF 2 * k <= Len(nodes) THEN Node(nodes[2 * k - 1], nodes[2 * k]) ELSE nodes[2 * k - 1]]

\* More passes than needed leave the one node as it is.
Tree(types) ==
  LET row[p \in 0..Len(types)] == IF p = 0 THEN FirstPass(types) ELSE Pass(row[p - 1])
  IN  row[Len(types)][1]

\* get<i> of a union: where it ends, or the union and the index it goes on with.
Below(place) ==
  CASE place.node.leaf -> place
    [] ~place.node.leaf /\ place.i < place.node.a.size -> [node |-> place.node.a, i |-> place.i]
    [] OTHER -> [node |-> place.node.b, i |-> place.i - place.node.a.size]

\* A union is not as deep as it has types.
Get(node, i) ==
  LET place[k \in 0..node.size] ==
        IF k = 0 THEN [node |-> node, i |-> i] ELSE Below(place[k - 1])
      end == place[node.size]
  IN  IF end.i = 0 THEN end.node.a ELSE end.node.b

-----------------------------------------------------------------------------
(* Properties. *)

\* With n types get<i> ends at the i-th of them.
KeepsOrder == [n \in 1..MaxTypes |-> \A i \in 1..n : Get(Tree([k \in 1..n |-> k]), i - 1) = i]

\* However many types a variant has besides the one of its object, get<i> ends at
\* the i-th of them.
VariantTreeKeepsOrder == \A w \in Who : \A n \in index[w]..MaxTypes : KeepsOrder[n]

=============================================================================

-------------------------------- MODULE Manifest --------------------------------
(***************************************************************************)
(* What the parsing stage makes of a manifest it has read: Resolve gives   *)
(* each name of a prototype or enum one definition, wherever it was        *)
(* written, and puts it in the place of the name; Validate checks the      *)
(* rest.  Definitions are written in a list of the manifest or inline, in  *)
(* a property of a method or of another definition.                        *)
(*                                                                         *)
(* An object is a method, a prototype or an enum: its properties are its   *)
(* parameters and, last, its return value; an enum has none.  Its function *)
(* is the one of a method or prototype; its body stands for the rest: the  *)
(* calling convention, or the values.  A property refers to one prototype  *)
(* or enum at most.                                                        *)
(***************************************************************************)
EXTENDS Naturals, SequencesExt

CONSTANTS
  Written,  \* bound: the manifests, each with its objects, declared and methods
  Name,
  None

VARIABLES
  object,    \* the objects by number
  declared,  \* the prototypes and enums in the lists of the manifest
  methods,
  table,     \* TypeTable: the definition of each name, by kind
  next,      \* the one of declared to be registered
  todo,      \* Collect: the objects to be walked, the next first, each with its
             \* next property
  unlinked,  \* Link: the objects to be linked
  marks,     \* DetectCycles: the marks
  path,      \* DetectCycles: the prototypes being visited, each with its next property
  phase

vars == <<object, declared, methods, table, next, todo, unlinked, marks, path, phase>>

Kind == {"prototype", "enum"}
Objects == DOMAIN object
Property(o, i) == object[o].properties[i]

\* Of an object as it is read from a manifest: a property has the name of a
\* definition or the definition itself, of its own kind; an enum has no properties.
WellFormed(m) ==
  LET KindOf(o) == m.object[o].kind
  IN  /\ IsFiniteSet(DOMAIN m.object) /\ None \notin DOMAIN m.object
      /\ m.methods \in Seq(DOMAIN m.object) /\ m.declared \in Seq(DOMAIN m.object)
      /\ \A o \in Range(m.methods) : KindOf(o) \notin Kind
      /\ \A o \in Range(m.declared) : KindOf(o) \in Kind
      /\ \A o \in DOMAIN m.object :
           LET properties == m.object[o].properties
           IN  /\ DOMAIN m.object[o] = {"kind", "name", "function", "body", "properties"}
               /\ KindOf(o) \in Kind => m.object[o].name \in Name \cup {None}
               /\ KindOf(o) = "enum" => DOMAIN properties = {}
               /\ properties \in Seq(Range(properties))
               /\ \A i \in DOMAIN properties :
                    LET p == properties[i]
                    IN  /\ DOMAIN p = {"type", "kind", "name", "def"}
                        /\ p.kind \in Kind /\ p.name \in Name \cup {None}
                        /\ p.def # None => p.name = None /\ p.def \in DOMAIN m.object
                                            /\ KindOf(p.def) = p.kind

ManifestAssumption == None \notin Name /\ \A m \in Written : WellFormed(m)

Init == \E m \in Written :
  /\ object = m.object /\ declared = m.declared /\ methods = m.methods
  /\ table = [k \in Kind |-> [n \in Name |-> None]]
  /\ next = 1 /\ todo = <<>> /\ unlinked = {} /\ path = <<>>
  /\ marks = [o \in DOMAIN m.object |-> "Unvisited"]
  /\ phase = "declare"

-----------------------------------------------------------------------------
(* Register *)

DefinitionName(p) == IF p.def = None THEN p.name ELSE object[p.def].name

SameDefinition(d, e) ==
  LET p == object[d].properties
      q == object[e].properties
  IN  /\ object[d].function = object[e].function /\ object[d].body = object[e].body
      /\ DOMAIN p = DOMAIN q
      /\ \A i \in DOMAIN p :
           /\ p[i].type = q[i].type /\ DefinitionName(p[i]) = DefinitionName(q[i])
           /\ DefinitionName(p[i]) # None => p[i].kind = q[i].kind

InTable(d) == table[object[d].kind][object[d].name]

First_Own(d) == d
First(d) == IF InTable(d) = None THEN d ELSE InTable(d)

Introduced(d) == InTable(d) = None

Refused(d) == object[d].name = None \/ (First(d) # d /\ ~SameDefinition(First(d), d))

\* The definition takes its name, unless another has it already.
Register(d) ==
  table' = [table EXCEPT ![object[d].kind][object[d].name] = IF @ = None THEN d ELSE @]

\* The declared definitions: prototypes before enums.
Declare ==
  /\ phase = "declare" /\ next \in DOMAIN declared
  /\ LET d == declared[next]
     IN  IF Refused(d)
         THEN phase' = "conflict" /\ UNCHANGED <<table, declared, next>>
         ELSE /\ Register(d)
              /\ declared' = [declared EXCEPT ![next] = First(d)]
              /\ next' = next + 1
              /\ UNCHANGED phase
  /\ UNCHANGED <<object, methods, todo, unlinked, marks, path>>

StartCollecting ==
  /\ phase = "declare" /\ next \notin DOMAIN declared
  /\ LET roots == methods \o declared
     IN  todo' = [k \in DOMAIN roots |-> <<roots[k], 1>>]
  /\ phase' = "collect"
  /\ UNCHANGED <<object, declared, methods, table, next, unlinked, marks, path>>

\* An inline definition that is the first under its name is descended into; a later
\* one gives way to the first.
Collect ==
  /\ phase = "collect" /\ todo # <<>>
  /\ LET o == Head(todo)[1]
         i == Head(todo)[2]
         d == Property(o, i).def
         rest == <<<<o, i + 1>>>> \o Tail(todo)
     IN  IF i \notin DOMAIN object[o].properties
         THEN todo' = Tail(todo) /\ UNCHANGED <<object, table, phase>>
         ELSE IF d = None
         THEN todo' = rest /\ UNCHANGED <<object, table, phase>>
         ELSE IF Refused(d)
         THEN phase' = "conflict" /\ UNCHANGED <<object, table, todo>>
         ELSE /\ Register(d)
              /\ object' = [object EXCEPT ![o].properties[i].def = First(d)]
              /\ todo' = (IF Introduced(d) THEN <<<<d, 1>>>> ELSE <<>>) \o rest
              /\ UNCHANGED phase
  /\ UNCHANGED <<declared, methods, next, unlinked, marks, path>>

InTables == (UNION {Range(table[k]) : k \in Kind}) \ {None}

StartLinking ==
  /\ phase = "collect" /\ todo = <<>>
  /\ unlinked' = InTables \cup Range(methods)
  /\ phase' = "link"
  /\ UNCHANGED <<object, declared, methods, table, next, todo, marks, path>>

\* Each name in an object gives way to its definition.  The order is that of a hash table.
Link == \E o \in unlinked :
  LET Names == {p \in Range(object[o].properties) : p.def = None /\ p.name # None}
      Linked(p) == IF p \in Names THEN [p EXCEPT !.name = None, !.def = table[p.kind][p.name]] ELSE p
  IN  /\ phase = "link"
      /\ IF \E p \in Names : table[p.kind][p.name] = None
         THEN phase' = "unknown" /\ UNCHANGED <<object, unlinked>>
         ELSE /\ object' = [object EXCEPT ![o].properties = [i \in DOMAIN @ |-> Linked(@[i])]]
              /\ unlinked' = unlinked \ {o}
              /\ UNCHANGED phase
      /\ UNCHANGED <<declared, methods, table, next, todo, marks, path>>

-----------------------------------------------------------------------------
(* DetectCycles: a visit of the prototypes of the table, depth first. *)

Prototypes == Range(table["prototype"]) \ {None}

StartDetecting ==
  /\ phase = "link" /\ unlinked = {}
  /\ phase' = "cycles"
  /\ UNCHANGED <<object, declared, methods, table, next, todo, unlinked, marks, path>>

Enter_Done(d, before) ==
  /\ marks' = [marks EXCEPT ![d] = "Done"]
  /\ path' = Append(before, <<d, 1>>)
Enter(d, before) ==
  /\ marks' = [marks EXCEPT ![d] = "OnStack"]
  /\ path' = Append(before, <<d, 1>>)

Visit_Again == \E d \in Prototypes :
  /\ phase = "cycles" /\ path = <<>>
  /\ Enter(d, <<>>)
  /\ UNCHANGED <<object, declared, methods, table, next, todo, unlinked, phase>>
Visit == \E d \in Prototypes :
  /\ phase = "cycles" /\ path = <<>> /\ marks[d] = "Unvisited"
  /\ Enter(d, <<>>)
  /\ UNCHANGED <<object, declared, methods, table, next, todo, unlinked, phase>>

Descend ==
  /\ phase = "cycles" /\ path # <<>>
  /\ LET d == Last(path)[1]
         i == Last(path)[2]
         up == Front(path)
         passed == Append(up, <<d, i + 1>>)
         p == Property(d, i)
     IN  IF i \notin DOMAIN object[d].properties
         THEN /\ marks' = [marks EXCEPT ![d] = "Done"]
              /\ path' = up
              /\ UNCHANGED phase
         ELSE IF p.kind # "prototype" \/ p.def = None \/ marks[p.def] = "Done"
         THEN path' = passed /\ UNCHANGED <<marks, phase>>
         ELSE IF marks[p.def] = "OnStack"
         THEN phase' = "cyclic" /\ UNCHANGED <<marks, path>>
         ELSE Enter(p.def, passed) /\ UNCHANGED phase
  /\ UNCHANGED <<object, declared, methods, table, next, todo, unlinked>>

\* The merged tables are published in place of the declared definitions.
Publish ==
  /\ phase = "cycles" /\ path = <<>> /\ \A d \in Prototypes : marks[d] # "Unvisited"
  /\ declared' = SetToSeq(InTables)
  /\ phase' = "resolved"
  /\ UNCHANGED <<object, methods, table, next, todo, unlinked, marks, path>>

-----------------------------------------------------------------------------
(* Validate *)

ValidProperty(p, param) ==
  /\ ~(param /\ p.type = "void")
  /\ p.name = None
  /\ p.type = "function" => p.def # None /\ p.kind = "prototype"

ValidMethod(o) == \A i \in DOMAIN object[o].properties :
  ValidProperty(Property(o, i), i < Len(object[o].properties))

Validates ==
  /\ \A i, j \in DOMAIN methods : i # j =>
       /\ object[methods[i]].name # object[methods[j]].name
       /\ object[methods[i]].function # object[methods[j]].function
  /\ \A o \in Range(methods) \cup Prototypes : ValidMethod(o)

Validate ==
  /\ phase = "resolved"
  /\ phase' = IF Validates THEN "valid" ELSE "invalid"
  /\ UNCHANGED <<object, declared, methods, table, next, todo, unlinked, marks, path>>

Ended == phase \in {"conflict", "unknown", "cyclic", "valid", "invalid"}
Over == Ended /\ UNCHANGED vars

Step ==
  \/ Declare \/ StartCollecting \/ Collect \/ StartLinking \/ Link
  \/ StartDetecting \/ Visit \/ Descend \/ Publish \/ Validate

Next == Step \/ Over

Spec == Init /\ [][Next]_vars /\ WF_vars(Step)

-----------------------------------------------------------------------------
(* Properties. *)

\* What an object refers to, directly, and what it reaches through others.
Refers(o) == {p.def : p \in Range(object[o].properties)} \ {None}
Reaches(o, q) ==
  \A X \in SUBSET Objects :
    Refers(o) \subseteq X /\ (\A x \in X : Refers(x) \subseteq X) => q \in X

\* "Consumers can treat pointer identity as type identity" (TypeTable): whatever the
\* methods and the published definitions of a resolved manifest refer to, however
\* far down, is the one definition published under its name, and no name is left.
OneDefinitionPerName ==
  phase \in {"resolved", "valid", "invalid"} =>
    LET roots == Range(methods) \cup Range(declared)
        all == roots \cup {o \in Objects : \E r \in roots : Reaches(r, o)}
    IN  \A o \in all :
          /\ o \in Range(methods) \/ (o \in Range(declared) /\ InTable(o) = o)
          /\ \A p \in Range(object[o].properties) : p.name = None

\* A prototype that can reach itself is refused, wherever the visit began, and a
\* manifest is refused for a cycle only when it has one.
CyclesAreFound ==
  LET cyclic == \E d \in Prototypes : Reaches(d, d)
  IN  /\ phase \in {"resolved", "valid", "invalid"} => ~cyclic
      /\ phase = "cyclic" => cyclic

\* "Every definition is in the table by now" (Link): a name is unknown only when the
\* manifest has no definition of it, in a list or inline.
UnknownIsUnwritten ==
  phase = "unknown" =>
    \E o \in Objects : \E p \in Range(object[o].properties) :
      /\ p.def = None /\ p.name # None
      /\ \A d \in Objects : object[d].kind # p.kind \/ object[d].name # p.name

\* "Inline definitions nest as a tree, so this always terminates" (Collect), and the
\* links, which may go round, do not keep the other passes from their end.
ResolveEnds == phase = "declare" ~> Ended

=============================================================================

--------------------------------- MODULE MCHost ---------------------------------
(***************************************************************************)
(* The builder and its host, a manifest, and the registry of two managers, *)
(* each on its own: "which" says the one a behaviour is about.             *)
(***************************************************************************)
EXTENDS Manifest, Registrar, Host

CONSTANT Kinds  \* the parts to check

VARIABLE which

A == <<Root, "a">>
B == <<Root, "b">>
App == <<Dot, "app">>

\* Configurations: of a base directory, absolute or not; of a directory, relative,
\* absolute or the same as another; of a setting and a name.
Based(dir) == [Fresh EXCEPT !.base = dir]
MCGiven ==
  { Based(A), Based(App),
    [Based(B) EXCEPT !.dirs["data"] = <<"store">>, !.setting["loadTimeout"] = "long"],
    [Fresh EXCEPT !.dirs["data"] = <<Dot, "store">>, !.setting["severity"] = "low",
                    !.names["blacklisted"] = {"x"}],
    [Fresh EXCEPT !.dirs["logs"] = <<"store">>, !.setting["loadTimeout"] = "short",
                    !.names["blacklisted"] = {"y"}, !.names["excluded"] = {"old"}] }

MCBaseDirs == {A, App}
MCCurrentPath == <<Root, "cwd">>
MCSeverities == {Usual, "high"}
MCText == Dir \cup {Root, Dot, Usual, "disabled", ".git"}
  \cup {"a", "b", "app", "cwd", "store", "long", "short", "low", "high", "x", "y", "old"}

ASSUME HostAssumption /\ RegistrarAssumption

-----------------------------------------------------------------------------
(* Manifests of a method, with two parameters, and up to three definitions of *)
(* which the last may be an enum.  A definition stands in a list or in a      *)
(* property of an object before it; the properties that remain have names, or *)
(* a plain type: void, which a parameter may not have, goes with the other    *)
(* body of the last definition.                                               *)

Reference(k, name, def) ==
  [type |-> IF k = "enum" THEN "int" ELSE "function", kind |-> k, name |-> name, def |-> def]
Plain(type) == [type |-> type, kind |-> "prototype", name |-> None, def |-> None]

Listed == <<0, 0>>
Absent == <<0, 1>>
Stands ==
  { at \in [2..4 -> {Listed, Absent, <<1, 1>>, <<1, 2>>, <<2, 1>>, <<3, 1>>}] :
      \A d \in 2..4 :
        /\ at[d][1] < d
        /\ at[d][1] > 1 => at[at[d][1]] # Absent
        /\ \A e \in 2..4 : d # e /\ at[d] = at[e] => at[d] \in {Listed, Absent} }

MCWritten ==
  { LET kind(d) == IF d = 4 THEN last ELSE "prototype"
        Stood(o, i, free) ==
          IF \E d \in 2..4 : at[d] = <<o, i>>
          THEN LET d == CHOOSE d \in 2..4 : at[d] = <<o, i>> IN Reference(kind(d), None, d)
          ELSE free
        Definition(d) ==
          [kind |-> kind(d), name |-> IF d = 2 \/ kind(d) = "enum" THEN "P" ELSE name[d],
           function |-> None, body |-> IF d = 4 THEN body ELSE "x",
           properties |-> IF kind(d) = "enum" THEN <<>>
                          ELSE <<Stood(d, 1, IF uses[d] = None THEN Plain("void")
                                             ELSE Reference("prototype", uses[d], None))>>]
        Method ==
          [kind |-> "method", name |-> "m", function |-> "m", body |-> "x",
           properties |-> <<Stood(1, 1, Reference("prototype", "Q", None)),
                            Stood(1, 2, IF last = "enum" THEN Reference("enum", "P", None)
                                        ELSE Plain(IF body = "x" THEN "int" ELSE "void")), Plain("void")>>]
    IN  [object |-> [o \in {1} \cup {d \in 2..4 : at[d] # Absent} |->
                       IF o = 1 THEN Method ELSE Definition(o)],
         declared |-> SelectSeq(<<2, 3, 4>>, LAMBDA d : at[d] = Listed),
         methods |-> <<1>>] :
    at \in Stands, last \in {"prototype", "enum"}, name \in [3..4 -> {"P", "Q"}],
    body \in {"x", "y"}, uses \in [2..4 -> {None, "P", "Q"}] }

ASSUME ManifestAssumption

-----------------------------------------------------------------------------

mcVars == <<which, hostVars, registrar, vars>>

NoManifest ==
  /\ object = <<>> /\ declared = <<>> /\ methods = <<>> /\ table = <<>> /\ next = 1
  /\ todo = <<>> /\ unlinked = {} /\ marks = <<>> /\ path = <<>> /\ phase = "none"

MCInit ==
  /\ which \in Kinds
  /\ HostInit /\ (which = "host" \/ exists = {})
  /\ RegistrarInit
  /\ IF which = "manifest" THEN Init ELSE NoManifest

Resolves == which = "manifest" /\ Step /\ UNCHANGED <<which, hostVars, registrar>>

MCNext ==
  \/ which = "host" /\ HostNext /\ UNCHANGED <<which, registrar, vars>>
  \/ which = "registrar" /\ RegistrarNext /\ UNCHANGED <<which, hostVars, vars>>
  \/ Resolves
  \/ which = "manifest" /\ Over /\ UNCHANGED <<which, hostVars, registrar>>

\* Resolve and Validate run in a task of the thread pool, to their end.
MCSpec == MCInit /\ [][MCNext]_mcVars /\ WF_mcVars(Resolves)

=============================================================================

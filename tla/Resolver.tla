------------------------------ MODULE Resolver ------------------------------
(***************************************************************************)
(* LibsolvDependencyResolver over the calls of Resolve a manager makes on  *)
(* it.  Each call builds a new pool, whose solvables are numbered from the *)
(* same first id, and refills the two maps between extension and solvable  *)
(* ids, which are members and keep what the calls before put into them.    *)
(*                                                                         *)
(* A manifest is a model value; a requirement is the set of manifests that *)
(* provide it.  The solver is libsolv's and is given by what it returns.   *)
(***************************************************************************)
EXTENDS Naturals, SequencesExt

CONSTANTS
  Manifest,
  Requires,      \* [Manifest -> SUBSET SUBSET Manifest]: required dependencies
  Conflicts,     \* pairs not to be installed together: conflicts, obsoletes,
                 \* and two versions of one name
  Discoveries,   \* the sequences of manifests the manager may discover
  MaxResolves    \* bound on the calls of Resolve

ASSUME ResolverAssumption ==
  /\ Requires \in [Manifest -> SUBSET SUBSET Manifest]
  /\ Conflicts \subseteq Manifest \X Manifest
  /\ Discoveries \subseteq Seq(Manifest)
  /\ MaxResolves \in Nat

VARIABLES
  pc,                       \* "idle", "solving", or "undefined" once libsolv was
                            \* given a solvable that does not exist
  discovered,               \* the manifests of the current discovery
  span,                     \* the ids of the extensions passed to Resolve
  pool,                     \* the manifests of the pool's solvables, in order
  extensionToSolvableId,
  solvableIdToExtension,
  report,                   \* the ResolutionReport returned last
  resolves

resolverVars == <<pc, discovered, span, pool, extensionToSolvableId,
          solvableIdToExtension, report, resolves>>

\* Ids of extensions count from 0 in each discovery; libsolv keeps the
\* solvables 0 and 1 to itself.
ManifestOf(e) == discovered[e + 1]
FirstSolvable == 2
Solvables == {FirstSolvable + i - 1 : i \in DOMAIN pool}
PoolManifest(p) == pool[p - FirstSolvable + 1]

NoReport == [loadOrder |-> <<>>, dependencyGraph |-> <<>>,
             reverseDependencyGraph |-> <<>>, isLoadOrderValid |-> FALSE]

ResolverInit ==
  /\ pc = "idle"
  /\ discovered = <<>>
  /\ span = {}
  /\ pool = <<>>
  /\ extensionToSolvableId = <<>>
  /\ solvableIdToExtension = <<>>
  /\ report = NoReport
  /\ resolves = 0

-----------------------------------------------------------------------------
(* A map assigned to at the keys of f keeps its other keys. *)
Assign_KeepsOld(map, f) == map @@ f
Assign(map, f) ==
  [x \in DOMAIN f \cup DOMAIN map |-> IF x \in DOMAIN f THEN f[x] ELSE map[x]]

\* InitializePool and AddExtensionsToPool, for the extensions of a discovery
\* that the policy let through.
StartResolve ==
  /\ pc = "idle" /\ resolves < MaxResolves
  /\ \E found \in Discoveries : \E ids \in (SUBSET {i - 1 : i \in DOMAIN found}) \ {{}} :
     \E passed \in SetToSeqs(ids) :
       LET Solvable(i) == FirstSolvable + i - 1
       IN  /\ \A i, j \in DOMAIN passed : i < j => passed[i] < passed[j]
           /\ discovered' = found
           /\ span' = ids
           /\ pool' = [i \in DOMAIN passed |-> found[passed[i] + 1]]
           /\ extensionToSolvableId' =
                Assign(extensionToSolvableId,
                       [e \in ids |-> CHOOSE p \in {Solvable(i) : i \in DOMAIN passed} :
                                        passed[p - FirstSolvable + 1] = e])
           /\ solvableIdToExtension' =
                Assign(solvableIdToExtension,
                       [p \in {Solvable(i) : i \in DOMAIN passed} |->
                          passed[p - FirstSolvable + 1]])
  /\ pc' = "solving"
  /\ resolves' = resolves + 1
  /\ UNCHANGED report

-----------------------------------------------------------------------------
(* The solver. *)

\* One install job per extension the resolver knows.
Jobs == {extensionToSolvableId[e] : e \in DOMAIN extensionToSolvableId}

\* What provides a requirement of p, itself excepted.
Providers(p) ==
  {q \in Solvables \ {p} : \E r \in Requires[PoolManifest(p)] : PoolManifest(q) \in r}

Installable(S) ==
  /\ \A p \in S : \A r \in Requires[PoolManifest(p)] : \E q \in S : PoolManifest(q) \in r
  /\ \A p, q \in S : <<PoolManifest(p), PoolManifest(q)>> \notin Conflicts

\* q is reachable from p along requirements inside S.
ReachesIn(S, p, q) ==
  \A X \in SUBSET S :
    (/\ Providers(p) \cap S \subseteq X
     /\ \A x \in X : Providers(x) \cap S \subseteq X) => q \in X

InDependencyOrder(order) ==
  \A i, j \in DOMAIN order :
    i < j /\ order[j] \in Providers(order[i]) => ReachesIn(ToSet(order), order[j], order[i])

Transactions ==
  LET All == UNION {SetToSeqs(S) : S \in {T \in SUBSET Solvables : Installable(T)}}
  IN  {o \in All : /\ Installable(Solvables) => ToSet(o) = Solvables
                   /\ InDependencyOrder(o)}

\* ComputeInstallationOrder: ids for solvables, and the two graphs.
Report(order) ==
  LET Ext(p) == solvableIdToExtension[p]
      installed == ToSet(order)
      Edges == {<<Ext(e[1]), Ext(e[2])>> :
                  e \in {x \in installed \X Solvables : x[2] \in Providers(x[1])}}
  IN  [loadOrder |-> [i \in DOMAIN order |-> Ext(order[i])],
       dependencyGraph |->
         [e \in {x[1] : x \in Edges} |-> {x[2] : x \in {y \in Edges : y[1] = e}}],
       reverseDependencyGraph |->
         [d \in {x[2] : x \in Edges} |-> {x[1] : x \in {y \in Edges : y[2] = d}}],
       isLoadOrderValid |-> TRUE]

RunSolver ==
  /\ pc = "solving"
  /\ IF Jobs \subseteq Solvables
     THEN /\ \E order \in Transactions : report' = Report(order)
          /\ pc' = "idle"
     ELSE pc' = "undefined" /\ UNCHANGED report
  /\ UNCHANGED <<discovered, span, pool, extensionToSolvableId,
                 solvableIdToExtension, resolves>>

\* The resolver may not be called again, and cannot be after undefined behaviour.
Done ==
  /\ pc = "undefined" \/ (pc = "idle" /\ resolves = MaxResolves)
  /\ UNCHANGED resolverVars

ResolverNext == StartResolve \/ RunSolver \/ Done

ResolverSpec == ResolverInit /\ [][ResolverNext]_resolverVars

-----------------------------------------------------------------------------
(* Properties. *)

\* The answer is about the extensions of this call, whatever earlier calls left
\* in the maps: the ids are those passed, none comes twice, and the graph has a
\* provider of each requirement of each extension in the load order.
AnswersThisCall ==
  pc = "idle" /\ resolves > 0 =>
    LET order == report.loadOrder
        graph == report.dependencyGraph
        Of(e) == (IF e \in DOMAIN graph THEN graph[e] ELSE {}) \cup {e}
    IN  /\ ToSet(order) \subseteq span
        /\ \A i, j \in DOMAIN order : order[i] = order[j] => i = j
        /\ \A e \in ToSet(order) : \A r \in Requires[ManifestOf(e)] :
             \E d \in Of(e) \cap ToSet(order) : ManifestOf(d) \in r

\* libsolv_dependency_resolver.cpp:249: the jobs are the extensions, of this
\* call: each names a solvable of the pool.
JobsInPool == pc = "solving" => Jobs \subseteq Solvables

=============================================================================

---------------------------- MODULE Loading_proofs ----------------------------
(***************************************************************************)
(* Proofs about what decides the order of the extensions and what keeps    *)
(* their libraries: the dependency resolver, for any manifests,            *)
(* requirements, conflicts and discoveries, and any number of calls; and   *)
(* the caches of libraries, for any number of managers, modules and        *)
(* libraries, and any sharing of libraries among the modules.  And that    *)
(* the versions its constraints are about are ordered by their comparison. *)
(***************************************************************************)
EXTENDS Resolver, AssemblyCache, VersionOrder, Basics

-----------------------------------------------------------------------------
(* Part I, the resolver.                                                   *)
-----------------------------------------------------------------------------
(* The invariant: the entries of the map that this call reads are the ones *)
(* this call wrote, whatever else the calls before left in it.             *)

\* The solvables of the pool are numbered without a gap.
PoolNumbered == \E n \in Nat : DOMAIN pool = 1..n

\* The map gives every solvable of the pool an extension of this call, with the
\* manifest the solvable was made from, and no two solvables the same.
MapFresh ==
  /\ \A p \in Solvables :
       /\ p \in DOMAIN solvableIdToExtension
       /\ solvableIdToExtension[p] \in span
       /\ PoolManifest(p) = ManifestOf(solvableIdToExtension[p])
  /\ \A p, q \in Solvables : solvableIdToExtension[p] = solvableIdToExtension[q] => p = q

ResolverIInv ==
  /\ pc = "solving" => PoolNumbered /\ MapFresh
  /\ AnswersThisCall

-----------------------------------------------------------------------------
(* Lemmas about the operators. *)

\* A member of SetToSeqs(S) holds every element of S once.
LEMMA Permutation ==
  ASSUME NEW S, IsFiniteSet(S), NEW s \in SetToSeqs(S)
  PROVE  /\ \E n \in Nat : DOMAIN s = 1..n
         /\ ToSet(s) = S
         /\ \A i, j \in DOMAIN s : s[i] = s[j] => i = j
<1> DEFINE n == Cardinality(S)
<1>1. n \in Nat
  BY FS_CardinalityType
<1>2. s \in [1..n -> S] /\ \A i, j \in 1..n : i # j => s[i] # s[j]
  BY DEF SetToSeqs
<1>3. s \in Injection(1..n, S)
  BY <1>2 DEF Injection, IsInjective
<1>4. IsFiniteSet(1..n) /\ Cardinality(1..n) = n
  BY <1>1, FS_Interval
<1>5. s \in Surjection(1..n, S)
  BY <1>3, <1>4, FS_Injection
<1>. QED
  BY <1>1, <1>2, <1>5 DEF Surjection, ToSet

\* The ids of a discovery are finitely many numbers.
LEMMA IdsFinite ==
  ASSUME NEW found \in Discoveries, NEW ids \in SUBSET {i - 1 : i \in DOMAIN found}
  PROVE  IsFiniteSet(ids) /\ ids \subseteq Nat
<1>1. found \in Seq(Manifest)
  BY ResolverAssumption
<1>2. Len(found) \in Nat /\ DOMAIN found = 1..Len(found)
  BY <1>1
<1>3. ids \subseteq 0..Len(found)
  BY <1>2
<1>4. IsFiniteSet(0..Len(found))
  BY <1>2, FS_Interval
<1>5. IsFiniteSet(ids)
  BY <1>3, <1>4, FS_Subset, Zenon
<1>6. ids \subseteq Nat
  BY <1>2, <1>3
<1>. QED
  BY <1>5, <1>6

\* The pool's solvables are finitely many numbers.
LEMMA SolvablesFinite ==
  ASSUME PoolNumbered
  PROVE  IsFiniteSet(Solvables)
<1>1. PICK n \in Nat : DOMAIN pool = 1..n
  BY DEF PoolNumbered
<1>2. Solvables \subseteq 2..(n + 1)
  BY <1>1 DEF Solvables, FirstSolvable
<1>3. IsFiniteSet(2..(n + 1))
  BY <1>1, FS_Interval
<1>. QED
  BY <1>2, <1>3, FS_Subset

\* A map assigned to at the keys of f has the values of f there.
LEMMA AssignedAt ==
  ASSUME NEW map, NEW f, NEW x \in DOMAIN f
  PROVE  x \in DOMAIN Assign(map, f) /\ Assign(map, f)[x] = f[x]
  BY DEF Assign

-----------------------------------------------------------------------------
(* The steps. *)

\* What a call with these extensions makes of the pool and of the map it reads.
Made(found, ids, passed) ==
  /\ discovered' = found
  /\ span' = ids
  /\ pool' = [i \in DOMAIN passed |-> found[passed[i] + 1]]
  /\ solvableIdToExtension' =
       Assign(solvableIdToExtension,
              [p \in {FirstSolvable + i - 1 : i \in DOMAIN passed} |->
                 passed[p - FirstSolvable + 1]])

\* Resolve makes the entries the solver's answer will be read from.
LEMMA ResolveFresh ==
  ASSUME StartResolve
  PROVE  pc' = "solving" /\ PoolNumbered' /\ MapFresh'
<1>1. PICK found \in Discoveries :
        \E ids \in (SUBSET {i - 1 : i \in DOMAIN found}) \ {{}} :
          \E passed \in SetToSeqs(ids) : Made(found, ids, passed)
  BY DEF StartResolve, Made
<1>2. PICK ids \in SUBSET {i - 1 : i \in DOMAIN found} :
        \E passed \in SetToSeqs(ids) : Made(found, ids, passed)
  BY <1>1
<1>3. PICK passed \in SetToSeqs(ids) : Made(found, ids, passed)
  BY <1>2
<1>4. IsFiniteSet(ids) /\ ids \subseteq Nat
  BY IdsFinite
<1>5. /\ \E n \in Nat : DOMAIN passed = 1..n
      /\ ToSet(passed) = ids
      /\ \A i, j \in DOMAIN passed : passed[i] = passed[j] => i = j
  BY <1>4, Permutation
<1>6. DOMAIN pool' = DOMAIN passed
  BY <1>3 DEF Made
<1> DEFINE f == [p \in {FirstSolvable + i - 1 : i \in DOMAIN passed} |->
                   passed[p - FirstSolvable + 1]]
<1>7. Solvables' = DOMAIN f
  BY <1>6 DEF Solvables
<1>8. ASSUME NEW p \in Solvables'
      PROVE  /\ p \in DOMAIN solvableIdToExtension'
             /\ solvableIdToExtension'[p] = passed[p - FirstSolvable + 1]
             /\ p - FirstSolvable + 1 \in DOMAIN passed
             /\ p \in Nat
  <2>1. p \in DOMAIN f
    BY <1>7
  <2>2. solvableIdToExtension' = Assign(solvableIdToExtension, f)
    BY <1>3 DEF Made
  <2>3. p \in DOMAIN solvableIdToExtension' /\ solvableIdToExtension'[p] = f[p]
    <3> HIDE DEF f
    <3>. QED
      BY <2>1, <2>2, AssignedAt
  <2>4. PICK i \in DOMAIN passed : p = FirstSolvable + i - 1
    BY <2>1
  <2>5. i \in Nat
    BY <1>5
  <2>6. p - FirstSolvable + 1 = i /\ p \in Nat
    BY <2>4, <2>5, <1>5 DEF FirstSolvable
  <2>. QED
    BY <2>1, <2>3, <2>6
<1>9. PoolNumbered'
  BY <1>5, <1>6 DEF PoolNumbered
<1>10. ASSUME NEW p \in Solvables'
      PROVE  /\ solvableIdToExtension'[p] \in span'
             /\ PoolManifest(p)' = ManifestOf(solvableIdToExtension[p])'
  <2>1. passed[p - FirstSolvable + 1] \in ids
    BY <1>8, <1>5 DEF ToSet
  <2>2. PoolManifest(p)' = found[passed[p - FirstSolvable + 1] + 1]
    BY <1>8, <1>3 DEF PoolManifest, Made
  <2>. QED
    BY <2>1, <2>2, <1>8, <1>3 DEF ManifestOf, Made
<1>11. ASSUME NEW p \in Solvables', NEW q \in Solvables',
              solvableIdToExtension'[p] = solvableIdToExtension'[q]
       PROVE  p = q
  <2>1. p - FirstSolvable + 1 = q - FirstSolvable + 1
    BY <1>8, <1>11, <1>5
  <2>. QED
    BY <2>1, <1>8 DEF FirstSolvable
<1>12. MapFresh'
  BY <1>8, <1>10, <1>11 DEF MapFresh
<1>. QED
  BY <1>9, <1>12 DEF StartResolve

\* A report made from such a map answers this call.
LEMMA ReportAnswers ==
  ASSUME PoolNumbered, MapFresh, NEW order \in Transactions
  PROVE  LET graph == Report(order).dependencyGraph
             ids == Report(order).loadOrder
             Of(e) == (IF e \in DOMAIN graph THEN graph[e] ELSE {}) \cup {e}
         IN  /\ ToSet(ids) \subseteq span
             /\ \A i, j \in DOMAIN ids : ids[i] = ids[j] => i = j
             /\ \A e \in ToSet(ids) : \A r \in Requires[ManifestOf(e)] :
                  \E d \in Of(e) \cap ToSet(ids) : ManifestOf(d) \in r
<1> DEFINE graph == Report(order).dependencyGraph
           ids == Report(order).loadOrder
           Of(e) == (IF e \in DOMAIN graph THEN graph[e] ELSE {}) \cup {e}
           Ext(p) == solvableIdToExtension[p]
           Edges == {<<Ext(x[1]), Ext(x[2])>> :
                       x \in {y \in ToSet(order) \X Solvables : y[2] \in Providers(y[1])}}
<1>1. PICK S \in SUBSET Solvables : Installable(S) /\ order \in SetToSeqs(S)
  BY DEF Transactions
<1>2. IsFiniteSet(S)
  BY SolvablesFinite, FS_Subset
<1>3. /\ \E n \in Nat : DOMAIN order = 1..n
      /\ ToSet(order) = S
      /\ \A i, j \in DOMAIN order : order[i] = order[j] => i = j
  BY <1>1, <1>2, Permutation
<1>4. ids = [i \in DOMAIN order |-> Ext(order[i])]
  BY DEF Report
<1>5. graph = [e \in {x[1] : x \in Edges} |-> {x[2] : x \in {y \in Edges : y[1] = e}}]
  BY DEF Report
<1> HIDE DEF graph, ids
<1>6. DOMAIN ids = DOMAIN order
  BY <1>4
<1>7. ASSUME NEW i \in DOMAIN order
      PROVE  order[i] \in S /\ ids[i] = Ext(order[i])
  BY <1>3, <1>4 DEF ToSet
<1>8. ToSet(ids) = {Ext(p) : p \in S}
  BY <1>3, <1>4, <1>6, <1>7 DEF ToSet
<1>9. ToSet(ids) \subseteq span
  BY <1>8, <1>1 DEF MapFresh
<1>10. ASSUME NEW i \in DOMAIN ids, NEW j \in DOMAIN ids, ids[i] = ids[j]
       PROVE  i = j
  BY <1>3, <1>6, <1>7, <1>10, <1>1 DEF MapFresh
<1>11. ASSUME NEW e \in ToSet(ids), NEW r \in Requires[ManifestOf(e)]
       PROVE  \E d \in Of(e) \cap ToSet(ids) : ManifestOf(d) \in r
  <2>1. PICK p \in S : e = Ext(p)
    BY <1>8
  <2>2. r \in Requires[PoolManifest(p)]
    BY <2>1, <1>1 DEF MapFresh
  <2>3. PICK q \in S : PoolManifest(q) \in r
    BY <1>1, <2>2 DEF Installable
  <2>4. ManifestOf(Ext(q)) \in r /\ Ext(q) \in ToSet(ids)
    BY <2>3, <1>1, <1>8 DEF MapFresh
  <2>5. CASE q = p
    BY <2>1, <2>4, <2>5
  <2>6. CASE q # p
    <3>1. q \in Providers(p)
      BY <2>2, <2>3, <2>6, <1>1 DEF Providers
    <3>2. <<p, q>> \in {y \in ToSet(order) \X Solvables : y[2] \in Providers(y[1])}
      BY <3>1, <1>1, <1>3
    <3>3. <<Ext(p), Ext(q)>> \in Edges
      BY <3>2
    <3> HIDE DEF Edges
    <3>4. e \in DOMAIN graph /\ Ext(q) \in graph[e]
      BY <3>3, <2>1, <1>5
    <3>. QED
      BY <3>4, <2>4
  <2>. QED
    BY <2>5, <2>6
<1>. QED
  BY <1>9, <1>10, <1>11 DEF graph, ids

-----------------------------------------------------------------------------
(* The theorem. *)

LEMMA ResolverInitIInv == ResolverInit => ResolverIInv
  BY DEF ResolverInit, ResolverIInv, AnswersThisCall

LEMMA ResolverNextIInv == ResolverIInv /\ [ResolverNext]_resolverVars => ResolverIInv'
<1> SUFFICES ASSUME ResolverIInv, [ResolverNext]_resolverVars PROVE ResolverIInv'
  OBVIOUS
<1>1. CASE StartResolve
  <2>1. pc' = "solving" /\ PoolNumbered' /\ MapFresh'
    BY <1>1, ResolveFresh
  <2>. QED
    BY <2>1 DEF ResolverIInv, AnswersThisCall
<1>2. CASE RunSolver
  <2>1. CASE Jobs \subseteq Solvables
    <3>1. PICK order \in Transactions : report' = Report(order)
      BY <1>2, <2>1 DEF RunSolver
    <3>2. PoolNumbered /\ MapFresh
      BY <1>2 DEF ResolverIInv, RunSolver
    <3>3. pc' = "idle" /\ span' = span /\ discovered' = discovered
      BY <1>2, <2>1 DEF RunSolver
    <3>4. AnswersThisCall'
      BY <3>1, <3>2, <3>3, ReportAnswers DEF AnswersThisCall, ManifestOf
    <3>. QED
      BY <3>3, <3>4 DEF ResolverIInv
  <2>2. CASE ~(Jobs \subseteq Solvables)
    BY <1>2, <2>2 DEF RunSolver, ResolverIInv, AnswersThisCall
  <2>. QED
    BY <2>1, <2>2
<1>3. CASE UNCHANGED resolverVars
  BY <1>3 DEF resolverVars, ResolverIInv, PoolNumbered, MapFresh, AnswersThisCall, Solvables,
              PoolManifest, ManifestOf
<1>. QED
  BY <1>1, <1>2, <1>3 DEF ResolverNext, Done

\* However many calls came before and whatever they left in the maps, the report
\* of Resolve names extensions of this call, each once, with a provider of every
\* requirement in the load order and in the graph.
THEOREM ReportIsOfThisCall == ResolverSpec => []AnswersThisCall
<1>1. ResolverIInv => AnswersThisCall
  BY DEF ResolverIInv
<1>. QED
  BY ResolverInitIInv, ResolverNextIInv, <1>1, PTL DEF ResolverSpec

-----------------------------------------------------------------------------
(* Part II, the caches of libraries.                                       *)
(* The inductive invariant. *)

\* A pointer leads to an assembly of the library it is kept for.
PathsOK ==
  /\ \A l \in Loader, b \in Library : assemblies[l][b] # Nil => opened[assemblies[l][b]] = b
  /\ \A b \in Library : cache[b] # Nil => opened[cache[b]] = b
  /\ \A l \in Loader, m \in Module : held[l][m] # Nil => opened[held[l][m]] = LibraryOf[m]

\* LoadModule has its assembly from the cache of its loader, where it still is.
LocalOK ==
  \A l \in Loader :
    /\ loading[l] # Nil <=> local[l] # Nil
    /\ loading[l] # Nil =>
         runPhase[l] = "loading" /\ local[l] = assemblies[l][LibraryOf[loading[l]]]

\* What the modules hold is in the cache while the run goes on; when it ends,
\* unloading takes from the cache, and leaves modules that share a library with
\* one assembly.
HeldOK ==
  \A l \in Loader, m \in Module : held[l][m] # Nil =>
    LET kept == assemblies[l][LibraryOf[m]] IN
    /\ runPhase[l] = "loading" => kept = held[l][m]
    /\ kept # Nil => kept = held[l][m]
    /\ \A n \in Module : held[l][n] # Nil /\ LibraryOf[n] = LibraryOf[m]
                           => held[l][n] = held[l][m]

\* A run unloads after it has loaded.
UnloadedOK ==
  \A l \in Loader :
    /\ runPhase[l] = "loading" => unloaded[l] = {}
    /\ runPhase[l] = "destroyed" => \A b \in Library : assemblies[l][b] = Nil

IInv == CacheTypeOK /\ PathsOK /\ LocalOK /\ HeldOK /\ UnloadedOK

-----------------------------------------------------------------------------
(* What a load does. *)

\* The libraries opened so far stay what they are.
Extends(s, t) == Len(s) <= Len(t) /\ \A i \in DOMAIN s : t[i] = s[i]

\* BasicAssemblyLoader::Load returns an assembly of the library.
LEMMA LoadReturns ==
  ASSUME CacheTypeOK, PathsOK, NEW b \in Library, NEW a \in 1..MaxAssemblies, Load(b, a)
  PROVE  /\ opened' \in Seq(Library) /\ Extends(opened, opened')
         /\ a \in DOMAIN opened' /\ opened'[a] = b
         /\ cache' \in [Library -> Assembly' \cup {Nil}]
         /\ \A c \in Library : cache'[c] # Nil => opened'[cache'[c]] = c
<1> USE CacheAssumption DEF CacheAssumption
<1>0. /\ opened \in Seq(Library) /\ Len(opened) \in Nat /\ DOMAIN opened = 1..Len(opened)
      /\ cache \in [Library -> DOMAIN opened \cup {Nil}]
  BY DEF CacheTypeOK, Assembly
<1>1. CASE cache[b] # Nil /\ Alive(cache[b])
  <2>1. a = cache[b] /\ opened' = opened /\ cache' = cache
    BY <1>1 DEF Load
  <2> QED
    BY <1>0, <1>1, <2>1 DEF PathsOK, Extends, Assembly
<1>2. CASE ~(cache[b] # Nil /\ Alive(cache[b]))
  <2>1. /\ a = Len(opened) + 1
        /\ opened' = Append(opened, b)
        /\ cache' = Emplace(cache, b, a)
    BY <1>2 DEF Load
  <2>2. /\ opened' \in Seq(Library)
        /\ DOMAIN opened' = 1..(Len(opened) + 1)
        /\ Len(opened') = Len(opened) + 1
        /\ opened'[a] = b
        /\ \A i \in DOMAIN opened : opened'[i] = opened[i]
    BY <1>0, <2>1
  <2>3. cache' = cache \/ cache' = [cache EXCEPT ![b] = a]
    BY <2>1 DEF Emplace
  <2>7. a \in DOMAIN opened' /\ DOMAIN opened \subseteq DOMAIN opened'
    BY <1>0, <2>1, <2>2
  <2>4. cache' \in [Library -> Assembly' \cup {Nil}]
    BY <1>0, <2>7, <2>3 DEF Assembly
  <2>5. ASSUME NEW c \in Library, cache'[c] # Nil PROVE opened'[cache'[c]] = c
    BY <1>0, <2>2, <2>3, <2>5 DEF PathsOK
  <2>6. Extends(opened, opened')
    BY <1>0, <2>2 DEF Extends
  <2> QED
    BY <2>2, <2>7, <2>4, <2>5, <2>6
<1> QED
  BY <1>1, <1>2

\* GetOrLoadAssembly leaves its loader with an assembly a of the library in its
\* cache and in hand: the one it had, if it had one.
Gives(l, m, a) ==
  /\ opened' \in Seq(Library) /\ Extends(opened, opened')
  /\ opened'[a] = LibraryOf[m]
  /\ assemblies[l][LibraryOf[m]] \in {Nil, a}
  /\ assemblies' = [assemblies EXCEPT ![l][LibraryOf[m]] = a]
  /\ local' = [local EXCEPT ![l] = a]
  /\ cache' \in [Library -> Assembly' \cup {Nil}]
  /\ \A c \in Library : cache'[c] # Nil => opened'[cache'[c]] = c

LEMMA GetOrLoadGives ==
  ASSUME IInv, NEW l \in Loader, NEW m \in Module, GetOrLoadAssembly(l, m)
  PROVE  \E a \in DOMAIN opened' : Gives(l, m, a)
<1> USE CacheAssumption DEF CacheAssumption
<1> DEFINE b == LibraryOf[m]
<1>0. /\ opened \in Seq(Library) /\ Len(opened) \in Nat /\ DOMAIN opened = 1..Len(opened)
      /\ cache \in [Library -> DOMAIN opened \cup {Nil}]
      /\ assemblies \in [Loader -> [Library -> DOMAIN opened \cup {Nil}]]
      /\ b \in Library
  BY DEF IInv, CacheTypeOK, Assembly
<1>1. CASE assemblies[l][b] # Nil
  <2> DEFINE a == assemblies[l][b]
  <2>1. /\ local' = [local EXCEPT ![l] = a]
        /\ assemblies' = assemblies /\ cache' = cache /\ opened' = opened
    BY <1>1 DEF GetOrLoadAssembly
  <2>2. a \in DOMAIN opened' /\ opened'[a] = b
    BY <1>0, <1>1, <2>1 DEF IInv, PathsOK
  <2>3. assemblies' = [assemblies EXCEPT ![l][b] = a]
    BY <1>0, <2>1
  <2>4. Extends(opened, opened')
    BY <1>0, <2>1 DEF Extends
  <2>5. /\ opened' \in Seq(Library) /\ cache' \in [Library -> Assembly' \cup {Nil}]
        /\ \A c \in Library : cache'[c] # Nil => opened'[cache'[c]] = c
    BY <1>0, <2>1 DEF IInv, PathsOK, Assembly
  <2>6. Gives(l, m, a)
    BY <2>1, <2>2, <2>3, <2>4, <2>5 DEF Gives
  <2> QED
    BY <2>2, <2>6
<1>2. CASE assemblies[l][b] = Nil
  <2>1. PICK a \in 1..MaxAssemblies :
          Load(b, a) /\ Keep(l, b, a) /\ local' = [local EXCEPT ![l] = a]
    BY <1>2 DEF GetOrLoadAssembly
  <2>2. /\ opened' \in Seq(Library) /\ Extends(opened, opened')
        /\ a \in DOMAIN opened' /\ opened'[a] = b
        /\ cache' \in [Library -> Assembly' \cup {Nil}]
        /\ \A c \in Library : cache'[c] # Nil => opened'[cache'[c]] = c
    BY <1>0, <2>1, LoadReturns DEF IInv
  <2>3. assemblies' = [assemblies EXCEPT ![l][b] = a]
    BY <1>0, <1>2, <2>1 DEF Keep, Emplace
  <2> QED
    BY <1>2, <2>1, <2>2, <2>3 DEF Gives
<1> QED
  BY <1>1, <1>2

-----------------------------------------------------------------------------
(* Every step preserves the invariant. *)

LEMMA InitHolds == ASSUME CacheInit PROVE IInv
BY CacheAssumption
   DEF CacheAssumption, CacheInit, Nothing, Assembly, IInv, CacheTypeOK, PathsOK, LocalOK, HeldOK, UnloadedOK

LEMMA GetOrLoadKeeps ==
  ASSUME IInv, NEW l \in Loader, NEW m \in Module, GetOrLoadAssembly(l, m)
  PROVE  IInv'
<1> USE CacheAssumption DEF CacheAssumption
<1> DEFINE b == LibraryOf[m]
<1>0. PICK a \in DOMAIN opened' : Gives(l, m, a)
  BY GetOrLoadGives
<1>1. /\ opened' \in Seq(Library) /\ Extends(opened, opened')
      /\ opened'[a] = b
      /\ assemblies[l][b] \in {Nil, a}
      /\ assemblies' = [assemblies EXCEPT ![l][b] = a]
      /\ local' = [local EXCEPT ![l] = a]
      /\ cache' \in [Library -> Assembly' \cup {Nil}]
      /\ \A c \in Library : cache'[c] # Nil => opened'[cache'[c]] = c
  BY <1>0 DEF Gives
<1>2. /\ runPhase[l] = "loading" /\ loading[l] = Nil
      /\ loading' = [loading EXCEPT ![l] = m]
      /\ tried' = [tried EXCEPT ![l] = @ \cup {m}]
      /\ runPhase' = runPhase /\ unloaded' = unloaded /\ broken' = broken /\ held' = held
  BY DEF GetOrLoadAssembly
<1>3. /\ runPhase \in [Loader -> {"loading", "unloading", "destroyed"}]
      /\ loading \in [Loader -> Module \cup {Nil}]
      /\ local \in [Loader -> Assembly \cup {Nil}]
      /\ held \in [Loader -> [Module -> Assembly \cup {Nil}]]
      /\ assemblies \in [Loader -> [Library -> Assembly \cup {Nil}]]
      /\ opened \in Seq(Library) /\ b \in Library /\ a # Nil
  <2>1. a \in Nat
    BY <1>1
  <2> QED
    BY <2>1 DEF IInv, CacheTypeOK
<1>4. Assembly \subseteq Assembly' /\ a \in Assembly'
      /\ \A x \in Assembly : x # Nil /\ opened'[x] = opened[x]
  <2>1. /\ DOMAIN opened = 1..Len(opened) /\ DOMAIN opened' = 1..Len(opened')
        /\ Len(opened) \in Nat /\ Len(opened') \in Nat
    BY <1>1, <1>3
  <2> QED
    BY <1>1, <2>1 DEF Extends, Assembly
<1>5. CacheTypeOK'
  <2>1. tried' \in [Loader -> SUBSET Module]
    BY <1>2 DEF IInv, CacheTypeOK
  <2>2. /\ local' \in [Loader -> Assembly' \cup {Nil}]
        /\ held' \in [Loader -> [Module -> Assembly' \cup {Nil}]]
    BY <1>1, <1>2, <1>3, <1>4
  <2>3. assemblies' \in [Loader -> [Library -> Assembly' \cup {Nil}]]
    BY <1>1, <1>3, <1>4
  <2>4. loading' \in [Loader -> Module \cup {Nil}]
    BY <1>2, <1>3
  <2> QED
    BY <1>1, <1>2, <2>1, <2>2, <2>3, <2>4 DEF IInv, CacheTypeOK
<1>6. PathsOK'
  <2>1. ASSUME NEW k \in Loader, NEW c \in Library, assemblies'[k][c] # Nil
        PROVE  opened'[assemblies'[k][c]] = c
    <3>1. CASE k = l /\ c = b
      BY <1>1, <1>3, <3>1
    <3>2. CASE ~(k = l /\ c = b)
      <4>1. assemblies'[k][c] = assemblies[k][c] /\ assemblies[k][c] \in Assembly
        BY <1>1, <1>3, <2>1, <3>2
      <4> QED
        BY <1>4, <2>1, <4>1 DEF IInv, PathsOK
    <3> QED
      BY <3>1, <3>2
  <2>2. ASSUME NEW k \in Loader, NEW n \in Module, held'[k][n] # Nil
        PROVE  opened'[held'[k][n]] = LibraryOf[n]
    BY <1>2, <1>3, <1>4, <2>2 DEF IInv, PathsOK
  <2> QED
    BY <1>1, <2>1, <2>2 DEF PathsOK
<1>7. LocalOK'
  BY <1>1, <1>2, <1>3 DEF IInv, LocalOK
<1>8. HeldOK'
  <2>1. ASSUME NEW k \in Loader, NEW n \in Module, held'[k][n] # Nil
        PROVE  assemblies'[k][LibraryOf[n]] = assemblies[k][LibraryOf[n]]
    BY <1>1, <1>2, <1>3, <2>1 DEF IInv, HeldOK
  <2> QED
    BY <1>2, <2>1 DEF IInv, HeldOK
<1>9. UnloadedOK'
  BY <1>1, <1>2, <1>3 DEF IInv, UnloadedOK
<1> QED
  BY <1>5, <1>6, <1>7, <1>8, <1>9 DEF IInv

LEMMA LoadLanguageModuleKeeps ==
  ASSUME IInv, NEW l \in Loader, LoadLanguageModule(l)
  PROVE  IInv'
<1> USE CacheAssumption DEF CacheAssumption
<1> DEFINE m == loading[l]
<1>1. /\ m # Nil
      /\ held' = [held EXCEPT ![l][m] = local[l]] \/ held' = held
      /\ local' = [local EXCEPT ![l] = Nil]
      /\ loading' = [loading EXCEPT ![l] = Nil]
      /\ runPhase' = runPhase /\ tried' = tried /\ unloaded' = unloaded
      /\ assemblies' = assemblies /\ cache' = cache /\ opened' = opened
      /\ broken' \in [Loader -> BOOLEAN]
  BY DEF LoadLanguageModule, IInv, CacheTypeOK
<1>2. /\ m \in Module /\ local[l] # Nil
      /\ runPhase[l] = "loading"
      /\ local[l] = assemblies[l][LibraryOf[m]]
      /\ held \in [Loader -> [Module -> Assembly \cup {Nil}]]
      /\ local[l] \in Assembly \cup {Nil}
      /\ LibraryOf[m] \in Library
  BY <1>1 DEF IInv, CacheTypeOK, LocalOK
<1>3. CacheTypeOK'
  <2>1. held' \in [Loader -> [Module -> Assembly' \cup {Nil}]]
    BY SMTT(30), <1>1, <1>2 DEF Assembly
  <2> QED
    BY <1>1, <2>1 DEF IInv, CacheTypeOK, Assembly
<1>4. \A k \in Loader, n \in Module :
        held'[k][n] = held[k][n] \/ (k = l /\ n = m /\ held'[k][n] = local[l])
  BY <1>1, <1>2
<1>5. PathsOK'
  <2>1. ASSUME NEW k \in Loader, NEW n \in Module, held'[k][n] # Nil
        PROVE  opened[held'[k][n]] = LibraryOf[n]
    BY <1>2, <1>4, <2>1 DEF IInv, PathsOK
  <2> QED
    BY <1>1, <2>1 DEF IInv, PathsOK
<1>6. LocalOK'
  BY <1>1 DEF IInv, LocalOK, CacheTypeOK
<1>7. HeldOK'
  <2>1. ASSUME NEW k \in Loader, NEW n \in Module, held'[k][n] # Nil, runPhase[k] = "loading"
        PROVE  assemblies[k][LibraryOf[n]] = held'[k][n]
    BY <1>2, <1>4, <2>1 DEF IInv, HeldOK
  <2>2. ASSUME NEW k \in Loader, runPhase[k] # "loading", NEW n \in Module
        PROVE  held'[k][n] = held[k][n]
    BY <1>2, <1>4, <2>2
  <2>3. ASSUME NEW k \in Loader, NEW n \in Module, held'[k][n] # Nil
        PROVE  /\ runPhase[k] = "loading" => assemblies[k][LibraryOf[n]] = held'[k][n]
               /\ assemblies[k][LibraryOf[n]] # Nil => assemblies[k][LibraryOf[n]] = held'[k][n]
               /\ \A o \in Module : held'[k][o] # Nil /\ LibraryOf[o] = LibraryOf[n]
                                      => held'[k][o] = held'[k][n]
    <3>1. CASE runPhase[k] = "loading"
      BY <2>1, <2>3, <3>1
    <3>2. CASE runPhase[k] # "loading"
      BY <2>2, <2>3, <3>2 DEF IInv, HeldOK
    <3> QED
      BY <3>1, <3>2
  <2> QED
    BY <1>1, <2>3 DEF HeldOK
<1>8. UnloadedOK'
  BY <1>1 DEF IInv, UnloadedOK
<1> QED
  BY <1>3, <1>5, <1>6, <1>7, <1>8 DEF IInv

LEMMA UnloadModuleKeeps ==
  ASSUME IInv, NEW l \in Loader, NEW m \in Module, UnloadModule(l, m)
  PROVE  IInv'
<1> USE CacheAssumption DEF CacheAssumption
<1> DEFINE b == LibraryOf[m]
<1>1. /\ runPhase[l] = "unloading"
      /\ assemblies' = [assemblies EXCEPT ![l][b] = Nil] \/ assemblies' = assemblies
      /\ held' = [held EXCEPT ![l][m] = Nil]
      /\ unloaded' = [unloaded EXCEPT ![l] = @ \cup {m}]
      /\ runPhase' = runPhase /\ tried' = tried /\ broken' = broken
      /\ loading' = loading /\ local' = local /\ cache' = cache /\ opened' = opened
  BY DEF UnloadModule, Forget
<1>2. /\ held \in [Loader -> [Module -> Assembly \cup {Nil}]]
      /\ assemblies \in [Loader -> [Library -> Assembly \cup {Nil}]]
      /\ unloaded \in [Loader -> SUBSET Module]
      /\ b \in Library
  BY DEF IInv, CacheTypeOK
<1>3. /\ \A k \in Loader, n \in Module : held'[k][n] \in {held[k][n], Nil}
      /\ \A k \in Loader, c \in Library : assemblies'[k][c] \in {assemblies[k][c], Nil}
      /\ \A k \in Loader : k # l => /\ assemblies'[k] = assemblies[k]
                                    /\ held'[k] = held[k] /\ unloaded'[k] = unloaded[k]
  BY SMTT(30), <1>1, <1>2
<1>4. CacheTypeOK'
  <2>1. /\ held' \in [Loader -> [Module -> Assembly \cup {Nil}]]
        /\ unloaded' \in [Loader -> SUBSET Module]
    BY <1>1, <1>2
  <2>2. [assemblies EXCEPT ![l][b] = Nil] \in [Loader -> [Library -> Assembly \cup {Nil}]]
    BY <1>2
  <2>3. assemblies' \in [Loader -> [Library -> Assembly \cup {Nil}]]
    BY <1>1, <1>2, <2>2
  <2> QED
    BY <1>1, <2>1, <2>3 DEF IInv, CacheTypeOK, Assembly
<1>5. PathsOK'
  BY <1>1, <1>3 DEF IInv, PathsOK
<1>6. LocalOK'
  BY <1>1, <1>3 DEF IInv, LocalOK
<1>7. HeldOK'
  <2>1. ASSUME NEW k \in Loader, NEW n \in Module, held'[k][n] # Nil
        PROVE  /\ held[k][n] = held'[k][n]
               /\ assemblies'[k][LibraryOf[n]] \in {assemblies[k][LibraryOf[n]], Nil}
               /\ runPhase[k] = "loading" =>
                    assemblies'[k][LibraryOf[n]] = assemblies[k][LibraryOf[n]]
    BY <1>1, <1>3, <2>1
  <2>2. ASSUME NEW k \in Loader, NEW n \in Module, held'[k][n] # Nil
        PROVE  LET kept == assemblies'[k][LibraryOf[n]] IN
               /\ runPhase'[k] = "loading" => kept = held'[k][n]
               /\ kept # Nil => kept = held'[k][n]
               /\ \A o \in Module : held'[k][o] # Nil /\ LibraryOf[o] = LibraryOf[n]
                                      => held'[k][o] = held'[k][n]
    <3>1. ASSUME NEW o \in Module, held'[k][o] # Nil, LibraryOf[o] = LibraryOf[n]
          PROVE  held'[k][o] = held'[k][n]
      BY <2>1, <2>2, <3>1 DEF IInv, HeldOK
    <3>2. runPhase'[k] = "loading" => assemblies'[k][LibraryOf[n]] = held'[k][n]
      BY <1>1, <2>1, <2>2 DEF IInv, HeldOK
    <3>3. assemblies'[k][LibraryOf[n]] # Nil => assemblies'[k][LibraryOf[n]] = held'[k][n]
      BY <2>1, <2>2 DEF IInv, HeldOK
    <3> QED
      BY <3>1, <3>2, <3>3
  <2> QED
    BY <2>2 DEF HeldOK
<1>8. UnloadedOK'
  BY <1>1, <1>3 DEF IInv, UnloadedOK
<1> QED
  BY <1>4, <1>5, <1>6, <1>7, <1>8 DEF IInv

\* The steps that touch no assembly: the caches stay, phases may not go back to
\* loading, and what is unloaded stays.
LEMMA OtherStepKeeps ==
  ASSUME IInv, NEW l \in Loader,
         (\E m \in Module : FailLoad(l, m)) \/ FailRun(l) \/ TerminateLoader(l)
  PROVE  IInv'
<1>1. /\ unloaded' = unloaded /\ loading' = loading /\ local' = local
      /\ held' = held /\ assemblies' = assemblies /\ cache' = cache /\ opened' = opened
      /\ tried' = tried \/ (\E m \in Module : tried' = [tried EXCEPT ![l] = @ \cup {m}])
      /\ broken' = broken \/ broken' = [broken EXCEPT ![l] = TRUE]
      /\ \/ runPhase' = runPhase
         \/ loading[l] = Nil /\ runPhase' = [runPhase EXCEPT ![l] = "unloading"]
  BY DEF FailLoad, FailRun, TerminateLoader
<1>2. broken' \in [Loader -> BOOLEAN] /\ tried' \in [Loader -> SUBSET Module]
  <2>1. broken \in [Loader -> BOOLEAN] /\ tried \in [Loader -> SUBSET Module]
    BY DEF IInv, CacheTypeOK
  <2>2. [broken EXCEPT ![l] = TRUE] \in [Loader -> BOOLEAN]
    BY <2>1
  <2>3. ASSUME NEW m \in Module
        PROVE  [tried EXCEPT ![l] = @ \cup {m}] \in [Loader -> SUBSET Module]
    BY <2>1
  <2> QED
    BY <1>1, <2>1, <2>2, <2>3
<1>3. /\ runPhase' \in [Loader -> {"loading", "unloading", "destroyed"}]
      /\ \A k \in Loader : \/ runPhase'[k] = runPhase[k]
                           \/ loading[k] = Nil /\ runPhase'[k] = "unloading"
  <2>1. runPhase \in [Loader -> {"loading", "unloading", "destroyed"}]
    BY DEF IInv, CacheTypeOK
  <2> QED
    BY <1>1, <2>1
<1>4. CacheTypeOK' /\ PathsOK'
  BY <1>1, <1>2, <1>3 DEF IInv, CacheTypeOK, PathsOK, Assembly
<1>5. LocalOK' /\ HeldOK'
  BY <1>1, <1>3 DEF IInv, LocalOK, HeldOK
<1>6. UnloadedOK'
  BY <1>1, <1>3 DEF IInv, UnloadedOK
<1> QED
  BY <1>4, <1>5, <1>6 DEF IInv

LEMMA NextRunKeeps ==
  ASSUME IInv, NEW l \in Loader, NextRun(l)
  PROVE  IInv'
<1>1. /\ loading[l] = Nil
      /\ runPhase' = [runPhase EXCEPT ![l] = "loading"]
      /\ tried' = [tried EXCEPT ![l] = {}]
      /\ unloaded' = [unloaded EXCEPT ![l] = {}]
      /\ broken' = [broken EXCEPT ![l] = FALSE]
      /\ held' = [held EXCEPT ![l] = [m \in Module |-> Nil]]
      /\ loading' = loading /\ local' = local
      /\ assemblies' = assemblies /\ cache' = cache /\ opened' = opened
  BY DEF NextRun, Nothing, IInv, LocalOK
<1>2. CacheTypeOK'
  BY <1>1 DEF IInv, CacheTypeOK, Assembly
<1>3. \A k \in Loader, n \in Module : held'[k][n] # Nil => k # l /\ held'[k] = held[k]
  BY <1>1 DEF IInv, CacheTypeOK
<1>4. \A k \in Loader : k # l => runPhase'[k] = runPhase[k] /\ unloaded'[k] = unloaded[k]
  BY <1>1 DEF IInv, CacheTypeOK
<1>5. PathsOK'
  BY <1>1, <1>3 DEF IInv, PathsOK
<1>6. LocalOK'
  BY <1>1, <1>4 DEF IInv, LocalOK
<1>7. HeldOK'
  BY <1>1, <1>3, <1>4 DEF IInv, HeldOK
<1>8. UnloadedOK'
  BY <1>1, <1>4 DEF IInv, UnloadedOK, CacheTypeOK
<1> QED
  BY <1>2, <1>5, <1>6, <1>7, <1>8 DEF IInv

LEMMA DestroyKeeps ==
  ASSUME IInv, NEW l \in Loader, DestroyLoader(l)
  PROVE  IInv'
<1>1. /\ loading[l] = Nil
      /\ runPhase' = [runPhase EXCEPT ![l] = "destroyed"]
      /\ held' = [held EXCEPT ![l] = [m \in Module |-> Nil]]
      /\ assemblies' = [assemblies EXCEPT ![l] = [b \in Library |-> Nil]]
      /\ tried' = tried /\ unloaded' = unloaded /\ broken' = broken
      /\ loading' = loading /\ local' = local /\ cache' = cache /\ opened' = opened
  BY DEF DestroyLoader, Nothing, IInv, LocalOK
<1>2. CacheTypeOK'
  BY <1>1 DEF IInv, CacheTypeOK, Assembly
<1>3. /\ \A k \in Loader, n \in Module : held'[k][n] # Nil => k # l /\ held'[k] = held[k]
      /\ \A k \in Loader : k # l => runPhase'[k] = runPhase[k] /\ assemblies'[k] = assemblies[k]
      /\ runPhase'[l] = "destroyed" /\ \A b \in Library : assemblies'[l][b] = Nil
  BY <1>1 DEF IInv, CacheTypeOK
<1>4. PathsOK'
  BY <1>1, <1>3 DEF IInv, PathsOK
<1>5. LocalOK'
  BY <1>1, <1>3 DEF IInv, LocalOK
<1>6. HeldOK'
  BY <1>1, <1>3 DEF IInv, HeldOK
<1>7. UnloadedOK'
  BY <1>1, <1>3 DEF IInv, UnloadedOK
<1> QED
  BY <1>2, <1>4, <1>5, <1>6, <1>7 DEF IInv

LEMMA StepKeeps == ASSUME IInv, [CacheNext]_cacheVars PROVE IInv'
<1>1. CASE CacheOver \/ UNCHANGED cacheVars
  BY <1>1 DEF CacheOver, cacheVars, runVars, IInv, CacheTypeOK, PathsOK, LocalOK, HeldOK, UnloadedOK, Assembly
<1>2. ASSUME NEW l \in Loader, NEW m \in Module,
             GetOrLoadAssembly(l, m) \/ FailLoad(l, m) \/ UnloadModule(l, m)
      PROVE  IInv'
  BY <1>2, GetOrLoadKeeps, OtherStepKeeps, UnloadModuleKeeps
<1>3. ASSUME NEW l \in Loader, FailRun(l) \/ TerminateLoader(l)
      PROVE  IInv'
  BY <1>3, OtherStepKeeps
<1>4. ASSUME NEW l \in Loader, LoadLanguageModule(l) \/ NextRun(l) \/ DestroyLoader(l)
      PROVE  IInv'
  BY <1>4, LoadLanguageModuleKeeps, NextRunKeeps, DestroyKeeps
<1> QED
  BY <1>1, <1>2, <1>3, <1>4 DEF CacheNext

-----------------------------------------------------------------------------
(* The theorems. *)

THEOREM Invariance == CacheSpec => []IInv
<1>1. CacheInit => IInv
  BY InitHolds
<1>2. IInv /\ [CacheNext]_cacheVars => IInv'
  BY StepKeeps
<1> QED
  BY <1>1, <1>2, PTL DEF CacheSpec

\* The caches and the phases of the runs keep their types.
THEOREM TypeCorrect == CacheSpec => []CacheTypeOK
<1>1. IInv => CacheTypeOK
  BY DEF IInv
<1> QED
  BY <1>1, Invariance, PTL

\* GetOrLoadAssembly and UnloadModule: a manager opens a library once for all the
\* modules in it, although unloading the first of them drops it from the cache.
THEOREM OneAssembly == CacheSpec => []OneAssemblyPerLoader
<1>1. ASSUME IInv PROVE OneAssemblyPerLoader
  <2>1. /\ opened \in Seq(Library)
        /\ held \in [Loader -> [Module -> Assembly \cup {Nil}]]
        /\ assemblies \in [Loader -> [Library -> Assembly \cup {Nil}]]
        /\ LibraryOf \in [Module -> Library]
        /\ loading \in [Loader -> Module \cup {Nil}]
    BY <1>1, CacheAssumption DEF CacheAssumption, IInv, CacheTypeOK
  <2>2. ASSUME NEW l \in Loader, NEW a \in References(l) \ {Nil}
        PROVE  \/ a = assemblies[l][opened[a]] /\ opened[a] \in Library
               \/ \E m \in Module : a = held[l][m] /\ opened[a] = LibraryOf[m]
    <3>1. CASE a = local[l]
      BY <1>1, <2>1, <2>2, <3>1 DEF IInv, LocalOK, PathsOK
    <3>2. CASE \E m \in Module : a = held[l][m]
      BY <1>1, <2>2, <3>2 DEF IInv, PathsOK
    <3>3. CASE \E b \in Library : a = assemblies[l][b]
      BY <1>1, <2>2, <3>3 DEF IInv, PathsOK
    <3> QED
      BY <2>2, <3>1, <3>2, <3>3 DEF References
  <2>3. ASSUME NEW l \in Loader, NEW a \in References(l) \ {Nil},
               NEW b \in References(l) \ {Nil}, opened[a] = opened[b]
        PROVE  a = b
    BY <1>1, <2>2, <2>3 DEF IInv, HeldOK
  <2> QED
    BY <2>3 DEF OneAssemblyPerLoader
<1> QED
  BY <1>1, Invariance, PTL

\* UnloadModule: an unloaded module leaves no assembly in the cache of its loader,
\* when the path of its library is the absolute path the cache is keyed by.
THEOREM Forgotten == ASSUME BaseDirIsAbsolute PROVE CacheSpec => []UnloadedIsForgotten
<1>1. CacheInit => UnloadedIsForgotten
  BY DEF CacheInit, Nothing, UnloadedIsForgotten
<1>2. ASSUME IInv, UnloadedIsForgotten, [CacheNext]_cacheVars PROVE UnloadedIsForgotten'
  <2>1. /\ assemblies \in [Loader -> [Library -> Assembly \cup {Nil}]]
        /\ unloaded \in [Loader -> SUBSET Module]
        /\ LibraryOf \in [Module -> Library]
    BY <1>2, CacheAssumption DEF CacheAssumption, IInv, CacheTypeOK
  <2>2. CASE UNCHANGED <<unloaded, assemblies>>
    BY <1>2, <2>2 DEF UnloadedIsForgotten
  <2>3. ASSUME NEW l \in Loader, NEW m \in Module, GetOrLoadAssembly(l, m)
        PROVE  UnloadedIsForgotten'
    <3>1. PICK a \in DOMAIN opened' : Gives(l, m, a)
      BY <1>2, <2>3, GetOrLoadGives
    <3>2. unloaded' = unloaded /\ unloaded[l] = {}
      BY <1>2, <2>3 DEF GetOrLoadAssembly, IInv, UnloadedOK
    <3>3. \A k \in Loader : k # l => assemblies'[k] = assemblies[k]
      BY <2>1, <3>1 DEF Gives
    <3> QED
      BY <1>2, <3>2, <3>3 DEF UnloadedIsForgotten
  <2>4. ASSUME NEW l \in Loader, NEW m \in Module, UnloadModule(l, m)
        PROVE  UnloadedIsForgotten'
    <3>1. /\ assemblies' = [assemblies EXCEPT ![l][LibraryOf[m]] = Nil]
          /\ unloaded' = [unloaded EXCEPT ![l] = @ \cup {m}]
      BY <2>4 DEF UnloadModule, Forget
    <3>2. \A k \in Loader, b \in Library : assemblies'[k][b] \in {assemblies[k][b], Nil}
      BY <2>1, <3>1
    <3>3. assemblies'[l][LibraryOf[m]] = Nil
      BY <2>1, <3>1
    <3>4. \A k \in Loader : \A n \in unloaded'[k] : n \in unloaded[k] \/ (k = l /\ n = m)
      BY <2>1, <3>1
    <3> QED
      BY <1>2, <2>1, <3>2, <3>3, <3>4 DEF UnloadedIsForgotten
  <2>5. ASSUME NEW l \in Loader, NextRun(l) PROVE UnloadedIsForgotten'
    <3>1. unloaded' = [unloaded EXCEPT ![l] = {}] /\ assemblies' = assemblies
      BY <2>5 DEF NextRun
    <3> QED
      BY <1>2, <2>1, <3>1 DEF UnloadedIsForgotten
  <2>6. ASSUME NEW l \in Loader, DestroyLoader(l) PROVE UnloadedIsForgotten'
    <3>1. unloaded' = unloaded /\ assemblies' = [assemblies EXCEPT ![l] = Nothing(Library)]
      BY <2>6 DEF DestroyLoader
    <3> QED
      BY <1>2, <2>1, <3>1 DEF UnloadedIsForgotten, Nothing
  <2>7. ASSUME NEW l \in Loader, NEW m \in Module, FailLoad(l, m)
        PROVE  UNCHANGED <<unloaded, assemblies>>
    BY <2>7 DEF FailLoad
  <2>8. ASSUME NEW l \in Loader, LoadLanguageModule(l) \/ FailRun(l) \/ TerminateLoader(l)
        PROVE  UNCHANGED <<unloaded, assemblies>>
    BY <2>8 DEF LoadLanguageModule, FailRun, TerminateLoader
  <2> QED
    BY <1>2, <2>2, <2>3, <2>4, <2>5, <2>6, <2>7, <2>8 DEF CacheNext, CacheOver, cacheVars, runVars
<1> QED
  BY <1>1, <1>2, Invariance, PTL DEF CacheSpec

-----------------------------------------------------------------------------
(* Part III, the order of versions.                                        *)
-----------------------------------------------------------------------------
(* Words over an ordered alphabet.                                         *)

\* s comes before t, where the alphabet is ordered by R.
InOrder(s, t, R) ==
  \/ Len(s) < Len(t) /\ \A i \in DOMAIN s : s[i] = t[i]
  \/ \E i \in DOMAIN s \cap DOMAIN t : (\A j \in 1..(i - 1) : s[j] = t[j]) /\ <<s[i], t[i]>> \in R

\* The result of a comparison, what is lower and what is the same, agree.
Orders(c, lower, same, higher) ==
  c \in Int /\ (c < 0 <=> lower) /\ (c = 0 <=> same) /\ (c > 0 <=> higher)

LEMMA FirstDifferenceIs ==
  ASSUME NEW n \in Nat, NEW d \in [1..n -> Int], NEW rest
  PROVE  \/ (\A i \in 1..n : d[i] = 0) /\ FirstDifference(d, rest) = rest
         \/ \E i \in 1..n : /\ d[i] # 0 /\ \A j \in 1..(i - 1) : d[j] = 0
                            /\ FirstDifference(d, rest) = d[i]
<1> DEFINE differ == {i \in 1..n : d[i] # 0}
           IsFirst(i) == i \in differ /\ \A j \in differ : i <= j
           S == {k \in Nat : differ \cap (1..k) # {} => \E i \in differ : IsFirst(i)}
<1>1. 0 \in S
  OBVIOUS
<1>2. ASSUME NEW k \in S PROVE k + 1 \in S
  <2>1. CASE differ \cap (1..k) # {}
    <3>1. k \in Nat /\ \E i \in differ : IsFirst(i)
      BY <2>1
    <3> QED
      BY <3>1
  <2>2. CASE differ \cap (1..k) = {} /\ k + 1 \in differ
    <3>1. \A j \in differ : k + 1 <= j
      BY <2>2
    <3> QED
      BY <2>2, <3>1
  <2>3. CASE differ \cap (1..k) = {} /\ k + 1 \notin differ
    <3>1. differ \cap (1..(k + 1)) = {}
      BY <2>3
    <3> QED
      BY <3>1
  <2> QED
    BY <2>1, <2>2, <2>3
<1>3. n \in S
  <2>1. \A k \in S \cap Nat : k + 1 \in S
    BY <1>2
  <2> HIDE DEF S
  <2> QED
    BY <1>1, <2>1, Induction
<1>4. differ = {i \in DOMAIN d : d[i] # 0}
  OBVIOUS
<1>5. CASE differ = {}
  BY <1>4, <1>5 DEF FirstDifference
<1>6. CASE differ # {}
  <2>1. \E i \in differ : \A j \in differ : i <= j
    BY <1>3, <1>6
  <2> DEFINE first == CHOOSE i \in differ : \A j \in differ : i <= j
  <2>2. first \in differ /\ \A j \in differ : first <= j
    BY <2>1
  <2>3. FirstDifference(d, rest) = d[first]
    BY <1>4, <1>6 DEF FirstDifference
  <2> HIDE DEF first
  <2>4. \A j \in 1..(first - 1) : j \in 1..n /\ j \notin differ
    BY <2>2
  <2> QED
    BY <2>2, <2>3, <2>4
<1> QED
  BY <1>5, <1>6

LEMMA CommonPlaces ==
  ASSUME NEW m \in Nat, NEW n \in Nat
  PROVE  /\ Lesser(m, n) \in Nat /\ (1..m) \cap (1..n) = 1..Lesser(m, n)
         /\ m < n => 1..m = (1..m) \cap (1..n)
         /\ n < m => 1..n = (1..m) \cap (1..n)
<1>1. Lesser(m, n) \in Nat /\ Lesser(m, n) <= m /\ Lesser(m, n) <= n
      /\ (Lesser(m, n) = m \/ Lesser(m, n) = n)
  BY DEF Lesser
<1>2. \A i \in Int : (1 <= i /\ i <= m) /\ (1 <= i /\ i <= n) <=> 1 <= i /\ i <= Lesser(m, n)
  BY <1>1
<1>3. (1..m) \cap (1..n) = 1..Lesser(m, n)
  BY <1>1, <1>2
<1> QED
  BY <1>1, <1>3 DEF Lesser

\* Two words are in the order of their first difference, or else of their lengths.
LEMMA ComparedIs ==
  ASSUME NEW S, NEW s \in Seq(S), NEW t \in Seq(S), NEW d \in [Both(s, t) -> Int], NEW R,
         \A i \in Both(s, t) :
           Orders(d[i], <<s[i], t[i]>> \in R, s[i] = t[i], <<t[i], s[i]>> \in R),
         NEW rest, Orders(rest, Len(s) < Len(t), Len(s) = Len(t), Len(t) < Len(s))
  PROVE  Orders(FirstDifference(d, rest), InOrder(s, t, R), s = t, InOrder(t, s, R))
<1> DEFINE c == FirstDifference(d, rest)
           n == Lesser(Len(s), Len(t))
<1>1. Len(s) \in Nat /\ Len(t) \in Nat /\ DOMAIN s = 1..Len(s) /\ DOMAIN t = 1..Len(t)
  BY SMTT(30), SeqIs
<1>2. n \in Nat /\ Both(s, t) = 1..n
  <2>1. n \in Nat /\ (1..Len(s)) \cap (1..Len(t)) = 1..n
    BY <1>1, CommonPlaces
  <2> QED
    BY ZenonT(60), <1>1, <2>1 DEF Both
<1>3. Both(s, t) = DOMAIN s \cap DOMAIN t /\ Both(s, t) = DOMAIN t \cap DOMAIN s
  BY DEF Both
<1>4. \A i \in Both(s, t) : /\ d[i] \in Int /\ (d[i] < 0 <=> <<s[i], t[i]>> \in R)
                            /\ (d[i] = 0 <=> s[i] = t[i]) /\ (d[i] > 0 <=> <<t[i], s[i]>> \in R)
  BY DEF Orders
<1> HIDE DEF n
<1>5. CASE (\A i \in 1..n : d[i] = 0) /\ c = rest
  <2>1. \A i \in Both(s, t) : s[i] = t[i] /\ <<s[i], t[i]>> \notin R /\ <<t[i], s[i]>> \notin R
    <3>1. SUFFICES ASSUME NEW i \in Both(s, t)
                   PROVE  s[i] = t[i] /\ <<s[i], t[i]>> \notin R /\ <<t[i], s[i]>> \notin R
      OBVIOUS
    <3>2. d[i] = 0
      BY <1>5, <1>2
    <3>3. ~(d[i] < 0) /\ ~(d[i] > 0)
      BY SMTT(30), <3>2
    <3> QED
      BY <3>2, <3>3, <1>4
  <2>2. Len(s) < Len(t) => DOMAIN s = Both(s, t)
    <3>1. Len(s) < Len(t) => 1..Len(s) = (1..Len(s)) \cap (1..Len(t))
      BY ZenonT(60), <1>1, CommonPlaces
    <3> QED
      BY ZenonT(60), <1>1, <3>1 DEF Both
  <2>3. Len(t) < Len(s) => DOMAIN t = Both(s, t)
    <3>1. Len(t) < Len(s) => 1..Len(t) = (1..Len(s)) \cap (1..Len(t))
      BY <1>1, CommonPlaces
    <3> QED
      BY ZenonT(60), <1>1, <3>1 DEF Both
  <2>4. InOrder(s, t, R) <=> Len(s) < Len(t)
    BY <2>1, <2>2, <1>3 DEF InOrder
  <2>5. InOrder(t, s, R) <=> Len(t) < Len(s)
    BY <2>1, <2>3, <1>3 DEF InOrder
  <2>6. s = t <=> Len(s) = Len(t)
    <3>1. ASSUME Len(s) = Len(t) PROVE s = t
      <4>1. \A i \in 1..Len(s) : s[i] = t[i]
        BY <3>1, <2>1, <1>1, <1>3
      <4> QED
        BY <3>1, <4>1, SeqEqual
    <3> QED
      BY <3>1
  <2> QED
    BY <1>5, <2>4, <2>5, <2>6 DEF Orders
<1>6. ASSUME NEW i \in 1..n, d[i] # 0, \A j \in 1..(i - 1) : d[j] = 0, c = d[i]
      PROVE  Orders(c, InOrder(s, t, R), s = t, InOrder(t, s, R))
  <2>1. i \in Both(s, t) /\ i \in DOMAIN s /\ i \in DOMAIN t
    BY <1>2, <1>3
  <2>2. s[i] # t[i] /\ t[i] # s[i]
    BY <1>6, <2>1, <1>4
  <2>3. \A j \in 1..(i - 1) : j \in Both(s, t) /\ d[j] = 0 /\ ~(d[j] < 0) /\ ~(d[j] > 0)
    <3>1. \A j \in 1..(i - 1) : j \in 1..n
      BY <1>2
    <3>2. ~(0 < 0) /\ ~(0 > 0)
      OBVIOUS
    <3> QED
      BY <1>6, <1>2, <3>1, <3>2, Zenon
  <2>4. \A j \in 1..(i - 1) : /\ s[j] = t[j] /\ t[j] = s[j]
                              /\ <<s[j], t[j]>> \notin R /\ <<t[j], s[j]>> \notin R
    BY <2>3, <1>4, Zenon
  <2>5. \A k \in Both(s, t) : k = i \/ k \in 1..(i - 1) \/ i \in 1..(k - 1)
    BY <1>2
  <2>6. InOrder(s, t, R) <=> <<s[i], t[i]>> \in R
    BY <2>1, <2>2, <2>4, <2>5, <1>3 DEF InOrder
  <2>7. InOrder(t, s, R) <=> <<t[i], s[i]>> \in R
    BY <2>1, <2>2, <2>4, <2>5, <1>3 DEF InOrder
  <2>8. s # t
    BY <2>2
  <2> QED
    BY <1>4, <1>6, <2>1, <2>6, <2>7, <2>8 DEF Orders
<1> HIDE DEF c
<1>7. \/ (\A i \in 1..n : d[i] = 0) /\ c = rest
      \/ \E i \in 1..n : d[i] # 0 /\ (\A j \in 1..(i - 1) : d[j] = 0) /\ c = d[i]
  BY SMTT(30), <1>2, FirstDifferenceIs DEF c
<1> QED
  BY <1>5, <1>6, <1>7 DEF c

\* The order of words is transitive if that of the alphabet is.
LEMMA InOrderTransitive ==
  ASSUME NEW S, NEW R, NEW s \in Seq(S), NEW t \in Seq(S), NEW u \in Seq(S),
         \A a, b, c \in S : <<a, b>> \in R /\ <<b, c>> \in R => <<a, c>> \in R,
         InOrder(s, t, R), InOrder(t, u, R)
  PROVE  InOrder(s, u, R)
<1>1. /\ Len(s) \in Nat /\ Len(t) \in Nat /\ Len(u) \in Nat
      /\ DOMAIN s = 1..Len(s) /\ DOMAIN t = 1..Len(t) /\ DOMAIN u = 1..Len(u)
      /\ \A i \in DOMAIN s : s[i] \in S
      /\ \A i \in DOMAIN t : t[i] \in S
      /\ \A i \in DOMAIN u : u[i] \in S
  BY SeqIs
<1>2. CASE Len(s) < Len(t) /\ \A i \in DOMAIN s : s[i] = t[i]
  <2>1. CASE Len(t) < Len(u) /\ \A i \in DOMAIN t : t[i] = u[i]
    <3>1. Len(s) < Len(u) /\ \A i \in DOMAIN s : s[i] = u[i]
      BY <1>1, <1>2, <2>1
    <3> QED
      BY <3>1 DEF InOrder
  <2>2. ASSUME NEW k \in DOMAIN t \cap DOMAIN u, \A j \in 1..(k - 1) : t[j] = u[j],
               <<t[k], u[k]>> \in R
        PROVE  InOrder(s, u, R)
    <3>1. CASE k \in DOMAIN s
      <4>1. \A j \in 1..(k - 1) : j \in DOMAIN s
        BY <1>1, <3>1
      <4>2. s[k] = t[k] /\ \A j \in 1..(k - 1) : s[j] = u[j]
        BY <1>2, <2>2, <3>1, <4>1
      <4> QED
        BY <2>2, <3>1, <4>2 DEF InOrder
    <3>2. CASE k \notin DOMAIN s
      <4>1. Len(s) < Len(u) /\ \A j \in DOMAIN s : s[j] = u[j]
        BY <1>1, <1>2, <2>2, <3>2
      <4> QED
        BY <4>1 DEF InOrder
    <3> QED
      BY <3>1, <3>2
  <2> QED
    BY <2>1, <2>2 DEF InOrder
<1>3. ASSUME NEW i \in DOMAIN s \cap DOMAIN t, \A j \in 1..(i - 1) : s[j] = t[j],
             <<s[i], t[i]>> \in R
      PROVE  InOrder(s, u, R)
  <2>1. CASE Len(t) < Len(u) /\ \A j \in DOMAIN t : t[j] = u[j]
    <3>1. i \in DOMAIN u /\ \A j \in 1..(i - 1) : j \in DOMAIN t
      BY <1>1, <2>1
    <3>2. t[i] = u[i] /\ \A j \in 1..(i - 1) : s[j] = u[j]
      BY <1>3, <2>1, <3>1
    <3> QED
      BY <1>3, <3>1, <3>2 DEF InOrder
  <2>2. ASSUME NEW k \in DOMAIN t \cap DOMAIN u, \A j \in 1..(k - 1) : t[j] = u[j],
               <<t[k], u[k]>> \in R
        PROVE  InOrder(s, u, R)
    <3>1. CASE k < i
      <4>1. k \in DOMAIN s /\ s[k] = t[k] /\ \A j \in 1..(k - 1) : s[j] = u[j]
        BY <1>1, <1>3, <2>2, <3>1
      <4> QED
        BY <2>2, <4>1 DEF InOrder
    <3>2. CASE i < k
      <4>1. i \in DOMAIN u /\ t[i] = u[i] /\ \A j \in 1..(i - 1) : s[j] = u[j]
        BY <1>1, <1>3, <2>2, <3>2
      <4> QED
        BY <1>3, <4>1 DEF InOrder
    <3>3. CASE i = k
      <4>1. i \in DOMAIN u /\ \A j \in 1..(i - 1) : s[j] = u[j]
        BY <1>1, <1>3, <2>2, <3>3
      <4>2. <<s[i], u[i]>> \in R
        BY <1>1, <1>3, <2>2, <3>3
      <4> QED
        BY <4>1, <4>2 DEF InOrder
    <3> QED
      BY <1>1, <3>1, <3>2, <3>3
  <2> QED
    BY <2>1, <2>2 DEF InOrder
<1> QED
  BY <1>2, <1>3 DEF InOrder

-----------------------------------------------------------------------------
(* Words of numbers. *)

Lesses == {p \in Int \X Int : p[1] < p[2]}

LEMMA LessesIs ==
  ASSUME NEW a \in Int, NEW b \in Int
  PROVE  <<a, b>> \in Lesses <=> a < b
BY DEF Lesses

LEMMA LexicallyIs ==
  ASSUME NEW s \in Seq(Int), NEW t \in Seq(Int)
  PROVE  Lexically(s, t, <) <=> InOrder(s, t, Lesses)
<1>1. \A i \in DOMAIN s \cap DOMAIN t : s[i] \in Int /\ t[i] \in Int
  BY SeqIs
<1>2. \A i \in DOMAIN s \cap DOMAIN t : <<s[i], t[i]>> \in Lesses <=> s[i] < t[i]
  BY <1>1, LessesIs
<1> QED
  BY <1>2 DEF Lexically, InOrder

LEMMA CompareIs ==
  ASSUME NEW s \in Seq(Int), NEW t \in Seq(Int), NEW rest,
         Orders(rest, Len(s) < Len(t), Len(s) = Len(t), Len(t) < Len(s))
  PROVE  Orders(Compare(s, t, rest), InOrder(s, t, Lesses), s = t, InOrder(t, s, Lesses))
<1> DEFINE d == [i \in Both(s, t) |-> s[i] - t[i]]
<1>1. \A i \in Both(s, t) : s[i] \in Int /\ t[i] \in Int
  BY SeqIs DEF Both
<1>2. d \in [Both(s, t) -> Int]
  BY <1>1
<1>3. ASSUME NEW i \in Both(s, t)
      PROVE  Orders(d[i], <<s[i], t[i]>> \in Lesses, s[i] = t[i], <<t[i], s[i]>> \in Lesses)
  <2>1. s[i] \in Int /\ t[i] \in Int /\ d[i] = s[i] - t[i]
    BY <1>1
  <2>2. (<<s[i], t[i]>> \in Lesses <=> s[i] < t[i]) /\ (<<t[i], s[i]>> \in Lesses <=> t[i] < s[i])
    BY <2>1, LessesIs
  <2> HIDE DEF d
  <2> QED
    BY <2>1, <2>2 DEF Orders
<1>4. Compare(s, t, rest) = FirstDifference(d, rest)
  BY DEF Compare
<1> HIDE DEF d
<1>5. Orders(FirstDifference(d, rest), InOrder(s, t, Lesses), s = t, InOrder(t, s, Lesses))
  BY <1>2, <1>3, ComparedIs
<1> QED
  BY <1>4, <1>5

LEMMA LengthsCompare ==
  ASSUME NEW S, NEW s \in Seq(S), NEW t \in Seq(S)
  PROVE  Orders(Len(s) - Len(t), Len(s) < Len(t), Len(s) = Len(t), Len(t) < Len(s))
<1>1. Len(s) \in Nat /\ Len(t) \in Nat
  BY SeqIs
<1> QED
  BY <1>1 DEF Orders

-----------------------------------------------------------------------------
(* Numbers as they are written. *)

\* f[k] is the number written by the first k digits of x.
Reads(f, x) ==
  /\ f \in [0..Len(x) -> Nat] /\ f[0] = 0
  /\ \A k \in 0..(Len(x) - 1) : f[k + 1] = 10 * f[k] + (x[k + 1] - 10)
  /\ NumberIn(x) = f[Len(x)]

LEMMA NumberInIs ==
  ASSUME NEW x \in Seq(Digit)
  PROVE  \E f : Reads(f, x)
<1>1. Len(x) \in Nat /\ \A i \in 1..Len(x) : x[i] \in 10..19
  BY SeqIs DEF Digit
<1> DEFINE F == [k \in 1..Len(x) |-> [n \in Nat |-> 10 * n + (x[k] - 10)]]
<1>2. F \in [1..Len(x) -> [Nat -> Nat]]
  <2>1. ASSUME NEW k \in 1..Len(x), NEW n \in Nat PROVE 10 * n + (x[k] - 10) \in Nat
    <3>1. x[k] \in Int /\ x[k] >= 10
      BY <1>1
    <3> QED
      BY <3>1
  <2> QED
    BY <2>1
<1>3. \A k \in 1..Len(x), n \in Nat : F[k][n] = 10 * n + (x[k] - 10)
  OBVIOUS
<1> HIDE DEF F
<1>4. PICK g : IsDefinedTo(g, Len(x), Nat, 0, F)
  BY <1>1, <1>2, RecursionTo
<1>5. g \in [0..Len(x) -> Nat] /\ g = [k \in 0..Len(x) |-> IF k = 0 THEN 0 ELSE F[k][g[k - 1]]]
  BY <1>4 DEF IsDefinedTo
<1>6. g[0] = 0 /\ \A k \in 1..Len(x) : g[k] = F[k][g[k - 1]]
  <2>1. \A k \in 0..Len(x) : g[k] = IF k = 0 THEN 0 ELSE F[k][g[k - 1]]
    BY <1>5, Zenon
  <2>2. 0 \in 0..Len(x) /\ \A k \in 1..Len(x) : k \in 0..Len(x) /\ k # 0
    BY <1>1
  <2> QED
    BY <2>1, <2>2
<1>7. \A k \in 1..Len(x) : k - 1 \in 0..Len(x) /\ g[k - 1] \in Nat
  BY SMTT(30), <1>1, <1>5
<1>8. \A k \in 1..Len(x) : g[k] = 10 * g[k - 1] + (x[k] - 10)
  BY <1>3, <1>6, <1>7
<1>9. g = [k \in 0..Len(x) |-> IF k = 0 THEN 0 ELSE 10 * g[k - 1] + (x[k] - 10)]
  <2>1. g = [k \in 0..Len(x) |-> g[k]]
    BY <1>5
  <2>2. \A k \in 0..Len(x) : k # 0 => k \in 1..Len(x)
    OBVIOUS
  <2>3. \A k \in 0..Len(x) : g[k] = IF k = 0 THEN 0 ELSE 10 * g[k - 1] + (x[k] - 10)
    BY <1>6, <1>8, <2>2, Zenon
  <2> QED
    BY <2>1, <2>3, Zenon
<1> DEFINE upto == CHOOSE h : h = [k \in 0..Len(x) |-> IF k = 0 THEN 0 ELSE 10 * h[k - 1] + (x[k] - 10)]
<1>10. upto = [k \in 0..Len(x) |-> IF k = 0 THEN 0 ELSE 10 * upto[k - 1] + (x[k] - 10)]
  BY <1>9
<1>11. NumberIn(x) = upto[Len(x)]
  BY DEF NumberIn
<1> HIDE DEF upto
<1> DEFINE S == {k \in Nat : k <= Len(x) => upto[k] = g[k]}
<1>12. 0 \in S
  BY <1>1, <1>9, <1>10
<1>13. ASSUME NEW k \in S \cap Nat PROVE k + 1 \in S
  <2>1. SUFFICES ASSUME k + 1 <= Len(x) PROVE upto[k + 1] = g[k + 1]
    OBVIOUS
  <2>2. k + 1 \in 1..Len(x) /\ k + 1 \in 0..Len(x) /\ k + 1 # 0 /\ (k + 1) - 1 = k /\ k <= Len(x)
    BY <1>1, <2>1
  <2>3. upto[k] = g[k]
    BY <2>2
  <2>4. upto[k + 1] = 10 * upto[k] + (x[k + 1] - 10)
    BY <1>10, <2>2
  <2>5. g[k + 1] = 10 * g[k] + (x[k + 1] - 10)
    BY <1>8, <2>2
  <2> QED
    BY <2>3, <2>4, <2>5
<1>14. Len(x) \in S
  <2> HIDE DEF S
  <2> QED
    BY <1>1, <1>12, <1>13, Induction
<1>15. NumberIn(x) = g[Len(x)]
  BY <1>1, <1>11, <1>14
<1>16. \A k \in 0..(Len(x) - 1) : k + 1 \in 1..Len(x) /\ (k + 1) - 1 = k
  BY <1>1
<1>17. \A k \in 0..(Len(x) - 1) : g[k + 1] = 10 * g[k] + (x[k + 1] - 10)
  BY <1>8, <1>16
<1> QED
  BY <1>5, <1>6, <1>15, <1>17 DEF Reads

\* One more digit each keeps the numbers apart.
LEMMA StaysLower ==
  ASSUME NEW m \in Nat, NEW n \in Nat, m < n, NEW a \in Digit, NEW b \in Digit
  PROVE  10 * m + (a - 10) < 10 * n + (b - 10)
<1>1. a \in Int /\ b \in Int /\ a <= 19 /\ b >= 10
  BY DEF Digit
<1> QED
  BY <1>1

\* Of two numbers of as many digits, the one with the lower first different digit
\* is lower.
LEMMA LowerDigit ==
  ASSUME NEW x \in Seq(Digit), NEW y \in Seq(Digit), Len(x) = Len(y), InOrder(x, y, Lesses)
  PROVE  NumberIn(x) < NumberIn(y)
<1>1. PICK f : Reads(f, x)
  BY NumberInIs
<1>2. PICK g : Reads(g, y)
  BY NumberInIs
<1> DEFINE n == Len(x)
<1>3. /\ n \in Nat /\ Len(y) = n /\ DOMAIN x = 1..n /\ DOMAIN y = 1..n /\ ~(n < n)
      /\ \A i \in 1..n : x[i] \in Digit /\ y[i] \in Digit
  BY SeqIs
<1>4. /\ f \in [0..n -> Nat] /\ f[0] = 0 /\ NumberIn(x) = f[n]
      /\ \A k \in 0..(n - 1) : f[k + 1] = 10 * f[k] + (x[k + 1] - 10)
  BY <1>1 DEF Reads
<1>5. /\ g \in [0..n -> Nat] /\ g[0] = 0 /\ NumberIn(y) = g[n]
      /\ \A k \in 0..(n - 1) : g[k + 1] = 10 * g[k] + (y[k + 1] - 10)
  BY <1>2, <1>3 DEF Reads
<1>6. PICK i \in 1..n : (\A j \in 1..(i - 1) : x[j] = y[j]) /\ x[i] < y[i]
  <2>1. PICK i \in 1..n : (\A j \in 1..(i - 1) : x[j] = y[j]) /\ <<x[i], y[i]>> \in Lesses
    BY <1>3 DEF InOrder
  <2>2. x[i] \in Int /\ y[i] \in Int
    BY <1>3 DEF Digit
  <2>3. x[i] < y[i]
    BY <2>1, <2>2, LessesIs
  <2> QED
    BY <2>1, <2>3
<1> HIDE DEF n
<1> DEFINE S == {k \in Nat : k <= n => IF k < i THEN f[k] = g[k] ELSE f[k] < g[k]}
<1>7. 0 \in S
  BY <1>4, <1>5
<1>8. ASSUME NEW k \in S \cap Nat PROVE k + 1 \in S
  <2>1. SUFFICES ASSUME k + 1 <= n
                 PROVE  IF k + 1 < i THEN f[k + 1] = g[k + 1] ELSE f[k + 1] < g[k + 1]
    OBVIOUS
  <2>2. k <= n /\ k \in 0..n /\ k \in 0..(n - 1) /\ k + 1 \in 1..n
    BY <1>3, <2>1
  <2>3. f[k] \in Nat /\ g[k] \in Nat /\ x[k + 1] \in Digit /\ y[k + 1] \in Digit
    BY <1>3, <1>4, <1>5, <2>2
  <2>4. f[k + 1] = 10 * f[k] + (x[k + 1] - 10) /\ g[k + 1] = 10 * g[k] + (y[k + 1] - 10)
    BY <1>4, <1>5, <2>2
  <2>5. IF k < i THEN f[k] = g[k] ELSE f[k] < g[k]
    BY <2>2
  <2>6. CASE k + 1 < i
    <3>1. k < i /\ k + 1 \in 1..(i - 1)
      BY <2>6
    <3>2. f[k] = g[k] /\ x[k + 1] = y[k + 1]
      BY <1>6, <2>5, <3>1
    <3> QED
      BY <2>4, <2>6, <3>2
  <2>7. CASE k + 1 = i
    <3>1. f[k] = g[k] /\ x[k + 1] < y[k + 1] /\ ~(k + 1 < i)
      BY <1>6, <2>5, <2>7
    <3>2. \A u \in Nat, a, b \in Digit : a < b => 10 * u + (a - 10) < 10 * u + (b - 10)
      BY DEF Digit
    <3>3. 10 * f[k] + (x[k + 1] - 10) < 10 * f[k] + (y[k + 1] - 10)
      BY <2>3, <3>1, <3>2
    <3> QED
      BY <2>4, <3>1, <3>3
  <2>8. CASE k + 1 > i
    <3>1. ~(k < i) /\ ~(k + 1 < i)
      BY <2>8
    <3>2. 10 * f[k] + (x[k + 1] - 10) < 10 * g[k] + (y[k + 1] - 10)
      BY <2>3, <2>5, <3>1, StaysLower
    <3> QED
      BY <2>4, <3>1, <3>2
  <2> QED
    BY <2>6, <2>7, <2>8
<1>9. n \in S
  <2>1. n \in Nat
    BY <1>3
  <2> HIDE DEF S
  <2> QED
    BY <1>7, <1>8, <2>1, Induction
<1>10. f[n] < g[n]
  BY <1>3, <1>9
<1> QED
  BY <1>4, <1>5, <1>10

\* A number of fewer digits is lower than one that begins with no zero.
LEMMA FewerDigits ==
  ASSUME NEW x \in Seq(Digit), NEW y \in Seq(Digit), Len(x) < Len(y), y[1] # 10
  PROVE  NumberIn(x) < NumberIn(y)
<1>1. PICK f : Reads(f, x)
  BY NumberInIs
<1>2. PICK g : Reads(g, y)
  BY NumberInIs
<1> DEFINE m == Len(x)
           top == Len(y)
           e == top - m
<1>3. /\ m \in Nat /\ e \in Nat /\ e > 0 /\ m + e = top /\ 1 \in 1..top
      /\ \A i \in 1..m : x[i] \in Digit
      /\ \A i \in 1..top : y[i] \in Digit
  <2>1. Len(x) \in Nat /\ Len(y) \in Nat
    BY SeqIs
  <2>2. m \in Nat /\ e \in Nat /\ e > 0 /\ m + e = top /\ 1 \in 1..top
    BY <2>1
  <2> HIDE DEF m, e, top
  <2> QED
    BY SeqIs, <2>2 DEF m, top
<1>4. /\ f \in [0..m -> Nat] /\ f[0] = 0 /\ NumberIn(x) = f[m]
      /\ \A k \in 0..(m - 1) : f[k + 1] = 10 * f[k] + (x[k + 1] - 10)
  BY <1>1 DEF Reads
<1> HIDE DEF m, e, top
<1>5. /\ g \in [0..top -> Nat] /\ g[0] = 0 /\ NumberIn(y) = g[top]
      /\ \A k \in 0..(top - 1) : g[k + 1] = 10 * g[k] + (y[k + 1] - 10)
  BY <1>2 DEF Reads, top
<1> DEFINE P == {k \in Nat : k + 1 <= top => g[k + 1] > 0}
<1>6. 0 \in P
  <2>1. y[1] \in 11..19
    BY <1>3 DEF Digit
  <2>2. 0 \in 0..(top - 1) /\ 0 + 1 = 1
    BY <1>3
  <2>3. g[1] = 10 * g[0] + (y[1] - 10)
    BY <1>5, <2>2
  <2> QED
    BY <1>5, <2>1, <2>2, <2>3
<1>7. ASSUME NEW k \in P \cap Nat PROVE k + 1 \in P
  <2>1. SUFFICES ASSUME (k + 1) + 1 <= top PROVE g[(k + 1) + 1] > 0
    OBVIOUS
  <2>2. k + 1 <= top /\ k + 1 \in 0..(top - 1) /\ k + 1 \in 0..top /\ (k + 1) + 1 \in 1..top
    BY <1>3, <2>1
  <2>3. g[k + 1] > 0 /\ g[k + 1] \in Nat /\ y[(k + 1) + 1] \in Digit
    BY <1>3, <1>5, <2>2
  <2>4. g[(k + 1) + 1] = 10 * g[k + 1] + (y[(k + 1) + 1] - 10)
    BY <1>5, <2>2
  <2>5. \A u \in Nat, b \in Digit : u > 0 => 10 * u + (b - 10) > 0
    BY DEF Digit
  <2> QED
    BY <2>3, <2>4, <2>5
<1>8. g[e] > 0
  <2>1. e - 1 \in Nat /\ (e - 1) + 1 = e /\ (e - 1) + 1 <= top
    BY <1>3
  <2>2. e - 1 \in P
    <3> HIDE DEF P
    <3> QED
      BY <1>6, <1>7, <2>1, Induction
  <2> QED
    BY <2>1, <2>2
<1> DEFINE S == {k \in Nat : k <= m => f[k] < g[k + e]}
<1>9. 0 \in S
  <2>1. 0 + e = e
    BY <1>3
  <2> QED
    BY <1>4, <1>8, <2>1
<1>10. ASSUME NEW k \in S \cap Nat PROVE k + 1 \in S
  <2>1. SUFFICES ASSUME k + 1 <= m PROVE f[k + 1] < g[(k + 1) + e]
    OBVIOUS
  <2>2. /\ k <= m /\ k \in 0..m /\ k \in 0..(m - 1) /\ k + 1 \in 1..m
        /\ k + e \in 0..top /\ k + e \in 0..(top - 1) /\ (k + e) + 1 \in 1..top
        /\ (k + 1) + e = (k + e) + 1
    BY <1>3, <2>1
  <2>3. f[k] \in Nat /\ g[k + e] \in Nat /\ x[k + 1] \in Digit /\ y[(k + e) + 1] \in Digit
    BY <1>3, <1>4, <1>5, <2>2
  <2>4. f[k + 1] = 10 * f[k] + (x[k + 1] - 10)
        /\ g[(k + e) + 1] = 10 * g[k + e] + (y[(k + e) + 1] - 10)
    BY <1>4, <1>5, <2>2
  <2>5. f[k] < g[k + e]
    BY <2>2
  <2>6. 10 * f[k] + (x[k + 1] - 10) < 10 * g[k + e] + (y[(k + e) + 1] - 10)
    BY <2>3, <2>5, StaysLower
  <2> QED
    BY <2>2, <2>4, <2>6
<1>11. m \in S
  <2>1. m \in Nat
    BY <1>3
  <2> HIDE DEF S
  <2> QED
    BY <1>9, <1>10, <2>1, Induction
<1>12. f[m] < g[top]
  BY <1>3, <1>11
<1> QED
  BY <1>3, <1>4, <1>5, <1>12

-----------------------------------------------------------------------------
(* Identifiers, and versions. *)

LEMMA IdentifierIsText ==
  ASSUME NEW x \in Identifiers
  PROVE  x \in Seq(Int) /\ x # <<>>
<1>1. x \in Seq(Alphanumeric) /\ x # <<>>
  BY DEF Identifiers
<1>2. Alphanumeric \subseteq Int
  BY DEF Alphanumeric, Digit, Letter, Hyphen
<1>3. Len(x) \in Nat /\ x \in [1..Len(x) -> Alphanumeric]
  BY <1>1
<1>4. x \in [1..Len(x) -> Int]
  BY <1>2, <1>3
<1> QED
  BY <1>1, <1>3, <1>4, FunctionIsSeq

LEMMA NumbersAre ==
  ASSUME NEW x \in Identifiers, IsNumeric(x)
  PROVE  x \in Seq(Digit) /\ NumberIn(x) \in Nat
<1>1. x \in Seq(Int)
  BY IdentifierIsText
<1>2. Len(x) \in Nat /\ DOMAIN x = 1..Len(x)
  BY <1>1
<1>3. x \in [1..Len(x) -> Digit]
  BY <1>1, <1>2 DEF IsNumeric
<1>4. x \in Seq(Digit)
  BY <1>2, <1>3, FunctionIsSeq
<1>5. PICK f : Reads(f, x)
  BY <1>4, NumberInIs
<1> QED
  BY <1>2, <1>4, <1>5 DEF Reads

\* Numbers are compared by their lengths and then as texts, which is the order of
\* what they say, as long as they do not begin with a zero.
LEMMA NumericIs ==
  ASSUME NEW x \in Identifiers, IsNumeric(x), NEW y \in Identifiers, IsNumeric(y)
  PROVE  Orders(CompareNumerically(x, y), NumberIn(x) < NumberIn(y), x = y, NumberIn(y) < NumberIn(x))
<1>1. /\ x \in Seq(Int) /\ x # <<>> /\ (Len(x) > 1 => x[1] # 10)
      /\ y \in Seq(Int) /\ y # <<>> /\ (Len(y) > 1 => y[1] # 10)
  BY IdentifierIsText DEF Identifiers
<1>2. Len(x) \in Nat /\ Len(x) > 0 /\ Len(y) \in Nat /\ Len(y) > 0
  BY <1>1
<1>4. x \in Seq(Digit) /\ y \in Seq(Digit)
  BY NumbersAre
<1>5. NumberIn(x) \in Nat /\ NumberIn(y) \in Nat
  BY NumbersAre
<1>6. CASE Len(x) < Len(y)
  <2>1. CompareNumerically(x, y) = Len(x) - Len(y)
    BY <1>2, <1>6 DEF CompareNumerically
  <2>2. y[1] # 10
    BY <1>1, <1>2, <1>6
  <2>3. NumberIn(x) < NumberIn(y)
    BY <1>4, <1>6, <2>2, FewerDigits
  <2>4. x # y
    BY <1>2, <1>6
  <2> QED
    BY <1>2, <1>5, <1>6, <2>1, <2>3, <2>4 DEF Orders
<1>7. CASE Len(y) < Len(x)
  <2>1. CompareNumerically(x, y) = Len(x) - Len(y)
    BY <1>2, <1>7 DEF CompareNumerically
  <2>2. x[1] # 10
    BY <1>1, <1>2, <1>7
  <2>3. NumberIn(y) < NumberIn(x)
    BY <1>4, <1>7, <2>2, FewerDigits
  <2>4. x # y
    BY <1>2, <1>7
  <2> QED
    BY <1>2, <1>5, <1>7, <2>1, <2>3, <2>4 DEF Orders
<1>8. CASE Len(x) = Len(y)
  <2> DEFINE c == Compare(x, y, 0)
  <2>1. CompareNumerically(x, y) = c
    BY <1>8 DEF CompareNumerically
  <2>2. Orders(0, Len(x) < Len(y), Len(x) = Len(y), Len(y) < Len(x))
    BY <1>2, <1>8 DEF Orders
  <2>3. Orders(c, InOrder(x, y, Lesses), x = y, InOrder(y, x, Lesses))
    BY <1>1, <2>2, CompareIs
  <2> HIDE DEF c
  <2>4. InOrder(x, y, Lesses) => NumberIn(x) < NumberIn(y)
    BY <1>4, <1>8, LowerDigit
  <2>5. InOrder(y, x, Lesses) => NumberIn(y) < NumberIn(x)
    BY <1>4, <1>8, LowerDigit
  <2>6. c \in Int /\ (c < 0 => NumberIn(x) < NumberIn(y)) /\ (c = 0 <=> x = y) /\ (c > 0 => NumberIn(y) < NumberIn(x))
    BY <2>3, <2>4, <2>5, Zenon DEF Orders
  <2> QED
    BY <1>5, <2>1, <2>6 DEF Orders
<1> QED
  BY <1>2, <1>6, <1>7, <1>8

Lowers == {p \in Identifiers \X Identifiers : LowerIdentifier(p[1], p[2])}

LEMMA LowersIs ==
  ASSUME NEW x \in Identifiers, NEW y \in Identifiers
  PROVE  <<x, y>> \in Lowers <=> LowerIdentifier(x, y)
<1>1. <<x, y>> \in Identifiers \X Identifiers /\ <<x, y>>[1] = x /\ <<x, y>>[2] = y
  OBVIOUS
<1> QED
  BY <1>1, Zenon DEF Lowers

\* LowerIdentifier, with texts in the order of Lesses.
LEMMA LowerIdentifierIs ==
  ASSUME NEW x \in Identifiers, NEW y \in Identifiers
  PROVE  LowerIdentifier(x, y) <=>
           \/ IsNumeric(x) /\ ~IsNumeric(y)
           \/ IsNumeric(x) /\ IsNumeric(y) /\ NumberIn(x) < NumberIn(y)
           \/ ~IsNumeric(x) /\ ~IsNumeric(y) /\ InOrder(x, y, Lesses)
<1>1. x \in Seq(Int) /\ y \in Seq(Int)
  BY IdentifierIsText
<1>2. Lexically(x, y, <) <=> InOrder(x, y, Lesses)
  BY <1>1, LexicallyIs
<1> QED
  BY <1>2, Zenon DEF LowerIdentifier

LEMMA CompareIdentifierIs ==
  ASSUME NEW x \in Identifiers, NEW y \in Identifiers
  PROVE  Orders(CompareIdentifier(x, y), <<x, y>> \in Lowers, x = y, <<y, x>> \in Lowers)
<1> DEFINE c == CompareIdentifier(x, y)
           less == InOrder(x, y, Lesses)
           more == InOrder(y, x, Lesses)
<1>1. /\ <<x, y>> \in Lowers <=>
           \/ IsNumeric(x) /\ ~IsNumeric(y)
           \/ IsNumeric(x) /\ IsNumeric(y) /\ NumberIn(x) < NumberIn(y)
           \/ ~IsNumeric(x) /\ ~IsNumeric(y) /\ less
      /\ <<y, x>> \in Lowers <=>
           \/ IsNumeric(y) /\ ~IsNumeric(x)
           \/ IsNumeric(y) /\ IsNumeric(x) /\ NumberIn(y) < NumberIn(x)
           \/ ~IsNumeric(y) /\ ~IsNumeric(x) /\ more
  BY LowersIs, LowerIdentifierIs, Zenon
<1> HIDE DEF c, less, more
<1>2. CASE IsNumeric(x) /\ IsNumeric(y)
  <2>1. c = CompareNumerically(x, y)
    BY <1>2 DEF CompareIdentifier, c
  <2>2. Orders(c, NumberIn(x) < NumberIn(y), x = y, NumberIn(y) < NumberIn(x))
    BY <1>2, <2>1, NumericIs
  <2> QED
    BY <1>1, <1>2, <2>2, Zenon DEF Orders, c
<1>3. CASE ~IsNumeric(x) /\ ~IsNumeric(y)
  <2> DEFINE rest == Len(x) - Len(y)
  <2>1. x \in Seq(Int) /\ y \in Seq(Int)
    BY IdentifierIsText
  <2>2. Orders(rest, Len(x) < Len(y), Len(x) = Len(y), Len(y) < Len(x))
    BY <2>1, LengthsCompare
  <2>3. c = Compare(x, y, rest)
    BY <1>3 DEF CompareIdentifier, c
  <2> HIDE DEF rest
  <2>4. Orders(c, less, x = y, more)
    BY <2>1, <2>2, <2>3, CompareIs, Zenon DEF less, more
  <2> QED
    BY <1>1, <1>3, <2>4, Zenon DEF Orders, c
<1>4. CASE IsNumeric(x) /\ ~IsNumeric(y)
  <2>1. c = -1
    BY <1>4 DEF CompareIdentifier, c
  <2>2. x # y /\ -1 \in Int /\ -1 < 0 /\ ~(-1 = 0) /\ ~(-1 > 0)
    BY <1>4
  <2> QED
    BY <1>1, <1>4, <2>1, <2>2, Zenon DEF Orders, c
<1>5. CASE ~IsNumeric(x) /\ IsNumeric(y)
  <2>1. c = 1
    BY <1>5 DEF CompareIdentifier, c
  <2>2. x # y /\ 1 \in Int /\ ~(1 < 0) /\ ~(1 = 0) /\ 1 > 0
    BY <1>5
  <2> QED
    BY <1>1, <1>5, <2>1, <2>2, Zenon DEF Orders, c
<1> QED
  BY <1>2, <1>3, <1>4, <1>5

LEMMA LowersTransitive ==
  ASSUME NEW x \in Identifiers, NEW y \in Identifiers, NEW z \in Identifiers,
         <<x, y>> \in Lowers, <<y, z>> \in Lowers
  PROVE  <<x, z>> \in Lowers
<1>1. LowerIdentifier(x, y) /\ LowerIdentifier(y, z) /\ (<<x, z>> \in Lowers <=> LowerIdentifier(x, z))
  BY LowersIs
<1>2. CASE ~IsNumeric(x)
  <2>1. /\ ~IsNumeric(y) /\ ~IsNumeric(z)
        /\ InOrder(x, y, Lesses) /\ InOrder(y, z, Lesses)
    BY <1>1, <1>2, LowerIdentifierIs, Zenon
  <2>2. x \in Seq(Int) /\ y \in Seq(Int) /\ z \in Seq(Int)
    BY IdentifierIsText
  <2>3. \A a, b, c \in Int : <<a, b>> \in Lesses /\ <<b, c>> \in Lesses => <<a, c>> \in Lesses
    BY LessesIs
  <2>4. InOrder(x, z, Lesses)
    BY <2>1, <2>2, <2>3, InOrderTransitive
  <2> QED
    BY <1>1, <1>2, <2>1, <2>4, LowerIdentifierIs, Zenon
<1>3. CASE IsNumeric(x) /\ IsNumeric(z)
  <2>1. IsNumeric(y) /\ NumberIn(x) < NumberIn(y) /\ NumberIn(y) < NumberIn(z)
    BY <1>1, <1>3, LowerIdentifierIs, Zenon
  <2>2. \A id \in Identifiers : IsNumeric(id) => NumberIn(id) \in Nat
    BY NumbersAre
  <2>3. NumberIn(x) < NumberIn(z)
    BY <1>3, <2>1, <2>2
  <2> QED
    BY <1>1, <1>3, <2>3, LowerIdentifierIs, Zenon
<1>4. CASE IsNumeric(x) /\ ~IsNumeric(z)
  BY <1>1, <1>4, LowerIdentifierIs, Zenon
<1> QED
  BY <1>2, <1>3, <1>4


\* The order of prereleases: what has no identifiers is the release, and last.
Earlier(s, t) == s # <<>> /\ (t = <<>> \/ InOrder(s, t, Lowers))

LEMMA ComparePrereleaseIs ==
  ASSUME NEW v, NEW w, v.ids \in Seq(Identifiers), w.ids \in Seq(Identifiers)
  PROVE  Orders(ComparePrerelease(v, w), Earlier(v.ids, w.ids), v.ids = w.ids,
                Earlier(w.ids, v.ids))
<1> DEFINE s == v.ids
           t == w.ids
           c == ComparePrerelease(v, w)
           d == [i \in Both(s, t) |-> CompareIdentifier(s[i], t[i])]
           rest == Len(s) - Len(t)
<1>1. s \in Seq(Identifiers) /\ t \in Seq(Identifiers)
  OBVIOUS
<1>2. c = IF (s = <<>>) # (t = <<>>) THEN Len(t) - Len(s) ELSE FirstDifference(d, rest)
  BY DEF ComparePrerelease
<1>3. ASSUME NEW i \in Both(s, t)
      PROVE  s[i] \in Identifiers /\ t[i] \in Identifiers /\ d[i] = CompareIdentifier(s[i], t[i])
  BY <1>1, SeqIs DEF Both
<1>4. d = [i \in Both(s, t) |-> d[i]]
  OBVIOUS
<1> HIDE DEF s, t, c, d, rest
<1>5. /\ Len(s) \in Nat /\ (Len(s) = 0 <=> s = <<>>)
      /\ Len(t) \in Nat /\ (Len(t) = 0 <=> t = <<>>)
  BY <1>1
<1>6. ASSUME NEW i \in Both(s, t)
      PROVE  Orders(d[i], <<s[i], t[i]>> \in Lowers, s[i] = t[i], <<t[i], s[i]>> \in Lowers)
  BY <1>3, CompareIdentifierIs
<1>7. d \in [Both(s, t) -> Int]
  <2>1. \A i \in Both(s, t) : d[i] \in Int
    BY <1>6 DEF Orders
  <2> QED
    BY <1>4, <2>1
<1>8. Orders(FirstDifference(d, rest), InOrder(s, t, Lowers), s = t, InOrder(t, s, Lowers))
  <2>1. Orders(rest, Len(s) < Len(t), Len(s) = Len(t), Len(t) < Len(s))
    BY <1>1, LengthsCompare DEF rest
  <2> QED
    BY <1>1, <1>6, <1>7, <2>1, ComparedIs
<1>9. CASE s = <<>> /\ t # <<>>
  <2>1. c = Len(t) - Len(s) /\ c \in Int /\ c > 0 /\ ~(c < 0) /\ c # 0
    BY <1>2, <1>5, <1>9
  <2> QED
    BY <1>9, <2>1, Zenon DEF Orders, Earlier, s, t, c
<1>10. CASE s # <<>> /\ t = <<>>
  <2>1. c = Len(t) - Len(s) /\ c \in Int /\ c < 0 /\ ~(c > 0) /\ c # 0
    BY <1>2, <1>5, <1>10
  <2> QED
    BY <1>10, <2>1, Zenon DEF Orders, Earlier, s, t, c
<1>11. CASE s = <<>> /\ t = <<>>
  <2>1. c = FirstDifference(d, rest)
    BY <1>2, <1>11
  <2>2. c = 0 /\ c \in Int /\ ~(c < 0) /\ ~(c > 0)
    BY <1>8, <1>11, <2>1 DEF Orders
  <2> QED
    BY <1>11, <2>2, Zenon DEF Orders, Earlier, s, t, c
<1>12. CASE s # <<>> /\ t # <<>>
  <2>1. c = FirstDifference(d, rest)
    BY <1>2, <1>12
  <2> QED
    BY <1>8, <1>12, <2>1, Zenon DEF Orders, Earlier, s, t, c
<1> QED
  BY <1>9, <1>10, <1>11, <1>12

LEMMA EarlierTransitive ==
  ASSUME NEW s \in Seq(Identifiers), NEW t \in Seq(Identifiers), NEW u \in Seq(Identifiers),
         Earlier(s, t), Earlier(t, u)
  PROVE  Earlier(s, u)
<1>1. s # <<>> /\ t # <<>> /\ InOrder(s, t, Lowers) /\ (u = <<>> \/ InOrder(t, u, Lowers))
  BY DEF Earlier
<1>2. CASE InOrder(t, u, Lowers)
  <2>1. \A x, y, z \in Identifiers : <<x, y>> \in Lowers /\ <<y, z>> \in Lowers => <<x, z>> \in Lowers
    BY LowersTransitive
  <2>2. InOrder(s, u, Lowers)
    BY <1>1, <1>2, <2>1, InOrderTransitive
  <2> QED
    BY <1>1, <2>2 DEF Earlier
<1> QED
  BY <1>1, <1>2 DEF Earlier

LEMMA CoreIsText ==
  ASSUME NEW v, IsVersion(v)
  PROVE  v.core \in Seq(Int) /\ Len(v.core) = 3 /\ v.ids \in Seq(Identifiers)
<1>1. v.core \in [1..3 -> Nat] /\ v.ids \in Seq(Identifiers)
  BY DEF IsVersion
<1>2. \A f \in [1..3 -> Nat] : f \in Seq(Int) /\ Len(f) = 3
  <2>1. \A f \in [1..3 -> Nat] : f \in [1..3 -> Int]
    OBVIOUS
  <2>2. 3 \in Nat
    OBVIOUS
  <2> QED
    BY <2>1, <2>2, FunctionIsSeq
<1> QED
  BY <1>1, <1>2, Zenon

\* Lower, with numbers in the order of Lesser and identifiers in that of Lowers.
LEMMA LowerIs ==
  ASSUME NEW v, IsVersion(v), NEW w, IsVersion(w)
  PROVE  Lower(v, w) <=> \/ InOrder(v.core, w.core, Lesses)
                         \/ v.core = w.core /\ Earlier(v.ids, w.ids)
<1>1. /\ v.core \in Seq(Int) /\ w.core \in Seq(Int)
      /\ v.ids \in Seq(Identifiers) /\ w.ids \in Seq(Identifiers)
  BY CoreIsText
<1>2. Lexically(v.core, w.core, <) <=> InOrder(v.core, w.core, Lesses)
  BY <1>1, LexicallyIs
<1>3. Lexically(v.ids, w.ids, LowerIdentifier) <=> InOrder(v.ids, w.ids, Lowers)
  <2>1. \A i \in DOMAIN v.ids \cap DOMAIN w.ids :
          <<v.ids[i], w.ids[i]>> \in Lowers <=> LowerIdentifier(v.ids[i], w.ids[i])
    <3>1. \A i \in DOMAIN v.ids \cap DOMAIN w.ids :
            v.ids[i] \in Identifiers /\ w.ids[i] \in Identifiers
      BY <1>1, SeqIs
    <3> QED
      BY <3>1, LowersIs
  <2> QED
    BY <2>1, Zenon DEF Lexically, InOrder
<1> QED
  BY <1>2, <1>3, Zenon DEF Lower, Earlier

\* The comparison of any two versions is their precedence, and says that they are
\* equal if they differ in their build at most.
THEOREM ComparisonIsPrecedence ==
  ASSUME NEW v, IsVersion(v), NEW w, IsVersion(w)
  PROVE  /\ CompareParsed(v, w) \in Int
         /\ CompareParsed(v, w) < 0 <=> Lower(v, w)
         /\ CompareParsed(v, w) > 0 <=> Lower(w, v)
         /\ CompareParsed(v, w) = 0 <=> v.core = w.core /\ v.ids = w.ids
<1> DEFINE c == CompareCore(v, w)
           r == CompareParsed(v, w)
           p == ComparePrerelease(v, w)
<1>1. /\ v.core \in Seq(Int) /\ Len(v.core) = 3 /\ v.ids \in Seq(Identifiers)
      /\ w.core \in Seq(Int) /\ Len(w.core) = 3 /\ w.ids \in Seq(Identifiers)
  BY CoreIsText
<1>2. Orders(c, InOrder(v.core, w.core, Lesses), v.core = w.core, InOrder(w.core, v.core, Lesses))
  <2>1. Orders(0, Len(v.core) < Len(w.core), Len(v.core) = Len(w.core), Len(w.core) < Len(v.core))
    BY <1>1 DEF Orders
  <2> QED
    BY <1>1, <2>1, CompareIs DEF CompareCore
<1>3. Orders(p, Earlier(v.ids, w.ids), v.ids = w.ids, Earlier(w.ids, v.ids))
  BY <1>1, ComparePrereleaseIs
<1>4. r = IF c # 0 THEN c ELSE p
  BY DEF CompareParsed
<1>5. Lower(v, w) <=> InOrder(v.core, w.core, Lesses) \/ (v.core = w.core /\ Earlier(v.ids, w.ids))
  BY LowerIs
<1>6. Lower(w, v) <=> InOrder(w.core, v.core, Lesses) \/ (w.core = v.core /\ Earlier(w.ids, v.ids))
  BY LowerIs
<1> HIDE DEF c, r, p
<1>7. \A n \in Int : n # 0 <=> n < 0 \/ n > 0
  OBVIOUS
<1>8. CASE c # 0
  <2>1. r = c /\ v.core # w.core
    BY <1>2, <1>4, <1>8, Zenon DEF Orders
  <2> QED
    BY <1>2, <1>5, <1>6, <1>8, <2>1, Zenon DEF Orders, r
<1>9. CASE c = 0
  <2>1. r = p /\ v.core = w.core /\ ~(c < 0) /\ ~(c > 0)
    BY <1>2, <1>4, <1>9 DEF Orders
  <2> QED
    BY <1>2, <1>3, <1>5, <1>6, <2>1, Zenon DEF Orders, r
<1> QED
  BY <1>8, <1>9

\* Precedence is transitive: with the theorem before, versions are totally ordered
\* by their comparison, as the operators of version promise: <=> is strong_ordering.
THEOREM PrecedenceIsTransitive ==
  ASSUME NEW u, IsVersion(u), NEW v, IsVersion(v), NEW w, IsVersion(w), Lower(u, v), Lower(v, w)
  PROVE  Lower(u, w)
<1>1. /\ u.core \in Seq(Int) /\ v.core \in Seq(Int) /\ w.core \in Seq(Int)
      /\ u.ids \in Seq(Identifiers) /\ v.ids \in Seq(Identifiers) /\ w.ids \in Seq(Identifiers)
  BY CoreIsText
<1>2. \/ InOrder(u.core, v.core, Lesses)
      \/ u.core = v.core /\ Earlier(u.ids, v.ids)
  BY LowerIs
<1>3. \/ InOrder(v.core, w.core, Lesses)
      \/ v.core = w.core /\ Earlier(v.ids, w.ids)
  BY LowerIs
<1>4. \A a, b, c \in Int : <<a, b>> \in Lesses /\ <<b, c>> \in Lesses => <<a, c>> \in Lesses
  BY LessesIs
<1>5. CASE InOrder(u.core, v.core, Lesses) /\ InOrder(v.core, w.core, Lesses)
  <2>1. InOrder(u.core, w.core, Lesses)
    BY <1>1, <1>4, <1>5, InOrderTransitive
  <2> QED
    BY <2>1, LowerIs
<1>6. CASE (u.core = v.core \/ v.core = w.core) /\ InOrder(u.core, w.core, Lesses)
  BY <1>6, LowerIs
<1>7. CASE u.core = v.core /\ Earlier(u.ids, v.ids) /\ v.core = w.core /\ Earlier(v.ids, w.ids)
  <2>1. Earlier(u.ids, w.ids)
    BY <1>1, <1>7, EarlierTransitive
  <2> QED
    BY <1>7, <2>1, LowerIs
<1>8. \/ InOrder(u.core, v.core, Lesses) /\ InOrder(v.core, w.core, Lesses)
      \/ (u.core = v.core \/ v.core = w.core) /\ InOrder(u.core, w.core, Lesses)
      \/ u.core = v.core /\ Earlier(u.ids, v.ids) /\ v.core = w.core /\ Earlier(v.ids, w.ids)
  BY <1>2, <1>3, Zenon
<1> QED
  BY <1>5, <1>6, <1>7, <1>8

=============================================================================

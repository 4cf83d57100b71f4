---------------------------- MODULE AssemblyCache ----------------------------
(***************************************************************************)
(* The two caches of loaded libraries.  Every manager has an               *)
(* ExtensionLoader, which keeps the assemblies of its modules under the    *)
(* absolute path of the library; the assembly loader, a service that       *)
(* managers may share, keeps weak pointers under the same path, behind a   *)
(* mutex.  A library stays open as long as somebody points to an assembly  *)
(* of it.                                                                  *)
(***************************************************************************)
EXTENDS Naturals, SequencesExt

CONSTANTS
  Loader,         \* the extension loaders, one per manager
  Module,         \* language modules, found by every manager
  Library,        \* paths of libraries
  LibraryOf,      \* [Module -> Library]
  BaseDirIsAbsolute,  \* else GetRuntime() is not the absolute path
  MaxAssemblies,  \* bound on the libraries opened
  Nil

ASSUME CacheAssumption ==
  /\ LibraryOf \in [Module -> Library]
  /\ BaseDirIsAbsolute \in BOOLEAN
  /\ MaxAssemblies \in Nat
  /\ Nil \notin Nat \cup Module

VARIABLES
  runPhase,       \* [Loader -> {"loading", "unloading", "destroyed"}]
  tried,       \* modules the run of the manager in progress has loaded or tried to
  unloaded,    \* modules it has unloaded
  broken,      \* a module of the run failed to load
  loading,     \* the module LoadModule is at, or Nil
  local,       \* the assembly it has got and not yet stored
  held,        \* [Loader -> [Module -> assembly]]: of the Extension objects
  assemblies,  \* [Loader -> [Library -> assembly]]: ExtensionLoader::_assemblies
  cache,       \* [Library -> assembly]: BasicAssemblyLoader::_cache, weak
  opened       \* the libraries of the assemblies created so far

runVars == <<runPhase, tried, unloaded, broken>>
cacheVars == <<runVars, loading, local, held, assemblies, cache, opened>>

Assembly == DOMAIN opened

\* An assembly lives while a pointer leads to it; the weak ones do not count.
References(l) ==
  {local[l]} \cup {held[l][m] : m \in Module} \cup {assemblies[l][b] : b \in Library}
Alive(a) == \E l \in Loader : a \in References(l)

Nothing(S) == [x \in S |-> Nil]

CacheInit ==
  /\ runPhase = [l \in Loader |-> "loading"]
  /\ tried = [l \in Loader |-> {}]
  /\ unloaded = [l \in Loader |-> {}]
  /\ broken = [l \in Loader |-> FALSE]
  /\ loading = Nothing(Loader)
  /\ local = Nothing(Loader)
  /\ held = [l \in Loader |-> Nothing(Module)]
  /\ assemblies = [l \in Loader |-> Nothing(Library)]
  /\ cache = Nothing(Library)
  /\ opened = <<>>

-----------------------------------------------------------------------------
(* LoadModule. *)

\* emplace: a key that is there keeps its value.
Emplace(map, key, value) == IF map[key] = Nil THEN [map EXCEPT ![key] = value] ELSE map

Keep_Nothing(l, b, a) == UNCHANGED assemblies
Keep(l, b, a) == assemblies' = [assemblies EXCEPT ![l] = Emplace(@, b, a)]

\* BasicAssemblyLoader::Load, under its mutex: an assembly still alive, or a
\* new one.
Load(b, a) ==
  IF cache[b] # Nil /\ Alive(cache[b])
  THEN a = cache[b] /\ UNCHANGED <<cache, opened>>
  ELSE /\ Len(opened) < MaxAssemblies
       /\ a = Len(opened) + 1
       /\ opened' = Append(opened, b)
       /\ cache' = Emplace(cache, b, a)

GetOrLoadAssembly(l, m) ==
  LET b == LibraryOf[m] IN
  /\ runPhase[l] = "loading" /\ loading[l] = Nil /\ m \notin tried[l]
  /\ IF assemblies[l][b] # Nil
     THEN /\ local' = [local EXCEPT ![l] = assemblies[l][b]]
          /\ UNCHANGED <<assemblies, cache, opened>>
     ELSE \E a \in 1..MaxAssemblies :
            /\ Load(b, a)
            /\ Keep(l, b, a)
            /\ local' = [local EXCEPT ![l] = a]
  /\ loading' = [loading EXCEPT ![l] = m]
  /\ tried' = [tried EXCEPT ![l] = @ \cup {m}]
  /\ UNCHANGED <<runPhase, unloaded, broken, held>>

\* The library is not there or cannot be opened.
FailLoad(l, m) ==
  /\ runPhase[l] = "loading" /\ loading[l] = Nil /\ m \notin tried[l]
  /\ assemblies[l][LibraryOf[m]] = Nil
  /\ tried' = [tried EXCEPT ![l] = @ \cup {m}]
  /\ broken' = [broken EXCEPT ![l] = TRUE]
  /\ UNCHANGED <<runPhase, unloaded, loading, local, held, assemblies, cache, opened>>

\* LoadLanguageModule: the extension gets the assembly when Initialize succeeds.
LoadLanguageModule(l) ==
  /\ loading[l] # Nil
  /\ \/ held' = [held EXCEPT ![l][loading[l]] = local[l]] /\ UNCHANGED broken
     \/ broken' = [broken EXCEPT ![l] = TRUE] /\ UNCHANGED held
  /\ local' = [local EXCEPT ![l] = Nil]
  /\ loading' = [loading EXCEPT ![l] = Nil]
  /\ UNCHANGED <<runPhase, tried, unloaded, assemblies, cache, opened>>

\* The run fails elsewhere, with modules loaded.
FailRun(l) ==
  /\ runPhase[l] = "loading" /\ loading[l] = Nil /\ tried[l] # {}
  /\ broken' = [broken EXCEPT ![l] = TRUE]
  /\ UNCHANGED <<runPhase, tried, unloaded, loading, local, held, assemblies, cache, opened>>

-----------------------------------------------------------------------------
(* UnloadModule, and the runs of the manager around it. *)

TerminateLoader(l) ==
  /\ runPhase[l] = "loading" /\ loading[l] = Nil /\ ~broken[l]
  /\ runPhase' = [runPhase EXCEPT ![l] = "unloading"]
  /\ UNCHANGED <<tried, unloaded, broken, loading, local, held, assemblies, cache, opened>>

Forget_ByRuntime(l, m) == UNCHANGED assemblies
Forget(l, m) ==
  IF BaseDirIsAbsolute
  THEN assemblies' = [assemblies EXCEPT ![l][LibraryOf[m]] = Nil]
  ELSE UNCHANGED assemblies

UnloadModule(l, m) ==
  /\ runPhase[l] = "unloading" /\ held[l][m] # Nil
  /\ Forget(l, m)
  /\ held' = [held EXCEPT ![l][m] = Nil]
  /\ unloaded' = [unloaded EXCEPT ![l] = @ \cup {m}]
  /\ UNCHANGED <<runPhase, tried, broken, loading, local, cache, opened>>

\* The next run: everything is unloaded, or the extensions of a broken run are
\* overwritten.
NextRun(l) ==
  /\ \/ runPhase[l] = "unloading" /\ held[l] = Nothing(Module)
     \/ runPhase[l] = "loading" /\ loading[l] = Nil /\ broken[l]
  /\ runPhase' = [runPhase EXCEPT ![l] = "loading"]
  /\ tried' = [tried EXCEPT ![l] = {}]
  /\ unloaded' = [unloaded EXCEPT ![l] = {}]
  /\ broken' = [broken EXCEPT ![l] = FALSE]
  /\ held' = [held EXCEPT ![l] = Nothing(Module)]
  /\ UNCHANGED <<loading, local, assemblies, cache, opened>>

\* The manager is destroyed; one that runs terminates first.
DestroyLoader(l) ==
  /\ \/ runPhase[l] = "unloading" /\ held[l] = Nothing(Module)
     \/ runPhase[l] = "loading" /\ loading[l] = Nil /\ (broken[l] \/ tried[l] = {})
  /\ runPhase' = [runPhase EXCEPT ![l] = "destroyed"]
  /\ held' = [held EXCEPT ![l] = Nothing(Module)]
  /\ assemblies' = [assemblies EXCEPT ![l] = Nothing(Library)]
  /\ UNCHANGED <<tried, unloaded, broken, loading, local, cache, opened>>

CacheOver == (\A l \in Loader : runPhase[l] = "destroyed") /\ UNCHANGED cacheVars

CacheNext ==
  \/ \E l \in Loader :
       \/ \E m \in Module :
            GetOrLoadAssembly(l, m) \/ FailLoad(l, m) \/ UnloadModule(l, m)
       \/ LoadLanguageModule(l) \/ FailRun(l) \/ TerminateLoader(l) \/ NextRun(l) \/ DestroyLoader(l)
  \/ CacheOver

CacheSpec == CacheInit /\ [][CacheNext]_cacheVars

-----------------------------------------------------------------------------
(* Properties. *)

\* Type invariant of the caches.
CacheTypeOK ==
  /\ runPhase \in [Loader -> {"loading", "unloading", "destroyed"}]
  /\ tried \in [Loader -> SUBSET Module]
  /\ unloaded \in [Loader -> SUBSET Module]
  /\ broken \in [Loader -> BOOLEAN]
  /\ loading \in [Loader -> Module \cup {Nil}]
  /\ local \in [Loader -> Assembly \cup {Nil}]
  /\ held \in [Loader -> [Module -> Assembly \cup {Nil}]]
  /\ assemblies \in [Loader -> [Library -> Assembly \cup {Nil}]]
  /\ cache \in [Library -> Assembly \cup {Nil}]
  /\ opened \in Seq(Library)

\* A manager opens a library once for all the modules in it, over any number of
\* runs, although unloading one of them drops the library from its cache.
OneAssemblyPerLoader ==
  \A l \in Loader : \A a, b \in References(l) \ {Nil} :
    opened[a] = opened[b] => a = b

\* extension_loader.hpp:170: unloading a module clears its assembly from the
\* cache, so the library closes with its last module.
UnloadedIsForgotten ==
  \A l \in Loader : \A m \in unloaded[l] : assemblies[l][LibraryOf[m]] = Nil

=============================================================================

# plugify in TLA+

plugify is a C++ library that finds *extensions* (language modules and plugins)
in directories, orders them by their dependencies, loads them, and lets plugins
written in different languages call each other. This directory holds TLA+
modules translated from its source, TLC configurations that check them on small
instances, and theorems about them that TLAPS proves for all instances.

Paths below are relative to the repository (`src/src/core/manager.cpp` is the
file `src/core/manager.cpp` of plugify).

## 1. The system

A host program builds a `Plugify` object, which owns a `Manager`, a
`ServiceLocator` and an event loop of its own making (it calls `Update`). The
manager owns the `Extension` objects. `Manager::Initialize` discovers manifest
files and pushes the extensions through a `Pipeline` of five stages (parsing,
resolution, loading, exporting, starting). The stages call the
`ExtensionLoader`, which loads shared libraries through an `IAssemblyLoader`
and calls back into `ILanguageModule` objects, the foreign code of the language
modules. `Terminate` walks the extensions backwards twice: it ends them all,
then unloads them all.

| Component | State it keeps | Operations | What makes it correct |
|---|---|---|---|
| Extension manager (`manager.cpp`) | `initialized`, `extensions`, graphs, `lifecycleMutex` | Initialize, Update, Terminate, destructor, unlocked queries | modules outlive the plugins they host; success means everything runs; a failed start leaves nothing half alive; every call returns |
| Pipeline (`pipeline.hpp`) | thread pool, stage list, counters | Transform (parallel), barrier (whole container), sequential | a stage begins when the one before has ended; a failure in a required stage stops the pipeline |
| Stages, failure tracker (`stages_impl.hpp`, `failure_tracker.hpp`) | per-stage maps, failed set | parse, filter, resolve, load, export, start, skip | states follow the transition table; what depends on a failed extension is not operated on |
| Extension loader (`extension_loader.hpp`) | assembly cache, statistics | load, unload, export, start, end, update | no call through a dead module pointer; libraries shared and released |
| Extension (`extension.cpp`) | state, errors, timings, module pointer | StartOperation, EndOperation, SetState | only table transitions |
| Dependency resolver (`libsolv_dependency_resolver.cpp`) | libsolv pool, id maps | Resolve | dependencies inside the answer, dependencies first, a second Resolve starts afresh |
| Service locator (`service_locator.cpp`) | service map, instances, thread-local scopes, shared mutex | Register, Resolve, BeginScope/EndScope, Clear | one singleton per type; no self-deadlock; scopes nest |
| Plugify host (`plugify.cpp`) | own `initialized` flag, owner thread, configuration | Initialize, Update, Terminate, destructor | agrees with the manager; only the owner thread drives it |
| Assemblies (`basic_assembly_loader.hpp`, `assembly_handle.hpp`) | weak cache by path, handle counts | Load, Unload, symbol lookup | one handle per library, closed after the last user |
| Configuration (`config.cpp`) | fields, groups with their source | merge, resolve paths, validate | a higher source wins, field by field; a path is resolved once |
| Manifest (`manifest.cpp`) | prototypes, enums by name | resolve names, cycle detection, validate | resolution terminates, gives a name one meaning and rejects exactly the cycles |
| Registrar (`registrar.cpp`) | process-wide map id -> name | register, unregister, lookup | names are those of live extensions |
| `plg::vector`, `plg::inplace_vector` | cells, raw or holding an element | insert, erase, assign, resize, grow, swap | no element lost, read raw or destroyed twice, also when a copy throws |
| `plg::variant`, `plg::expected` | one object and which it is | construct, assign, emplace, swap, and the monadic calls | the index tells the object, after a throw too |
| `plg::string` | short or long representation | append, insert, replace, erase, assign, reserve | the terminator follows; an argument may be a part of the string |
| `plg::version` | numbers and identifiers | parse, print, compare, range sets | precedence as in semantic versioning |
| Provider, loggers, file system, JSON reading, reflection data, JIT, platform operations, `plg` utilities | none of interest | forwarding, I/O, encoding | out of scope, see section 8 |

### What is hard about it

* `Initialize` makes dozens of calls into foreign code, each of which may fail,
  and continues after a failure until the end of the stage.
* Failure leaves the manager with `initialized == false` and running language
  modules; `Terminate` and the destructor then do nothing, and a retry throws
  the objects away (`manager.cpp:222`, `manager.cpp:24`).
* Plugins hold raw pointers to their language module. Nothing but the order of
  the container keeps the module alive longer than the plugin, and that order
  comes out of a SAT solver two stages earlier.
* The language dependency that orders the container is chosen in one stage
  (the last module *listed* for the language), the module that really hosts a
  plugin in another (the last module *loaded* for it).
* Parsing runs on a thread pool. The unlocked queries race with a call in progress.
* The service locator runs factories under its lock; caches are keyed twice;
  the registrar is shared between managers.
* The `plg` types cross the border to foreign languages, so plugify has its own:
  they move elements about in raw memory while any copy may throw and while an
  argument may lie inside the container.
* A configuration is merged up to three times, and each merge resolves relative
  paths; a manifest may define a type in many places and refer to it by name.

`PROJECT.json` lists each of these under `hazards`, at its line, with the
properties that cover it or the reason none does yet.

## 2. The modules

| Module | Models | Kind |
|---|---|---|
| `Extension` | `ExtensionState`, `IsValidTransition` | operators |
| `Manager` | manager, pipeline, stages, failure tracker, the loader's calls | state machine |
| `LanguageModuleProtocol` | what an `ILanguageModule` is promised | abstract specification |
| `Manager_proofs` | the inductive invariants of `Manager` and what follows; `Manager` implements `LanguageModuleProtocol` | proofs |
| `Resolver` | `LibsolvDependencyResolver` over several calls | state machine |
| `ServiceLocator` | `ServiceLocator` used by several threads | state machine |
| `ServiceLocator_proofs` | who holds the mutex, what a resolution can rely on, and what alone can block | proofs |
| `AssemblyCache` | the caches of the extension loaders and the assembly loader | state machine |
| `Loading_proofs` | of `Resolver`: a report is about the extensions of its call; of `AssemblyCache`: one assembly per library, forgotten when unloaded; of `VersionOrder`: the comparison is a total order, that of precedence | proofs |
| `Config` | merging, resolution and validation of configurations | operators |
| `Host` | `PlugifyBuilder` and the `Plugify` it builds | state machine |
| `Manifest` | `Resolve` and `Validate` of one manifest, pass by pass | state machine |
| `Registrar` | the registry of names | state machine |
| `Host_proofs` | what a built host is made of; the registry names its extensions; one definition per name, cycles are refused, and nothing else for one | proofs |
| `Basics` | induction and recursion over the naturals, lemmas about sequences, for the proofs | proofs |
| `Container` | what a `plg` container promises | abstract specification |
| `Throwing`, `Places`, `Cells`, `SplitBuffer`, `Objects` | calls made of steps that may throw; rows of places and what is put into them; cells, the buffer a vector grows through, objects with throwing constructors | operators |
| `Vector`, `InplaceVector`, `Variant`, `Expected`, `String` | those types; each implements `Container` | state machines |
| `VariantTree` | the tree of unions a variant keeps its object in; extends `Variant` | operators |
| `Objects_proofs` | has_val and index() tell the object; `Expected` and `Variant` implement `Container`; `get<i>` of a tree of unions arrives at the i-th type | proofs |
| `Vector_proofs` | what every operation of a vector does, whatever throws; `Vector` and `InplaceVector` implement `Container` | proofs |
| `String_proofs` | what every operation of a string does, with parts of it as arguments; `String` implements `Container` | proofs |
| `VersionOrder` | the comparison of versions, and their precedence | operators |
| `Version` | parsing, printing, range sets; extends `VersionOrder` | state machine and operators |
| `MCManager`, `MCResolver`, `MCServiceLocator`, `MCAssemblyCache` | instances for TLC | constants |
| `MCHost` | one host, one manifest or the registry of two managers; extends the three modules | composition for TLC |
| `MCParts` | one of these, or the locator, the resolver or the assembly caches; extends `MCHost` and their MC modules | composition for TLC |
| `MCPlg` | one object of one of the `plg` types; extends five modules, and instantiates `Version` | composition for TLC |

The modules are separate because the code's components meet at narrow places:
`Manager` sees the resolver as the relation `LoadOrders`, whose condition
`Resolver` examines, a library load as an answer, success or failure, which
`AssemblyCache` details, and the parse of a manifest as another, which
`Manifest` details. `Host` knows of its manager whether it runs. The service
locator is used before the first Initialize and by foreign code. The `plg` types
know nothing of the rest.

`MCHost`, `MCParts` and `MCPlg` put modules side by side that do not interact: a
variable `which` says which of them a behaviour is about, and the others stay in
one initial state. Each module is thereby checked on its own, in one run instead
of many; the constant `Kinds` says which of them a run looks at.

### Manager

One behaviour of `Manager` is the life of one `Manager` object: any sequence of
Initialize, Update, Terminate and finally destruction, with failures anywhere.

*Mutual exclusion.* `lifecycleMutex` is held for a whole call, so at most one
call is in progress; `pc` says which point it has reached ("idle": free). A call
is still many steps: one per `SetState`, because a language module is called,
and an unlocked query can look, between any two of them.

*State.* `extensions` is the vector in its current order; `state`,
`languageModule` and `exportedTo` belong to the `Extension` objects
(`exportedTo` records which modules accepted `OnMethodExport`). `failed` is the
failed-items counter that decides whether the pipeline goes on (there is never
more than one stage with a failure, because all stages are required, so the
total of `manager.cpp:120` is that counter). `failureTracker`, `depGraph`,
`reverseDepGraph`, `loadedModules`, `runningModules` are the variables of those
names in the code. `live` counts, per language module, `Initialize` calls not
yet followed by `Shutdown`: it is the state of the foreign code, not of plugify.
`inits` and `aborted` count calls, for the bound and for one property.

| Action | Code |
|---|---|
| `Discover` | `Initialize` up to the pipeline: `DiscoverExtensions` replaces the vector |
| `StartParsing`, `FinishParsing`, `EndParsing` | `ExecuteTransform` + `ParsingStage`: at most `MaxConcurrentLoads` at once, any order, then `_pool.wait()` |
| `FilterByPolicy` | the first half of `ResolutionStage::ProcessAll` |
| `Resolve` | its second half: language dependencies, the resolver's answer, `RestoreResult` or `BuildResultInOrder` (which rebuilds the vector and both graphs) |
| `PassItem`, `SkipItem`, `StartItem` | `ExecuteSequential` and `BaseFailurePropagatingStage::ProcessItem` |
| `LoadModule`, `LoadPlugin`, `ExportPlugin`, `StartPlugin`, `SetRunning` | the `DoProcessItem`s with the loader operations they call |
| `EndStage` | the pipeline's step to the next stage with that stage's `Setup` |
| `FinishInitialize` | report, `initialized = totalFailed == 0`, destruction of the pipeline |
| `Update`, `UpdateItem` | `Update` |
| `Terminate`, `EndItem`, `EndedAll`, `UnloadItem`, `FinishTerminate` | `Terminate`'s two reverse loops |
| `Destroy` | `~Impl` of a manager that is not initialized (an initialized one calls `Terminate` first) |

*What is abstracted.* Manifests are given by constants: who is a module, which
language, what it requires and conflicts with, what the policy disallows, which
optional callbacks it has. Names are distinct, two modules do not share one
library file, and no extension is named like a language. libsolv is the relation
`LoadOrders`: any set that can be installed together, everything if everything
can, in an order that puts dependencies first except on cycles. The order of the
unresolved items (the code iterates a hash map) is arbitrary. Errors, warnings,
timings, timeouts (which only add a warning), progress and log output are left
out. The disabled batch stage is left out because no caller adds one.

### LanguageModuleProtocol

The abstract specification has no pipeline, container or tracker: only plugins
in a phase, the module that hosts each, and `live`. It says that the plugins
pass through loading, exporting, starting, ending and unloading *together*; that
a module is shut down only when it hosts nobody; and that after a failure
nothing is ended, unloaded or shut down until the next run starts on top of it.
`Manager!FollowsProtocol` is this specification under the mapping `PhaseOf`:
every step of the manager is a step of the protocol or leaves it alone.

### Resolver

A manager keeps one resolver and calls `Resolve` once per Initialize. Each call
makes a new libsolv pool (`pool`: the manifests of its solvables; ids count from
`FirstSolvable`), but `extensionToSolvableId` and `solvableIdToExtension` are
members that nobody clears: `Assign` overwrites the keys of this call and keeps
the others.

| Action | Code |
|---|---|
| `StartResolve` | `InitializePool`, `AddExtensionsToPool`: any discovery, less any extensions the policy excluded |
| `RunSolver` | `RunSolver` (one job per entry of the map), `ComputeInstallationOrder`; a job without a solvable is handed to libsolv, and what follows is undefined |
| `Done` | no further call |

A manifest is a model value; version constraints appear as the set of manifests
that satisfy a requirement; conflicts, obsoletes and two versions of one name
are one set of pairs. The solver answers with any installable set (all, if all
can be installed), ordered with dependencies first except on cycles. Issues and
suggested fixes are text.

`Manager` presumes that the resolver's answer is in `LoadOrders`. `Resolver`
shows that this is so for the answers it gives (`AnswersThisCall`) and when it
gives none (`JobsInPool`).

### ServiceLocator

*State.* `services`: the lifetime each type is registered with (`NoLifetime`: none). `calls`: each
thread's stack of calls in progress; a call that holds the mutex says so, and
the holders of the mutex are read off the stacks. `scopeStack` is the
`thread_local` stack, with the set of instances made in each scope. `guards`
counts live `ScopedServiceLocator` objects. `terminated` records why
`std::terminate` was reached, if it was.

| Action | Code |
|---|---|
| `RegisterService` | `RegisterInstance`, `RegisterFactory`, `RegisterType`, `RegisterWithDependencies` up to the lock |
| `RegisterIfMissing` | the same preceded by `IsRegistered` under a shared lock of its own |
| `AcquireUnique`, `FinishRegister` | the exclusive section; the factory of a singleton runs between the two |
| `ResolveService` | `Resolve`, `TryResolve` |
| `AcquireShared` | `ResolveInternal` under the shared lock: what it found, nothing, a scoped service without a scope, an instance or a factory, is kept in the call (`found`) |
| `ReturnError`, `ReturnCached`, `ReturnCreated` | its three returns |
| `ResolveDependency` | `Resolve<Dependencies>()...` in the factory, with the lock held |
| `FailSharing` | a thread shares the mutex it owns: undefined, here an exception through `noexcept`; without a step of this action it waits for ever |
| `BeginScope`, `EndScope` | those |
| `Clear`, `FinishClear` | `Clear` up to the lock, and under it |

`CanShare` and `CanOwn` say when the mutex *may* be granted. The C++ standard does
not say whether a waiting writer holds up those who come to share it, and
implementations differ, so no step has to be taken when it can be: no fairness is
assumed, and the property about blocking asks what can go on whatever the mutex
prefers (`GoesOn`).

Instances are not told apart beyond "this scope has one". A factory throws only
when a dependency is missing. Scopes are used through `ScopedServiceLocator`,
as the code does. One locator is modelled; in the code all locators of a thread
share its scopes.

### AssemblyCache

*State.* Per extension loader: `assemblies` is its cache, `held` the pointers of
its `Extension` objects, `local` the pointer LoadModule has on its stack.
`cache` is the weak cache of the shared `BasicAssemblyLoader`; `opened` gives
the library of each assembly ever made; `Alive` is derived from the references,
as with `shared_ptr`. `runPhase`, `tried`, `unloaded` and `broken` follow the run of the
manager around the loader; a run that breaks leaves its assemblies in the cache.

| Action | Code |
|---|---|
| `GetOrLoadAssembly`, `FailLoad` | `GetOrLoadAssembly` and `BasicAssemblyLoader::Load` |
| `LoadLanguageModule` | `LoadLanguageModule`: the extension gets the assembly if `Initialize` succeeds |
| `UnloadModule` | `UnloadModule` with the erasure of the cache entry |
| `FailRun`, `TerminateLoader`, `NextRun`, `DestroyLoader` | the manager's calls, as far as they touch assemblies |

Search paths, flags, symbol lookup are left out; so is
`BasicAssemblyLoader::Unload`, which nobody calls. `emplace` is modelled as what
it does: a key that is there keeps its value, here an expired pointer.
`BaseDirIsAbsolute` says whether the path erased is the path stored.

### Config and Host

A configuration is a record: a base directory, five directories, settings that
have their default (`Usual`) or another value, three sets of names, and the
source that last changed each of the four groups. A path is the sequence of its
names, so that `Resolve` and `Normal` do what `ResolveRelativePaths` and
`lexically_normal` do, and resolving twice is not the same as resolving once.

| Action | Code |
|---|---|
| `WithBaseDir`, `WithPaths`, `WithConfigFile`, `WithConfig`, `WithLogger` | the builder's setters, in any order and number |
| `Build` | the merges of file, given configuration and overrides by `MergeFrom`, the base directory by default, the last resolution, `Validate` |
| `Initialize` | `Plugify::Initialize` with the check of the directories; creating them may fail, which is only logged |
| `Terminate`, `Drop` | `Terminate` and the destructor, on the owner thread or another |
| `InitializeManager`, `TerminateManager` | the program driving the manager itself |

`Update` of the host forwards to the manager and is left out, and so are the
services handed over, and a builder used a second time after it gave them away.

### Manifest

The parsing stage calls `Resolve` and then `Validate` on each manifest. `Written`
gives the manifests: objects (methods, prototypes, enums) whose properties
refer to a definition by name or carry one inline. The passes are those of the
code, a step at a time: `Declare` registers the lists, `Collect` goes through the
properties and registers inline definitions, collapsing equal ones (`todo` is the
stack of the recursion: each object under way with the property it is at), `Link`
replaces names (in the order of a hash table: any), `Visit` and `Descend` are the
depth-first search of `DetectCycles` with its marks, `Publish` and `Validate` end
it. `ValidateEnum`, `ValidateClass`, `varIndex` and the paths are left out, and a
property with a prototype *and* an enum.

### Registrar

`Discover`, `SetManifest` and `Destroy` are what happens to the extensions of a
manager, as far as the registry sees it: `Registrar` objects live in the
`Extension`s. The registry is one for the process, and every manager numbers its
extensions from 0. `shared` is history: the ids that extensions of two managers
have had names for, as long as one of them has. Of these the registry has one
of the names or none, and the property says so; it holds of any managers.

### The plg containers

`Container` is the promise: a call replaces a piece of a sequence by copies of
its arguments *as they were when it was made*, or throws; with the strong
guarantee a throw leaves the sequence as it was, without it some sequence. The
detailed modules keep cells that are `Raw` or hold an element (possibly `Gone`,
moved from), and their operations are the code's steps on cells: construct at
the end, move a range, swap out a buffer.

*Exceptions.* Everything that may throw takes one unit of the *fuel* of the call
(allocation, copy, advance of an input iterator; a move only if the type's moves
may throw) and throws without. Fuel is chosen freely at the call, so each call
is tried with a throw at each of its steps and with none.

*Aliasing.* An argument is a value or a position in the object itself
(`Argument`), and is read when the code reads it.

| Module | Actions |
|---|---|
| `Vector` | `PushBack`, `InsertOne`, `InsertCopies`, `InsertForward`, `InsertStream`, `Erase`, `Truncate`, `Resize`, `Reserve`, `ShrinkToFit`, `AssignOp`, `Take` and `Give` (move assignment, swap), `CreateVector` |
| `InplaceVector` | the same without growth, named `InplacePushBack` and so on; `TryPushBack`, `AssignOther`, `InplaceSwap` |
| `Variant` | `EmplaceArgs`, `AssignElement` (assignment of a value), `AssignVariant`, `SwapVariants`, `CreateVariant`, on two variants; the tree of unions is `Tree` and `Get` of `VariantTree` |
| `Expected` | construction, assignment, `Emplace`, `Swap`, `Chain` (`and_then`, `or_else`), `Transform`, for a value and for void |
| `String` | `AppendText`, `InsertText`, `ReplaceText`, `AssignText`, with a part of the string as argument too, `EraseText`, `ResizeText`, `ReserveFor`, `ShrinkText`, `AssignString`, `SwapText`, `Concatenate`, `CreateText`, `CreatePart` |
| `Version` | a text grows piece by piece and is parsed after each, as a version (`read`) and as a set of ranges (`ranges`); comparison and containment are operators |

In `Variant` and `Expected` the types have a *trait* that says which of
their constructors and assignments cannot throw, as the code chooses its path by
`is_nothrow_..._constructible`.

*Where the code does not keep the promise.* In three operations it does not, and the
models do what it does. A history variable marks an object from such a call on, and
the properties except exactly the marked ones, and say what is the matter with them:

| Module | Variable | Call | What is left |
|---|---|---|---|
| `Vector` | `torn` | `insert` from input iterators that throws when the spare cells are filled: a copy, an allocation, a length or the iterator (`vector.hpp:1406`) | `end_` behind destroyed cells, and which |
| `InplaceVector` | `stretched` | `resize` that keeps or grows a vector with elements (`inplace_vector.hpp:363`) | a `size_` that is too large, and by how much |
| `Variant` | `lost` | a constructor that throws when the old object is destroyed (`variant.hpp:919`) | an index that names what is not there |

What a later call makes of a marked object is undefined, and the model stops there with
it. That only these calls leave such objects is what the properties then
say; the run `variant_valueless` shows the third, of which a test says otherwise.

`Version` is read against definitions taken from semantic versioning, with the
text taken apart by its separators rather than from left to right (`SemVer`,
`Lower`, `Alternatives`).

## 3. The runs

| Run | Instance | Question | Size |
|---|---|---|---|
| `manager_cross` | two languages, a Python plugin on a C++ plugin, a plugin with an unsatisfiable dependency, two discovery orders, two Initializes, with fairness | every safety property, valid transitions, refinement of the protocol; every call returns and Terminate reaches everybody | 60 128 states |
| `manager_cycle` | two modules for one language, two plugins that depend on each other, one on top, one excluded; an empty directory | life-times, valid transitions and refinement where dependencies are cyclic and the hosting module is ambiguous | 44 762 states |
| `manager_skip` | as `manager_cross`, one Initialize | refutes `failure_tracker.hpp:32` | counterexample |
| `resolver_jobs` | the resolver of `parts` | refutes `libsolv_dependency_resolver.cpp:249` | counterexample |
| `locator_singleton` | the locator of `parts` | refutes that a singleton can have dependencies (`service_locator.hpp:73`) | counterexample |
| `assembly_relative` | the managers of `parts` with a relative base directory | refutes `extension_loader.hpp:170` | counterexample |
| `plg_all` | two values; vectors up to 4 cells, inplace vectors of 4, a variant of 4 types, an expected of any two traits, strings up to 7, texts of up to 4 pieces | each type stores what it says it stores, and does what a container promises, with a throw at any step | 15 953 states (13 911 of them texts), 5.7 million steps |
| `variant_valueless` | the variant | refutes `valueless_by_exception.cpp:44` of the tests | counterexample |
| `parts` | each of: a builder and its host, two base directories of which one is relative, five configurations, each source given or not; the registry of two managers with ids to 1; all manifests of a method and up to three definitions; two threads at a locator, two services of which one needs the other, any lifetimes, one scope each; a resolver for five manifests (two versions, a choice of providers, a cycle), three discoveries, three calls; two managers with three modules of which two share a library, three assemblies, absolute base directory | what a configuration is made of; a registry tells the truth; a manifest's names have one meaning, and its resolution ends; who can change what a resolution of a service has found, what alone blocks it, one instance per scope; a report is about its own call; one assembly per library and manager, and what is unloaded is forgotten | 845 809 states: host 38 776, registry 435, manifest 79 386, locator 516 321, resolver 7 796, caches 203 095 |
| `host_relative` | the builder | refutes `README.md:238` of the repository | counterexample |
| `host_severity` | the same | refutes `plugify.cpp:424` | counterexample |
| `manifest_unknown` | the manifests of `parts` | refutes `manifest.cpp:292` | counterexample |

The properties of `Manager`:

* `NoUseAfterShutdown`: an extension the manager may call about points to a
  language module, and no pointer to a module that was shut down remains.
* `ExportsBeforeStarts`: `OnPluginStart` runs when every plugin has been
  exported to every running module.
* `LifetimesNest`: off cycles, an extension is started after its dependencies,
  ended before them, unloaded before them.
* `SuccessMeansRunning`: after a successful Initialize everything runs or was
  set aside, and what runs has its dependencies running. An empty listing, with which
  the pipeline goes on without a load order, is in the instance of `manager_cycle`
  only; of this property the theorem covers it.
* `ShutdownsBalance`: `Initialize`/`Shutdown` of a module balance, up to one
  per failed Initialize of the manager, which is exactly what the code leaks.
* `ValidStateChanges` (action property): no step takes a pair the assertion in
  `SetState`, absent in release builds, would reject.
* `FollowsProtocol`: the refinement.
* `CallsReturn`, `TerminateReachesAll` (liveness).

Of the others:

* `Resolver!AnswersThisCall`: load order and graph name extensions of this call,
  each once, with a provider for every requirement, whatever earlier calls left
  in the maps. It holds because a solvable of this pool has an entry of this
  call, that overwrites the older one.
* `ServiceLocator!DescriptorStable`: the reference `ResolveInternal` keeps into
  the map, across factories that resolve in turn, stays what it found: no other
  thread can register or clear meanwhile.
* `ServiceLocator!OnePerScope`: a scoped service is made once per scope, whether
  it is asked for or resolved as a dependency of another.
* `ServiceLocator!OnlyReentryBlocks`: when calls are in progress and none can go on
  for certain, some factory asks to share the mutex that a call of its own thread
  holds. That is the deadlock of this code, a waiting writer between the two or the
  thread's own exclusive lock; the property says it is the only one, whatever a
  `std::shared_mutex` prefers. That resolutions end cannot be said: they need not.
* `AssemblyCache!OneAssemblyPerLoader`: a manager never has two assemblies of one
  library open, over any number of runs, broken ones included.
* `AssemblyCache!UnloadedIsForgotten`: no entry remains of a module unloaded.
* `Host!DirsFromGiven`: a directory of a built host is one that was given, or its
  default, taken relative to base directories that were given: once when all are
  absolute, however many merges have resolved it since, and up to four times when
  one is not. `Host!DirsResolvedOnce`, once in any case, is what `host_relative`
  refutes.
* `Host!BuiltFromHighest`: settings and base directory are those of the highest
  source that sets them, the overrides among them whether or not paths were
  overridden; names are collected from all. Excepted is the log level that `Build`
  passes over (`Overlooked`), which is what `host_severity` shows.
* `Manifest!OneDefinitionPerName`: whatever the methods of a resolved manifest reach
  is the definition published under its name, so pointers can be compared.
* `Manifest!CyclesAreFound`: a manifest is refused for a cycle just when it has one,
  wherever the hash table lets the search begin.
* `Manifest!ResolveEnds` (liveness): the passes end, though links go round.
* `Registrar!RegistryNamesExtensions`: ids of live extensions have their names, and
  no other id has one, in any number of managers; of an id that two managers have
  had names for, the registry has one of the names or none.
* `VectorHoldsItsElements`, `InplaceHoldsItsElements`, `VariantIndexTellsObject`,
  `ExpectedHasValTellsObject`, `StringTerminated`: after every call, thrown or not,
  the counters tell the truth about the cells, but after the three calls that
  section 2 tells of, and then the property says what is left. A wrong counter
  reads raw memory or destroys twice.
* `VectorIsContainer`, `InplaceIsContainer`, `VariantIsContainer`,
  `ExpectedIsContainer`, `StringIsContainer`: the refinements of `Container`, of every
  step but one that leaves its object torn, stretched or lost.
* `VariantTreeKeepsOrder`: `get<i>` arrives at the i-th type, for up to nine types.
* `VersionReadsItsText`, `VersionOrderIsPrecedence`, `RangeMeansItsText`: `parse` reads
  exactly the versions and prints them back, unless a number has more than 64 bits
  (`TooWide`): it is then read modulo 2^64, and is a version if that fits an int; the order is that of semver.org; a
  range set contains what its text says.

### Bounds

* `MaxInits = 2`: the second call of Initialize sees everything the first can
  leave (a successful and terminated run, a run that failed in each stage). A
  third sees nothing new: `Discover` resets all but `live` and the counters.
* Five or six extensions: two modules, a dependency inside and across
  languages, a cycle, an item outside the cycle, an excluded one.
* `MaxConcurrentLoads` is 2 in one instance and 1 in the other: tasks overlap
  only in the states of distinct extensions.
* Two listings, in which the modules come first and last: they decide
  `ModuleOfLanguage`, `InListedOrder` and nothing else.

* `MaxScopes = 1` with two threads: a scoped instance is seen by the scope's
  thread only, and two threads are a reader and a writer, or two readers. The
  nesting of calls is bounded by `Needs`, which has depth two.
* `MaxResolves = 3`: the maps have entries of an older call that the last did
  not overwrite. The three discoveries differ in length and order.
* `MaxAssemblies = 3`: each of two libraries is opened, and one of them is closed and
  opened again.
* Two managers and `MaxId = 1` of the registry: both number an extension alike, and
  one may have an extension whose id the other has not.

* `MCPlg`: `MaxSize = 4` and `MaxCount = 2` let a vector insert two elements before,
  among and behind two others, with and without reallocation (capacities are
  1, 2 and 4). An inplace vector has `MaxSize` cells, enough to fill it on each side
  of an insertion. The variant has one type of each trait. For
  strings, `MinCap = 2` and `Boundary = 2` bring the border between the two
  representations, and that between two capacities, within `MaxLength = 7`; arguments
  that are not parts of the string have up to `MaxText = 2` characters. Versions
  have `IntMax = 19` and `Wide = 110` for 2^64, so that two digits exceed an int and
  three wrap, to a small number (110 to 129) or to one that does not fit.
* The `VIEW` of `MCPlg` leaves out the record of the last call: no guard reads it,
  invariants do not mention it, and the refinement is about steps, which are all
  checked.
* `MCHost`: the five configurations have an absolute base directory, `./app` as in the
  README of the repository, another with a directory beside it, or none, a directory that is relative, given twice or left alone, settings and names with
  and without; the builder gets any of them from any source. Three definitions are
  the least with two equal ones of which one has a third inside.

Deadlock is checked in every run. A destroyed manager stutters by `Destroyed`, a
terminated program by `Terminated`, a resolver without further calls by `Done`, a
host that is gone by `HostOver`, a manifest that is read by `Over`, managers that
have all been destroyed by `CacheOver`, and an object that is torn, stretched or lost
by `StayTorn`, `StayStretched` or `StayLost`; no other state may stop. Threads that
wait for one another at the locator do so in the model where the mutex
*need* not let them go on, so this is not a deadlock for TLC; `OnlyReentryBlocks`
is about them.

### Fairness

`FairSpec` adds weak fairness of `Progress`, the steps of a call that has been
made. It means that the thread holding `lifecycleMutex` (or the pool threads it
waits for) is scheduled and that language modules return from callbacks, which
the code cannot enforce: its timeouts are measured after the fact. No fairness
is put on `Discover`, `Update`, `Terminate` or `Destroy`: the host need not call.

`MCHost!MCSpec` and `MCParts!PartsSpec` have weak fairness of the steps of `Resolve` and
`Validate` of a manifest: they run in one task of the thread pool, to their end, and
wait for nothing. No other part has fairness. The locator could only have what a
`std::shared_mutex` does not give, that a thread asking for it gets it.

## 4. Theorems

Eight modules hold proofs. A theorem is about every instance that satisfies the
assumption of its module: `ManagerAssumption` (finitely many extensions,
well-typed constants, listings without repetition), `LocatorAssumption`,
`ResolverAssumption`, `CacheAssumption`, `RegistrarAssumption`, `HostAssumption` (the
configurations given have the types of `Config`), `ManifestAssumption`
(the manifests are what the reader can make of a file: see `WellFormed`),
`ExpectedAssumption`, `VariantAssumption`, `VariantTreeAssumption` (the dummy that
fills a union of an odd number of types is none of them), `VectorAssumption`, `InplaceVectorAssumption`
(with `CellsAssumption`) and `StringAssumption` (no value is `Raw` or `Gone`, a variant
has at least one type, values of elements are no numbers, the buffer in a string is not
empty); those with one more hypothesis have it below.

| Module | Theorem | Statement |
|---|---|---|
| `Manager_proofs` | `Invariance` | `Spec => []IInv` |
| | `TypeCorrect` | `Spec => []TypeOK` |
| | `NoUseAfterShutdownHolds` | `Spec => []NoUseAfterShutdown` |
| | `SuccessMeansRunningHolds` | `Spec => []SuccessMeansRunning` |
| | `ValidStateChangesHold` | `Spec => ValidStateChanges` |
| | `ShutdownsBalanceHolds` | `Spec => []ShutdownsBalance` |
| | `ExportsBeforeStartsHolds` | `Spec => []ExportsBeforeStarts` |
| | `LifetimesNestHolds` | `Spec => []LifetimesNest`, if no module requires a plugin |
| | `FollowsProtocolHolds` | `Spec => FollowsProtocol`: the refinement |
| `Loading_proofs` | `ReportIsOfThisCall` | `ResolverSpec => []AnswersThisCall` |
| | `TypeCorrect` | `CacheSpec => []CacheTypeOK` |
| | `OneAssembly` | `CacheSpec => []OneAssemblyPerLoader` |
| | `Forgotten` | `CacheSpec => []UnloadedIsForgotten`, if base directories are absolute |
| | `ComparisonIsPrecedence` | of versions `v` and `w`, `CompareParsed(v, w) < 0` iff `Lower(v, w)`, `> 0` iff `Lower(w, v)`, `= 0` iff core and identifiers are the same |
| | `PrecedenceIsTransitive` | `Lower(u, v)` and `Lower(v, w)` give `Lower(u, w)` |
| `ServiceLocator_proofs` | `TypeCorrect` | `LocatorSpec => []LocatorTypeOK` |
| | `RegistersAlone` | `LocatorSpec => []Exclusive` |
| | `DescriptorsStay` | `LocatorSpec => []DescriptorStable` |
| | `BlockedByReentry` | `LocatorSpec => []OnlyReentryBlocks` |
| | `OneInstancePerScope` | `LocatorSpec => OnePerScope`, if no service needs itself, however far down |
| `Host_proofs` | `HostIsInv` | `HostSpec => []HostInv` |
| | `DirsAreFromGiven` | `HostSpec => []DirsFromGiven` |
| | `SettingsAreOfHighest` | `HostSpec => []BuiltFromHighest` |
| | `RegistryNames` | `RegistrarSpec => []RegistryNamesExtensions` |
| | `ManifestInv`, `ManifestSearch` | `Spec => []IInv`, `Spec => []SearchInv` |
| | `NamesAreOneDefinition` | `Spec => []OneDefinitionPerName` |
| | `CyclesAreRefused` | `Spec => []CyclesAreFound` |
| `Objects_proofs` | `ExpectedInv` | `Spec => []IInv` |
| | `ExpectedTellsObject` | `Spec => []ExpectedHasValTellsObject` |
| | `ExpectedRefinesContainer` | `Spec => ExpectedIsContainer`: the refinement, for both objects |
| | `VariantIsSafe` | `VariantSpec => []VariantSafe` |
| | `VariantTellsObject` | `VariantSpec => []VariantIndexTellsObject` |
| | `VariantRefinesContainer` | `VariantSpec => VariantIsContainer`: the refinement, for both variants |
| | `VariantIsNeverValueless` | `VariantSpec => []` no index is npos, whatever throws |
| | `TreeKeepsOrder` | `VariantSpec => []VariantTreeKeepsOrder`, for any number of types |
| `Vector_proofs` | `VectorHolds` | `VectorSpec => []VectorHoldsItsElements` |
| | `VectorContains` | `VectorSpec => VectorIsContainer`: the refinement |
| | `InplaceHolds` | `InplaceSpec => []InplaceHoldsItsElements` |
| | `InplaceContains` | `InplaceSpec => InplaceIsContainer`: the refinement |
| `String_proofs` | `StringIsTerminated` | `StringSpec => []StringTerminated` |
| | `StringContains` | `StringSpec => StringIsContainer`: the refinement |

### The manager

None of the properties is inductive. For `NoUseAfterShutdown`, the step that
could break it is the second loop of Terminate reaching a module; that it does
not is because every plugin with a pointer to the module stands *later* in the
container and so has been unloaded. That is `PointersOK`. It is established when
LoadingStage takes the pointer from `_loadedModules`, whose modules have been
loaded and therefore stand earlier (`LoadedOK`). Both need to know what
the loop in progress has made of the items before `pos` and what it finds in
those after it (`StatesOK`: one line per stage or loop), that
each object is in the container once (`ListedOnce`), that the loop stays in the
container (`PositionOK`) and that a stage without failures counted has none
(`FailuresCounted`), which is what lets the next stage assume the outcome of
the last. The conjunction is `IInv`. Note what the argument does *not* use: the
language dependency injected by `AddLanguageDependencies`. The pointer can lead
to another module of that language than the one the container was ordered
after, and the property holds all the same.

`SuccessMeansRunning` needs a second layer, `DepsOK` (what a resolved extension
depends on was resolved too), proved on top of `IInv`. `ValidStateChanges`
follows from `IInv` action by action: `StatesOK` says from which states a stage
moves an item, and `ValidRows` reads the rows of the table.

The order of the callbacks needs three more invariants, each inductive given `IInv`:

* `LiveOK`: a module has been initialized at most once more than it was shut
  down for every aborted Initialize, and once more while its pointer is set.
  `ShutdownsBalance` is the case of no pointer.
* `StageAtATime` and `ExportedOK`: no plugin runs while one is still to be
  exported, and an exported plugin is known to every module that was running
  when ExportingStage listed them, which are the ones that run now.
* `OrderOK`: off the cycles, a dependency stands earlier in the container. It
  comes from the condition `LoadOrders` puts on the answer of the resolver, which
  speaks of paths in the graph of the container; `GraphReaches` carries that over to
  `DependsOn`. With it and `StatesOK`, which orders states by position,
  `LifetimesNest` compares two positions in each stage or loop.

`LifetimesNestHolds` has the hypothesis `ModulesAlone`: LoadingStage takes modules
to running while plugins wait for StartingStage, so a module that required a
plugin would start before it. Nothing in the code forbids such a manifest.

The refinement has one lemma per action, that says which step of the
protocol it is. `PhasesAt` gives the phases that can occur at each point of a
call, from which it follows that "together" is kept: when the first plugin
enters a phase, all others have left the phase before the last. `NotBroken` and
`FailureShows` are about runs that fail: a failure counted shows in the state of
an extension, so that the protocol, which cannot see counters, knows that only
a next run may follow.

The proofs have lemmas about permutations and concatenations of sequences for
the reordering in `Resolve`. All invariants were model-checked on both instances
before they were proved.

### The others

`AssemblyCache`: what a manager's cache, its extensions and the pointer in
progress lead to is alive and was opened for that library (`IInv` there), hence
the same assembly. The hypothesis `BaseDirIsAbsolute` is what the run
`assembly_relative` refutes the conclusion without.

`ServiceLocator`: `Exclusive` says that a call that holds the mutex to register
is the only holder, of all calls on all stacks, those deeper on its own
included. It is inductive with the types of the stacks. `DescriptorStable`
follows: only registering and clearing change `services`, and both need the mutex
to be free.

`OnlyReentryBlocks` needs of the stacks that a factory only resolves (`InnerResolves`):
registering and clearing are outermost calls. So of two threads that cannot go on,
the innermost call of each asks for the mutex, and the holder it waits for is on a
stack whose innermost call asks for it as well. If that is a resolution, its
thread shares the mutex again; and if it is not, it is the only call of its thread,
which then holds nothing.

`OnePerScope` is about two moments: `ResolveInternal` looks into the scope, and
puts the instance there after the factory has run. In between the factory
resolves other services, which put theirs in the same scope, so nothing in the
code says that the place is still free. `ScopeOpen` says the scope found is
still the one on top. `Unmade` says that what a thread is about to put into it is not
there, and it is kept because the services under way in a thread need each other from
the outermost in (`Nested`): with the hypothesis `Acyclic(rank)`, that what a service
needs ranks below it, they descend (`Ranked`), and the innermost, which is
the one that finishes, is none of the others. Without the hypothesis there is nothing
to prove: a factory that needs itself recurses until the stack of the thread ends.

`Resolver`: after a call has filled the two maps, `MapFresh` holds: each
solvable of the pool has an entry with an extension of this call, whose
manifest is that of the solvable, and no two the same. It speaks of the entries
the report is read from and says nothing of those left over, which is why it is
inductive and why `JobsInPool`, which reads all of them, fails. The load order
of a report is the image of a permutation of the installed solvables
(`Permutation`), and a provider that the solver installed for a requirement is
an edge of the graph or the extension itself (`ReportAnswers`).

`VersionOrder`: the code compares three times in the same way, by the first place
where two sequences differ and then by their lengths: the numbers of the core, the
characters of an identifier, the identifiers of a prerelease. `ComparedIs` says once
and for all that this is the order of words over an alphabet (`InOrder`), if each
place is compared by the order of the alphabet, and `InOrderTransitive` that it is
transitive if the alphabet's is. Numeric identifiers are the exception: they are
compared by length and then as text, "assum[ing] that strings don't have leading
zeros" (`version.hpp:229`), and are numbers of any size. That this is the order of the numbers
is `FewerDigits` and `LowerDigit`, inductions over the digits; that the
parser lets no leading zero through is the hypothesis `IsVersion`. So what
`VersionOrderIsPrecedence` checks of the versions that were read holds of all,
if the parser reads versions, which `VersionReadsItsText` checks.

`Host`: a built host has the configuration that `Build` makes of the builder
(`HostInv`), so the work is about `FinalConfig`. `Upto(c, s)` says what a configuration
is when the sources up to `s` have been merged, which is proved merge by merge
(`GivenMerged`, `NotGivenMerged`): as the sources come in the order of their
priority, each group takes what a source sets, and the highest source that sets something is
the last; overrides that are not merged can only be of the log level (`Overlooked`).
For the directories it says `Placed`, if all base directories are absolute: as
given, or taken relative to a base directory once. That a later merge leaves them
alone (`ResolveTwice`) is so because an absolute path stays absolute when it is
normalized (`NormalKeepsRoot`). In any case it says `After`: each merge has taken
them relative to a base directory once more, or left them alone.
`Normal` goes through the names of a path one by one, so this is an induction. The
library's induction theorems are stated of operators and cannot be used;
`Basics` states induction of sets and derives it from the well-foundedness of
inclusion on finite sets, which the library states of a relation, and from that the existence
of recursively defined functions.

`Registrar`: `Kept` says of one id what the property says of it, and is
preserved id by id: a step of another id leaves it alone (`UntouchedIsKept`), and of
the same, a name goes (`DroppedIsKept`) or comes (`NamedIsKept`). What
makes it inductive for any number of managers is that `shared` keeps an id for as
long as anybody names it: when one of two managers has taken out the name of both,
the other still has an extension without a name in the registry.

`Manifest`: what makes `OneDefinitionPerName` hard is that it speaks of all that
can be reached, while `Collect` replaces references during its walk and does not
walk the definitions that give way. `IInv` says what each pass leaves to the next,
of the objects that are kept: the methods and the definitions of the table. Each
property of one refers to a definition of the table, or to none, or stands still
to be walked on the stack of `Collect` (`Walked`, `Waiting`); when the stack is empty
there is no third case, whatever the objects that gave way refer to. `Link`
leaves no names in them (`LinkedOK`). The methods and the table are then closed
under reference, which is all that is needed of reachability: it is defined by
closed supersets (`Reaches`), so that no induction over paths is called for.

`CyclesAreFound` is depth-first search with marks, begun anywhere. In
`SearchInv`, what is done refers only to what is done (`DoneClosed`) and does not
reach itself (`DoneAcyclic`): a prototype becomes done when all it refers to is
(`Passed`), and a cycle through it would lie in the closed set of the others. Each
prototype on the path reaches those after it (`PathReaches`), so a reference back
to one on the path is a cycle (`CycleRefused`). `Publish` waits until none is
unvisited, so in the end all are done (`AllDone`).

`Expected`: the invariant is just the types and `Told`; the work is in the calls, each
a composition of steps of which any may throw. There is a lemma for each step and
each operation (`StepIs`, `MakeIs`, `ReinitIs`, `AssignIs`), that says what it has
done to either object when it returns and when it throws, and a lemma per action that
its outcome is what the action promised (`Comes`). The types include what the
code requires of them for assignment and swap (`expected.hpp:353`), that one of the
two moves without a throw: it is what brings the old object back in `ReinitIs` and
in `ExchangeComes`. The refinement follows from the same lemmas (`PromisedCalls`).

`Variant` goes the same way. When `emplace` throws, the old object is gone
(`EmplaceImplIs`): the index names a type, and there is no object. The calls that
make a temporary first have thrown before that and changed neither variant, or
after it and lost the object (`AssignElemIs`, `SwapDifferentComes`). `VariantSafe` keeps both
cases: the types, and the index with them, of a variant that is not in `lost`, and
no object in one that is. While nothing is lost it is `VariantInv`, from which the calls
start. An assignment and a swap of different types that lose nothing have the
strong guarantee; a swap of one type is `std::swap`, and has it where moves do not
throw. `VariantIsNeverValueless` follows: the index names a type in either case.

`VariantTree`: the tree is built from the leaves up, in rows, and read from the root
down. What the two have in common is `Holds`: from this union, as many steps as it has
types lead to each of them, in their order. A leaf has it (`LeafHolds`), a union of two
that have it for neighbouring types has it (`NodeHolds`), and so each row after the
first stands for all the types (`FirstRowIs`, `NextRowIs`). A pass halves a
row, so that after as many passes as there are types one union is left
(`PassesEnd`). Both recursions are functions, and `RecursionTo` of `Basics` says that
they exist.

`Vector`: `VectorHoldsItsElements` is inductive as it stands, and again the work is in
the calls: while one is under way its cells are not in order, and it may stop there. A
call is a record, and each lemma says of an operation, for every cell, what is in it
when the operation has come to its end, and what when it threw after some number of
elements. `Does` is what they all come to: the cells are in order (`Held`); without a
throw, `s` stands in the place of the elements cut (`Spliced`); and a throw with the
strong guarantee has changed no element (`Same`). Under it there are two layers.

* The steps: `WriteIs`, `ConstructAtEndIs`, `ConstructRangeIs`, `DestructAtEndIs`;
  `MoveAllIs`, an induction over the elements moved, whose hypothesis `Movable` says
  that no element is read after its cell was written, which is why `move_range` goes
  forward into raw cells and backward over elements (`ShiftIs`); `SwapOutIs`, where the
  elements after the position go first, and those before it after them, so that
  only a throw of the second half changes something (`DestructAtEnd`), which at either end is
  no half at all.
* Aliased arguments: `DerefIs` and `FollowIs`, that a reference reads the old
  element after the elements behind the position have been moved, in the cell the
  code looks for it.

`MoveAll`, and constructors and assignments from a range (`PushAll`), are recursive
functions; `RecursionTo` of `Basics` gives their values one by one. `InsertInputIs`
says what else can come of an insertion from input iterators: when it threw with the
spare cells filled and more to insert (`Tore`), all cells are counted, and those behind
the old elements are destroyed (`Torn`). No other call of a vector does this. The
assumption on the constants, `VectorAssumption`, is a hypothesis: raw cells hold no
element, and a number as an argument is a reference.

`InplaceVector` shares the steps (`ConstructAtEndIs`, `RotateIs`) and has no growth to
care for. `Fits` says that a call has the cells of the object and they are in order,
`Replaces` what it comes to: `s` stands in the place of the elements cut, or it has
thrown, and then with the strong guarantee changed nothing (`ThrowReplaces`). What is
inserted is appended first and rotated into its place (`RotatedIs`): a swap that throws
leaves it appended or partly moved, so an insertion has the strong guarantee only at
the end, or where moves cannot throw; a call that does not fit throws before it begins,
with nothing appended. `PushedIs`, an
induction over the elements pushed, serves both kinds of vector. `resize` of a vector
that is not empty, to as many elements or more, is the one call that may end with a
`count` that is too large, and then by as much as the vector had (`InplaceIsStretched`).

`String`: in `Held` the characters fit the buffer, the terminator stands behind them, and
the buffer is that of the object or at least as large. `Does` has the forms it had for a
vector. Four groups of lemmas lead to it.

* The buffer: `RecommendIs`, that a new buffer is as large as asked for, whatever
  the alignment of capacities; `InNewBufferIs`, `GrowByIs`: what of the old text the new
  buffer shows when the tail has been moved, and that a throw has changed nothing.
* `ReadIs` and `SourceIs`: what an argument that is a part of the string reads, now and
  after a step that leaves those places alone (`ReadAgain`).
* `InsertDoes`: when the tail has moved, an argument that began at or behind the position
  is read where it has moved to, and one that began before it where it was, even if it
  reaches across, because the tail has gone further than that.
* `ReplaceInPlaceDoes`: the four cases of `replace` in the buffer, where the argument
  lies before, behind or across the characters that give way, and these are more or
  fewer (`NarrowerLeaves`, `WiderLeaves`, `AheadLeaves`, `ApartLeaves`). Each says which
  characters the steps leave where the argument will be read.

Throughout, sums of positions are kept apart from equations between characters, each in
a step of its own, as no prover does both well.

Checked by TLC only: liveness, which is beyond the prover, and what the parsers of
`Version` make of a text (`VersionReadsItsText`, `RangeMeansItsText`, and with them
`VersionOrderIsPrecedence`, which is about versions that were read): they are recursions
over texts, and declared `RECURSIVE`.

## 5. Assumptions about code outside the repository

libsolv is `LoadOrders`; a language module is a pair of answers, success or
error, to each callback, chosen freely each time, except that `Shutdown`,
`OnPluginEnd` and `OnUpdate` errors are only logged by the code and so change
nothing. A callback that calls back into the manager would wait on
`lifecycleMutex`, which the caller holds; that is not modelled.
`std::shared_mutex` is `CanShare` and `CanOwn`, which say what it may grant; nothing
is assumed about who goes first, or that a thread that may be let in is. To
share it while owning it is undefined, and modelled as waiting or terminating; to share it
twice is undefined too, and modelled as waiting or being let in.
`std::shared_ptr` is reachability (`Alive`). The constructors of the elements of
a container copy their argument or throw and do nothing else; `std::allocator`
allocates or throws. A configuration file and a manifest are what glaze makes
of them: a record or a failure.

## 6. Findings

1. `BaseFailurePropagatingStage::ProcessItem` (`stages_impl.hpp:382`) passes
   `_reverseDepGraph` to `HasAnyDependencyFailed`, and failures are propagated
   along `_depGraph`. So an extension is skipped when something that depends on
   it has failed, and is operated on when something it depends on has failed;
   `failure_tracker.hpp:32` says the function checks whether "any of this
   extension's dependencies have failed". In load order dependents come later
   than dependencies, so the tracker skips nothing at all except on cycles. The
   run `manager_skip` shows `app` being loaded after `base` has failed. The
   pipeline stops at the end of the stage in any case, which is why
   `SuccessMeansRunning` still holds.
2. `RegisterFactory` (`service_locator.cpp:65`) calls the factory of a singleton
   with the exclusive lock held; the factory that `RegisterWithDependencies`
   makes resolves, that is, shares the same mutex (`locator_singleton`).
3. The map from extensions to solvables is not cleared between calls
   (`libsolv_dependency_resolver.cpp:250`): after a call with more extensions, a
   job names a solvable that the new pool does not have (`resolver_jobs`).
4. With a relative base directory the key erased (`extension_loader.hpp:172`)
   is not the key stored, so the library stays open after its module is unloaded
   (`assembly_relative`).
5. `Collect` does not descend into an inline definition that gives way to an
   equal one (`manifest.cpp:273`), so a definition inside it is never registered,
   and `Link` refuses its name as unknown; `manifest.cpp:292` says "Every
   definition is in the table by now" (`manifest_unknown`).
6. `do_emplace_no_dtor` (`variant.hpp:919`) sets the index before it constructs, so when
   the constructor throws with the old object destroyed, the variant names a type
   of which it has no object; the branches for `valueless_by_exception` are never taken
   (`VariantIsNeverValueless`). Of an assignment that threw,
   `valueless_by_exception.cpp:44` says `REQUIRE(v.valueless_by_exception())`
   (`variant_valueless`).
7. A relative base directory is put before the directories by each merge and once more
   by `Build` (`config.cpp:159`), so the README's `./app` (`README.md:200`, `:238`) with
   `extensions` becomes `app/app/extensions` (`host_relative`). `Initialize` then refuses
   `./app` as not normalized (`plugify.cpp:202`), so the host never runs on it.
8. `WithLogger` puts the level of the logger into the overrides, which `Build` merges
   only when a base directory or paths were overridden (`plugify.cpp:425`);
   `plugify.cpp:424` calls them "specific overrides (highest priority)" (`host_severity`).

Seen while modelling, and left without a property because no line of the
repository promises otherwise: two threads in `Register...IfMissing` may both
find the type missing, and the later replaces the earlier; a factory whose
dependency is missing throws through `noexcept` and ends the program; `Clear`
drops the calling thread's scopes, after which a live `ScopedServiceLocator`
throws in its destructor; `emplace` does not replace an expired weak pointer in
`BasicAssemblyLoader::_cache`, so two managers may have two assemblies
of one library; `isLoadOrderValid` (`libsolv_dependency_resolver.cpp:413`) is true
whatever the order, though `dependency_resolver.hpp:56` speaks of cycles; a module
that requires a plugin is started before it.

Of the host, the configuration, the manifest and the registry:

* A base directory of the file that an override replaces leaves the directories of
  the file under the old one. A higher source cannot set a value back to its default.
* The destructor of `Plugify` calls `Terminate`, which throws on a thread that is
  not the owner: the program aborts (`life = "aborted"`). `Initialize` of the host
  does not initialize its manager.
* `SameDefinition` compares what a definition consists of, but nested definitions by
  their kinds and names only, so two definitions
  of one name whose inline definitions differ are taken for the same.
* Two managers number their extensions from 0 in one registry and take each
  other's names away (`RegistryNamesExtensions` says how far); a moved-from `Registrar` erases the id -1;
  `Registrar::ToString` returns a reference into the map after unlocking it.

Of the `plg` types:

* `vector::insert` from input iterators leaves `end_` behind destroyed elements when
  anything throws once the spare cells are filled (`torn`, `vector.hpp:1406`); `assign(n, u)` with
  `u` in the vector and a growth reads what was freed;
  `split_buffer::emplace_back` uses an end it took before it reallocated
  (`split_buffer.hpp:880`), which no caller in the repository reaches.
* `inplace_vector::resize` compares with the free cells instead of the capacity and
  adds to the size what it should set it to (`inplace_vector.hpp:363`), so a vector
  with elements that is resized to as many or more counts cells that hold none, past
  its capacity even (`stretched`). Its assignment from an input iterator does
  not compile.
* `expected::or_else` of a constant rvalue has its condition inverted for an `f`
  that returns void (`expected.hpp:787`), and `transform` of an lvalue moves the
  value in that case; neither is in the model.
* `version`: a number of 20 or more digits wraps and may be accepted,
  18446744073709551617.0.0 as 1.0.0 (`TooWide`); a failed parse
  leaves its target partly written; a range set may be followed by anything.

## 7. Plan

Done, in this order: `Manager` with its protocol; `ServiceLocator`;
`AssemblyCache`; `Resolver`; the theorems about the manager's safety and the
refinement; the theorems about the locator, the assembly cache, the resolver and the
registry;
`Config`, `Host`, `Manifest`, `Registrar`; the `plg` types under `Container`; the
theorems about manifests, about `plg::expected`, `plg::variant`, both vectors and the
string, and about the host.

Left, what matters most first:

1. `Manager` composed with `Resolver`, its `LoadOrders` being the orders of
   `Transactions`, and with `Manifest` for the parsing stage.
2. The unlocked queries of the manager, as readers beside a call in progress.
3. An abstract specification of `AssemblyCache`, a counted set of open libraries
   per manager, and the refinement.
4. `ServiceLocator`: scopes shared by the locators of a thread, and the
   life-times of instances.
5. `ValidateEnum`, `ValidateClass` and the paths of a manifest.

## 8. Not modelled, and why

* JIT (`src/src/jit`): emits machine code; what could go wrong is in encodings
  and calling conventions, which a state machine cannot see.
* Of the `plg` types: iterators, comparison, hashing, visitation, search in and
  conversion from strings, allocator propagation; they change nothing.
* Loggers, file system, JSON reading, platform calls, assemblies: I/O.
* Reflection data and provider: accessors.
* Statistics, timings, progress bars, report texts: no state anyone decides on.
* The unlocked queries of the manager: they change nothing; what they read
  while a call is in progress is a data race on the container, listed as a hazard.

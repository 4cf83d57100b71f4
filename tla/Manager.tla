------------------------------- MODULE Manager -------------------------------
(***************************************************************************)
(* The extension manager: Manager::Initialize with its five-stage          *)
(* pipeline, Update, Terminate and destruction, together with the          *)
(* operations of ExtensionLoader that the stages call.                     *)
(*                                                                         *)
(* lifecycleMutex is held from the first to the last step of a call, so    *)
(* at most one call is in progress: pc is "idle" when the mutex is free    *)
(* and otherwise names the stage or the loop the holder is in.  Every      *)
(* SetState is a step of its own, because language modules are called, and *)
(* unlocked queries can read, between any two of them.  A call into a      *)
(* language module returns success or an error, chosen when it returns.    *)
(***************************************************************************)
EXTENDS Naturals, SequencesExt, Extension

CONSTANTS
  Ext,                 \* the manifest files; one extension each, names distinct
  Modules,             \* those of type Module (.pmodule); the others are plugins
  Languages,           \* language names
  LanguageOf,          \* [Ext -> Languages]
  Requires,            \* [Ext -> SUBSET (Ext \cup {None})]: required dependencies,
                       \* None for a name or a version no extension provides
  Conflicts,           \* pairs that cannot be installed together
  Disallowed,          \* excluded by whitelist, blacklist or platform
  Hooks,               \* [Ext -> SUBSET HookName]: the method table its load returns
  Listings,            \* the orders in which the manifests may be discovered
  MaxConcurrentLoads,  \* size of the pipeline's thread pool
  MaxInits,            \* bound on the calls of Initialize that do something
  None

HookName == {"update", "start", "end", "export"}

ASSUME ManagerAssumption ==
  /\ IsFiniteSet(Ext)
  /\ Modules \subseteq Ext
  /\ None \notin Ext
  /\ LanguageOf \in [Ext -> Languages]
  /\ Requires \in [Ext -> SUBSET (Ext \cup {None})]
  /\ Conflicts \subseteq Ext \X Ext
  /\ Disallowed \subseteq Ext
  /\ Hooks \in [Ext -> SUBSET HookName]
  /\ \A s \in Listings : /\ s \in Seq(Ext)
                         /\ \A i, j \in DOMAIN s : s[i] = s[j] => i = j
  /\ MaxConcurrentLoads \in Nat \ {0}
  /\ MaxInits \in Nat \ {0}

VARIABLES
  pc,               \* what the holder of lifecycleMutex is doing
  initialized,      \* Manager::Impl::initialized
  extensions,       \* Manager::Impl::extensions, in its current order
  state,            \* Extension state; "Unknown" for a file with no object
  languageModule,   \* the ILanguageModule an extension points to (by its module)
  pos,              \* position of the loop in progress
  failed,           \* failed items of the stage in progress
  failureTracker,   \* the FailureTracker of the Initialize in progress
  depGraph,         \* dependencies of each resolved extension
  reverseDepGraph,  \* dependents of each resolved extension
  loadedModules,    \* LoadingStage::_loadedModules
  runningModules,   \* ExportingStage::_runningModules
  live,             \* ILanguageModule::Initialize calls not yet followed by Shutdown
  exportedTo,       \* the modules that took a plugin's OnMethodExport
  inits,            \* Initialize calls that started (bounded by MaxInits)
  aborted           \* Initialize calls that returned an error after discovery

pipelineVars == <<failed, failureTracker, loadedModules, runningModules>>
graphVars == <<depGraph, reverseDepGraph>>
historyVars == <<inits, aborted>>
vars == <<pc, initialized, extensions, state, languageModule, pos, live,
          exportedTo, pipelineVars, graphVars, historyVars>>

Plugins == Ext \ Modules
SequentialStages == {"Loading", "Exporting", "Starting"}
PC == {"idle", "Parsing", "Resolution", "Resolving", "Report", "Updating",
       "Ending", "Terminating", "destroyed"} \cup SequentialStages

\* The extension the loop in progress is at.
Item == extensions[pos]

Move(e, to) == state' = [state EXCEPT ![e] = to]

-----------------------------------------------------------------------------
(* Initial state: a Manager that was constructed and set up. *)

Init ==
  /\ pc = "idle"
  /\ initialized = FALSE
  /\ extensions = <<>>
  /\ state = [e \in Ext |-> "Unknown"]
  /\ languageModule = [e \in Ext |-> None]
  /\ pos = 0
  /\ failed = 0
  /\ failureTracker = {}
  /\ depGraph = [e \in Ext |-> {}]
  /\ reverseDepGraph = [e \in Ext |-> {}]
  /\ loadedModules = [l \in Languages |-> None]
  /\ runningModules = <<>>
  /\ live = [m \in Modules |-> 0]
  /\ exportedTo = [e \in Ext |-> {}]
  /\ inits = 0
  /\ aborted = 0

-----------------------------------------------------------------------------
(* Initialize: discovery.  The previous extensions are destroyed by the      *)
(* assignment whatever state they are in.                                    *)

Discover ==
  /\ pc = "idle" /\ ~initialized
  /\ inits < MaxInits
  /\ \E found \in Listings :
       /\ extensions' = found
       /\ state' = [e \in Ext |-> IF e \in ToSet(found) THEN "Discovered"
                                                        ELSE "Unknown"]
  /\ languageModule' = [e \in Ext |-> None]
  /\ exportedTo' = [e \in Ext |-> {}]
  /\ inits' = inits + 1
  /\ pc' = "Parsing"
  /\ UNCHANGED <<initialized, pos, live, aborted, pipelineVars, graphVars>>

-----------------------------------------------------------------------------
(* Parsing: one task per extension on the thread pool. *)

StartParsing(e) ==
  /\ pc = "Parsing"
  /\ state[e] = "Discovered"
  /\ Cardinality({x \in Ext : state[x] = "Parsing"}) < MaxConcurrentLoads
  /\ Move(e, "Parsing")
  /\ UNCHANGED <<pc, initialized, extensions, languageModule, pos, live,
                 exportedTo, pipelineVars, graphVars, historyVars>>

FinishParsing(e) ==
  /\ pc = "Parsing"
  /\ state[e] = "Parsing"
  /\ \/ Move(e, "Parsed") /\ UNCHANGED failed
     \/ Move(e, "Corrupted") /\ failed' = failed + 1
  /\ UNCHANGED <<pc, initialized, extensions, languageModule, pos, live,
                 exportedTo, failureTracker, loadedModules, runningModules,
                 graphVars, historyVars>>

\* _pool.wait() returns; a failed item of a required stage ends the pipeline.
EndParsing ==
  /\ pc = "Parsing"
  /\ \A e \in Ext : state[e] \notin {"Discovered", "Parsing"}
  /\ pc' = IF failed > 0 THEN "Report" ELSE "Resolution"
  /\ UNCHANGED <<initialized, extensions, state, languageModule, pos, live,
                 exportedTo, pipelineVars, graphVars, historyVars>>

-----------------------------------------------------------------------------
(* Resolution. *)

FilterByPolicy ==
  /\ pc = "Resolution"
  /\ state' = [e \in Ext |->
                 IF state[e] # "Parsed" THEN state[e]
                 ELSE IF e \in Disallowed THEN "Disabled" ELSE "Resolving"]
  /\ pc' = "Resolving"
  /\ UNCHANGED <<initialized, extensions, languageModule, pos, live, exportedTo,
                 pipelineVars, graphVars, historyVars>>

Filtered == {e \in Ext : state[e] = "Resolving"}

IndexOf(e) == CHOOSE i \in DOMAIN extensions : extensions[i] = e

\* The module AddLanguageDependencies registers for a language: the last one.
ModuleOfLanguage(l) ==
  LET candidates == {m \in Filtered \cap Modules : LanguageOf[m] = l}
  IN  IF candidates = {} THEN None
      ELSE CHOOSE m \in candidates :
             \A n \in candidates : IndexOf(n) <= IndexOf(m)

\* Required dependencies with the one AddLanguageDependencies injects.
Dependencies(e) ==
  Requires[e] \cup
    (IF e \in Plugins THEN {ModuleOfLanguage(LanguageOf[e])} ELSE {})

(* What the libsolv resolver may answer: a set of extensions that can be      *)
(* installed together, all of them if that is possible, in an order that puts *)
(* dependencies first except where they are on a cycle.                       *)
Installable_IgnoresRequires(S) == (S \X S) \cap Conflicts = {}
Installable(S) ==
  /\ \A e \in S : Dependencies(e) \subseteq S
  /\ (S \X S) \cap Conflicts = {}

\* b is reachable from a along dependencies inside S.
Reaches(S, a, b) ==
  \A X \in SUBSET S :
    (/\ Dependencies(a) \cap S \subseteq X
     /\ \A x \in X : Dependencies(x) \cap S \subseteq X) => b \in X

LoadOrders_Unordered ==
  {o \in UNION {SetToSeqs(S) : S \in SUBSET Filtered} : Installable(ToSet(o))}
LoadOrders ==
  {o \in UNION {SetToSeqs(S) : S \in SUBSET Filtered} :
     /\ Installable(ToSet(o))
     /\ Installable(Filtered) => ToSet(o) = Filtered
     /\ \A i, j \in DOMAIN o :
          i < j /\ o[j] \in Dependencies(o[i]) => Reaches(ToSet(o), o[j], o[i])}

\* The members of S, a set of extensions, in the order of the container.
InListedOrder(S) ==
  {s \in SetToSeqs(S) :
     \A i, j \in DOMAIN s : i < j => IndexOf(s[i]) < IndexOf(s[j])}

\* RestoreResult: every item counts as failed and the filtered stay Resolving.
RestoreResult ==
  /\ \E filtered \in InListedOrder(Filtered),
        excluded \in InListedOrder(ToSet(extensions) \ Filtered) :
       extensions' = filtered \o excluded
  /\ failed' = Len(extensions)
  /\ pc' = IF extensions = <<>> THEN "Loading" ELSE "Report"
  /\ UNCHANGED <<state, graphVars>>

\* BuildResultInOrder: resolved in load order, then unresolved, then excluded.
BuildResult(order) ==
  /\ \E rest \in SetToSeqs(Filtered \ ToSet(order)),
        excluded \in InListedOrder(ToSet(extensions) \ Filtered) :
       extensions' = order \o rest \o excluded
  /\ state' = [e \in Ext |-> IF e \in ToSet(order) THEN "Resolved"
                             ELSE IF e \in Filtered THEN "Unresolved"
                             ELSE state[e]]
  /\ depGraph' = [e \in Ext |-> IF e \in ToSet(order)
                                THEN Dependencies(e) \ {e} ELSE {}]
  /\ reverseDepGraph' = [d \in Ext |-> {e \in ToSet(order) :
                                          e # d /\ d \in Dependencies(e)}]
  /\ pc' = "Loading"
  /\ UNCHANGED failed

Resolve ==
  /\ pc = "Resolving"
  /\ \/ /\ Filtered = {} /\ RestoreResult
     \/ /\ Filtered # {}
        /\ \E order \in LoadOrders :
             IF order = <<>> THEN RestoreResult ELSE BuildResult(order)
  /\ pos' = 1
  /\ UNCHANGED <<initialized, languageModule, live, exportedTo, failureTracker,
                 loadedModules, runningModules, historyVars>>

-----------------------------------------------------------------------------
(* The sequential stages: one item at a time, in the order of the container,  *)
(* and on to the next one whatever the outcome (ContinueOnError).             *)

\* ShouldProcess of the stage in progress.
ShouldProcess_AnyPlugin(e) ==
  \/ pc = "Loading" /\ state[e] = "Resolved"
  \/ pc \in {"Exporting", "Starting"} /\ e \in Plugins
ShouldProcess(e) ==
  \/ pc = "Loading" /\ state[e] = "Resolved"
  \/ pc = "Exporting" /\ state[e] = "Loaded" /\ e \in Plugins
  \/ pc = "Starting" /\ state[e] = "Exported" /\ e \in Plugins

\* DoProcessItem has called StartOperation and has more to do.
InProgress(e) ==
  \/ state[e] \in SequentialStages \cup {"Started"}
  \/ state[e] = "Loaded" /\ e \in Modules

AtItem == pc \in SequentialStages /\ pos <= Len(extensions)

PassItem ==
  /\ AtItem
  /\ ~ShouldProcess(Item) /\ ~InProgress(Item)
  /\ pos' = pos + 1
  /\ UNCHANGED <<pc, initialized, extensions, state, languageModule, live,
                 exportedTo, pipelineVars, graphVars, historyVars>>

\* FailureTracker::HasAnyDependencyFailed, called with the reverse graph.
HasAnyDependencyFailed(e) == reverseDepGraph[e] \cap failureTracker # {}

SkipItem ==
  /\ AtItem
  /\ ShouldProcess(Item) /\ HasAnyDependencyFailed(Item)
  /\ Move(Item, "Skipped")
  /\ failureTracker' = failureTracker \cup {Item}
  /\ failed' = failed + 1
  /\ pos' = pos + 1
  /\ UNCHANGED <<pc, initialized, extensions, languageModule, live, exportedTo,
                 loadedModules, runningModules, graphVars, historyVars>>

\* StartOperation: the operation's state has the name of the stage.
StartItem ==
  /\ AtItem
  /\ ShouldProcess(Item) /\ ~HasAnyDependencyFailed(Item)
  /\ Move(Item, pc)
  /\ UNCHANGED <<pc, initialized, extensions, languageModule, pos, live,
                 exportedTo, pipelineVars, graphVars, historyVars>>

\* PropagateFailureToDirectDependents follows the graph of dependencies.
HandleOperationFailure ==
  /\ Move(Item, "Failed")
  /\ failureTracker' = failureTracker \cup {Item} \cup depGraph[Item]
  /\ failed' = failed + 1
  /\ pos' = pos + 1

\* ILanguageModule::Initialize succeeded.
LoadLanguageModule(m) ==
  /\ live' = [live EXCEPT ![m] = @ + 1]
  /\ languageModule' = [languageModule EXCEPT ![m] = m]

LoadModule ==
  /\ AtItem /\ Item \in Modules /\ state[Item] = "Loading"
  /\ \/ /\ LoadLanguageModule(Item)
        /\ loadedModules' = [loadedModules EXCEPT ![LanguageOf[Item]] = Item]
        /\ Move(Item, "Loaded")
        /\ UNCHANGED <<pos, failed, failureTracker>>
     \/ /\ HandleOperationFailure
        /\ UNCHANGED <<live, languageModule, loadedModules>>
  /\ UNCHANGED <<pc, initialized, extensions, exportedTo, runningModules,
                 graphVars, historyVars>>

\* The pointer is set before OnPluginLoad and stays set when that fails.
LoadPlugin ==
  LET module == loadedModules[LanguageOf[Item]] IN
  /\ AtItem /\ Item \in Plugins /\ state[Item] = "Loading"
  /\ \/ /\ module # None
        /\ languageModule' = [languageModule EXCEPT ![Item] = module]
        /\ Move(Item, "Loaded")
        /\ pos' = pos + 1
        /\ UNCHANGED <<failed, failureTracker>>
     \/ /\ languageModule' = [languageModule EXCEPT ![Item] = module]
        /\ HandleOperationFailure
  /\ UNCHANGED <<pc, initialized, extensions, live, exportedTo, loadedModules,
                 runningModules, graphVars, historyVars>>

\* OnMethodExport on each running module in turn, until one returns an error.
ExportPlugin ==
  /\ AtItem /\ state[Item] = "Exporting"
  /\ \E n \in 0..Len(runningModules) :
       /\ exportedTo' = [exportedTo EXCEPT ![Item] =
                           IF "export" \in Hooks[Item]
                           THEN ToSet(SubSeq(runningModules, 1, n)) ELSE {}]
       /\ \/ /\ n = Len(runningModules)
             /\ Move(Item, "Exported")
             /\ pos' = pos + 1
             /\ UNCHANGED <<failed, failureTracker>>
          \/ /\ n < Len(runningModules) /\ "export" \in Hooks[Item]
             /\ HandleOperationFailure
  /\ UNCHANGED <<pc, initialized, extensions, languageModule, live,
                 loadedModules, runningModules, graphVars, historyVars>>

StartPlugin ==
  /\ AtItem /\ state[Item] = "Starting"
  /\ \/ Move(Item, "Started") /\ UNCHANGED <<pos, failed, failureTracker>>
     \/ "start" \in Hooks[Item] /\ HandleOperationFailure
  /\ UNCHANGED <<pc, initialized, extensions, languageModule, live, exportedTo,
                 loadedModules, runningModules, graphVars, historyVars>>

\* A loaded module and a started plugin are set Running at once.
SetRunning ==
  /\ AtItem
  /\ \/ pc = "Loading" /\ state[Item] = "Loaded" /\ Item \in Modules
     \/ state[Item] = "Started"
  /\ Move(Item, "Running")
  /\ pos' = pos + 1
  /\ UNCHANGED <<pc, initialized, extensions, languageModule, live, exportedTo,
                 pipelineVars, graphVars, historyVars>>

RunningModules_Loaded ==
  {m \in Modules \cap ToSet(extensions) : state[m] = "Loaded"}
RunningModules ==
  {m \in Modules \cap ToSet(extensions) : state[m] = "Running"}

\* Where the pipeline goes on; all stages are required.
NextStage_Retries ==
  IF failed > 0 THEN pc
  ELSE CASE pc = "Loading" -> "Exporting" [] pc = "Exporting" -> "Starting"
         [] OTHER -> "Report"
NextStage_SkipsExporting ==
  IF failed > 0 \/ pc = "Starting" THEN "Report" ELSE "Starting"
NextStage ==
  IF failed > 0 \/ pc = "Starting" THEN "Report"
  ELSE IF pc = "Loading" THEN "Exporting" ELSE "Starting"

\* The end of a stage and the Setup of the next one.
EndStage ==
  /\ pc \in SequentialStages /\ pos > Len(extensions)
  /\ pc' = NextStage
  /\ IF NextStage = "Exporting"
     THEN runningModules' \in InListedOrder(RunningModules)
     ELSE UNCHANGED runningModules
  /\ pos' = 1
  /\ UNCHANGED <<initialized, extensions, state, languageModule, live,
                 exportedTo, failed, failureTracker, loadedModules, graphVars,
                 historyVars>>

\* totalFailed = 0: Initialize returns success.
Succeeded_Always == TRUE
Succeeded == failed = 0

\* Initialize returns; the pipeline, its stages and the tracker are destroyed.
FinishInitialize ==
  /\ pc = "Report"
  /\ initialized' = Succeeded
  /\ aborted' = IF Succeeded THEN aborted ELSE aborted + 1
  /\ failed' = 0
  /\ failureTracker' = {}
  /\ loadedModules' = [l \in Languages |-> None]
  /\ runningModules' = <<>>
  /\ pos' = 0
  /\ pc' = "idle"
  /\ UNCHANGED <<extensions, state, languageModule, live, exportedTo, graphVars,
                 inits>>

-----------------------------------------------------------------------------
(* Update: OnUpdate / OnPluginUpdate of every running extension, in order; an *)
(* error is logged and changes nothing.                                       *)

Update ==
  /\ pc = "idle" /\ initialized
  /\ pc' = "Updating"
  /\ pos' = 1
  /\ UNCHANGED <<initialized, extensions, state, languageModule, live,
                 exportedTo, pipelineVars, graphVars, historyVars>>

UpdateItem ==
  /\ pc = "Updating"
  /\ IF pos <= Len(extensions)
     THEN pos' = pos + 1 /\ UNCHANGED pc
     ELSE pos' = 0 /\ pc' = "idle"
  /\ UNCHANGED <<initialized, extensions, state, languageModule, live,
                 exportedTo, pipelineVars, graphVars, historyVars>>

-----------------------------------------------------------------------------
(* Terminate: two loops over the extensions, both in reverse order; an error  *)
(* of a callback is logged and changes nothing.                               *)

Terminate ==
  /\ pc = "idle" /\ initialized
  /\ pc' = "Ending"
  /\ pos' = Len(extensions)
  /\ UNCHANGED <<initialized, extensions, state, languageModule, live,
                 exportedTo, pipelineVars, graphVars, historyVars>>

EndItem ==
  /\ pc = "Ending" /\ pos > 0
  /\ \/ /\ state[Item] = "Running" /\ Move(Item, "Ending") /\ UNCHANGED pos
     \/ /\ state[Item] = "Ending" /\ Move(Item, "Ended") /\ pos' = pos - 1
     \/ /\ state[Item] \notin {"Running", "Ending"}
        /\ pos' = pos - 1 /\ UNCHANGED state
  /\ UNCHANGED <<pc, initialized, extensions, languageModule, live, exportedTo,
                 pipelineVars, graphVars, historyVars>>

EndedAll ==
  /\ pc = "Ending" /\ pos = 0
  /\ pc' = "Terminating"
  /\ pos' = Len(extensions)
  /\ UNCHANGED <<initialized, extensions, state, languageModule, live,
                 exportedTo, pipelineVars, graphVars, historyVars>>

\* ILanguageModule::Shutdown, whatever it returns.
UnloadModule(m) ==
  /\ live' = IF languageModule[m] # None THEN [live EXCEPT ![m] = @ - 1] ELSE live
  /\ languageModule' = [languageModule EXCEPT ![m] = None]

UnloadPlugin_KeepsPointer(p) ==
  UNCHANGED <<live, languageModule>>
UnloadPlugin(p) ==
  /\ languageModule' = [languageModule EXCEPT ![p] = None]
  /\ UNCHANGED live

UnloadItem ==
  /\ pc = "Terminating" /\ pos > 0
  /\ \/ /\ state[Item] = "Ended" /\ Move(Item, "Terminating")
        /\ UNCHANGED <<pos, live, languageModule>>
     \/ /\ state[Item] = "Terminating" /\ Move(Item, "Terminated")
        /\ IF Item \in Modules THEN UnloadModule(Item) ELSE UnloadPlugin(Item)
        /\ pos' = pos - 1
     \/ /\ state[Item] \notin {"Ended", "Terminating"}
        /\ pos' = pos - 1 /\ UNCHANGED <<state, live, languageModule>>
  /\ UNCHANGED <<pc, initialized, extensions, exportedTo, pipelineVars,
                 graphVars, historyVars>>

FinishTerminate_Early ==
  /\ pc = "Terminating" /\ pos = 1
  /\ initialized' = FALSE
  /\ pc' = "idle"
  /\ UNCHANGED <<extensions, state, languageModule, pos, live, exportedTo,
                 pipelineVars, graphVars, historyVars>>
FinishTerminate ==
  /\ pc = "Terminating" /\ pos = 0
  /\ initialized' = FALSE
  /\ pc' = "idle"
  /\ UNCHANGED <<extensions, state, languageModule, pos, live, exportedTo,
                 pipelineVars, graphVars, historyVars>>

-----------------------------------------------------------------------------
(* Destruction.  Impl::~Impl calls Terminate first when initialized, which is *)
(* the action Terminate; a Manager that is not initialized is just freed.     *)

Destroy ==
  /\ pc = "idle" /\ ~initialized
  /\ pc' = "destroyed"
  /\ UNCHANGED <<initialized, extensions, state, languageModule, pos, live,
                 exportedTo, pipelineVars, graphVars, historyVars>>

Destroyed == pc = "destroyed" /\ UNCHANGED vars

-----------------------------------------------------------------------------

\* The steps of a call in progress, as opposed to the host's decision to call.
Progress ==
  \/ \E e \in Ext : StartParsing(e) \/ FinishParsing(e)
  \/ EndParsing \/ FilterByPolicy \/ Resolve
  \/ PassItem \/ SkipItem \/ StartItem
  \/ LoadModule \/ LoadPlugin \/ ExportPlugin \/ StartPlugin \/ SetRunning
  \/ EndStage \/ FinishInitialize
  \/ UpdateItem
  \/ EndItem \/ EndedAll \/ UnloadItem \/ FinishTerminate

Next == Discover \/ Update \/ Terminate \/ Destroy \/ Destroyed \/ Progress

Spec == Init /\ [][Next]_vars

\* A call that was made runs on: its thread is scheduled and the language
\* modules it calls return.  Nobody is obliged to make a call.
FairSpec == Spec /\ WF_vars(Progress)

-----------------------------------------------------------------------------
(* Properties. *)

\* Type invariant of the manager.
TypeOK ==
  /\ pc \in PC
  /\ initialized \in BOOLEAN
  /\ extensions \in Seq(Ext)
  /\ state \in [Ext -> ExtensionState]
  /\ languageModule \in [Ext -> Modules \cup {None}]
  /\ pos \in Nat
  /\ failed \in Nat
  /\ failureTracker \subseteq Ext
  /\ depGraph \in [Ext -> SUBSET Ext]
  /\ reverseDepGraph \in [Ext -> SUBSET Ext]
  /\ loadedModules \in [Languages -> Modules \cup {None}]
  /\ runningModules \in Seq(Modules)
  /\ live \in [Modules -> Nat]
  /\ exportedTo \in [Ext -> SUBSET Modules]
  /\ inits \in Nat
  /\ aborted \in Nat

\* Every state change Extension::SetState makes is one its assertion accepts,
\* whatever mix of outcomes the stages and the two loops of Terminate meet;
\* only discovery, which builds new objects, starts over.
ValidStateChanges ==
  [][\A e \in Ext :
       \/ state'[e] = state[e]
       \/ IsValidTransition(state[e], state'[e])
       \/ pc = "idle" /\ state'[e] \in {"Unknown", "Discovered"}]_vars

\* The states in which the manager calls a language module about an extension.
Callable == {"Loaded", "Exporting", "Exported", "Starting", "Started",
             "Running", "Ending", "Ended", "Terminating"}

\* The manager never calls into, nor keeps a pointer to, a language module
\* that it has shut down: a module is unloaded after all its plugins.
NoUseAfterShutdown ==
  \A e \in Ext :
    /\ languageModule[e] # None => live[languageModule[e]] > 0
    /\ state[e] \in Callable => languageModule[e] # None

\* OnPluginStart runs only when every plugin of the run has been exported to
\* every running language module: a started plugin can call any other.
ExportsBeforeStarts ==
  \A p \in Plugins :
    state[p] \in {"Starting", "Started", "Running"} =>
      \A q \in Plugins :
        /\ state[q] \notin {"Resolved", "Loading", "Loaded", "Exporting"}
        /\ state[q] \in {"Exported", "Starting", "Started", "Running"}
             /\ "export" \in Hooks[q] =>
               \A m \in Modules : state[m] = "Running" => m \in exportedTo[q]

\* b is reachable from a in the dependency graph.
DependsOn(a, b) ==
  \A X \in SUBSET Ext :
    (depGraph[a] \subseteq X /\ \A x \in X : depGraph[x] \subseteq X) => b \in X

\* Off the cycles, the life of an extension lies inside the life of each of its
\* dependencies: it starts after them, ends before they end and is unloaded
\* before they are.  (One that failed or was skipped is not waited for: see
\* FailedDependencySkips.)
LifetimesNest ==
  \A e \in Ext : \A d \in depGraph[e] \ {e} :
    ~DependsOn(d, e) =>
      /\ state[e] \in {"Starting", "Started", "Running", "Ending"}
           => state[d] \in {"Running", "Failed", "Skipped"}
      /\ state[e] = "Ended" => state[d] \in {"Running", "Ending", "Ended"}
      /\ state[e] = "Terminating" => state[d] = "Ended"

\* A manager that reports success has every extension running, or set aside by
\* the policy or the resolver, and nothing runs without its dependencies.
SuccessMeansRunning ==
  initialized /\ pc \in {"idle", "Updating"} =>
    /\ \A e \in ToSet(extensions) :
         state[e] \in {"Running", "Unresolved", "Disabled"}
    /\ \A e \in ToSet(extensions) :
         state[e] = "Running" => \A d \in depGraph[e] : state[d] = "Running"

\* Initialize and Shutdown of a language module balance, except that each
\* Initialize of the manager that fails leaves at most one behind.
ShutdownsBalance ==
  \A m \in Modules :
    /\ live[m] <= aborted + (IF languageModule[m] # None THEN 1 ELSE 0)
    /\ pc \in {"idle", "destroyed"} /\ ~initialized /\ aborted = 0 => live[m] = 0

\* Every call of the manager returns.
CallsReturn == pc \notin {"idle", "destroyed"} ~> pc = "idle"

\* Terminate reaches every extension that was running: none is left in between.
TerminateReachesAll ==
  pc = "Ending" ~> /\ pc = "idle"
                   /\ ~initialized
                   /\ \A e \in Ext : state[e] \in
                        {"Unknown", "Unresolved", "Disabled", "Terminated"}

\* What failure_tracker.hpp:32 says of the check before each operation: an
\* extension one of whose dependencies has failed is not operated on.
FailedDependencySkips ==
  \A e \in Ext : state[e] \in SequentialStages =>
    \A d \in depGraph[e] : state[d] \notin {"Failed", "Skipped"}

-----------------------------------------------------------------------------
(* Refinement: the protocol a language module sees. *)

PhaseOf(e) ==
  CASE state[e] \in {"Loaded", "Exporting"}            -> "loaded"
    [] state[e] \in {"Exported", "Starting"}           -> "exported"
    [] state[e] \in {"Started", "Running", "Ending"}   -> "started"
    [] state[e] \in {"Ended", "Terminating"}           -> "ended"
    [] state[e] \in {"Failed", "Skipped"}              -> "failed"
    [] OTHER                                           -> "absent"

Protocol == INSTANCE LanguageModuleProtocol WITH
  Plugins <- Plugins,
  phase   <- [p \in Plugins |-> PhaseOf(p)],
  host    <- [p \in Plugins |-> languageModule[p]],
  broken  <- \E e \in Ext : state[e] \in {"Failed", "Skipped"}

\* The pipeline and the two loops of Terminate drive every language module by
\* the protocol: failures included, no callback is out of order.
FollowsProtocol == Protocol!ProtocolSpec

=============================================================================

--------------------------- MODULE Manager_proofs ---------------------------
(***************************************************************************)
(* Proofs about the manager, for every set of extensions, modules,         *)
(* languages, dependencies, conflicts, policies, hooks and listings: the   *)
(* inductive invariant and what follows from it; then what a module is     *)
(* shut down for, when a plugin may start, in which order extensions end,  *)
(* and that the manager implements the protocol of its modules.            *)
(***************************************************************************)
EXTENDS Manager, FiniteSetTheorems, SequenceTheorems, TLAPS

-----------------------------------------------------------------------------
(* The inductive invariant. *)

Out == {"Unresolved", "Disabled"}
Bad == {"Failed", "Skipped"}

\* The position of a loop lies where the loop may read the container.
PositionOK ==
  /\ pc \in SequentialStages \cup {"Updating"} => pos \in 1..(Len(extensions) + 1)
  /\ pc \in {"Ending", "Terminating"} => pos \in 0..Len(extensions)

\* The container holds every extension object once.
ListedOnce ==
  /\ \A i, j \in DOMAIN extensions : extensions[i] = extensions[j] => i = j
  /\ \A e \in Ext : state[e] # "Unknown" => e \in ToSet(extensions)

\* What a sequential stage has made of the items it has passed.
Passed(e, s) == (IF e \in Modules THEN {"Running"} ELSE {s}) \cup Out \cup Bad
\* What it finds in the items it has not reached.
Ahead(e, m, p) == (IF e \in Modules THEN {m} ELSE {p}) \cup Out

\* Where the extension at position i may be while the call is at pc and pos.
StateAt(i) ==
  LET e == extensions[i] IN
  /\ pc = "Parsing" => state[e] \in {"Discovered", "Parsing", "Parsed", "Corrupted"}
  /\ pc = "Resolution" => state[e] = "Parsed"
  /\ pc = "Resolving" => state[e] \in {"Resolving", "Disabled"}
  /\ pc = "Loading" =>
       /\ i < pos => state[e] \in Passed(e, "Loaded")
       /\ i = pos => state[e] \in Ahead(e, "Resolved", "Resolved") \cup {"Loading"}
                                    \cup (IF e \in Modules THEN {"Loaded"} ELSE {})
       /\ i > pos => state[e] \in Ahead(e, "Resolved", "Resolved")
  /\ pc = "Exporting" =>
       /\ i < pos => state[e] \in Passed(e, "Exported")
       /\ i = pos => \/ state[e] \in Ahead(e, "Running", "Loaded")
                     \/ state[e] = "Exporting" /\ e \in Plugins
       /\ i > pos => state[e] \in Ahead(e, "Running", "Loaded")
  /\ pc = "Starting" =>
       /\ i < pos => state[e] \in Passed(e, "Running")
       /\ i = pos => \/ state[e] \in Ahead(e, "Running", "Exported")
                     \/ state[e] \in {"Starting", "Started"} /\ e \in Plugins
       /\ i > pos => state[e] \in Ahead(e, "Running", "Exported")
  /\ pc = "Report" /\ failed = 0 => state[e] \in {"Running"} \cup Out
  /\ pc \in {"idle", "Updating"} /\ initialized => state[e] \in {"Running"} \cup Out
  /\ pc = "Ending" =>
       /\ i < pos => state[e] \in {"Running"} \cup Out
       /\ i = pos => state[e] \in {"Running", "Ending"} \cup Out
       /\ i > pos => state[e] \in {"Ended"} \cup Out
  /\ pc = "Terminating" =>
       /\ i < pos => state[e] \in {"Ended"} \cup Out
       /\ i = pos => state[e] \in {"Ended", "Terminating"} \cup Out
       /\ i > pos => state[e] \in {"Terminated"} \cup Out

StatesOK == \A i \in DOMAIN extensions : StateAt(i)

\* A stage that has counted no failure has none.
FailuresCounted ==
  pc \in SequentialStages \cup {"Parsing", "Resolution", "Resolving"} /\ failed = 0 =>
    \A e \in Ext : state[e] \notin Bad \cup {"Corrupted"}

\* A pointer leads to a live module that stands earlier in the container.
PointersOK ==
  /\ \A e \in Ext : state[e] \in Callable => languageModule[e] # None
  /\ \A e \in Ext : languageModule[e] # None =>
       /\ state[e] \in Callable \cup Bad
       /\ live[languageModule[e]] > 0
       /\ languageModule[languageModule[e]] = languageModule[e]
       /\ e \in Modules => languageModule[e] = e
  /\ \A i, j \in DOMAIN extensions :
       extensions[j] \in Plugins /\ languageModule[extensions[j]] = extensions[i]
         => i < j

\* LoadingStage finds only modules it has loaded.
LoadedOK ==
  /\ pc \notin SequentialStages \cup {"Report"} =>
       \A l \in Languages : loadedModules[l] = None
  /\ pc = "Loading" => \A l \in Languages : loadedModules[l] # None =>
       /\ languageModule[loadedModules[l]] = loadedModules[l]
       /\ \E i \in DOMAIN extensions : i <= pos /\ extensions[i] = loadedModules[l]

InitializedOK == initialized => pc \in {"idle", "Updating", "Ending", "Terminating"}

IInv ==
  /\ TypeOK /\ PositionOK /\ ListedOnce /\ StatesOK /\ FailuresCounted
  /\ PointersOK /\ LoadedOK /\ InitializedOK

-----------------------------------------------------------------------------
(* Lemmas about sequences. *)

\* A member of SetToSeqs(S) holds every element of S once.
LEMMA Permutation ==
  ASSUME NEW S, IsFiniteSet(S), NEW s \in SetToSeqs(S)
  PROVE  /\ s \in Seq(S)
         /\ ToSet(s) = S
         /\ \A i, j \in DOMAIN s : s[i] = s[j] => i = j
<1> DEFINE n == Cardinality(S)
<1>1. n \in Nat
  BY FS_CardinalityType
<1>2. s \in [1..n -> S] /\ \A i, j \in 1..n : i # j => s[i] # s[j]
  BY DEF SetToSeqs
<1>3. s \in Injection(1..n, S)
  BY <1>2 DEF Injection, IsInjective
<1>4. IsFiniteSet(1..n) /\ Cardinality(1..n) = n
  BY <1>1, FS_Interval
<1>5. s \in Surjection(1..n, S)
  BY <1>3, <1>4, FS_Injection
<1>. QED
  BY <1>1, <1>2, <1>5 DEF Surjection, ToSet

\* Joining two sequences without repetition over disjoint sets.
LEMMA Join ==
  ASSUME NEW S, NEW s \in Seq(S), NEW t \in Seq(S),
         ToSet(s) \cap ToSet(t) = {},
         \A i, j \in DOMAIN s : s[i] = s[j] => i = j,
         \A i, j \in DOMAIN t : t[i] = t[j] => i = j
  PROVE  /\ s \o t \in Seq(S)
         /\ ToSet(s \o t) = ToSet(s) \cup ToSet(t)
         /\ \A i, j \in DOMAIN (s \o t) : (s \o t)[i] = (s \o t)[j] => i = j
<1> DEFINE u == s \o t
<1>1. /\ u \in Seq(S) /\ Len(u) = Len(s) + Len(t)
      /\ \A i \in 1..Len(u) : u[i] = IF i <= Len(s) THEN s[i] ELSE t[i - Len(s)]
  BY ConcatProperties
<1>2. /\ Len(s) \in Nat /\ DOMAIN s = 1..Len(s)
      /\ Len(t) \in Nat /\ DOMAIN t = 1..Len(t)
      /\ DOMAIN u = 1..Len(u)
  BY <1>1, LenProperties
<1> HIDE DEF u
<1>3. ToSet(u) = ToSet(s) \cup ToSet(t)
  <2>1. ASSUME NEW x \in ToSet(u) PROVE x \in ToSet(s) \cup ToSet(t)
    <3>1. PICK i \in 1..Len(u) : u[i] = x
      BY <1>2 DEF ToSet
    <3>2. CASE i <= Len(s)
      BY SMTT(30), <3>1, <3>2, <1>1, <1>2 DEF ToSet
    <3>3. CASE i > Len(s)
      <4>1. i - Len(s) \in 1..Len(t) /\ t[i - Len(s)] = x
        BY <3>1, <3>3, <1>1, <1>2
      <4>. QED
        BY <4>1, <1>2 DEF ToSet
    <3>. QED
      BY <3>2, <3>3, <1>2
  <2>2. ASSUME NEW x \in ToSet(s) PROVE x \in ToSet(u)
    BY <1>1, <1>2 DEF ToSet
  <2>3. ASSUME NEW x \in ToSet(t) PROVE x \in ToSet(u)
    <3>1. PICK i \in 1..Len(t) : t[i] = x
      BY <1>2 DEF ToSet
    <3>2. i + Len(s) \in 1..Len(u) /\ u[i + Len(s)] = x
      BY <3>1, <1>1, <1>2
    <3>. QED
      BY <3>2, <1>2 DEF ToSet
  <2>. QED
    BY <2>1, <2>2, <2>3
<1>4. ASSUME NEW i \in 1..Len(s), NEW j \in 1..Len(t) PROVE s[i] # t[j]
  BY SMTT(30), <1>2 DEF ToSet
<1>5. ASSUME NEW i \in DOMAIN u, NEW j \in DOMAIN u, u[i] = u[j] PROVE i = j
  <2>. i \in 1..Len(u) /\ j \in 1..Len(u)
    BY <1>2
  <2>1. CASE i <= Len(s) /\ j <= Len(s)
    BY <2>1, <1>1, <1>2, <1>5
  <2>2. CASE i > Len(s) /\ j > Len(s)
    <3>1. i - Len(s) \in DOMAIN t /\ j - Len(s) \in DOMAIN t
      BY <2>2, <1>1, <1>2
    <3>2. t[i - Len(s)] = t[j - Len(s)]
      BY <2>2, <1>1, <1>2, <1>5
    <3>3. i - Len(s) = j - Len(s)
      BY <3>1, <3>2
    <3>. QED
      BY <3>3, <1>2
  <2>3. CASE i <= Len(s) /\ j > Len(s)
    <3>1. i \in 1..Len(s) /\ j - Len(s) \in 1..Len(t)
      BY <2>3, <1>1, <1>2
    <3>. QED
      BY SMTT(30), <3>1, <2>3, <1>1, <1>5, <1>4
  <2>4. CASE i > Len(s) /\ j <= Len(s)
    <3>1. j \in 1..Len(s) /\ i - Len(s) \in 1..Len(t)
      BY <2>4, <1>1, <1>2
    <3>. QED
      BY SMTT(30), <3>1, <2>4, <1>1, <1>5, <1>4
  <2>. QED
    BY <2>1, <2>2, <2>3, <2>4, <1>2
<1>. QED
  BY <1>1, <1>3, <1>5 DEF u

-----------------------------------------------------------------------------
(* Facts about the current state. *)

LEMMA ItemListed ==
  ASSUME TypeOK, PositionOK,
         \/ AtItem
         \/ pc \in {"Ending", "Terminating"} /\ pos > 0
  PROVE  pos \in DOMAIN extensions /\ Item \in Ext
BY LenProperties DEF TypeOK, PositionOK, AtItem, Item

-----------------------------------------------------------------------------
(* Every step preserves the invariant. *)

LEMMA InitIInv == Init => IInv
<1> SUFFICES ASSUME Init PROVE IInv
  OBVIOUS
<1>1. TypeOK
  BY ManagerAssumption, EmptySeq DEF Init, TypeOK, PC, ExtensionState
<1>2. PositionOK /\ ListedOnce /\ StatesOK
  BY DEF Init, PositionOK, ListedOnce, StatesOK, StateAt, SequentialStages
<1>3. FailuresCounted /\ PointersOK /\ LoadedOK /\ InitializedOK
  BY DEF Init, FailuresCounted, PointersOK, LoadedOK, InitializedOK, Callable, Bad,
         SequentialStages
<1>. QED
  BY <1>1, <1>2, <1>3 DEF IInv

LEMMA MoveState ==
  ASSUME TypeOK, NEW e \in Ext, NEW to \in ExtensionState, Move(e, to)
  PROVE  /\ state' \in [Ext -> ExtensionState]
         /\ state'[e] = to
         /\ \A x \in Ext \ {e} : state'[x] = state[x]
BY DEF TypeOK, Move

LEMMA UpdateStep == ASSUME IInv, Update PROVE IInv'
<1>. USE DEF IInv, Update, pipelineVars, graphVars, historyVars
<1>1. TypeOK'
  BY DEF TypeOK, PC
<1>2. PositionOK' /\ ListedOnce' /\ FailuresCounted' /\ LoadedOK' /\ InitializedOK'
  BY LenProperties DEF TypeOK, PositionOK, ListedOnce, FailuresCounted, LoadedOK, InitializedOK, SequentialStages
<1>3. StatesOK'
  BY DEF StatesOK, StateAt
<1>4. PointersOK'
  BY DEF PointersOK
<1>. QED
  BY <1>1, <1>2, <1>3, <1>4

LEMMA UpdateItemStep == ASSUME IInv, UpdateItem PROVE IInv'
<1>. USE DEF IInv, UpdateItem, pipelineVars, graphVars, historyVars
<1>1. TypeOK'
  BY DEF TypeOK, PC
<1>2. PositionOK' /\ ListedOnce' /\ FailuresCounted' /\ LoadedOK' /\ InitializedOK'
  BY LenProperties DEF TypeOK, PositionOK, ListedOnce, FailuresCounted, LoadedOK, InitializedOK, SequentialStages
<1>3. StatesOK'
  BY DEF StatesOK, StateAt, PositionOK, InitializedOK
<1>4. PointersOK'
  BY DEF PointersOK
<1>. QED
  BY <1>1, <1>2, <1>3, <1>4

\* Moving the item at the loop's position leaves the other positions alone.
LEMMA MoveItem ==
  ASSUME TypeOK, ListedOnce, pos \in DOMAIN extensions,
         NEW to \in ExtensionState, Move(Item, to), UNCHANGED extensions
  PROVE  /\ Item \in Ext
         /\ state' \in [Ext -> ExtensionState]
         /\ state'[Item] = to
         /\ \A x \in Ext \ {Item} : state'[x] = state[x]
         /\ \A i \in DOMAIN extensions : extensions[i] \in Ext
         /\ \A i \in DOMAIN extensions \ {pos} : extensions[i] # Item
<1>1. \A i \in DOMAIN extensions : extensions[i] \in Ext
  BY DEF TypeOK
<1>2. Item \in Ext
  BY <1>1 DEF Item
<1>3. \A i \in DOMAIN extensions \ {pos} : extensions[i] # Item
  BY DEF ListedOnce, Item
<1>. QED
  BY <1>1, <1>2, <1>3, MoveState

LEMMA EndItemStep == ASSUME IInv, EndItem PROVE IInv'
<1>. USE DEF IInv
<1>1. pos \in DOMAIN extensions /\ Item \in Ext
  BY ItemListed DEF EndItem
<1>2. PICK to \in ExtensionState :
        /\ Move(Item, to)
        /\ \/ state[Item] = "Running" /\ to = "Ending" /\ pos' = pos
           \/ state[Item] = "Ending" /\ to = "Ended" /\ pos' = pos - 1
           \/ state[Item] \notin {"Running", "Ending"} /\ to = state[Item] /\ pos' = pos - 1
  <2>1. CASE state[Item] \notin {"Running", "Ending"}
    BY <2>1, <1>1 DEF EndItem, Move, TypeOK
  <2>. QED
    BY <2>1 DEF EndItem, ExtensionState
<1>3. /\ pc = "Ending" /\ pos > 0
      /\ UNCHANGED <<pc, initialized, extensions, languageModule, live, exportedTo,
                     failed, failureTracker, loadedModules, runningModules,
                     depGraph, reverseDepGraph, inits, aborted>>
  BY DEF EndItem, pipelineVars, graphVars, historyVars
<1>4. /\ state' \in [Ext -> ExtensionState] /\ state'[Item] = to
      /\ \A x \in Ext \ {Item} : state'[x] = state[x]
      /\ \A i \in DOMAIN extensions : extensions[i] \in Ext
      /\ \A i \in DOMAIN extensions \ {pos} : extensions[i] # Item
  BY <1>1, <1>2, <1>3, MoveItem
<1>5. TypeOK'
  BY <1>2, <1>3, <1>4 DEF TypeOK
<1>6. PositionOK' /\ LoadedOK' /\ InitializedOK' /\ FailuresCounted'
  BY <1>2, <1>3, LenProperties
  DEF TypeOK, PositionOK, LoadedOK, InitializedOK, FailuresCounted, SequentialStages
<1>7. StatesOK'
  <2>1. ASSUME NEW i \in DOMAIN extensions PROVE StateAt(i)'
    BY <1>1, <1>2, <1>3, <1>4 DEF StatesOK, StateAt, Out, Item, TypeOK, SequentialStages
  <2>. QED
    BY <2>1, <1>3 DEF StatesOK
<1>8. ListedOnce'
  BY <1>1, <1>2, <1>3, <1>4 DEF ListedOnce, Item, ToSet
<1>9. PointersOK'
  BY <1>2, <1>3, <1>4, <1>1 DEF PointersOK, Callable, Bad, StatesOK, StateAt, Out, Item
<1>. QED
  BY <1>5, <1>6, <1>7, <1>8, <1>9

LEMMA TerminateStep == ASSUME IInv, Terminate PROVE IInv'
<1>. USE DEF IInv, Terminate, pipelineVars, graphVars, historyVars
<1>1. TypeOK' /\ PositionOK'
  BY LenProperties DEF TypeOK, PC, PositionOK, SequentialStages
<1>2. ListedOnce' /\ FailuresCounted' /\ LoadedOK' /\ InitializedOK' /\ PointersOK'
  BY DEF ListedOnce, FailuresCounted, LoadedOK, InitializedOK, PointersOK, SequentialStages
<1>3. StatesOK'
  <2>1. ASSUME NEW i \in DOMAIN extensions PROVE StateAt(i)'
    BY LenProperties DEF TypeOK, StatesOK, StateAt
  <2>. QED
    BY <2>1 DEF StatesOK
<1>. QED
  BY <1>1, <1>2, <1>3

LEMMA EndedAllStep == ASSUME IInv, EndedAll PROVE IInv'
<1>. USE DEF IInv, EndedAll, pipelineVars, graphVars, historyVars
<1>1. TypeOK' /\ PositionOK'
  BY LenProperties DEF TypeOK, PC, PositionOK, SequentialStages
<1>2. ListedOnce' /\ FailuresCounted' /\ LoadedOK' /\ InitializedOK' /\ PointersOK'
  BY DEF ListedOnce, FailuresCounted, LoadedOK, InitializedOK, PointersOK, SequentialStages
<1>3. StatesOK'
  <2>1. ASSUME NEW i \in DOMAIN extensions PROVE StateAt(i)'
    BY LenProperties DEF TypeOK, StatesOK, StateAt
  <2>. QED
    BY <2>1 DEF StatesOK
<1>. QED
  BY <1>1, <1>2, <1>3

LEMMA UnloadItemStep == ASSUME IInv, UnloadItem PROVE IInv'
<1>. USE DEF IInv
<1>1. pos \in DOMAIN extensions /\ Item \in Ext
  BY ItemListed DEF UnloadItem
<1>2. /\ pc = "Terminating" /\ pos > 0
      /\ UNCHANGED <<pc, initialized, extensions, exportedTo, failed, failureTracker,
                     loadedModules, runningModules, depGraph, reverseDepGraph, inits,
                     aborted>>
  BY DEF UnloadItem, pipelineVars, graphVars, historyVars
<1>3. PICK to \in ExtensionState :
        /\ Move(Item, to)
        /\ \/ /\ state[Item] = "Ended" /\ to = "Terminating"
              /\ UNCHANGED <<pos, live, languageModule>>
           \/ /\ state[Item] \notin {"Ended", "Terminating"} /\ to = state[Item]
              /\ pos' = pos - 1 /\ UNCHANGED <<live, languageModule>>
           \/ /\ state[Item] = "Terminating" /\ to = "Terminated" /\ pos' = pos - 1
              /\ languageModule' = [languageModule EXCEPT ![Item] = None]
              /\ IF Item \in Modules THEN live' = [live EXCEPT ![Item] = @ - 1]
                                     ELSE live' = live
  <2>1. CASE state[Item] = "Ended"
    BY <2>1 DEF UnloadItem, ExtensionState
  <2>2. CASE state[Item] = "Terminating"
    <3>1. languageModule[Item] # None
      BY <2>2, <1>1 DEF PointersOK, Callable
    <3>. QED
      BY <2>2, <3>1 DEF UnloadItem, UnloadModule, UnloadPlugin, ExtensionState
  <2>3. CASE state[Item] \notin {"Ended", "Terminating"}
    BY <2>3, <1>1 DEF UnloadItem, Move, TypeOK
  <2>. QED
    BY <2>1, <2>2, <2>3
<1>4. /\ state' \in [Ext -> ExtensionState] /\ state'[Item] = to
      /\ \A x \in Ext \ {Item} : state'[x] = state[x]
      /\ \A i \in DOMAIN extensions : extensions[i] \in Ext
      /\ \A i \in DOMAIN extensions \ {pos} : extensions[i] # Item
  BY <1>1, <1>2, <1>3, MoveItem
<1>5. Item \in Modules /\ state[Item] = "Terminating"
        => languageModule[Item] = Item /\ live[Item] \in Nat \ {0}
  BY <1>1 DEF PointersOK, Callable, TypeOK
<1>6. TypeOK'
  <2>1. pos' \in Nat
    BY <1>2, <1>3 DEF TypeOK
  <2>2. languageModule' \in [Ext -> Modules \cup {None}]
    BY <1>3, <1>1 DEF TypeOK
  <2>3. live' \in [Modules -> Nat]
    BY <1>3, <1>5 DEF TypeOK
  <2>. QED
    BY <1>2, <1>4, <2>1, <2>2, <2>3 DEF TypeOK
<1>7. PositionOK' /\ LoadedOK' /\ InitializedOK' /\ FailuresCounted'
  BY <1>2, <1>3, LenProperties
  DEF TypeOK, PositionOK, LoadedOK, InitializedOK, FailuresCounted, SequentialStages
<1>8. StatesOK'
  <2>1. ASSUME NEW i \in DOMAIN extensions PROVE StateAt(i)'
    <3>1. /\ i \in Nat /\ pos \in Nat /\ i <= Len(extensions)
          /\ i < pos => state[extensions[i]] \in {"Ended"} \cup Out
          /\ i > pos => state[extensions[i]] \in {"Terminated"} \cup Out
          /\ state[Item] \in {"Ended", "Terminating"} \cup Out
      BY <1>1, <1>2, LenProperties DEF StatesOK, StateAt, Item, TypeOK
    <3>2. /\ i # pos => state'[extensions[i]] = state[extensions[i]]
          /\ i = pos => extensions[i] = Item
      BY <1>4 DEF Item
    <3>3. \/ to = "Terminating" /\ pos' = pos
          \/ to = state[Item] /\ to \in {"Ended"} \cup Out /\ to # "Ended" /\ pos' = pos - 1
          \/ to = "Terminated" /\ pos' = pos - 1
      BY <1>3, <3>1
    <3>4. /\ i < pos' => state'[extensions[i]] \in {"Ended"} \cup Out
          /\ i = pos' => state'[extensions[i]] \in {"Ended", "Terminating"} \cup Out
          /\ i > pos' => state'[extensions[i]] \in {"Terminated"} \cup Out
      BY <3>1, <3>2, <3>3, <1>4
    <3>. QED
      BY <3>4, <1>2 DEF StateAt, SequentialStages
  <2>. QED
    BY <2>1, <1>2 DEF StatesOK
<1>9. ListedOnce'
  BY <1>1, <1>2, <1>3, <1>4 DEF ListedOnce, Item, ToSet
<1>10. PointersOK'
  <2>1. CASE state[Item] = "Ended"
    BY <2>1, <1>2, <1>3, <1>4, <1>1 DEF PointersOK, Callable, Bad
  <2>2. CASE state[Item] \notin {"Ended", "Terminating"}
    BY <2>2, <1>2, <1>3, <1>4, <1>1 DEF PointersOK, Callable, Bad
  <2>3. CASE state[Item] = "Terminating"
    <3>1. ASSUME NEW e \in Ext \ {Item}, languageModule[e] = Item PROVE FALSE
      <4>1. e \in Plugins
        BY <3>1, <1>1, ManagerAssumption DEF PointersOK, Plugins
      <4>2. state[e] # "Unknown"
        BY SMTT(30), <3>1, <1>1, ManagerAssumption DEF PointersOK, Callable, Bad
      <4>3. PICK j \in DOMAIN extensions : extensions[j] = e
        BY <4>2 DEF ListedOnce, ToSet
      <4>4. pos < j
        BY <4>1, <4>3, <3>1, <1>1 DEF PointersOK, Item
      <4>5. state[e] \in {"Terminated"} \cup Out
        BY <4>3, <4>4, <1>2, <1>1 DEF StatesOK, StateAt
      <4>. QED
        BY <4>5, <3>1, <1>1, ManagerAssumption DEF PointersOK, Callable, Bad, Out
    <3>2. /\ to = "Terminated"
          /\ languageModule' = [languageModule EXCEPT ![Item] = None]
          /\ \A m \in Modules \ {Item} : live'[m] = live[m]
      BY <2>3, <1>3 DEF TypeOK
    <3>3. \A e \in Ext : state'[e] \in Callable => languageModule'[e] # None
      BY <3>2, <1>4, <1>1 DEF PointersOK, Callable, TypeOK
    <3>4. ASSUME NEW e \in Ext, languageModule'[e] # None
          PROVE /\ state'[e] \in Callable \cup Bad
                /\ live'[languageModule'[e]] > 0
                /\ languageModule'[languageModule'[e]] = languageModule'[e]
                /\ e \in Modules => languageModule'[e] = e
      <4>1. e # Item /\ languageModule'[e] = languageModule[e]
        BY <3>2, <3>4, <1>1 DEF TypeOK
      <4>2. languageModule[e] # Item /\ languageModule[e] \in Modules
        BY <4>1, <3>1, <3>4 DEF TypeOK
      <4>3. state'[e] = state[e] /\ live'[languageModule[e]] = live[languageModule[e]]
        BY <4>1, <4>2, <1>4, <3>2
      <4>4. languageModule'[languageModule[e]] = languageModule[languageModule[e]]
        BY <4>2, <3>2, ManagerAssumption DEF TypeOK
      <4>. QED
        BY <4>1, <4>2, <4>3, <4>4, <3>4 DEF PointersOK
    <3>5. ASSUME NEW i \in DOMAIN extensions, NEW j \in DOMAIN extensions,
                 extensions[j] \in Plugins, languageModule'[extensions[j]] = extensions[i]
          PROVE i < j
      <4>1. languageModule'[extensions[j]] = languageModule[extensions[j]]
        BY <3>5, <3>2, <1>4, ManagerAssumption DEF TypeOK
      <4>. QED
        BY <4>1, <3>5 DEF PointersOK
    <3>. QED
      BY <3>3, <3>4, <3>5, <1>2 DEF PointersOK
  <2>. QED
    BY <2>1, <2>2, <2>3
<1>. QED
  BY <1>6, <1>7, <1>8, <1>9, <1>10

LEMMA FinishTerminateStep == ASSUME IInv, FinishTerminate PROVE IInv'
<1>. USE DEF IInv, FinishTerminate, pipelineVars, graphVars, historyVars
<1>1. TypeOK' /\ PositionOK' /\ ListedOnce'
  BY DEF TypeOK, PC, PositionOK, ListedOnce, SequentialStages
<1>2. FailuresCounted' /\ LoadedOK' /\ InitializedOK' /\ PointersOK'
  BY DEF FailuresCounted, LoadedOK, InitializedOK, PointersOK, SequentialStages
<1>3. StatesOK'
  BY DEF StatesOK, StateAt, SequentialStages
<1>. QED
  BY <1>1, <1>2, <1>3

LEMMA DestroyStep == ASSUME IInv, Destroy PROVE IInv'
<1>. USE DEF IInv, Destroy, pipelineVars, graphVars, historyVars
<1>1. TypeOK' /\ PositionOK' /\ ListedOnce'
  BY DEF TypeOK, PC, PositionOK, ListedOnce, SequentialStages
<1>2. FailuresCounted' /\ LoadedOK' /\ InitializedOK' /\ PointersOK'
  BY DEF FailuresCounted, LoadedOK, InitializedOK, PointersOK, SequentialStages
<1>3. StatesOK'
  BY DEF StatesOK, StateAt, SequentialStages
<1>. QED
  BY <1>1, <1>2, <1>3

LEMMA DiscoverStep == ASSUME IInv, Discover PROVE IInv'
<1>. USE DEF IInv
<1>1. PICK found \in Listings :
        /\ extensions' = found
        /\ state' = [e \in Ext |-> IF e \in ToSet(found) THEN "Discovered" ELSE "Unknown"]
  BY DEF Discover
<1>2. /\ pc = "idle" /\ ~initialized /\ pc' = "Parsing"
      /\ languageModule' = [e \in Ext |-> None]
      /\ exportedTo' = [e \in Ext |-> {}]
      /\ inits' = inits + 1
      /\ UNCHANGED <<initialized, pos, live, aborted, failed, failureTracker,
                     loadedModules, runningModules, depGraph, reverseDepGraph>>
  BY DEF Discover, pipelineVars, graphVars
<1>3. found \in Seq(Ext) /\ \A i, j \in DOMAIN found : found[i] = found[j] => i = j
  BY ManagerAssumption
<1>4. TypeOK'
  BY <1>1, <1>2, <1>3 DEF TypeOK, PC, ExtensionState
<1>5. PositionOK' /\ InitializedOK' /\ FailuresCounted' /\ LoadedOK'
  BY <1>1, <1>2
  DEF PositionOK, InitializedOK, FailuresCounted, LoadedOK, Bad, SequentialStages
<1>6. ListedOnce'
  BY <1>1, <1>3 DEF ListedOnce
<1>7. StatesOK'
  BY <1>1, <1>2, <1>3 DEF StatesOK, StateAt, ToSet, SequentialStages
<1>8. PointersOK'
  BY <1>1, <1>2, <1>3, ManagerAssumption DEF PointersOK, Callable, Plugins
<1>. QED
  BY <1>4, <1>5, <1>6, <1>7, <1>8

LEMMA ParsingStep ==
  ASSUME IInv, NEW e \in Ext, StartParsing(e) \/ FinishParsing(e) PROVE IInv'
<1>. USE DEF IInv
<1>1. PICK to \in {"Parsing", "Parsed", "Corrupted"} :
        /\ Move(e, to) /\ state[e] \in {"Discovered", "Parsing"}
        /\ failed' = failed + (IF to = "Corrupted" THEN 1 ELSE 0)
  BY DEF StartParsing, FinishParsing, TypeOK, pipelineVars
<1>2. /\ pc = "Parsing"
      /\ UNCHANGED <<pc, initialized, extensions, languageModule, pos, live, exportedTo,
                     failureTracker, loadedModules, runningModules, depGraph,
                     reverseDepGraph, inits, aborted>>
  BY DEF StartParsing, FinishParsing, pipelineVars, graphVars, historyVars
<1>3. to \in ExtensionState
  BY DEF ExtensionState
<1>4. /\ state' \in [Ext -> ExtensionState] /\ state'[e] = to
      /\ \A x \in Ext \ {e} : state'[x] = state[x]
  BY <1>1, <1>3, MoveState
<1>5. TypeOK'
  BY <1>1, <1>2, <1>4 DEF TypeOK
<1>6. PositionOK' /\ InitializedOK' /\ LoadedOK'
  BY <1>2 DEF PositionOK, InitializedOK, LoadedOK, SequentialStages
<1>7. FailuresCounted'
  BY <1>1, <1>2, <1>4 DEF FailuresCounted, Bad, TypeOK
<1>8. ListedOnce'
  BY <1>1, <1>2, <1>4 DEF ListedOnce
<1>9. StatesOK'
  <2>1. ASSUME NEW i \in DOMAIN extensions PROVE StateAt(i)'
    <3>1. extensions[i] \in Ext
      BY DEF TypeOK
    <3>2. state[extensions[i]] \in {"Discovered", "Parsing", "Parsed", "Corrupted"}
      BY <1>2 DEF StatesOK, StateAt
    <3>3. state'[extensions[i]] \in {"Discovered", "Parsing", "Parsed", "Corrupted"}
      BY <3>1, <3>2, <1>4
    <3>. QED
      BY <3>3, <1>2 DEF StateAt, SequentialStages
  <2>. QED
    BY <2>1, <1>2 DEF StatesOK
<1>10. PointersOK'
  BY <1>1, <1>2, <1>4 DEF PointersOK, Callable, Bad
<1>. QED
  BY <1>5, <1>6, <1>7, <1>8, <1>9, <1>10

LEMMA EndParsingStep == ASSUME IInv, EndParsing PROVE IInv'
<1>. USE DEF IInv, EndParsing, pipelineVars, graphVars, historyVars
<1>1. TypeOK' /\ PositionOK' /\ ListedOnce'
  BY DEF TypeOK, PC, PositionOK, ListedOnce, SequentialStages
<1>2. FailuresCounted' /\ LoadedOK' /\ InitializedOK' /\ PointersOK'
  BY DEF FailuresCounted, LoadedOK, InitializedOK, PointersOK, SequentialStages
<1>3. StatesOK'
  <2>1. ASSUME NEW i \in DOMAIN extensions PROVE StateAt(i)'
    <3>1. state[extensions[i]] \in {"Parsed", "Corrupted"} /\ extensions[i] \in Ext
      BY DEF StatesOK, StateAt, TypeOK
    <3>2. failed = 0 => state[extensions[i]] = "Parsed"
      BY <3>1 DEF FailuresCounted
    <3>. QED
      BY <3>2 DEF StateAt, TypeOK, SequentialStages
  <2>. QED
    BY <2>1 DEF StatesOK
<1>. QED
  BY <1>1, <1>2, <1>3

LEMMA FilterByPolicyStep == ASSUME IInv, FilterByPolicy PROVE IInv'
<1>. USE DEF IInv
<1>1. /\ pc = "Resolution" /\ pc' = "Resolving"
      /\ state' \in [Ext -> ExtensionState]
      /\ \A e \in Ext : IF state[e] = "Parsed" THEN state'[e] \in {"Disabled", "Resolving"}
                                              ELSE state'[e] = state[e]
      /\ UNCHANGED <<initialized, extensions, languageModule, pos, live, exportedTo, failed,
                     failureTracker, loadedModules, runningModules, depGraph,
                     reverseDepGraph, inits, aborted>>
  BY DEF FilterByPolicy, TypeOK, ExtensionState, pipelineVars, graphVars, historyVars
<1>2. TypeOK' /\ PositionOK' /\ ListedOnce'
  BY <1>1 DEF TypeOK, PC, PositionOK, ListedOnce, SequentialStages
<1>3. FailuresCounted' /\ LoadedOK' /\ InitializedOK'
  BY <1>1 DEF FailuresCounted, LoadedOK, InitializedOK, Bad, SequentialStages
<1>4. PointersOK'
  BY <1>1 DEF PointersOK, Callable, Bad
<1>5. StatesOK'
  BY <1>1 DEF StatesOK, StateAt, SequentialStages, TypeOK
<1>. QED
  BY <1>2, <1>3, <1>4, <1>5

LEMMA EndStageStep == ASSUME IInv, EndStage PROVE IInv'
<1>. USE DEF IInv
<1>1. /\ pc \in SequentialStages /\ pos > Len(extensions)
      /\ pc' = NextStage /\ pos' = 1
      /\ runningModules' = runningModules \/ runningModules' \in InListedOrder(RunningModules)
      /\ UNCHANGED <<initialized, extensions, state, languageModule, live, exportedTo, failed,
                     failureTracker, loadedModules, depGraph, reverseDepGraph, inits,
                     aborted>>
  BY DEF EndStage, pipelineVars, graphVars, historyVars
<1>2. NextStage \in {"Exporting", "Starting", "Report"}
  BY DEF NextStage
<1>3. runningModules' \in Seq(Modules)
  <2>1. CASE runningModules' \in InListedOrder(RunningModules)
    <3>1. RunningModules \subseteq Modules /\ IsFiniteSet(RunningModules)
      BY FS_Subset, ManagerAssumption DEF RunningModules
    <3>2. runningModules' \in Seq(RunningModules)
      BY <2>1, <3>1, Permutation DEF InListedOrder
    <3>. QED
      BY <3>1, <3>2
  <2>. QED
    BY <2>1, <1>1 DEF TypeOK
<1>4. TypeOK' /\ ListedOnce' /\ PositionOK'
  BY <1>1, <1>2, <1>3, LenProperties DEF TypeOK, PC, PositionOK, ListedOnce, SequentialStages
<1>5. FailuresCounted' /\ LoadedOK' /\ InitializedOK' /\ PointersOK'
  BY <1>1, <1>2 DEF FailuresCounted, LoadedOK, InitializedOK, PointersOK, SequentialStages
<1>6. StatesOK'
  <2>1. ASSUME NEW i \in DOMAIN extensions PROVE StateAt(i)'
    <3>. DEFINE e == extensions[i]
    <3>1. e \in Ext /\ i \in Nat /\ i < pos /\ i >= 1
      BY <1>1, LenProperties DEF TypeOK
    <3>2. /\ pc = "Loading" => state[e] \in Passed(e, "Loaded")
          /\ pc = "Exporting" => state[e] \in Passed(e, "Exported")
          /\ pc = "Starting" => state[e] \in Passed(e, "Running")
      BY <1>1, <3>1 DEF StatesOK, StateAt
    <3>3. failed = 0 => state[e] \notin Bad
      BY <1>1, <3>1 DEF FailuresCounted
    <3>4. CASE NextStage = "Report"
      <4>1. failed = 0 => pc = "Starting"
        BY <1>1, <3>4 DEF NextStage, SequentialStages, TypeOK
      <4>. QED
        BY <4>1, <3>2, <3>3, <3>4, <1>1 DEF StateAt, Passed, SequentialStages
    <3>5. CASE NextStage = "Exporting"
      <4>1. failed = 0 /\ pc = "Loading"
        BY <1>1, <3>5 DEF NextStage, SequentialStages, TypeOK
      <4>. QED
        BY <4>1, <3>1, <3>2, <3>3, <3>5, <1>1 DEF StateAt, Passed, Ahead, SequentialStages
    <3>6. CASE NextStage = "Starting"
      <4>1. failed = 0 /\ pc = "Exporting"
        BY <1>1, <3>6 DEF NextStage, SequentialStages, TypeOK
      <4>. QED
        BY <4>1, <3>1, <3>2, <3>3, <3>6, <1>1 DEF StateAt, Passed, Ahead, SequentialStages
    <3>. QED
      BY <3>4, <3>5, <3>6, <1>2
  <2>. QED
    BY <2>1, <1>1 DEF StatesOK
<1>. QED
  BY <1>4, <1>5, <1>6

LEMMA FinishInitializeStep == ASSUME IInv, FinishInitialize PROVE IInv'
<1>. USE DEF IInv, FinishInitialize, graphVars
<1>1. TypeOK' /\ PositionOK' /\ ListedOnce'
  BY EmptySeq DEF TypeOK, PC, PositionOK, ListedOnce, Succeeded, SequentialStages
<1>2. FailuresCounted' /\ LoadedOK' /\ InitializedOK' /\ PointersOK'
  BY DEF FailuresCounted, LoadedOK, InitializedOK, PointersOK, SequentialStages
<1>3. StatesOK'
  BY DEF StatesOK, StateAt, Succeeded, SequentialStages
<1>. QED
  BY <1>1, <1>2, <1>3

\* A step of a sequential stage on the item it is at, whatever it does to the
\* pointers and to the trackers of the stage.
LEMMA StageStep ==
  ASSUME IInv, AtItem, NEW to \in ExtensionState, Move(Item, to),
         UNCHANGED <<pc, initialized, extensions>>,
         \/ /\ pos' = pos + 1
            /\ pc = "Loading" => to \in Passed(Item, "Loaded")
            /\ pc = "Exporting" => to \in Passed(Item, "Exported")
            /\ pc = "Starting" => to \in Passed(Item, "Running")
         \/ /\ pos' = pos
            /\ pc = "Loading" => to = "Loading" \/ (to = "Loaded" /\ Item \in Modules)
            /\ pc = "Exporting" => to = "Exporting" /\ Item \in Plugins
            /\ pc = "Starting" => to \in {"Starting", "Started"} /\ Item \in Plugins,
         \/ failed' = failed /\ to \notin Bad \cup {"Corrupted"}
         \/ failed' = failed + 1
  PROVE  PositionOK' /\ ListedOnce' /\ StatesOK' /\ FailuresCounted' /\ InitializedOK'
<1>. USE DEF IInv
<1>1. pos \in DOMAIN extensions /\ Item \in Ext /\ pos <= Len(extensions)
  BY ItemListed DEF AtItem
<1>2. /\ state' \in [Ext -> ExtensionState] /\ state'[Item] = to
      /\ \A x \in Ext \ {Item} : state'[x] = state[x]
      /\ \A i \in DOMAIN extensions : extensions[i] \in Ext
      /\ \A i \in DOMAIN extensions \ {pos} : extensions[i] # Item
  BY <1>1, MoveItem
<1>3. PositionOK' /\ InitializedOK'
  BY <1>1, LenProperties DEF TypeOK, AtItem, PositionOK, InitializedOK, SequentialStages
<1>4. ListedOnce'
  BY <1>1, <1>2 DEF ListedOnce, Item, ToSet
<1>5. FailuresCounted'
  BY <1>2 DEF FailuresCounted, Bad, TypeOK
<1>6. StatesOK'
  <2>1. ASSUME NEW i \in DOMAIN extensions PROVE StateAt(i)'
    <3>1. i \in Nat /\ pos \in Nat
      BY <1>1, LenProperties DEF TypeOK
    <3>2. /\ i # pos => state'[extensions[i]] = state[extensions[i]]
          /\ i = pos => extensions[i] = Item /\ state'[extensions[i]] = to
      BY <1>2 DEF Item
    <3>3. StateAt(i)
      BY DEF StatesOK
    <3>4. CASE pc = "Loading"
      BY <3>1, <3>2, <3>3, <3>4 DEF StateAt, AtItem, SequentialStages
    <3>5. CASE pc = "Exporting"
      BY <3>1, <3>2, <3>3, <3>5 DEF StateAt, AtItem, SequentialStages
    <3>6. CASE pc = "Starting"
      BY <3>1, <3>2, <3>3, <3>6 DEF StateAt, AtItem, SequentialStages
    <3>. QED
      BY <3>4, <3>5, <3>6 DEF AtItem, SequentialStages
  <2>. QED
    BY <2>1 DEF StatesOK
<1>. QED
  BY <1>3, <1>4, <1>5, <1>6

\* LoadingStage's modules stay listed and loaded when only a plugin's pointer moves.
LEMMA LoadedKept ==
  ASSUME IInv, AtItem, UNCHANGED <<pc, extensions, loadedModules>>, pos' \in {pos, pos + 1},
         \A m \in Modules : languageModule'[m] = languageModule[m]
  PROVE  LoadedOK'
<1>. USE DEF IInv
<1>1. pc \in SequentialStages /\ pos \in Nat
  BY DEF AtItem, TypeOK
<1>2. ASSUME pc = "Loading", NEW l \in Languages, loadedModules[l] # None
      PROVE /\ languageModule'[loadedModules[l]] = loadedModules[l]
            /\ \E i \in DOMAIN extensions : i <= pos' /\ extensions[i] = loadedModules[l]
  <2>1. loadedModules[l] \in Modules
    BY <1>2 DEF TypeOK
  <2>2. PICK i \in DOMAIN extensions : i <= pos /\ extensions[i] = loadedModules[l]
    BY <1>2 DEF LoadedOK
  <2>3. i \in Nat
    BY LenProperties DEF TypeOK
  <2>. QED
    BY <2>1, <2>2, <2>3, <1>1, <1>2 DEF LoadedOK
<1>. QED
  BY <1>1, <1>2 DEF LoadedOK, SequentialStages

\* Where the item is when a stage works on it.
LEMMA ItemAt ==
  ASSUME IInv, AtItem
  PROVE  /\ pos \in DOMAIN extensions /\ Item \in Ext /\ pos \in Nat
         /\ pc = "Loading" =>
              \/ state[Item] \in Ahead(Item, "Resolved", "Resolved") \cup {"Loading"}
              \/ state[Item] = "Loaded" /\ Item \in Modules
         /\ pc = "Exporting" =>
              \/ state[Item] \in Ahead(Item, "Running", "Loaded")
              \/ state[Item] = "Exporting" /\ Item \in Plugins
         /\ pc = "Starting" =>
              \/ state[Item] \in Ahead(Item, "Running", "Exported")
              \/ state[Item] \in {"Starting", "Started"} /\ Item \in Plugins
BY ItemListed DEF IInv, TypeOK, AtItem, StatesOK, StateAt, Item

\* Moving the item to a state of the same kind leaves the pointers in order.
LEMMA PointersKept ==
  ASSUME IInv, NEW to \in ExtensionState, Item \in Ext, Move(Item, to),
         UNCHANGED <<extensions, languageModule, live>>,
         \/ state[Item] \in Callable /\ to \in Callable \cup Bad
         \/ state[Item] \notin Callable \cup Bad /\ to \notin Callable
         \/ to = state[Item]
  PROVE  PointersOK'
<1>1. /\ state'[Item] = to
      /\ \A x \in Ext \ {Item} : state'[x] = state[x]
  BY MoveState DEF IInv
<1>2. \A e \in Ext : state'[e] \in Callable => languageModule[e] # None
  BY <1>1 DEF IInv, PointersOK
<1>3. \A e \in Ext : languageModule[e] # None => state'[e] \in Callable \cup Bad
  BY <1>1 DEF IInv, PointersOK
<1>. QED
  BY <1>2, <1>3 DEF IInv, PointersOK

LEMMA PassItemStep == ASSUME IInv, PassItem PROVE IInv'
<1>. USE DEF IInv
<1>1. /\ AtItem /\ ~ShouldProcess(Item) /\ ~InProgress(Item) /\ pos' = pos + 1
      /\ UNCHANGED <<pc, initialized, extensions, state, languageModule, live, exportedTo,
                     failed, failureTracker, loadedModules, runningModules, depGraph,
                     reverseDepGraph, inits, aborted>>
  BY DEF PassItem, pipelineVars, graphVars, historyVars
<1>2. state[Item] \in ExtensionState /\ Move(Item, state[Item])
  BY <1>1, ItemAt DEF Move, TypeOK
<1>3. /\ pc = "Loading" => state[Item] \in Passed(Item, "Loaded")
      /\ pc = "Exporting" => state[Item] \in Passed(Item, "Exported")
      /\ pc = "Starting" => state[Item] \in Passed(Item, "Running")
      /\ state[Item] \notin Bad \cup {"Corrupted"}
  BY <1>1, ItemAt
  DEF AtItem, ShouldProcess, InProgress, Passed, Ahead, Out, Bad, Plugins, SequentialStages
<1>4. PositionOK' /\ ListedOnce' /\ StatesOK' /\ FailuresCounted' /\ InitializedOK'
  BY <1>1, <1>2, <1>3, StageStep
<1>5. TypeOK' /\ PointersOK'
  BY <1>1 DEF TypeOK, PointersOK
<1>6. LoadedOK'
  BY <1>1, LoadedKept
<1>. QED
  BY <1>4, <1>5, <1>6

LEMMA SkipItemStep == ASSUME IInv, SkipItem PROVE IInv'
<1>. USE DEF IInv
<1>1. /\ AtItem /\ ShouldProcess(Item) /\ pos' = pos + 1 /\ Move(Item, "Skipped")
      /\ failureTracker' = failureTracker \cup {Item} /\ failed' = failed + 1
      /\ UNCHANGED <<pc, initialized, extensions, languageModule, live, exportedTo,
                     loadedModules, runningModules, depGraph, reverseDepGraph, inits, aborted>>
  BY DEF SkipItem, graphVars, historyVars
<1>2. Item \in Ext /\ pos \in DOMAIN extensions /\ "Skipped" \in ExtensionState
  BY <1>1, ItemAt DEF ExtensionState
<1>3. PositionOK' /\ ListedOnce' /\ StatesOK' /\ FailuresCounted' /\ InitializedOK'
  BY <1>1, <1>2, StageStep DEF Passed, Bad
<1>4. TypeOK'
  BY <1>1, <1>2, MoveState DEF TypeOK
<1>5. PointersOK'
  BY <1>1, <1>2, PointersKept DEF ShouldProcess, Callable, Bad
<1>6. LoadedOK'
  BY <1>1, LoadedKept
<1>. QED
  BY <1>3, <1>4, <1>5, <1>6

LEMMA StartItemStep == ASSUME IInv, StartItem PROVE IInv'
<1>. USE DEF IInv
<1>1. PICK to \in {"Loading", "Exporting", "Starting"} : to = pc
  BY DEF StartItem, AtItem, SequentialStages
<1>2. /\ AtItem /\ ShouldProcess(Item) /\ Move(Item, to)
      /\ pos' = pos /\ failed' = failed
      /\ UNCHANGED <<pc, initialized, extensions, languageModule, live, exportedTo,
                     failureTracker, loadedModules, runningModules, depGraph,
                     reverseDepGraph, inits, aborted>>
  BY <1>1 DEF StartItem, pipelineVars, graphVars, historyVars
<1>3. /\ Item \in Ext /\ pos \in DOMAIN extensions
      /\ to \in ExtensionState /\ to \notin Bad \cup {"Corrupted"}
  BY <1>2, ItemAt DEF ExtensionState, SequentialStages, Bad
<1>4. to \in {"Exporting", "Starting"} => Item \in Plugins
  BY <1>1, <1>2 DEF ShouldProcess
<1>5. PositionOK' /\ ListedOnce' /\ StatesOK' /\ FailuresCounted' /\ InitializedOK'
  BY <1>1, <1>2, <1>3, <1>4, StageStep
<1>6. TypeOK'
  BY <1>2, <1>3, MoveState DEF TypeOK
<1>7. PointersOK'
  <2>1. \/ state[Item] \in Callable /\ to \in Callable \cup Bad
        \/ state[Item] \notin Callable \cup Bad /\ to \notin Callable
    BY <1>1, <1>2 DEF ShouldProcess, Callable, Bad
  <2>. QED
    BY <1>2, <1>3, <2>1, PointersKept
<1>8. LoadedOK'
  BY <1>2, LoadedKept DEF TypeOK
<1>. QED
  BY <1>5, <1>6, <1>7, <1>8

LEMMA SetRunningStep == ASSUME IInv, SetRunning PROVE IInv'
<1>. USE DEF IInv
<1>1. /\ AtItem /\ pos' = pos + 1 /\ Move(Item, "Running")
      /\ \/ pc = "Loading" /\ state[Item] = "Loaded" /\ Item \in Modules
         \/ state[Item] = "Started"
      /\ UNCHANGED <<pc, initialized, extensions, languageModule, live, exportedTo, failed,
                     failureTracker, loadedModules, runningModules, depGraph,
                     reverseDepGraph, inits, aborted>>
  BY DEF SetRunning, pipelineVars, graphVars, historyVars
<1>2. Item \in Ext /\ pos \in DOMAIN extensions /\ "Running" \in ExtensionState
  BY <1>1, ItemAt DEF ExtensionState
<1>3. /\ pc = "Loading" => Item \in Modules
      /\ pc # "Exporting"
      /\ "Running" \notin Bad \cup {"Corrupted"}
  BY <1>1, ItemAt DEF Ahead, Out, Bad
<1>4. PositionOK' /\ ListedOnce' /\ StatesOK' /\ FailuresCounted' /\ InitializedOK'
  BY <1>1, <1>2, <1>3, StageStep DEF Passed
<1>5. TypeOK'
  BY <1>1, <1>2, MoveState DEF TypeOK
<1>6. PointersOK'
  BY <1>1, <1>2, PointersKept DEF Callable
<1>7. LoadedOK'
  BY <1>1, LoadedKept
<1>. QED
  BY <1>4, <1>5, <1>6, <1>7

LEMMA StartPluginStep == ASSUME IInv, StartPlugin PROVE IInv'
<1>. USE DEF IInv
<1>1. /\ AtItem /\ state[Item] = "Starting"
      /\ UNCHANGED <<pc, initialized, extensions, languageModule, live, exportedTo,
                     loadedModules, runningModules, depGraph, reverseDepGraph, inits, aborted>>
  BY DEF StartPlugin, graphVars, historyVars
<1>2. PICK to \in {"Started", "Failed"} :
        /\ Move(Item, to)
        /\ \/ to = "Started" /\ UNCHANGED <<pos, failed, failureTracker>>
           \/ /\ to = "Failed" /\ pos' = pos + 1 /\ failed' = failed + 1
              /\ failureTracker' = failureTracker \cup {Item} \cup depGraph[Item]
  BY DEF StartPlugin, HandleOperationFailure
<1>3. Item \in Ext /\ pos \in DOMAIN extensions /\ to \in ExtensionState
  BY <1>1, ItemAt DEF ExtensionState
<1>4. pc = "Starting" /\ Item \in Plugins
  BY <1>1, ItemAt DEF Ahead, Out, AtItem, SequentialStages
<1>5. PositionOK' /\ ListedOnce' /\ StatesOK' /\ FailuresCounted' /\ InitializedOK'
  BY <1>1, <1>2, <1>3, <1>4, StageStep DEF Passed, Bad
<1>6. TypeOK'
  BY <1>1, <1>2, <1>3, MoveState DEF TypeOK
<1>7. PointersOK'
  BY <1>1, <1>2, <1>3, PointersKept DEF Callable, Bad
<1>8. LoadedOK'
  BY <1>1, <1>2, LoadedKept DEF TypeOK
<1>. QED
  BY <1>5, <1>6, <1>7, <1>8

LEMMA ExportPluginStep == ASSUME IInv, ExportPlugin PROVE IInv'
<1>. USE DEF IInv
<1>1. /\ AtItem /\ state[Item] = "Exporting" /\ pos' = pos + 1
      /\ UNCHANGED <<pc, initialized, extensions, languageModule, live,
                     loadedModules, runningModules, depGraph, reverseDepGraph, inits, aborted>>
  BY DEF ExportPlugin, HandleOperationFailure, graphVars, historyVars
<1>2. PICK to \in {"Exported", "Failed"} :
        /\ Move(Item, to)
        /\ \/ to = "Exported" /\ UNCHANGED <<failed, failureTracker>>
           \/ /\ to = "Failed" /\ failed' = failed + 1
              /\ failureTracker' = failureTracker \cup {Item} \cup depGraph[Item]
  <2>1. PICK n \in 0..Len(runningModules) :
          \/ /\ n = Len(runningModules)
             /\ Move(Item, "Exported")
             /\ UNCHANGED <<failed, failureTracker>>
          \/ /\ n < Len(runningModules) /\ "export" \in Hooks[Item]
             /\ HandleOperationFailure
    BY DEF ExportPlugin
  <2>. QED
    BY <2>1 DEF HandleOperationFailure
<1>3. Item \in Ext /\ pos \in DOMAIN extensions /\ to \in ExtensionState
  BY <1>1, ItemAt DEF ExtensionState
<1>4. pc = "Exporting" /\ Item \in Plugins
  BY <1>1, ItemAt DEF Ahead, Out, AtItem, SequentialStages
<1>5. PositionOK' /\ ListedOnce' /\ StatesOK' /\ FailuresCounted' /\ InitializedOK'
  BY <1>1, <1>2, <1>3, <1>4, StageStep DEF Passed, Bad, Plugins
<1>6. exportedTo' \in [Ext -> SUBSET Modules]
  <2>1. PICK n \in 0..Len(runningModules) :
          exportedTo' = [exportedTo EXCEPT ![Item] =
                           IF "export" \in Hooks[Item]
                           THEN ToSet(SubSeq(runningModules, 1, n)) ELSE {}]
    BY DEF ExportPlugin
  <2>2. \A i \in 1..n : runningModules[i] \in Modules
    BY <2>1, LenProperties DEF TypeOK
  <2>3. n \in Nat /\ n <= Len(runningModules) /\ runningModules \in Seq(Modules)
    BY <2>1, LenProperties DEF TypeOK
  <2>4. ToSet(SubSeq(runningModules, 1, n)) \subseteq Modules
    BY <2>2, <2>3, SubSeqProperties DEF ToSet
  <2>. QED
    BY <2>1, <2>4 DEF TypeOK
<1>7. TypeOK'
  BY <1>1, <1>2, <1>3, <1>6, MoveState DEF TypeOK
<1>8. PointersOK'
  BY <1>1, <1>2, <1>3, PointersKept DEF Callable, Bad
<1>9. LoadedOK'
  BY <1>1, <1>2, LoadedKept
<1>. QED
  BY <1>5, <1>7, <1>8, <1>9

LEMMA LoadModuleStep == ASSUME IInv, LoadModule PROVE IInv'
<1>. USE DEF IInv
<1>1. /\ AtItem /\ Item \in Modules /\ state[Item] = "Loading"
      /\ UNCHANGED <<pc, initialized, extensions, exportedTo, runningModules, depGraph,
                     reverseDepGraph, inits, aborted>>
  BY DEF LoadModule, graphVars, historyVars
<1>2. Item \in Ext /\ pos \in DOMAIN extensions /\ pos \in Nat /\ Item # None
  BY <1>1, ItemAt, ManagerAssumption
<1>3. pc = "Loading"
  BY <1>1, ItemAt DEF Ahead, Out, AtItem, SequentialStages
<1>4. CASE /\ Move(Item, "Failed") /\ pos' = pos + 1 /\ failed' = failed + 1
           /\ failureTracker' = failureTracker \cup {Item} \cup depGraph[Item]
           /\ UNCHANGED <<live, languageModule, loadedModules>>
  <2>1. "Failed" \in ExtensionState
    BY DEF ExtensionState
  <2>2. PositionOK' /\ ListedOnce' /\ StatesOK' /\ FailuresCounted' /\ InitializedOK'
    BY <1>1, <1>2, <1>3, <1>4, <2>1, StageStep DEF Passed, Bad
  <2>3. TypeOK'
    BY <1>1, <1>2, <1>4, <2>1, MoveState DEF TypeOK
  <2>4. PointersOK'
    BY <1>1, <1>2, <1>4, <2>1, PointersKept DEF Callable, Bad
  <2>5. LoadedOK'
    BY <1>1, <1>4, LoadedKept
  <2>. QED
    BY <2>2, <2>3, <2>4, <2>5
<1>5. CASE /\ Move(Item, "Loaded")
           /\ live' = [live EXCEPT ![Item] = @ + 1]
           /\ languageModule' = [languageModule EXCEPT ![Item] = Item]
           /\ loadedModules' = [loadedModules EXCEPT ![LanguageOf[Item]] = Item]
           /\ UNCHANGED <<pos, failed, failureTracker>>
  <2>1. "Loaded" \in ExtensionState /\ "Loaded" \notin Bad \cup {"Corrupted"}
    BY DEF ExtensionState, Bad
  <2>2. PositionOK' /\ ListedOnce' /\ StatesOK' /\ FailuresCounted' /\ InitializedOK'
    BY <1>1, <1>2, <1>3, <1>5, <2>1, StageStep
  <2>3. /\ state' \in [Ext -> ExtensionState] /\ state'[Item] = "Loaded"
        /\ \A x \in Ext \ {Item} : state'[x] = state[x]
    BY <1>2, <1>5, <2>1, MoveState
  <2>4. TypeOK'
    <3>1. languageModule' \in [Ext -> Modules \cup {None}]
      BY <1>1, <1>2, <1>5 DEF TypeOK
    <3>2. loadedModules' \in [Languages -> Modules \cup {None}]
      BY <1>1, <1>5 DEF TypeOK
    <3>3. live' \in [Modules -> Nat]
      BY <1>1, <1>5 DEF TypeOK
    <3>. QED
      BY <1>1, <1>5, <2>3, <3>1, <3>2, <3>3 DEF TypeOK
  <2>5. /\ languageModule'[Item] = Item
        /\ \A x \in Ext \ {Item} : languageModule'[x] = languageModule[x]
        /\ live'[Item] > 0
        /\ \A m \in Modules : live'[m] >= live[m]
    <3>1. languageModule \in [Ext -> Modules \cup {None}] /\ live \in [Modules -> Nat]
      BY DEF TypeOK
    <3>2. /\ languageModule'[Item] = Item
          /\ \A x \in Ext \ {Item} : languageModule'[x] = languageModule[x]
      BY <3>1, <1>1, <1>2, <1>5
    <3>3. live[Item] \in Nat /\ live'[Item] = live[Item] + 1
      BY <3>1, <1>1, <1>5
    <3>4. \A m \in Modules \ {Item} : live'[m] = live[m] /\ live[m] \in Nat
      BY <3>1, <1>5
    <3>. QED
      BY <3>2, <3>3, <3>4
  <2>6. PointersOK'
    <3>1. \A e \in Ext : state'[e] \in Callable => languageModule'[e] # None
      BY <1>2, <2>3, <2>5 DEF PointersOK
    <3>2. ASSUME NEW e \in Ext, languageModule'[e] # None
          PROVE /\ state'[e] \in Callable \cup Bad
                /\ live'[languageModule'[e]] > 0
                /\ languageModule'[languageModule'[e]] = languageModule'[e]
                /\ e \in Modules => languageModule'[e] = e
      <4>1. CASE e = Item
        BY <4>1, <2>3, <2>5 DEF Callable
      <4>2. CASE e # Item
        <5>1. languageModule'[e] = languageModule[e] /\ state'[e] = state[e]
          BY <4>2, <2>3, <2>5
        <5>2. languageModule[e] \in Modules /\ languageModule[e] \in Ext
          BY <5>1, <3>2, ManagerAssumption DEF TypeOK
        <5>3. live'[languageModule[e]] > 0
          <6>1. /\ live[languageModule[e]] \in Nat /\ live[languageModule[e]] > 0
                /\ live'[languageModule[e]] \in Nat
            BY <5>1, <5>2, <3>2, <2>4 DEF PointersOK, TypeOK
          <6>. QED
            BY <6>1, <5>2, <2>5
        <5>4. languageModule'[languageModule[e]] = languageModule[e]
          BY <5>1, <5>2, <3>2, <2>5 DEF PointersOK
        <5>. QED
          BY <5>1, <5>2, <5>3, <5>4, <3>2 DEF PointersOK
      <4>. QED
        BY <4>1, <4>2
    <3>3. ASSUME NEW i \in DOMAIN extensions, NEW j \in DOMAIN extensions,
                 extensions[j] \in Plugins, languageModule'[extensions[j]] = extensions[i]
          PROVE i < j
      <4>1. languageModule'[extensions[j]] = languageModule[extensions[j]]
        BY <3>3, <1>1, <2>5 DEF Plugins
      <4>. QED
        BY <4>1, <3>3 DEF PointersOK
    <3>. QED
      BY <3>1, <3>2, <3>3, <1>1 DEF PointersOK
  <2>7. LoadedOK'
    <3>1. ASSUME NEW l \in Languages, loadedModules'[l] # None
          PROVE /\ languageModule'[loadedModules'[l]] = loadedModules'[l]
                /\ \E i \in DOMAIN extensions : i <= pos /\ extensions[i] = loadedModules'[l]
      <4>1. CASE loadedModules'[l] = Item
        BY <4>1, <2>5, <1>2 DEF Item
      <4>2. CASE loadedModules'[l] # Item
        <5>1. loadedModules'[l] = loadedModules[l] /\ loadedModules[l] \in Modules
          BY <4>2, <1>5, <3>1 DEF TypeOK
        <5>. QED
          BY <5>1, <4>2, <3>1, <2>5, <1>3, ManagerAssumption DEF LoadedOK
      <4>. QED
        BY <4>1, <4>2
    <3>. QED
      BY <3>1, <1>1, <1>3, <1>5 DEF LoadedOK, SequentialStages
  <2>. QED
    BY <2>2, <2>4, <2>6, <2>7
<1>. QED
  BY <1>4, <1>5 DEF LoadModule, LoadLanguageModule, HandleOperationFailure

LEMMA LoadPluginStep == ASSUME IInv, LoadPlugin PROVE IInv'
<1>. USE DEF IInv
<1>. DEFINE module == loadedModules[LanguageOf[Item]]
<1>1. /\ AtItem /\ Item \in Plugins /\ state[Item] = "Loading" /\ pos' = pos + 1
      /\ languageModule' = [languageModule EXCEPT ![Item] = module]
      /\ UNCHANGED <<pc, initialized, extensions, live, exportedTo, loadedModules,
                     runningModules, depGraph, reverseDepGraph, inits, aborted>>
  BY DEF LoadPlugin, HandleOperationFailure, graphVars, historyVars
<1>2. PICK to \in {"Loaded", "Failed"} :
        /\ Move(Item, to)
        /\ \/ to = "Loaded" /\ module # None /\ UNCHANGED <<failed, failureTracker>>
           \/ /\ to = "Failed" /\ failed' = failed + 1
              /\ failureTracker' = failureTracker \cup {Item} \cup depGraph[Item]
  BY DEF LoadPlugin, HandleOperationFailure
<1>3. /\ Item \in Ext /\ Item \notin Modules /\ pos \in DOMAIN extensions /\ pos \in Nat
      /\ to \in ExtensionState
  BY <1>1, ItemAt DEF Plugins, ExtensionState
<1>4. pc = "Loading"
  BY <1>1, ItemAt DEF Ahead, Out, AtItem, SequentialStages
<1>5. PositionOK' /\ ListedOnce' /\ StatesOK' /\ FailuresCounted' /\ InitializedOK'
  BY <1>1, <1>2, <1>3, <1>4, StageStep DEF Passed, Bad
<1>6. /\ state' \in [Ext -> ExtensionState] /\ state'[Item] = to
      /\ \A x \in Ext \ {Item} : state'[x] = state[x]
  BY <1>2, <1>3, MoveState
<1>7. LanguageOf[Item] \in Languages /\ module \in Modules \cup {None}
  BY <1>3, ManagerAssumption DEF TypeOK
<1>8. /\ languageModule'[Item] = module
      /\ \A x \in Ext \ {Item} : languageModule'[x] = languageModule[x]
      /\ languageModule' \in [Ext -> Modules \cup {None}]
  BY <1>1, <1>3, <1>7 DEF TypeOK
<1>9. TypeOK'
  BY <1>1, <1>2, <1>6, <1>8, <1>3 DEF TypeOK
<1>10. \A m \in Modules : m \in Ext /\ m # Item /\ languageModule'[m] = languageModule[m]
  BY <1>3, <1>8, ManagerAssumption
<1>11. LoadedOK'
  BY <1>1, <1>10, LoadedKept
<1>12. module # None =>
         /\ module \in Modules /\ languageModule[module] = module
         /\ live[module] > 0
         /\ \E i \in DOMAIN extensions : i < pos /\ extensions[i] = module
  <2>1. ASSUME module # None PROVE languageModule[module] = module /\ module \in Modules
    BY <2>1, <1>4, <1>7 DEF LoadedOK
  <2>2. ASSUME module # None PROVE live[module] > 0
    BY <2>2, <2>1, <1>10 DEF PointersOK
  <2>3. ASSUME module # None
        PROVE \E i \in DOMAIN extensions : i < pos /\ extensions[i] = module
    <3>1. PICK i \in DOMAIN extensions : i <= pos /\ extensions[i] = module
      BY <2>3, <1>4, <1>7 DEF LoadedOK
    <3>2. i # pos
      BY <3>1, <2>1, <2>3, <1>3 DEF Item
    <3>3. i \in Nat
      BY LenProperties DEF TypeOK
    <3>. QED
      BY <3>1, <3>2, <3>3, <1>3
  <2>. QED
    BY <2>1, <2>2, <2>3
<1>13. PointersOK'
  <2>1. \A e \in Ext : state'[e] \in Callable => languageModule'[e] # None
    BY <1>2, <1>6, <1>8 DEF PointersOK, Callable
  <2>2. ASSUME NEW e \in Ext, languageModule'[e] # None
        PROVE /\ state'[e] \in Callable \cup Bad
              /\ live'[languageModule'[e]] > 0
              /\ languageModule'[languageModule'[e]] = languageModule'[e]
              /\ e \in Modules => languageModule'[e] = e
    <3>1. CASE e = Item
      BY <3>1, <2>2, <1>1, <1>2, <1>3, <1>6, <1>8, <1>10, <1>12 DEF Callable, Bad
    <3>2. CASE e # Item
      <4>1. /\ languageModule'[e] = languageModule[e] /\ state'[e] = state[e]
            /\ languageModule[e] \in Modules
        BY <3>2, <2>2, <1>6, <1>8 DEF TypeOK
      <4>. QED
        BY <4>1, <2>2, <1>1, <1>10 DEF PointersOK
    <3>. QED
      BY <3>1, <3>2
  <2>3. ASSUME NEW i \in DOMAIN extensions, NEW j \in DOMAIN extensions,
               extensions[j] \in Plugins, languageModule'[extensions[j]] = extensions[i]
        PROVE i < j
    <3>1. extensions[i] \in Ext /\ extensions[i] # None /\ extensions[j] \in Ext
      BY ManagerAssumption DEF TypeOK
    <3>2. CASE extensions[j] = Item
      <4>1. j = pos
        BY <3>2, <1>3 DEF ListedOnce, Item
      <4>2. module = extensions[i] /\ module # None
        BY <3>2, <2>3, <3>1, <1>8
      <4>3. i < pos
        BY <4>2, <1>12 DEF ListedOnce
      <4>. QED
        BY <4>1, <4>3
    <3>3. CASE extensions[j] # Item
      BY <3>3, <3>1, <2>3, <1>8 DEF PointersOK
    <3>. QED
      BY <3>2, <3>3
  <2>. QED
    BY <2>1, <2>2, <2>3, <1>1 DEF PointersOK
<1>. QED
  BY <1>5, <1>9, <1>11, <1>13

\* While the resolver runs no extension has a language module, every one in
\* the container is filtered in or disabled, and only those are.
LEMMA AtResolving ==
  ASSUME IInv, pc = "Resolving"
  PROVE  /\ \A e \in Ext : languageModule[e] = None
         /\ \A e \in ToSet(extensions) : e \in Ext /\ state[e] \in {"Resolving", "Disabled"}
         /\ Filtered \subseteq ToSet(extensions) /\ ToSet(extensions) \subseteq Ext
         /\ \A S : S \subseteq Ext => IsFiniteSet(S)
<1>. USE DEF IInv
<1>1. \A e \in ToSet(extensions) : e \in Ext /\ state[e] \in {"Resolving", "Disabled"}
  BY DEF ToSet, StatesOK, StateAt, TypeOK
<1>2. Filtered \subseteq ToSet(extensions)
  BY DEF Filtered, ListedOnce
<1>3. \A e \in Ext : languageModule[e] = None
  <2>1. \A e \in Ext : state[e] \notin Callable \cup Bad
    BY <1>1 DEF ListedOnce, Callable, Bad
  <2>. QED
    BY <2>1 DEF PointersOK
<1>. QED
  BY <1>1, <1>2, <1>3, FS_Subset, ManagerAssumption

\* Rearranging the container keeps every extension in it, once.
LEMMA Relisted ==
  ASSUME NEW A, NEW B, NEW a \in SetToSeqs(A), NEW b \in SetToSeqs(B),
         IsFiniteSet(A), IsFiniteSet(B), A \subseteq Ext, B \subseteq Ext, A \cap B = {}
  PROVE  /\ a \o b \in Seq(Ext)
         /\ ToSet(a \o b) = A \cup B
         /\ \A i, j \in DOMAIN (a \o b) : (a \o b)[i] = (a \o b)[j] => i = j
<1>1. /\ a \in Seq(A) /\ ToSet(a) = A /\ \A i, j \in DOMAIN a : a[i] = a[j] => i = j
      /\ b \in Seq(B) /\ ToSet(b) = B /\ \A i, j \in DOMAIN b : b[i] = b[j] => i = j
  BY Permutation
<1>2. a \in Seq(Ext) /\ b \in Seq(Ext)
  BY <1>1
<1>. QED
  BY <1>1, <1>2, Join

LEMMA RestoreResultStep ==
  ASSUME IInv, pc = "Resolving", RestoreResult, pos' = 1,
         UNCHANGED <<initialized, languageModule, live, exportedTo, failureTracker,
                     loadedModules, runningModules, inits, aborted>>
  PROVE  IInv'
<1>. USE DEF IInv
<1>1. PICK filtered \in InListedOrder(Filtered),
           excluded \in InListedOrder(ToSet(extensions) \ Filtered) :
             extensions' = filtered \o excluded
  BY DEF RestoreResult
<1>2. /\ extensions' \in Seq(Ext) /\ ToSet(extensions') = ToSet(extensions)
      /\ \A i, j \in DOMAIN extensions' : extensions'[i] = extensions'[j] => i = j
  <2>1. /\ filtered \in SetToSeqs(Filtered)
        /\ excluded \in SetToSeqs(ToSet(extensions) \ Filtered)
    BY <1>1 DEF InListedOrder
  <2>2. Filtered \cup (ToSet(extensions) \ Filtered) = ToSet(extensions)
    BY AtResolving
  <2>3. /\ IsFiniteSet(Filtered) /\ IsFiniteSet(ToSet(extensions) \ Filtered)
        /\ Filtered \subseteq Ext /\ ToSet(extensions) \ Filtered \subseteq Ext
    BY AtResolving
  <2>4. Filtered \cap (ToSet(extensions) \ Filtered) = {}
    OBVIOUS
  <2>5. /\ filtered \o excluded \in Seq(Ext)
        /\ ToSet(filtered \o excluded) = Filtered \cup (ToSet(extensions) \ Filtered)
        /\ \A i, j \in DOMAIN (filtered \o excluded) :
             (filtered \o excluded)[i] = (filtered \o excluded)[j] => i = j
    BY <2>1, <2>3, <2>4, Relisted
  <2>. QED
    BY <1>1, <2>2, <2>5
<1>3. /\ failed' = Len(extensions) /\ failed' \in Nat
      /\ \/ extensions = <<>> /\ pc' = "Loading"
         \/ extensions # <<>> /\ pc' = "Report" /\ failed' # 0
      /\ UNCHANGED <<state, depGraph, reverseDepGraph>>
  BY LenProperties, EmptySeq DEF RestoreResult, TypeOK, graphVars
<1>4. TypeOK'
  BY <1>2, <1>3 DEF TypeOK, PC, SequentialStages
<1>5. PositionOK' /\ InitializedOK' /\ LoadedOK' /\ FailuresCounted'
  <2>1. Len(extensions') \in Nat
    BY <1>2, LenProperties
  <2>2. PositionOK' /\ InitializedOK' /\ LoadedOK'
    BY <2>1, <1>3 DEF PositionOK, InitializedOK, LoadedOK, SequentialStages
  <2>3. \A e \in Ext : state[e] \notin Bad \cup {"Corrupted"}
    BY AtResolving DEF ListedOnce, Bad
  <2>. QED
    BY <2>2, <2>3, <1>3 DEF FailuresCounted
<1>6. ListedOnce'
  BY <1>2, <1>3 DEF ListedOnce
<1>7. StatesOK'
  <2>1. CASE extensions = <<>>
    <3>1. ToSet(extensions) = {}
      BY <2>1, EmptySeq DEF ToSet
    <3>2. DOMAIN extensions' = {}
      BY <3>1, <1>2 DEF ToSet
    <3>. QED
      BY <3>2 DEF StatesOK
  <2>2. CASE extensions # <<>>
    BY <2>2, <1>3 DEF StatesOK, StateAt, SequentialStages
  <2>. QED
    BY <2>1, <2>2
<1>8. PointersOK'
  BY <1>2, <1>3, AtResolving, ManagerAssumption DEF PointersOK, Plugins
<1>. QED
  BY <1>4, <1>5, <1>6, <1>7, <1>8

LEMMA BuildResultStep ==
  ASSUME IInv, pc = "Resolving", NEW order \in LoadOrders, BuildResult(order), pos' = 1,
         UNCHANGED <<initialized, languageModule, live, exportedTo, failureTracker,
                     loadedModules, runningModules, inits, aborted>>
  PROVE  IInv'
<1>. USE DEF IInv
<1>. DEFINE R == ToSet(order)
<1>1. PICK S \in SUBSET Filtered : order \in SetToSeqs(S)
  BY DEF LoadOrders
<1>2. /\ IsFiniteSet(S) /\ S \subseteq Ext /\ Filtered \subseteq Ext
      /\ IsFiniteSet(Filtered \ S) /\ IsFiniteSet(ToSet(extensions) \ Filtered)
      /\ ToSet(extensions) \ Filtered \subseteq Ext
  BY <1>1, AtResolving
<1>3. R = S
  BY <1>1, <1>2, Permutation
<1>4. PICK rest \in SetToSeqs(Filtered \ R),
           excluded \in InListedOrder(ToSet(extensions) \ Filtered) :
             extensions' = order \o rest \o excluded
  BY DEF BuildResult
<1>5. excluded \in SetToSeqs(ToSet(extensions) \ Filtered)
  BY <1>4 DEF InListedOrder
<1>6. /\ extensions' \in Seq(Ext) /\ ToSet(extensions') = ToSet(extensions)
      /\ \A i, j \in DOMAIN extensions' : extensions'[i] = extensions'[j] => i = j
  <2>. DEFINE front == order \o rest
  <2>1. /\ front \in Seq(Ext) /\ ToSet(front) = S \cup (Filtered \ S)
        /\ \A i, j \in DOMAIN front : front[i] = front[j] => i = j
    BY <1>1, <1>2, <1>3, <1>4, Relisted
  <2>2. ToSet(front) = Filtered
    BY <2>1, <1>1
  <2>3. /\ excluded \in Seq(Ext) /\ ToSet(excluded) = ToSet(extensions) \ Filtered
        /\ \A i, j \in DOMAIN excluded : excluded[i] = excluded[j] => i = j
    <3>1. excluded \in Seq(ToSet(extensions) \ Filtered)
      BY <1>2, <1>5, Permutation
    <3>. QED
      BY <3>1, <1>2, <1>5, Permutation
  <2>4. extensions' = front \o excluded
    BY <1>4
  <2>5. Filtered \cup (ToSet(extensions) \ Filtered) = ToSet(extensions)
    BY AtResolving
  <2>. HIDE DEF front
  <2>6. ToSet(front) \cap ToSet(excluded) = {}
    BY <2>2, <2>3
  <2>7. /\ front \o excluded \in Seq(Ext)
        /\ ToSet(front \o excluded) = ToSet(front) \cup ToSet(excluded)
        /\ \A i, j \in DOMAIN (front \o excluded) :
             (front \o excluded)[i] = (front \o excluded)[j] => i = j
    BY <2>1, <2>3, <2>6, Join
  <2>. QED
    BY <2>2, <2>3, <2>4, <2>5, <2>7
<1>7. /\ pc' = "Loading" /\ failed' = failed
      /\ state' = [e \in Ext |-> IF e \in R THEN "Resolved"
                                 ELSE IF e \in Filtered THEN "Unresolved" ELSE state[e]]
      /\ depGraph' = [e \in Ext |-> IF e \in R THEN Dependencies(e) \ {e} ELSE {}]
      /\ reverseDepGraph' = [d \in Ext |-> {e \in R : e # d /\ d \in Dependencies(e)}]
  BY DEF BuildResult
<1>8. \A e \in R : Dependencies(e) \subseteq Ext
  BY <1>2, <1>3 DEF LoadOrders, Installable
<1>. HIDE DEF R
<1>9. TypeOK'
  <2>1. state' \in [Ext -> ExtensionState]
    BY <1>7 DEF TypeOK, ExtensionState
  <2>2. depGraph' \in [Ext -> SUBSET Ext]
    BY <1>7, <1>8
  <2>3. reverseDepGraph' \in [Ext -> SUBSET Ext]
    BY <1>7, <1>2, <1>3
  <2>. QED
    BY <2>1, <2>2, <2>3, <1>6, <1>7 DEF TypeOK, PC, SequentialStages
<1>10. \A e \in ToSet(extensions) : state'[e] \in {"Resolved"} \cup Out
  BY <1>7, AtResolving DEF Filtered, Out
<1>11. \A e \in Ext \ ToSet(extensions) : state'[e] = "Unknown"
  <2>1. \A e \in Ext \ ToSet(extensions) : state[e] = "Unknown" /\ e \notin Filtered
    BY AtResolving DEF ListedOnce
  <2>. QED
    BY <2>1, <1>7, <1>1, <1>3
<1>12. PositionOK' /\ InitializedOK' /\ LoadedOK'
  <2>1. Len(extensions') \in Nat
    BY <1>6, LenProperties
  <2>. QED
    BY <2>1, <1>7 DEF PositionOK, InitializedOK, LoadedOK, SequentialStages
<1>13. ListedOnce'
  BY <1>6, <1>11 DEF ListedOnce
<1>14. FailuresCounted'
  BY <1>7, <1>10, <1>11 DEF FailuresCounted, Bad, Out
<1>15. StatesOK'
  <2>1. ASSUME NEW i \in DOMAIN extensions' PROVE StateAt(i)'
    <3>1. extensions'[i] \in ToSet(extensions) /\ i \in Nat /\ i >= 1
      <4>1. extensions'[i] \in ToSet(extensions')
        BY DEF ToSet
      <4>2. Len(extensions') \in Nat /\ DOMAIN extensions' = 1..Len(extensions')
        BY <1>6, LenProperties
      <4>. QED
        BY <4>1, <4>2, <1>6
    <3>2. state'[extensions'[i]] \in {"Resolved"} \cup Out
      BY <3>1, <1>10
    <3>. QED
      BY <3>1, <3>2, <1>7 DEF StateAt, Ahead, SequentialStages
  <2>. QED
    BY <2>1 DEF StatesOK
<1>16. PointersOK'
  <2>1. \A e \in Ext : state'[e] \notin Callable
    BY <1>10, <1>11 DEF Callable, Out
  <2>. QED
    BY <2>1, <1>6, AtResolving, ManagerAssumption DEF PointersOK, Plugins
<1>. QED
  BY <1>9, <1>12, <1>13, <1>14, <1>15, <1>16

LEMMA ResolveStep == ASSUME IInv, Resolve PROVE IInv'
<1>1. /\ pc = "Resolving" /\ pos' = 1
      /\ UNCHANGED <<initialized, languageModule, live, exportedTo, failureTracker,
                     loadedModules, runningModules, inits, aborted>>
      /\ RestoreResult \/ \E order \in LoadOrders : BuildResult(order)
  BY DEF Resolve, historyVars
<1>. QED
  BY <1>1, RestoreResultStep, BuildResultStep

LEMMA StutterStep == ASSUME IInv, UNCHANGED vars PROVE IInv'
<1>. USE DEF IInv, vars, pipelineVars, graphVars, historyVars
<1>1. TypeOK' /\ PositionOK' /\ ListedOnce'
  BY DEF TypeOK, PositionOK, ListedOnce
<1>2. FailuresCounted' /\ LoadedOK' /\ InitializedOK' /\ PointersOK'
  BY DEF FailuresCounted, LoadedOK, InitializedOK, PointersOK
<1>3. StatesOK'
  BY DEF StatesOK, StateAt
<1>. QED
  BY <1>1, <1>2, <1>3

LEMMA NextIInv == ASSUME IInv, [Next]_vars PROVE IInv'
<1>1. CASE Discover \/ Update \/ Terminate \/ Destroy
  BY <1>1, DiscoverStep, UpdateStep, TerminateStep, DestroyStep
<1>2. CASE \E e \in Ext : StartParsing(e) \/ FinishParsing(e)
  BY <1>2, ParsingStep
<1>3. CASE EndParsing \/ FilterByPolicy \/ Resolve
  BY <1>3, EndParsingStep, FilterByPolicyStep, ResolveStep
<1>4. CASE PassItem \/ SkipItem \/ StartItem
  BY <1>4, PassItemStep, SkipItemStep, StartItemStep
<1>5. CASE LoadModule \/ LoadPlugin \/ ExportPlugin \/ StartPlugin \/ SetRunning
  BY <1>5, LoadModuleStep, LoadPluginStep, ExportPluginStep, StartPluginStep, SetRunningStep
<1>6. CASE EndStage \/ FinishInitialize \/ UpdateItem
  BY <1>6, EndStageStep, FinishInitializeStep, UpdateItemStep
<1>7. CASE EndItem \/ EndedAll \/ UnloadItem \/ FinishTerminate
  BY <1>7, EndItemStep, EndedAllStep, UnloadItemStep, FinishTerminateStep
<1>8. CASE Destroyed \/ UNCHANGED vars
  BY <1>8, StutterStep DEF Destroyed
<1>. QED
  BY <1>1, <1>2, <1>3, <1>4, <1>5, <1>6, <1>7, <1>8 DEF Next, Progress

-----------------------------------------------------------------------------
(* The theorems. *)

\* IInv holds in every reachable state of the manager.
THEOREM Invariance == Spec => []IInv
<1>1. Init => IInv
  BY InitIInv
<1>2. IInv /\ [Next]_vars => IInv'
  BY NextIInv
<1>. QED
  BY <1>1, <1>2, PTL DEF Spec

\* Every variable of Manager::Impl, its stages and its extensions keeps its type.
THEOREM TypeCorrect == Spec => []TypeOK
<1>1. IInv => TypeOK
  BY DEF IInv
<1>. QED
  BY <1>1, Invariance, PTL

\* No extension the manager still calls about, and no pointer it keeps, leads
\* to a language module that Terminate has shut down, however the plugins and
\* modules are arranged and whatever failed or was retried before.
THEOREM NoUseAfterShutdownHolds == Spec => []NoUseAfterShutdown
<1>1. IInv => NoUseAfterShutdown
  BY DEF IInv, PointersOK, NoUseAfterShutdown
<1>. QED
  BY <1>1, Invariance, PTL

-----------------------------------------------------------------------------
(* What success means. *)

\* The dependencies of a listed extension are neither unlisted nor set aside:
\* the resolver installed them with it.
DepsOK ==
  initialized \/ pc \in SequentialStages \/ (pc = "Report" /\ failed = 0) =>
    \A e \in ToSet(extensions) : \A d \in depGraph[e] :
      state[d] \notin Out \cup {"Unknown"}

LEMMA InitDepsOK == Init => DepsOK
BY DEF Init, DepsOK, SequentialStages

\* A step that keeps the graph and the container and sets nothing aside.
LEMMA DepsKept ==
  ASSUME TypeOK, DepsOK, UNCHANGED <<extensions, depGraph>>,
         initialized' => initialized \/ (pc = "Report" /\ failed = 0),
         pc' \in SequentialStages => pc \in SequentialStages,
         pc' = "Report" /\ failed' = 0 => pc \in SequentialStages,
         \A d \in Ext : state'[d] = state[d] \/ state'[d] \notin Out \cup {"Unknown"}
  PROVE  DepsOK'
<1>1. \A e \in ToSet(extensions) : depGraph[e] \subseteq Ext
  BY DEF TypeOK, ToSet
<1>. QED
  BY <1>1 DEF DepsOK

LEMMA ResolveDepsOK == ASSUME IInv, DepsOK, Resolve PROVE DepsOK'
<1>. USE DEF IInv
<1>1. pc = "Resolving" /\ ~initialized /\ ~initialized'
  BY DEF Resolve, InitializedOK
<1>2. CASE RestoreResult
  <2>1. CASE extensions # <<>>
    <3>1. pc' = "Report" /\ failed' # 0
      BY <1>2, <2>1, EmptySeq, LenProperties DEF RestoreResult, TypeOK
    <3>. QED
      BY <3>1, <1>1 DEF DepsOK, SequentialStages
  <2>2. CASE extensions = <<>>
    <3>1. ToSet(extensions) = {} /\ Filtered = {}
      BY <2>2, <1>1, EmptySeq, AtResolving DEF ToSet
    <3>2. PICK filtered \in InListedOrder(Filtered),
               excluded \in InListedOrder(ToSet(extensions) \ Filtered) :
                 extensions' = filtered \o excluded
      BY <1>2 DEF RestoreResult
    <3>3. filtered \in SetToSeqs({}) /\ excluded \in SetToSeqs({})
      BY <3>1, <3>2 DEF InListedOrder
    <3>4. ToSet(extensions') = {}
      BY <3>2, <3>3, Relisted, FS_EmptySet
    <3>. QED
      BY <3>4 DEF DepsOK
  <2>. QED
    BY <2>1, <2>2
<1>3. CASE \E order \in LoadOrders : BuildResult(order)
  <2>1. PICK order \in LoadOrders : BuildResult(order)
    BY <1>3
  <2>. DEFINE R == ToSet(order)
  <2>2. PICK S \in SUBSET Filtered : order \in SetToSeqs(S)
    BY <2>1 DEF LoadOrders
  <2>3. R \subseteq Ext
    BY <2>2, <1>1, AtResolving, Permutation
  <2>4. \A e \in R : Dependencies(e) \subseteq R
    BY <2>1 DEF LoadOrders, Installable
  <2>5. /\ \A e \in R : state'[e] = "Resolved"
        /\ \A e \in Ext : depGraph'[e] = IF e \in R THEN Dependencies(e) \ {e} ELSE {}
    BY <2>1, <2>3 DEF BuildResult
  <2>6. IInv'
    BY ResolveStep
  <2>7. \A e \in ToSet(extensions') : e \in Ext
    BY <2>6 DEF TypeOK, ToSet
  <2>. HIDE DEF R
  <2>8. \A e \in ToSet(extensions') : \A d \in depGraph'[e] : state'[d] = "Resolved"
    BY <2>4, <2>5, <2>7
  <2>. QED
    BY <2>8 DEF DepsOK, Out
<1>. QED
  BY <1>2, <1>3 DEF Resolve

LEMMA NextDepsOK == ASSUME IInv, DepsOK, [Next]_vars PROVE DepsOK'
<1>. USE DEF IInv, pipelineVars, graphVars, historyVars
<1>1. CASE Discover \/ Destroy \/ EndParsing \/ FilterByPolicy
           \/ \E e \in Ext : StartParsing(e) \/ FinishParsing(e)
  <2>1. ~initialized'
    BY <1>1 DEF Discover, Destroy, EndParsing, FilterByPolicy, StartParsing, FinishParsing,
                InitializedOK
  <2>2. /\ pc' \notin SequentialStages
        /\ pc' = "Report" => failed' # 0
    <3>1. CASE EndParsing
      BY <3>1 DEF EndParsing, SequentialStages, TypeOK
    <3>2. CASE ~EndParsing
      BY <1>1, <3>2
      DEF Discover, Destroy, FilterByPolicy, StartParsing, FinishParsing, SequentialStages
    <3>. QED
      BY <3>1, <3>2
  <2>. QED
    BY <2>1, <2>2 DEF DepsOK
<1>2. CASE Resolve
  BY <1>2, ResolveDepsOK
<1>3. CASE Update \/ Terminate \/ EndStage \/ FinishInitialize \/ UpdateItem \/ EndedAll
           \/ FinishTerminate \/ Destroyed \/ UNCHANGED vars
  <2>1. UNCHANGED <<extensions, depGraph>> /\ state' = state
    BY <1>3 DEF Update, Terminate, EndStage, FinishInitialize, UpdateItem, EndedAll,
                FinishTerminate, Destroyed, vars
  <2>2. initialized' => initialized \/ (pc = "Report" /\ failed = 0)
    BY <1>3 DEF Update, Terminate, EndStage, FinishInitialize, UpdateItem, EndedAll,
                FinishTerminate, Destroyed, vars, Succeeded
  <2>3. CASE UNCHANGED vars \/ Destroyed
    BY <2>3 DEF DepsOK, vars, Destroyed
  <2>4. CASE ~(UNCHANGED vars \/ Destroyed)
    <3>1. /\ pc' \in SequentialStages => pc \in SequentialStages
          /\ pc' = "Report" => pc \in SequentialStages
      BY <1>3, <2>4 DEF Update, Terminate, EndStage, FinishInitialize, UpdateItem, EndedAll,
                        FinishTerminate, SequentialStages
    <3>. QED
      BY <2>1, <2>2, <3>1, DepsKept
  <2>. QED
    BY <2>3, <2>4
<1>4. CASE PassItem \/ SkipItem \/ StartItem \/ LoadModule \/ LoadPlugin \/ ExportPlugin
           \/ StartPlugin \/ SetRunning
  <2>1. AtItem /\ UNCHANGED <<extensions, depGraph, initialized, pc>>
    BY <1>4 DEF PassItem, SkipItem, StartItem, LoadModule, LoadPlugin, ExportPlugin,
                StartPlugin, SetRunning
  <2>2. Item \in Ext /\ state \in [Ext -> ExtensionState]
    BY <2>1, ItemAt DEF TypeOK
  <2>3. \/ state' = state
        \/ \E to \in SequentialStages \cup {"Loaded", "Exported", "Started", "Running"} \cup Bad :
             Move(Item, to)
    BY <1>4, <2>1 DEF PassItem, SkipItem, StartItem, LoadModule, LoadPlugin, ExportPlugin,
                StartPlugin, SetRunning, HandleOperationFailure, AtItem, Bad
  <2>4. \A d \in Ext : state'[d] = state[d] \/ state'[d] \notin Out \cup {"Unknown"}
    BY <2>2, <2>3 DEF Move, Bad, Out, SequentialStages
  <2>. QED
    BY <2>1, <2>4, DepsKept DEF AtItem
<1>5. CASE EndItem \/ UnloadItem
  <2>1. /\ pc \in {"Ending", "Terminating"} /\ pos > 0
        /\ UNCHANGED <<extensions, depGraph, initialized, pc>>
    BY <1>5 DEF EndItem, UnloadItem
  <2>2. Item \in Ext /\ state \in [Ext -> ExtensionState]
    BY <2>1, ItemListed DEF TypeOK
  <2>3. \/ state' = state
        \/ \E to \in {"Ending", "Ended", "Terminating", "Terminated"} : Move(Item, to)
    BY <1>5 DEF EndItem, UnloadItem
  <2>4. \A d \in Ext : state'[d] = state[d] \/ state'[d] \notin Out \cup {"Unknown"}
    BY <2>2, <2>3 DEF Move, Out
  <2>. QED
    BY <2>1, <2>4, DepsKept DEF SequentialStages
<1>. QED
  BY <1>1, <1>2, <1>3, <1>4, <1>5 DEF Next, Progress

\* Initialize reports success only with every extension running or set aside,
\* and a running extension has all its dependencies running.
THEOREM SuccessMeansRunningHolds == Spec => []SuccessMeansRunning
<1>1. Init => IInv /\ DepsOK
  BY InitIInv, InitDepsOK
<1>2. IInv /\ DepsOK /\ [Next]_vars => (IInv /\ DepsOK)'
  BY NextIInv, NextDepsOK
<1>3. IInv /\ DepsOK => SuccessMeansRunning
  <2>1. SUFFICES ASSUME IInv, DepsOK, initialized, pc \in {"idle", "Updating"}
                 PROVE /\ \A e \in ToSet(extensions) :
                            state[e] \in {"Running", "Unresolved", "Disabled"}
                       /\ \A e \in ToSet(extensions) :
                            state[e] = "Running" => \A d \in depGraph[e] : state[d] = "Running"
    BY DEF SuccessMeansRunning
  <2>2. \A e \in ToSet(extensions) : state[e] \in {"Running"} \cup Out /\ e \in Ext
    BY <2>1 DEF IInv, StatesOK, StateAt, ToSet, TypeOK
  <2>3. ASSUME NEW e \in ToSet(extensions), NEW d \in depGraph[e] PROVE state[d] = "Running"
    <3>1. d \in Ext
      BY <2>1, <2>2, <2>3 DEF IInv, TypeOK
    <3>2. state[d] \notin Out \cup {"Unknown"}
      BY <2>1, <2>3 DEF DepsOK
    <3>3. d \in ToSet(extensions)
      BY <2>1, <3>1, <3>2 DEF IInv, ListedOnce
    <3>. QED
      BY <3>2, <3>3, <2>2
  <2>. QED
    BY <2>2, <2>3 DEF Out
<1>. QED
  BY <1>1, <1>2, <1>3, PTL DEF Spec

-----------------------------------------------------------------------------
(* State changes. *)

\* The rows of the transition table that the manager uses.
LEMMA ValidRows ==
  /\ IsValidTransition("Discovered", "Parsing")
  /\ IsValidTransition("Parsing", "Parsed") /\ IsValidTransition("Parsing", "Corrupted")
  /\ IsValidTransition("Parsed", "Resolving") /\ IsValidTransition("Parsed", "Disabled")
  /\ IsValidTransition("Resolving", "Resolved") /\ IsValidTransition("Resolving", "Unresolved")
  /\ IsValidTransition("Resolved", "Loading") /\ IsValidTransition("Resolved", "Skipped")
  /\ IsValidTransition("Loading", "Loaded") /\ IsValidTransition("Loading", "Failed")
  /\ IsValidTransition("Loaded", "Running") /\ IsValidTransition("Loaded", "Exporting")
  /\ IsValidTransition("Loaded", "Skipped")
  /\ IsValidTransition("Exporting", "Exported") /\ IsValidTransition("Exporting", "Failed")
  /\ IsValidTransition("Exported", "Starting") /\ IsValidTransition("Exported", "Skipped")
  /\ IsValidTransition("Starting", "Started") /\ IsValidTransition("Starting", "Failed")
  /\ IsValidTransition("Started", "Running")
  /\ IsValidTransition("Running", "Ending") /\ IsValidTransition("Ending", "Ended")
  /\ IsValidTransition("Ended", "Terminating") /\ IsValidTransition("Terminating", "Terminated")
BY DEF IsValidTransition, ValidTransitions

\* An item only moves along the table.
LEMMA ValidMove ==
  ASSUME TypeOK, NEW e \in Ext, NEW to, Move(e, to), IsValidTransition(state[e], to)
  PROVE  \A x \in Ext : state'[x] = state[x] \/ IsValidTransition(state[x], state'[x])
<1>1. \A x \in Ext \ {e} : state'[x] = state[x]
  BY DEF Move, TypeOK
<1>2. state'[e] = to
  BY DEF Move, TypeOK
<1>. QED
  BY <1>1, <1>2

\* The resolver answers for the extensions the filters let through.
LEMMA ResolveValid ==
  ASSUME IInv, Resolve
  PROVE  \A x \in Ext : state'[x] = state[x] \/ IsValidTransition(state[x], state'[x])
<1>1. CASE RestoreResult
  BY <1>1 DEF RestoreResult
<1>2. CASE \E order \in LoadOrders : BuildResult(order)
  <2>1. PICK order \in LoadOrders : BuildResult(order)
    BY <1>2
  <2>2. PICK S \in SUBSET Filtered : order \in SetToSeqs(S)
    BY <2>1 DEF LoadOrders
  <2>3. ToSet(order) \subseteq Filtered
    BY <2>2, AtResolving, Permutation DEF Resolve
  <2>4. \A x \in Ext : \/ state'[x] = state[x]
                       \/ x \in Filtered /\ state'[x] \in {"Resolved", "Unresolved"}
    BY <2>1, <2>3 DEF BuildResult
  <2>. QED
    BY <2>4, ValidRows DEF Filtered
<1>. QED
  BY <1>1, <1>2 DEF Resolve

\* Every SetState of the manager satisfies the assertion in SetState, and only
\* discovery, which replaces the objects, starts a state over.
THEOREM ValidStateChangesHold == Spec => ValidStateChanges
<1>. DEFINE Valid == \A e \in Ext :
       \/ state'[e] = state[e]
       \/ IsValidTransition(state[e], state'[e])
       \/ pc = "idle" /\ state'[e] \in {"Unknown", "Discovered"}
<1>1. ASSUME IInv, [Next]_vars PROVE [Valid]_vars
  <2>. USE <1>1 DEF IInv
  <2>1. CASE Discover
    BY <2>1 DEF Discover
  <2>2. CASE FilterByPolicy
    BY <2>2, ValidRows DEF FilterByPolicy
  <2>3. CASE Resolve
    BY <2>3, ResolveValid
  <2>4. CASE \E e \in Ext : StartParsing(e) \/ FinishParsing(e)
    BY <2>4, ValidMove, ValidRows DEF StartParsing, FinishParsing
  <2>5. CASE SkipItem \/ StartItem
    <3>1. Item \in Ext
      BY <2>5, ItemAt DEF SkipItem, StartItem
    <3>. QED
      BY <2>5, <3>1, ValidMove, ValidRows DEF SkipItem, StartItem, ShouldProcess
  <2>6. CASE LoadModule \/ LoadPlugin \/ ExportPlugin \/ StartPlugin \/ SetRunning
    <3>1. Item \in Ext
      BY <2>6, ItemAt DEF LoadModule, LoadPlugin, ExportPlugin, StartPlugin, SetRunning
    <3>2. \E to : Move(Item, to) /\ IsValidTransition(state[Item], to)
      BY <2>6, ValidRows
      DEF LoadModule, LoadPlugin, ExportPlugin, StartPlugin, SetRunning,
          HandleOperationFailure
    <3>. QED
      BY <3>1, <3>2, ValidMove
  <2>7. CASE EndItem \/ UnloadItem
    <3>1. Item \in Ext
      BY <2>7, ItemListed DEF EndItem, UnloadItem
    <3>2. \/ state' = state
          \/ \E to : Move(Item, to) /\ IsValidTransition(state[Item], to)
      BY <2>7, ValidRows DEF EndItem, UnloadItem
    <3>. QED
      BY <3>1, <3>2, ValidMove
  <2>8. CASE \/ Update \/ Terminate \/ Destroy \/ Destroyed \/ EndParsing \/ PassItem
             \/ EndStage \/ FinishInitialize \/ UpdateItem \/ EndedAll \/ FinishTerminate
             \/ UNCHANGED vars
    BY <2>8 DEF Update, Terminate, Destroy, Destroyed, EndParsing, PassItem, EndStage,
                FinishInitialize, UpdateItem, EndedAll, FinishTerminate, vars
  <2>. QED
    BY <2>1, <2>2, <2>3, <2>4, <2>5, <2>6, <2>7, <2>8 DEF Next, Progress
<1>. QED
  BY <1>1, Invariance, PTL DEF Spec, ValidStateChanges

-----------------------------------------------------------------------------
(* Initialize and Shutdown of a module. *)

\* An Initialize of the manager that fails leaves each module initialized once
\* more at most, and a manager that is not initialized owes no more than that.
LiveOK ==
  /\ pc = "Updating" => initialized
  /\ pc \in {"Ending", "Terminating"} => initialized
  /\ \A m \in Modules : live[m] <= aborted + (IF languageModule[m] # None THEN 1 ELSE 0)
  /\ pc \in {"idle", "destroyed"} /\ ~initialized => \A m \in Modules : live[m] <= aborted

LEMMA LiveBalance == ASSUME TypeOK, LiveOK PROVE ShutdownsBalance
BY DEF TypeOK, LiveOK, ShutdownsBalance

\* A step that leaves the pointers of the modules, and what counts them, alone.
LEMMA LiveKept ==
  ASSUME LiveOK, live' = live, aborted' = aborted, initialized' = initialized,
         \A m \in Modules : languageModule'[m] = languageModule[m],
         pc' = "Updating" => pc = "Updating" \/ initialized,
         pc' \in {"Ending", "Terminating"} => initialized,
         pc' \in {"idle", "destroyed"} => pc \in {"idle", "destroyed"} \/ initialized
  PROVE  LiveOK'
BY DEF LiveOK

LEMMA LoadModuleLive == ASSUME IInv, LiveOK, LoadModule PROVE LiveOK'
<1>. USE DEF IInv
<1>1. /\ AtItem /\ Item \in Modules /\ state[Item] = "Loading"
      /\ aborted' = aborted /\ initialized' = initialized /\ pc' = pc
  BY DEF LoadModule, historyVars
<1>2. /\ pc \in SequentialStages /\ Item \in Ext /\ Item \in Modules
      /\ live \in [Modules -> Nat] /\ languageModule \in [Ext -> Modules \cup {None}]
      /\ aborted \in Nat /\ Modules \subseteq Ext /\ None \notin Ext
  BY <1>1, ManagerAssumption DEF ManagerAssumption, AtItem, TypeOK
<1>3. languageModule[Item] = None
  BY <1>1, <1>2 DEF PointersOK, Callable, Bad
<1>4. CASE UNCHANGED <<live, languageModule>>
  BY <1>1, <1>2, <1>4, LiveKept DEF SequentialStages
<1>5. CASE LoadLanguageModule(Item)
  <2>1. /\ live' = [live EXCEPT ![Item] = @ + 1]
        /\ languageModule' = [languageModule EXCEPT ![Item] = Item]
    BY <1>5 DEF LoadLanguageModule
  <2>. DEFINE i == Item
  <2>2. /\ i \in Modules /\ i # None
        /\ live'[i] = live[i] + 1 /\ languageModule'[i] = i
        /\ \A m \in Modules : m # i => live'[m] = live[m] /\ languageModule'[m] = languageModule[m]
    BY <1>1, <1>2, <2>1
  <2>. HIDE DEF i
  <2>3. live[i] <= aborted /\ live[i] \in Nat
    BY <1>2, <1>3, <2>2 DEF LiveOK, i
  <2>4. \A m \in Modules : live'[m] <= aborted + (IF languageModule'[m] # None THEN 1 ELSE 0)
    BY <1>2, <2>2, <2>3 DEF LiveOK
  <2>. QED
    BY <1>1, <1>2, <2>4 DEF LiveOK, SequentialStages
<1>. QED
  BY <1>4, <1>5 DEF LoadModule

LEMMA UnloadItemLive == ASSUME IInv, LiveOK, UnloadItem PROVE LiveOK'
<1>. USE DEF IInv
<1>1. /\ pc = "Terminating" /\ pos > 0
      /\ aborted' = aborted /\ initialized' = initialized /\ pc' = pc
  BY DEF UnloadItem, historyVars
<1>2. /\ Item \in Ext /\ live \in [Modules -> Nat]
      /\ languageModule \in [Ext -> Modules \cup {None}]
      /\ aborted \in Nat /\ Modules \subseteq Ext
  BY <1>1, ItemListed, ManagerAssumption DEF ManagerAssumption, TypeOK
<1>3. CASE UNCHANGED <<live, languageModule>>
  BY <1>1, <1>3, LiveKept DEF LiveOK
<1>4. CASE Item \notin Modules /\ UnloadPlugin(Item)
  <2>1. live' = live /\ \A m \in Modules : languageModule'[m] = languageModule[m]
    BY <1>2, <1>4 DEF UnloadPlugin
  <2>. QED
    BY <1>1, <2>1, LiveKept DEF LiveOK
<1>5. CASE Item \in Modules /\ UnloadModule(Item)
  <2>. DEFINE i == Item
  <2>1. /\ i \in Modules /\ languageModule'[i] = None
        /\ live'[i] = IF languageModule[i] # None THEN live[i] - 1 ELSE live[i]
        /\ \A m \in Modules : m # i => live'[m] = live[m] /\ languageModule'[m] = languageModule[m]
    BY <1>2, <1>5 DEF UnloadModule
  <2>. HIDE DEF i
  <2>2. live[i] \in Nat /\ live[i] <= aborted + (IF languageModule[i] # None THEN 1 ELSE 0)
    BY <1>2, <2>1 DEF LiveOK
  <2>3. live'[i] <= aborted
    BY <1>2, <2>1, <2>2
  <2>4. \A m \in Modules : live'[m] <= aborted + (IF languageModule'[m] # None THEN 1 ELSE 0)
    BY <1>2, <2>1, <2>3 DEF LiveOK
  <2>. QED
    BY <1>1, <2>4 DEF LiveOK
<1>. QED
  BY <1>3, <1>4, <1>5 DEF UnloadItem

LEMMA FinishTerminateLive == ASSUME IInv, LiveOK, FinishTerminate PROVE LiveOK'
<1>. USE DEF IInv
<1>1. /\ pc = "Terminating" /\ pos = 0 /\ pc' = "idle"
      /\ UNCHANGED <<live, aborted, languageModule>>
  BY DEF FinishTerminate, historyVars
<1>2. ASSUME NEW m \in Modules PROVE languageModule[m] = None
  <2>1. SUFFICES ASSUME languageModule[m] # None PROVE FALSE
    OBVIOUS
  <2>2. m \in Ext /\ state[m] \in Callable \cup Bad
    BY <2>1, ManagerAssumption DEF ManagerAssumption, PointersOK
  <2>3. m \in ToSet(extensions)
    BY <2>2 DEF ListedOnce, Callable, Bad
  <2>4. PICK i \in DOMAIN extensions : extensions[i] = m
    BY <2>3 DEF ToSet
  <2>5. i > pos
    BY <1>1, <2>4, LenProperties DEF TypeOK
  <2>6. state[m] \in {"Terminated"} \cup Out
    BY <1>1, <2>4, <2>5 DEF StatesOK, StateAt
  <2>. QED
    BY <2>2, <2>6 DEF Callable, Bad, Out
<1>3. \A m \in Modules : live[m] <= aborted
  BY <1>2 DEF LiveOK, TypeOK
<1>. QED
  BY <1>1, <1>2, <1>3 DEF LiveOK, TypeOK

LEMMA FinishInitializeLive == ASSUME IInv, LiveOK, FinishInitialize PROVE LiveOK'
<1>1. /\ pc' = "idle" /\ UNCHANGED <<live, languageModule>>
      /\ \/ initialized' /\ aborted' = aborted
         \/ ~initialized' /\ aborted' = aborted + 1
  BY DEF FinishInitialize, Succeeded
<1>2. live \in [Modules -> Nat] /\ aborted \in Nat
  BY DEF IInv, TypeOK
<1>3. \A m \in Modules : live[m] <= aborted + 1
  BY <1>2 DEF LiveOK
<1>. QED
  BY <1>1, <1>2, <1>3 DEF LiveOK

LEMMA DiscoverLive == ASSUME IInv, LiveOK, Discover PROVE LiveOK'
<1>1. /\ pc = "idle" /\ ~initialized /\ pc' = "Parsing"
      /\ live' = live /\ aborted' = aborted
      /\ languageModule' = [e \in Ext |-> None]
  BY DEF Discover, historyVars
<1>2. Modules \subseteq Ext /\ None \notin Modules
  BY ManagerAssumption DEF ManagerAssumption
<1>3. live \in [Modules -> Nat] /\ aborted \in Nat
  BY DEF IInv, TypeOK
<1>4. \A m \in Modules : live[m] <= aborted /\ languageModule'[m] = None
  BY <1>1, <1>2 DEF LiveOK
<1>. QED
  BY <1>1, <1>3, <1>4 DEF LiveOK

LEMMA LoadPluginLive == ASSUME IInv, LiveOK, LoadPlugin PROVE LiveOK'
<1>1. /\ AtItem /\ Item \in Plugins /\ pc' = pc
      /\ UNCHANGED <<live, aborted, initialized>>
      /\ \E module : languageModule' = [languageModule EXCEPT ![Item] = module]
  BY DEF LoadPlugin, historyVars
<1>2. Modules \subseteq Ext /\ languageModule \in [Ext -> Modules \cup {None}]
  BY ManagerAssumption DEF ManagerAssumption, IInv, TypeOK
<1>3. \A m \in Modules : languageModule'[m] = languageModule[m]
  BY <1>1, <1>2 DEF Plugins
<1>. QED
  BY <1>1, <1>3, LiveKept DEF AtItem, SequentialStages

LEMMA InitLive == Init => LiveOK
BY DEF Init, LiveOK

LEMMA NextLive == ASSUME IInv, LiveOK, [Next]_vars PROVE LiveOK'
<1>. USE DEF historyVars
<1>1. CASE Discover
  BY <1>1, DiscoverLive
<1>2. CASE \/ EndParsing \/ FilterByPolicy \/ Resolve \/ EndStage
           \/ \E e \in Ext : StartParsing(e) \/ FinishParsing(e)
  <2>1. UNCHANGED <<live, aborted, initialized, languageModule>>
    BY <1>2 DEF EndParsing, FilterByPolicy, Resolve, EndStage, StartParsing, FinishParsing
  <2>2. pc' \in {"Parsing", "Resolution", "Resolving", "Report"} \cup SequentialStages
    BY <1>2 DEF EndParsing, FilterByPolicy, Resolve, RestoreResult, BuildResult, EndStage,
                NextStage, StartParsing, FinishParsing, SequentialStages
  <2>. QED
    BY <2>1, <2>2, LiveKept DEF SequentialStages
<1>3. CASE PassItem \/ SkipItem \/ StartItem \/ ExportPlugin \/ StartPlugin \/ SetRunning
  <2>1. AtItem /\ UNCHANGED <<live, aborted, initialized, languageModule, pc>>
    BY <1>3 DEF PassItem, SkipItem, StartItem, ExportPlugin, StartPlugin, SetRunning
  <2>. QED
    BY <2>1, LiveKept DEF AtItem, SequentialStages
<1>4. CASE LoadModule \/ LoadPlugin
  BY <1>4, LoadModuleLive, LoadPluginLive
<1>5. CASE FinishInitialize
  BY <1>5, FinishInitializeLive
<1>6. CASE Update \/ UpdateItem \/ Terminate \/ EndItem \/ EndedAll
  <2>1. initialized /\ UNCHANGED <<live, aborted, initialized, languageModule>>
    BY <1>6 DEF Update, UpdateItem, Terminate, EndItem, EndedAll, LiveOK
  <2>. QED
    BY <2>1, LiveKept
<1>7. CASE UnloadItem \/ FinishTerminate
  BY <1>7, UnloadItemLive, FinishTerminateLive
<1>8. CASE Destroy \/ Destroyed \/ UNCHANGED vars
  <2>1. /\ UNCHANGED <<live, aborted, initialized, languageModule>>
        /\ pc' = pc \/ (pc = "idle" /\ pc' = "destroyed")
    BY <1>8 DEF Destroy, Destroyed, vars
  <2>. QED
    BY <2>1, LiveKept DEF LiveOK
<1>. QED
  BY <1>1, <1>2, <1>3, <1>4, <1>5, <1>6, <1>7, <1>8 DEF Next, Progress

\* A module is shut down once for each time it was initialized, up to one time
\* for each Initialize of the manager that failed: Terminate does not run then.
THEOREM ShutdownsBalanceHolds == Spec => []ShutdownsBalance
<1>1. Init => LiveOK
  BY InitLive
<1>2. IInv /\ LiveOK /\ [Next]_vars => LiveOK'
  BY NextLive
<1>3. IInv /\ LiveOK => ShutdownsBalance
  BY LiveBalance DEF IInv
<1>. QED
  BY <1>1, <1>2, <1>3, Invariance, PTL DEF Spec

-----------------------------------------------------------------------------
(* Exports before starts. *)

\* The states of a plugin that has been exported, and of one that is started.
Offered == {"Exported", "Starting", "Started", "Running"}
Begun == {"Starting", "Started", "Running"}

\* No plugin is started while another one is still to be exported.
StageAtATime ==
  (\E p \in Plugins : state[p] \in Begun) =>
    \A q \in Plugins : state[q] \notin {"Resolved", "Loading", "Loaded", "Exporting"}

\* Every module that runs took the exports of a plugin that was exported, and
\* ExportingStage has listed every module that runs.
ExportedOK ==
  /\ \A q \in Plugins : state[q] \in Offered /\ "export" \in Hooks[q] =>
       \A m \in Modules : state[m] = "Running" => m \in exportedTo[q]
  /\ pc = "Exporting" =>
       \A m \in Modules : state[m] = "Running" => m \in ToSet(runningModules)

LEMMA ExportsOrder == ASSUME StageAtATime, ExportedOK PROVE ExportsBeforeStarts
BY DEF StageAtATime, ExportedOK, ExportsBeforeStarts, Begun, Offered

\* While a call is in progress the position of its loop tells the states.
LEMMA AtWorkStages ==
  ASSUME IInv, LiveOK, pc \notin {"Report", "idle", "destroyed"}
  PROVE  StageAtATime
<1>. USE DEF IInv
<1>1. ASSUME NEW p \in Plugins, NEW q \in Plugins, state[p] \in Begun,
             state[q] \in {"Resolved", "Loading", "Loaded", "Exporting"}
      PROVE  FALSE
  <2>1. p \in ToSet(extensions) /\ q \in ToSet(extensions)
    BY <1>1 DEF Plugins, ListedOnce, Begun
  <2>2. PICK i \in DOMAIN extensions, j \in DOMAIN extensions :
          extensions[i] = p /\ extensions[j] = q
    BY <2>1 DEF ToSet
  <2>3. i \in Nat /\ j \in Nat /\ pos \in Nat /\ p \notin Modules /\ q \notin Modules
    BY <2>2, <1>1, LenProperties DEF TypeOK, Plugins
  <2>4. StateAt(i) /\ StateAt(j)
    BY <2>2 DEF StatesOK
  <2>5. pc \in {"Parsing", "Resolution", "Resolving", "Loading", "Exporting", "Starting",
                "Updating", "Ending", "Terminating"}
    BY DEF TypeOK, PC, SequentialStages
  <2>6. CASE pc \in {"Parsing", "Resolution", "Resolving", "Loading"}
    BY <1>1, <2>2, <2>3, <2>4, <2>6 DEF StateAt, Begun, Passed, Ahead, Out, Bad
  <2>7. CASE pc = "Exporting"
    BY <1>1, <2>2, <2>3, <2>4, <2>7 DEF StateAt, Begun, Passed, Ahead, Out, Bad
  <2>8. CASE pc = "Starting"
    BY <1>1, <2>2, <2>3, <2>4, <2>8 DEF StateAt, Passed, Ahead, Out, Bad
  <2>9. CASE pc \in {"Updating", "Ending", "Terminating"}
    BY <1>1, <2>2, <2>3, <2>4, <2>9 DEF StateAt, LiveOK, Out
  <2>. QED
    BY <2>5, <2>6, <2>7, <2>8, <2>9
<1>. QED
  BY <1>1 DEF StageAtATime

\* A call returns without moving an extension.
LEMMA ReturnsQuietly ==
  ASSUME [Next]_vars, pc' \in {"Report", "idle", "destroyed"} PROVE state' = state
<1>1. CASE Discover \/ Update \/ Terminate \/ FilterByPolicy \/ EndedAll
           \/ \E e \in Ext : StartParsing(e) \/ FinishParsing(e)
  BY <1>1 DEF Discover, Update, Terminate, FilterByPolicy, EndedAll, StartParsing, FinishParsing
<1>2. CASE Destroy \/ Destroyed \/ EndParsing \/ EndStage \/ FinishInitialize \/ UpdateItem
           \/ FinishTerminate \/ UNCHANGED vars
  BY <1>2 DEF Destroy, Destroyed, EndParsing, EndStage, FinishInitialize, UpdateItem,
              FinishTerminate, vars
<1>3. CASE Resolve
  BY <1>3 DEF Resolve, RestoreResult, BuildResult
<1>4. CASE PassItem \/ SkipItem \/ StartItem \/ LoadModule \/ LoadPlugin \/ ExportPlugin
           \/ StartPlugin \/ SetRunning
  BY <1>4 DEF PassItem, SkipItem, StartItem, LoadModule, LoadPlugin, ExportPlugin,
              StartPlugin, SetRunning, AtItem, SequentialStages
<1>5. CASE EndItem \/ UnloadItem
  BY <1>5 DEF EndItem, UnloadItem
<1>. QED
  BY <1>1, <1>2, <1>3, <1>4, <1>5 DEF Next, Progress

LEMMA NextStageAtATime ==
  ASSUME IInv, LiveOK, StageAtATime, [Next]_vars PROVE StageAtATime'
<1>1. IInv' /\ LiveOK'
  BY NextIInv, NextLive
<1>2. CASE pc' \in {"Report", "idle", "destroyed"}
  BY <1>2, ReturnsQuietly DEF StageAtATime
<1>3. CASE pc' \notin {"Report", "idle", "destroyed"}
  <2>1. (IInv /\ LiveOK /\ pc \notin {"Report", "idle", "destroyed"} => StageAtATime)'
    BY AtWorkStages, PTL
  <2>. QED
    BY <1>1, <1>3, <2>1
<1>. QED
  BY <1>2, <1>3

\* A step that exports nothing and after which no more modules run.
LEMMA ExportedKept ==
  ASSUME ExportedOK, UNCHANGED <<exportedTo, runningModules>>,
         \A e \in Ext : state'[e] \in Offered => state[e] \in Offered,
         \A m \in Modules : state'[m] = "Running" => state[m] = "Running",
         pc' = "Exporting" => pc = "Exporting"
  PROVE  ExportedOK'
BY DEF ExportedOK, Plugins

LEMMA ExportPluginExported == ASSUME IInv, ExportedOK, ExportPlugin PROVE ExportedOK'
<1>. USE DEF IInv
<1>1. /\ AtItem /\ state[Item] = "Exporting" /\ Item \in Ext
      /\ pc' = pc /\ runningModules' = runningModules
  BY ItemAt DEF ExportPlugin
<1>2. pc = "Exporting" /\ Item \in Plugins
  BY <1>1, ItemAt DEF AtItem, SequentialStages, Ahead, Out
<1>3. PICK n \in 0..Len(runningModules) :
        /\ exportedTo' = [exportedTo EXCEPT ![Item] =
                            IF "export" \in Hooks[Item]
                            THEN ToSet(SubSeq(runningModules, 1, n)) ELSE {}]
        /\ \/ n = Len(runningModules) /\ Move(Item, "Exported")
           \/ Move(Item, "Failed")
  BY DEF ExportPlugin, HandleOperationFailure
<1>4. PICK to \in {"Exported", "Failed"} :
        Move(Item, to) /\ (to = "Exported" => n = Len(runningModules))
  BY <1>3
<1>5. /\ state'[Item] = to /\ \A x \in Ext \ {Item} : state'[x] = state[x]
  BY <1>1, <1>4, MoveState DEF ExtensionState
<1>6. SubSeq(runningModules, 1, Len(runningModules)) = runningModules
  BY SubSeqFull DEF TypeOK
<1>7. \A m \in Modules : state'[m] = state[m]
  BY <1>2, <1>5, ManagerAssumption DEF ManagerAssumption, Plugins
<1>8. ASSUME NEW q \in Plugins, state'[q] \in Offered, "export" \in Hooks[q],
             NEW m \in Modules, state'[m] = "Running"
      PROVE  m \in exportedTo'[q]
  <2>1. m \in ToSet(runningModules)
    BY <1>2, <1>7, <1>8 DEF ExportedOK
  <2>2. CASE q = Item
    <3>1. n = Len(runningModules)
      BY <2>2, <1>4, <1>5, <1>8 DEF Offered
    <3>. QED
      BY <2>1, <2>2, <3>1, <1>1, <1>3, <1>6, <1>8 DEF TypeOK
  <2>3. CASE q # Item
    <3>1. exportedTo'[q] = exportedTo[q] /\ state'[q] = state[q]
      BY <2>3, <1>3, <1>5, <1>8 DEF Plugins, TypeOK
    <3>. QED
      BY <3>1, <1>7, <1>8 DEF ExportedOK
  <2>. QED
    BY <2>2, <2>3
<1>9. \A m \in Modules : state'[m] = "Running" => m \in ToSet(runningModules)
  BY <1>2, <1>7 DEF ExportedOK
<1>. QED
  BY <1>1, <1>8, <1>9 DEF ExportedOK

\* LoadingStage sets a module running when no plugin has been exported.
LEMMA SetRunningExported == ASSUME IInv, ExportedOK, SetRunning PROVE ExportedOK'
<1>. USE DEF IInv
<1>1. /\ AtItem /\ Item \in Ext /\ pc' = pc
      /\ UNCHANGED <<exportedTo, runningModules>>
      /\ \/ pc = "Loading" /\ state[Item] = "Loaded" /\ Item \in Modules
         \/ state[Item] = "Started"
      /\ Move(Item, "Running")
  BY ItemAt DEF SetRunning, pipelineVars
<1>2. /\ state'[Item] = "Running" /\ \A x \in Ext \ {Item} : state'[x] = state[x]
  BY <1>1, MoveState DEF ExtensionState
<1>3. CASE pc # "Loading"
  <2>1. Item \in Plugins /\ state[Item] = "Started"
    BY <1>1, <1>3, ItemAt DEF AtItem, SequentialStages, Ahead, Out
  <2>2. \A e \in Ext : state'[e] \in Offered => state[e] \in Offered
    BY <2>1, <1>2 DEF Offered
  <2>3. \A m \in Modules : state'[m] = "Running" => state[m] = "Running"
    BY <2>1, <1>2, ManagerAssumption DEF ManagerAssumption, Plugins
  <2>. QED
    BY <2>2, <2>3, <1>1, ExportedKept
<1>4. CASE pc = "Loading"
  <2>1. Item \in Modules
    BY <1>1, <1>4, ItemAt DEF Ahead, Out
  <2>2. ASSUME NEW q \in Plugins PROVE state[q] \notin Offered
    <3>1. SUFFICES ASSUME state[q] \in Offered PROVE FALSE
      OBVIOUS
    <3>2. q \in Ext /\ q \notin Modules /\ q \in ToSet(extensions)
      BY <3>1 DEF Plugins, ListedOnce, Offered
    <3>3. PICK i \in DOMAIN extensions : extensions[i] = q
      BY <3>2 DEF ToSet
    <3>4. i \in Nat /\ pos \in Nat /\ StateAt(i)
      BY <3>3, LenProperties DEF TypeOK, StatesOK
    <3>. QED
      BY <1>4, <3>1, <3>2, <3>3, <3>4 DEF StateAt, Passed, Ahead, Out, Bad, Offered
  <2>3. \A q \in Plugins : state'[q] \notin Offered
    BY <2>1, <2>2, <1>2 DEF Plugins
  <2>. QED
    BY <2>3, <1>1, <1>4 DEF ExportedOK
<1>. QED
  BY <1>3, <1>4

\* ExportingStage::Setup lists every module that runs.
LEMMA EndStageExported == ASSUME IInv, ExportedOK, EndStage PROVE ExportedOK'
<1>. USE DEF IInv
<1>1. /\ UNCHANGED <<exportedTo, state>> /\ pc' = NextStage
      /\ NextStage = "Exporting" => runningModules' \in InListedOrder(RunningModules)
  BY DEF EndStage
<1>2. ASSUME NextStage = "Exporting", NEW m \in Modules, state[m] = "Running"
      PROVE  m \in ToSet(runningModules')
  <2>1. RunningModules \subseteq Modules /\ IsFiniteSet(RunningModules)
    BY FS_Subset, ManagerAssumption DEF ManagerAssumption, RunningModules
  <2>2. ToSet(runningModules') = RunningModules
    BY <1>1, <1>2, <2>1, Permutation DEF InListedOrder
  <2>3. m \in ToSet(extensions)
    BY <1>2, ManagerAssumption DEF ManagerAssumption, ListedOnce
  <2>. QED
    BY <2>2, <2>3, <1>2 DEF RunningModules
<1>. QED
  BY <1>1, <1>2 DEF ExportedOK

LEMMA InitExported == Init => StageAtATime /\ ExportedOK
BY DEF Init, StageAtATime, ExportedOK, Plugins, Begun, Offered

LEMMA NextExported == ASSUME IInv, ExportedOK, [Next]_vars PROVE ExportedOK'
<1>. USE DEF IInv
<1>1. CASE Discover
  <2>1. pc' = "Parsing" /\ \A e \in Ext : state'[e] \in {"Discovered", "Unknown"}
    BY <1>1 DEF Discover
  <2>. QED
    BY <2>1 DEF ExportedOK, Offered, Plugins
<1>2. CASE \/ EndParsing \/ FilterByPolicy \/ Resolve
           \/ \E e \in Ext : StartParsing(e) \/ FinishParsing(e)
  <2>1. UNCHANGED <<exportedTo, runningModules>> /\ pc' # "Exporting"
    BY <1>2 DEF EndParsing, FilterByPolicy, Resolve, RestoreResult, BuildResult,
                StartParsing, FinishParsing, pipelineVars
  <2>2. \A e \in Ext : state'[e] = state[e] \/ state'[e] \notin Offered
    <3>1. CASE EndParsing
      BY <3>1 DEF EndParsing
    <3>2. CASE FilterByPolicy
      BY <3>2 DEF FilterByPolicy, Offered
    <3>3. CASE Resolve
      <4>1. CASE RestoreResult
        BY <4>1 DEF RestoreResult
      <4>2. CASE \E order \in LoadOrders : BuildResult(order)
        BY <4>2 DEF BuildResult, Offered
      <4>. QED
        BY <3>3, <4>1, <4>2 DEF Resolve
    <3>4. ASSUME NEW x \in Ext, StartParsing(x) \/ FinishParsing(x)
          PROVE  \A e \in Ext : state'[e] = state[e] \/ state'[e] \notin Offered
      BY <3>4 DEF StartParsing, FinishParsing, Move, Offered, TypeOK
    <3>. QED
      BY <1>2, <3>1, <3>2, <3>3, <3>4
  <2>3. /\ \A e \in Ext : state'[e] \in Offered => state[e] \in Offered
        /\ \A m \in Modules : state'[m] = "Running" => state[m] = "Running"
    BY <2>2, ManagerAssumption DEF ManagerAssumption, Offered
  <2>. QED
    BY <2>1, <2>3, ExportedKept
<1>3. CASE PassItem \/ SkipItem \/ StartItem \/ LoadModule \/ LoadPlugin \/ StartPlugin
  <2>1. AtItem /\ Item \in Ext /\ UNCHANGED <<exportedTo, runningModules, pc>>
    BY <1>3, ItemAt DEF PassItem, SkipItem, StartItem, LoadModule, LoadPlugin, StartPlugin,
                        pipelineVars, HandleOperationFailure
  <2>2. \/ state' = state
        \/ \E to \in {"Skipped", "Failed", "Loading", "Exporting", "Loaded"} : Move(Item, to)
        \/ /\ state[Item] \in {"Exported", "Starting"}
           /\ \E to \in {"Starting", "Started"} : Move(Item, to)
    BY <1>3 DEF PassItem, SkipItem, StartItem, LoadModule, LoadPlugin, StartPlugin,
                HandleOperationFailure, ShouldProcess
  <2>3. /\ \A e \in Ext : state'[e] \in Offered => state[e] \in Offered
        /\ \A e \in Ext : state'[e] = "Running" => state[e] = "Running"
    BY <2>1, <2>2 DEF Move, Offered, TypeOK
  <2>. QED
    BY <2>1, <2>3, ExportedKept, ManagerAssumption DEF ManagerAssumption
<1>4. CASE ExportPlugin \/ SetRunning \/ EndStage
  BY <1>4, ExportPluginExported, SetRunningExported, EndStageExported
<1>5. CASE FinishInitialize
  BY <1>5 DEF FinishInitialize, ExportedOK
<1>6. CASE Update \/ Terminate \/ Destroy \/ Destroyed \/ UpdateItem \/ EndedAll
           \/ FinishTerminate \/ UNCHANGED vars
  <2>1. UNCHANGED <<exportedTo, runningModules, state>> /\ (pc' = "Exporting" => pc = "Exporting")
    BY <1>6 DEF Update, Terminate, Destroy, Destroyed, UpdateItem, EndedAll, FinishTerminate,
                vars, pipelineVars
  <2>. QED
    BY <2>1, ExportedKept
<1>7. CASE EndItem \/ UnloadItem
  <2>1. /\ pc \in {"Ending", "Terminating"} /\ pos > 0 /\ Item \in Ext
        /\ UNCHANGED <<exportedTo, runningModules, pc>>
    BY <1>7, ItemListed DEF EndItem, UnloadItem, pipelineVars
  <2>2. \/ state' = state
        \/ \E to \in {"Ending", "Ended", "Terminating", "Terminated"} : Move(Item, to)
    BY <1>7 DEF EndItem, UnloadItem
  <2>3. /\ \A e \in Ext : state'[e] \in Offered => state[e] \in Offered
        /\ \A e \in Ext : state'[e] = "Running" => state[e] = "Running"
    BY <2>1, <2>2 DEF Move, Offered, TypeOK
  <2>. QED
    BY <2>1, <2>3, ExportedKept, ManagerAssumption DEF ManagerAssumption
<1>. QED
  BY <1>1, <1>2, <1>3, <1>4, <1>5, <1>6, <1>7 DEF Next, Progress

\* OnPluginStart is called when every plugin of the run has been exported to
\* every language module that runs, whichever of them failed on the way.
THEOREM ExportsBeforeStartsHolds == Spec => []ExportsBeforeStarts
<1>1. Init => LiveOK /\ StageAtATime /\ ExportedOK
  BY InitLive, InitExported
<1>2. IInv /\ LiveOK /\ StageAtATime /\ ExportedOK /\ [Next]_vars
        => (LiveOK /\ StageAtATime /\ ExportedOK)'
  BY NextLive, NextStageAtATime, NextExported
<1>3. StageAtATime /\ ExportedOK => ExportsBeforeStarts
  BY ExportsOrder
<1>. QED
  BY <1>1, <1>2, <1>3, Invariance, PTL DEF Spec

-----------------------------------------------------------------------------
(* Life-times. *)

\* No language module requires a plugin.
ModulesAlone == \A m \in Modules : Requires[m] \cap Plugins = {}

\* The graph is the one the container was ordered by.
Ordered == initialized \/ pc \in SequentialStages \/ (pc = "Report" /\ failed = 0)

\* Off the cycles a dependency stands earlier in the container.
OrderOK ==
  /\ Ordered =>
       \A i, j \in DOMAIN extensions :
         i < j /\ extensions[j] \in depGraph[extensions[i]]
           => DependsOn(extensions[j], extensions[i])
  /\ \A m \in Modules : depGraph[m] \cap Plugins = {}

LEMMA InitOrder == Init => OrderOK /\ LifetimesNest
BY ManagerAssumption DEF ManagerAssumption, Init, OrderOK, Ordered, SequentialStages, LifetimesNest

LEMMA OrderKept ==
  ASSUME OrderOK, depGraph' = depGraph, Ordered' => Ordered /\ extensions' = extensions
  PROVE  OrderOK'
BY DEF OrderOK, DependsOn

\* What the resolver reaches inside its answer, the graph it leaves reaches.
LEMMA GraphReaches ==
  ASSUME NEW R, R \subseteq Ext, NEW a \in R, NEW b \in R, a # b, Reaches(R, a, b),
         \A e \in Ext : depGraph'[e] = IF e \in R THEN Dependencies(e) \ {e} ELSE {}
  PROVE  DependsOn(a, b)'
<1>1. ASSUME NEW X \in SUBSET Ext, depGraph'[a] \subseteq X,
             \A x \in X : depGraph'[x] \subseteq X
      PROVE  b \in X
  <2>. DEFINE Y == (X \cap R) \cup {a}
  <2>1. Dependencies(a) \cap R \subseteq Y
    BY <1>1
  <2>2. \A x \in Y : Dependencies(x) \cap R \subseteq Y
    <3>1. ASSUME NEW x \in X \cap R, NEW y \in Dependencies(x) \cap R PROVE y \in Y
      <4>1. y = x \/ y \in depGraph'[x]
        BY <3>1
      <4>. QED
        BY <4>1, <3>1, <1>1
    <3>. QED
      BY <2>1, <3>1
  <2>3. Y \in SUBSET R
    OBVIOUS
  <2>. HIDE DEF Y
  <2>4. b \in Y
    BY <2>1, <2>2, <2>3 DEF Reaches
  <2>. QED
    BY <2>4 DEF Y
<1>. QED
  BY <1>1 DEF DependsOn

LEMMA BuildResultOrder ==
  ASSUME IInv, pc = "Resolving", ModulesAlone, NEW order \in LoadOrders, BuildResult(order),
         extensions' \in Seq(Ext),
         \A i, j \in DOMAIN extensions' : extensions'[i] = extensions'[j] => i = j
  PROVE  OrderOK'
<1>. USE DEF IInv
<1>. DEFINE R == ToSet(order)
<1>1. PICK S \in SUBSET Filtered : order \in SetToSeqs(S)
  BY DEF LoadOrders
<1>2. /\ IsFiniteSet(S) /\ S \subseteq Ext /\ Filtered \subseteq Ext
      /\ IsFiniteSet(Filtered \ S) /\ IsFiniteSet(ToSet(extensions) \ Filtered)
  BY <1>1, AtResolving
<1>3. R = S /\ order \in Seq(S)
  BY <1>1, <1>2, Permutation
<1>4. PICK rest \in SetToSeqs(Filtered \ R),
           excluded \in InListedOrder(ToSet(extensions) \ Filtered) :
             extensions' = order \o rest \o excluded
  BY DEF BuildResult
<1>5. order \in Seq(Ext) /\ rest \in Seq(Ext) /\ excluded \in Seq(Ext)
  <2>1. rest \in Seq(Filtered \ S)
    BY <1>2, <1>3, <1>4, Permutation
  <2>2. excluded \in Seq(ToSet(extensions) \ Filtered)
    BY <1>2, <1>4, Permutation DEF InListedOrder
  <2>3. ToSet(extensions) \subseteq Ext
    BY DEF TypeOK, ToSet
  <2>. QED
    BY <2>1, <2>2, <2>3, <1>2, <1>3
<1>6. /\ \A k \in DOMAIN order : k \in DOMAIN extensions' /\ extensions'[k] = order[k]
  <2>1. /\ order \o rest \in Seq(Ext)
        /\ Len(order \o rest) = Len(order) + Len(rest)
        /\ \A k \in 1..Len(order) : (order \o rest)[k] = order[k]
    BY <1>5, ConcatProperties, LenProperties
  <2>. DEFINE front == order \o rest
  <2>2. /\ Len(front \o excluded) = Len(front) + Len(excluded)
        /\ front \o excluded \in Seq(Ext)
        /\ \A k \in 1..Len(front) : (front \o excluded)[k] = front[k]
    BY <1>5, <2>1, ConcatProperties, LenProperties
  <2>. HIDE DEF front
  <2>3. Len(order) \in Nat /\ Len(rest) \in Nat /\ Len(excluded) \in Nat /\ Len(front) \in Nat
    BY <1>5, <2>1, LenProperties DEF front
  <2>4. extensions' = front \o excluded
    BY <1>4 DEF front
  <2>5. DOMAIN order = 1..Len(order) /\ DOMAIN extensions' = 1..Len(extensions')
    BY <1>5, LenProperties
  <2>. QED
    BY <2>1, <2>2, <2>3, <2>4, <2>5 DEF front
<1>7. \A e \in Ext : depGraph'[e] = IF e \in R THEN Dependencies(e) \ {e} ELSE {}
  BY DEF BuildResult
<1>8. \A e \in R : Dependencies(e) \subseteq R
  BY DEF LoadOrders, Installable
<1>9. \A i, j \in DOMAIN order :
        i < j /\ order[j] \in Dependencies(order[i]) => Reaches(R, order[j], order[i])
  BY DEF LoadOrders
<1>10. \A x \in R : \E k \in DOMAIN order : order[k] = x
  BY DEF ToSet
<1>. HIDE DEF R
<1>11. ASSUME NEW i \in DOMAIN extensions', NEW j \in DOMAIN extensions', i < j,
              extensions'[j] \in depGraph'[extensions'[i]]
       PROVE  DependsOn(extensions[j], extensions[i])'
  <2>1. PICK e \in Ext, d \in Ext : e = extensions'[i] /\ d = extensions'[j]
    BY <1>11
  <2>2. e \in R /\ d \in Dependencies(e) /\ d # e /\ d \in R
    <3>1. d \in depGraph'[e]
      BY <2>1, <1>11
    <3>2. e \in R
      BY <3>1, <1>7
    <3>3. d \in Dependencies(e) /\ d # e
      BY <3>1, <3>2, <1>7
    <3>. QED
      BY <3>2, <3>3, <1>8
  <2>3. PICK a \in DOMAIN order, b \in DOMAIN order : order[a] = e /\ order[b] = d
    BY <2>2, <1>10
  <2>4. a = i /\ b = j
    BY <2>1, <2>3, <1>6
  <2>5. Reaches(R, d, e)
    BY <2>2, <2>3, <2>4, <1>9, <1>11
  <2>6. R \subseteq Ext
    BY <1>2, <1>3
  <2>7. DependsOn(d, e)'
    BY <2>2, <2>5, <2>6, <1>7, GraphReaches
  <2>. QED
    BY <2>1, <2>7 DEF DependsOn
<1>12. ASSUME NEW m \in Modules PROVE depGraph'[m] \cap Plugins = {}
  <2>1. m \in Ext /\ m \notin Plugins
    BY ManagerAssumption DEF ManagerAssumption, Plugins
  <2>2. Dependencies(m) = Requires[m]
    BY <2>1 DEF Dependencies
  <2>. QED
    BY ZenonT(60), <2>1, <2>2, <1>7 DEF ModulesAlone
<1>. QED
  BY <1>11, <1>12 DEF OrderOK

\* The graph the resolver leaves is the one it ordered the container by.
LEMMA ResolveOrder == ASSUME IInv, ModulesAlone, OrderOK, Resolve PROVE OrderOK'
<1>1. pc = "Resolving" /\ ~initialized'
  BY DEF Resolve, IInv, InitializedOK
<1>2. TypeOK' /\ ListedOnce'
  BY ResolveStep DEF IInv
<1>3. CASE RestoreResult
  <2>1. CASE extensions # <<>>
    <3>1. pc' = "Report" /\ failed' # 0 /\ depGraph' = depGraph
      BY <1>3, <2>1, EmptySeq, LenProperties DEF RestoreResult, graphVars, IInv, TypeOK
    <3>. QED
      BY <3>1, <1>1, OrderKept DEF Ordered, SequentialStages
  <2>2. CASE extensions = <<>>
    <3>1. ToSet(extensions) = {} /\ Filtered = {}
      BY <2>2, <1>1, EmptySeq, AtResolving DEF ToSet
    <3>2. PICK filtered \in InListedOrder(Filtered),
               excluded \in InListedOrder(ToSet(extensions) \ Filtered) :
                 extensions' = filtered \o excluded
      BY <1>3 DEF RestoreResult
    <3>3. filtered \in SetToSeqs({}) /\ excluded \in SetToSeqs({})
      BY <3>1, <3>2 DEF InListedOrder
    <3>4. ToSet(extensions') = {}
      BY <3>2, <3>3, Relisted, FS_EmptySet
    <3>. QED
      BY <3>4, <1>3 DEF OrderOK, ToSet, RestoreResult, graphVars
  <2>. QED
    BY <2>1, <2>2
<1>4. CASE \E order \in LoadOrders : BuildResult(order)
  BY <1>1, <1>2, <1>4, BuildResultOrder DEF TypeOK, ListedOnce
<1>. QED
  BY <1>3, <1>4 DEF Resolve

LEMMA NextOrder == ASSUME IInv, ModulesAlone, OrderOK, [Next]_vars PROVE OrderOK'
<1>. USE DEF pipelineVars, graphVars
<1>1. CASE Resolve
  BY <1>1, ResolveOrder
<1>2. CASE Discover \/ Destroy \/ EndParsing \/ FilterByPolicy
           \/ \E e \in Ext : StartParsing(e) \/ FinishParsing(e)
  <2>1. ~initialized'
    BY <1>2 DEF Discover, Destroy, EndParsing, FilterByPolicy, StartParsing, FinishParsing,
                IInv, InitializedOK
  <2>2. depGraph' = depGraph
    BY <1>2 DEF Discover, Destroy, EndParsing, FilterByPolicy, StartParsing, FinishParsing
  <2>3. pc' \notin SequentialStages /\ (pc' = "Report" => failed' # 0)
    <3>1. CASE EndParsing
      BY <3>1 DEF EndParsing, SequentialStages, IInv, TypeOK
    <3>2. CASE ~EndParsing
      BY <1>2, <3>2
      DEF Discover, Destroy, FilterByPolicy, StartParsing, FinishParsing, SequentialStages
    <3>. QED
      BY <3>1, <3>2
  <2>. QED
    BY <2>1, <2>2, <2>3, OrderKept DEF Ordered
<1>3. CASE PassItem \/ SkipItem \/ StartItem \/ LoadModule \/ LoadPlugin \/ ExportPlugin
           \/ StartPlugin \/ SetRunning
  <2>1. AtItem /\ UNCHANGED <<extensions, depGraph>>
    BY <1>3 DEF PassItem, SkipItem, StartItem, LoadModule, LoadPlugin, ExportPlugin,
                StartPlugin, SetRunning
  <2>. QED
    BY <2>1, OrderKept DEF AtItem, Ordered
<1>4. CASE EndStage \/ FinishInitialize
  <2>1. UNCHANGED <<extensions, depGraph>> /\ (Ordered' => Ordered)
    BY <1>4 DEF EndStage, FinishInitialize, Succeeded, Ordered, SequentialStages
  <2>. QED
    BY <2>1, OrderKept
<1>5. CASE Update \/ UpdateItem \/ Terminate \/ EndItem \/ EndedAll \/ UnloadItem
           \/ FinishTerminate \/ Destroyed \/ UNCHANGED vars
  <2>1. UNCHANGED <<extensions, depGraph>> /\ (Ordered' => Ordered)
    BY <1>5 DEF Update, UpdateItem, Terminate, EndItem, EndedAll, UnloadItem,
                FinishTerminate, Destroyed, vars, Ordered, SequentialStages
  <2>. QED
    BY <2>1, OrderKept
<1>. QED
  BY <1>1, <1>2, <1>3, <1>4, <1>5 DEF Next, Progress

\* While a call is in progress the order of the container nests the life-times.
LEMMA AtWorkNest ==
  ASSUME IInv, LiveOK, DepsOK, OrderOK, pc \notin {"Report", "idle", "destroyed"}
  PROVE  LifetimesNest
<1>. USE DEF IInv
<1>1. ASSUME NEW e \in Ext, NEW d \in depGraph[e] \ {e}, ~DependsOn(d, e),
             state[e] \in Begun \cup {"Ending", "Ended", "Terminating"}
      PROVE  /\ state[e] \in Begun \cup {"Ending"} => state[d] \in {"Running", "Failed", "Skipped"}
             /\ state[e] = "Ended" => state[d] \in {"Running", "Ending", "Ended"}
             /\ state[e] = "Terminating" => state[d] = "Ended"
  <2>1. e \in ToSet(extensions)
    BY <1>1 DEF ListedOnce, Begun
  <2>2. PICK i \in DOMAIN extensions : extensions[i] = e
    BY <2>1 DEF ToSet
  <2>3. i \in Nat /\ pos \in Nat /\ StateAt(i)
    BY <2>2, LenProperties DEF TypeOK, StatesOK
  <2>4. pc \notin {"Parsing", "Resolution", "Resolving"}
    BY <1>1, <2>2, <2>3 DEF StateAt, Begun
  <2>5. pc \in SequentialStages \/ (pc \in {"Updating", "Ending", "Terminating"} /\ initialized)
    BY <2>4 DEF TypeOK, PC, LiveOK
  <2>6. Ordered
    BY <2>5 DEF Ordered
  <2>7. d \in Ext /\ state[d] \notin Out \cup {"Unknown"}
    BY <2>1, <2>6, <1>1 DEF DepsOK, Ordered, TypeOK
  <2>8. PICK j \in DOMAIN extensions : extensions[j] = d
    BY <2>7 DEF ListedOnce, ToSet
  <2>9. j \in Nat /\ StateAt(j) /\ j < i
    <3>1. j \in Nat /\ StateAt(j)
      BY <2>8, LenProperties DEF TypeOK, StatesOK
    <3>2. ~(i < j)
      BY <1>1, <2>2, <2>6, <2>8 DEF OrderOK
    <3>3. i # j
      BY <1>1, <2>2, <2>8
    <3>. QED
      BY <3>1, <3>2, <3>3, <2>3
  <2>10. e \in Modules => d \in Modules
    BY <1>1, <2>6, <2>7 DEF OrderOK, Plugins
  <2>11. CASE pc = "Loading"
    <3>1. i < pos /\ e \in Modules /\ state[e] = "Running"
      BY <1>1, <2>2, <2>3, <2>11 DEF StateAt, Passed, Ahead, Out, Bad, Begun
    <3>. QED
      BY <3>1, <2>3, <2>7, <2>8, <2>9, <2>10, <2>11 DEF StateAt, Passed, Bad
  <2>12. CASE pc = "Exporting"
    <3>1. e \in Modules /\ state[e] = "Running"
      BY <1>1, <2>2, <2>3, <2>12 DEF StateAt, Passed, Ahead, Out, Bad, Begun
    <3>2. d \in Modules /\ d \notin Plugins
      BY <3>1, <2>10 DEF Plugins
    <3>3. state[d] \in {"Running"} \cup Out \cup Bad
      BY <3>2, <2>3, <2>8, <2>9, <2>12 DEF StateAt, Passed, Ahead
    <3>. QED
      BY <3>1, <3>3, <2>7 DEF Bad
  <2>13. CASE pc = "Starting"
    <3>1. /\ state[e] \in Begun
          /\ e \in Modules \/ i <= pos
      BY <1>1, <2>2, <2>3, <2>13 DEF StateAt, Passed, Ahead, Out, Bad, Begun
    <3>2. (d \in Modules /\ d \notin Plugins) \/ j < pos
      BY <3>1, <2>3, <2>9, <2>10 DEF Plugins
    <3>3. state[d] \in {"Running"} \cup Out \cup Bad
      BY <3>2, <2>3, <2>8, <2>9, <2>13 DEF StateAt, Passed, Ahead
    <3>. QED
      BY <3>1, <3>3, <2>7 DEF Bad, Begun
  <2>14. CASE pc = "Updating"
    BY <1>1, <2>2, <2>3, <2>5, <2>7, <2>8, <2>9, <2>14 DEF StateAt, Out, SequentialStages, Begun
  <2>15. CASE pc = "Ending"
    BY <1>1, <2>2, <2>3, <2>7, <2>8, <2>9, <2>15 DEF StateAt, Out, Begun
  <2>16. CASE pc = "Terminating"
    BY <1>1, <2>2, <2>3, <2>7, <2>8, <2>9, <2>16 DEF StateAt, Out, Begun
  <2>. QED
    BY <2>5, <2>11, <2>12, <2>13, <2>14, <2>15, <2>16 DEF SequentialStages
<1>. QED
  BY <1>1 DEF LifetimesNest, Begun

LEMMA NextNest ==
  ASSUME IInv, LiveOK, DepsOK, OrderOK, LifetimesNest, ModulesAlone, [Next]_vars
  PROVE  LifetimesNest'
<1>1. IInv' /\ LiveOK' /\ DepsOK' /\ OrderOK'
  BY NextIInv, NextLive, NextDepsOK, NextOrder
<1>2. CASE pc' \in {"Report", "idle", "destroyed"}
  <2>1. state' = state
    BY <1>2, ReturnsQuietly
  <2>2. depGraph' = depGraph
    <3>1. CASE Resolve
      BY <1>2, <3>1 DEF Resolve, RestoreResult, BuildResult, graphVars
    <3>2. CASE ~Resolve
      BY <3>2 DEF Next, Progress, Discover, Update, Terminate, Destroy, Destroyed, StartParsing,
                  FinishParsing, EndParsing, FilterByPolicy, PassItem, SkipItem, StartItem,
                  LoadModule, LoadPlugin, ExportPlugin, StartPlugin, SetRunning, EndStage,
                  FinishInitialize, UpdateItem, EndItem, EndedAll, UnloadItem,
                  FinishTerminate, graphVars, vars
    <3>. QED
      BY <3>1, <3>2
  <2>. QED
    BY <2>1, <2>2 DEF LifetimesNest, DependsOn
<1>3. CASE pc' \notin {"Report", "idle", "destroyed"}
  <2>1. (IInv /\ LiveOK /\ DepsOK /\ OrderOK /\ pc \notin {"Report", "idle", "destroyed"}
           => LifetimesNest)'
    BY AtWorkNest, PTL
  <2>. QED
    BY <1>1, <1>3, <2>1
<1>. QED
  BY <1>2, <1>3

\* Where no module requires a plugin, the life of an extension lies inside the
\* life of each dependency that does not depend on it in turn: Initialize starts
\* it later, the two loops of Terminate end and unload it earlier.
THEOREM LifetimesNestHolds == ASSUME ModulesAlone PROVE Spec => []LifetimesNest
<1>1. Init => LiveOK /\ DepsOK /\ OrderOK /\ LifetimesNest
  BY InitLive, InitDepsOK, InitOrder
<1>2. IInv /\ LiveOK /\ DepsOK /\ OrderOK /\ LifetimesNest /\ [Next]_vars
        => (LiveOK /\ DepsOK /\ OrderOK /\ LifetimesNest)'
  BY NextLive, NextDepsOK, NextOrder, NextNest
<1>. QED
  BY <1>1, <1>2, Invariance, PTL DEF Spec

-----------------------------------------------------------------------------
(* The manager implements the protocol of LanguageModuleProtocol: every step *)
(* of the manager is a step of the protocol, or leaves alone what a language *)
(* module can see.  The state of the protocol:                               *)

Phases == [p \in Plugins |-> PhaseOf(p)]
Hosts == [p \in Plugins |-> languageModule[p]]
Broken == \E e \in Ext : state[e] \in {"Failed", "Skipped"}

\* The phases by the states they stand for.
LEMMA PhaseRows ==
  ASSUME NEW e
  PROVE  /\ state[e] \in {"Loaded", "Exporting"} => PhaseOf(e) = "loaded"
         /\ state[e] \in {"Exported", "Starting"} => PhaseOf(e) = "exported"
         /\ state[e] \in {"Started", "Running", "Ending"} => PhaseOf(e) = "started"
         /\ state[e] \in {"Ended", "Terminating"} => PhaseOf(e) = "ended"
         /\ state[e] \in {"Failed", "Skipped"} => PhaseOf(e) = "failed"
         /\ state[e] \notin {"Loaded", "Exporting", "Exported", "Starting", "Started", "Running",
                             "Ending", "Ended", "Terminating", "Failed", "Skipped"}
              => PhaseOf(e) = "absent"
BY DEF PhaseOf

\* The same of the next state.
LEMMA PhaseRowsNext ==
  ASSUME NEW e
  PROVE  /\ state'[e] \in {"Loaded", "Exporting"} => PhaseOf(e)' = "loaded"
         /\ state'[e] \in {"Exported", "Starting"} => PhaseOf(e)' = "exported"
         /\ state'[e] \in {"Started", "Running", "Ending"} => PhaseOf(e)' = "started"
         /\ state'[e] \in {"Ended", "Terminating"} => PhaseOf(e)' = "ended"
         /\ state'[e] \in {"Failed", "Skipped"} => PhaseOf(e)' = "failed"
         /\ state'[e] \notin {"Loaded", "Exporting", "Exported", "Starting", "Started", "Running",
                              "Ending", "Ended", "Terminating", "Failed", "Skipped"}
              => PhaseOf(e)' = "absent"
BY DEF PhaseOf

\* In which phases a plugin may be at each point of a call.
LEMMA PhasesAt ==
  ASSUME IInv, NEW p \in Plugins
  PROVE  /\ pc \in {"Parsing", "Resolution", "Resolving"} => PhaseOf(p) = "absent"
         /\ pc = "Loading" => PhaseOf(p) \in {"absent", "loaded", "failed"}
         /\ pc = "Exporting" => PhaseOf(p) \in {"absent", "loaded", "exported", "failed"}
         /\ pc = "Starting" => PhaseOf(p) \in {"absent", "exported", "started", "failed"}
         /\ pc = "Ending" => PhaseOf(p) \in {"absent", "started", "ended"}
         /\ pc = "Terminating" => PhaseOf(p) \in {"absent", "ended"}
<1>. USE DEF IInv
<1>1. p \in Ext /\ p \notin Modules
  BY DEF Plugins
<1>2. CASE state[p] = "Unknown"
  BY <1>2, PhaseRows
<1>3. CASE state[p] # "Unknown"
  <2>1. p \in ToSet(extensions)
    BY <1>1, <1>3 DEF ListedOnce
  <2>2. PICK i \in DOMAIN extensions : extensions[i] = p
    BY <2>1 DEF ToSet
  <2>3. StateAt(i) /\ i \in Nat /\ pos \in Nat
    BY <2>2, LenProperties DEF StatesOK, TypeOK
  <2>4. pc \in {"Parsing", "Resolution", "Resolving"} => PhaseOf(p) = "absent"
    BY <2>2, <2>3, PhaseRows DEF StateAt
  <2>5. pc = "Loading" => state[p] \in {"Loaded", "Resolved", "Loading"} \cup Out \cup Bad
    BY <1>1, <2>2, <2>3 DEF StateAt, Passed, Ahead
  <2>6. pc = "Exporting" => state[p] \in {"Exported", "Loaded", "Exporting"} \cup Out \cup Bad
    BY <1>1, <2>2, <2>3 DEF StateAt, Passed, Ahead
  <2>7. pc = "Starting" => state[p] \in {"Exported", "Starting", "Started", "Running"} \cup Out \cup Bad
    BY <1>1, <2>2, <2>3 DEF StateAt, Passed, Ahead
  <2>8. pc = "Ending" => state[p] \in {"Running", "Ending", "Ended"} \cup Out
    BY <2>2, <2>3 DEF StateAt
  <2>9. pc = "Terminating" => state[p] \in {"Ended", "Terminating", "Terminated"} \cup Out
    BY <2>2, <2>3 DEF StateAt
  <2>10. CASE pc = "Loading"
    BY <2>5, <2>10, PhaseRows DEF Out, Bad
  <2>11. CASE pc = "Exporting"
    BY <2>6, <2>11, PhaseRows DEF Out, Bad
  <2>12. CASE pc = "Starting"
    BY <2>7, <2>12, PhaseRows DEF Out, Bad
  <2>13. CASE pc = "Ending"
    BY <2>8, <2>13, PhaseRows DEF Out
  <2>14. CASE pc = "Terminating"
    BY <2>9, <2>14, PhaseRows DEF Out
  <2>. QED
    BY <2>4, <2>10, <2>11, <2>12, <2>13, <2>14
<1>. QED
  BY <1>2, <1>3

\* Nothing has failed before the sequential stages, nor in a run that ends.
LEMMA NotBroken ==
  ASSUME IInv, pc \in {"Parsing", "Resolution", "Resolving", "Ending", "Terminating"}
  PROVE  ~Broken
<1>. USE DEF IInv
<1>1. SUFFICES ASSUME NEW e \in Ext, state[e] \in {"Failed", "Skipped"} PROVE FALSE
  BY DEF Broken
<1>2. e \in ToSet(extensions)
  BY <1>1 DEF ListedOnce
<1>3. PICK i \in DOMAIN extensions : extensions[i] = e
  BY <1>2 DEF ToSet
<1>4. StateAt(i) /\ i \in Nat /\ pos \in Nat
  BY <1>3, LenProperties DEF StatesOK, TypeOK
<1>. QED
  BY <1>1, <1>3, <1>4 DEF StateAt, Out

-----------------------------------------------------------------------------
(* Steps a language module does not see. *)

LEMMA Unseen ==
  ASSUME \A p \in Plugins : PhaseOf(p)' = PhaseOf(p),
         \A p \in Plugins : languageModule'[p] = languageModule[p],
         live' = live, Broken' = Broken
  PROVE  UNCHANGED Protocol!protocolVars
BY DEF Protocol!protocolVars, Broken

\* One extension moves between states of one phase.
LEMMA UnseenMove ==
  ASSUME TypeOK, NEW e \in Ext, NEW to \in ExtensionState, Move(e, to),
         UNCHANGED <<languageModule, live>>,
         state[e] \notin Bad /\ to \notin Bad,
         e \in Plugins => PhaseOf(e)' = PhaseOf(e)
  PROVE  UNCHANGED Protocol!protocolVars
<1>1. state'[e] = to /\ \A x \in Ext \ {e} : state'[x] = state[x]
  BY MoveState
<1>2. \A p \in Plugins : PhaseOf(p)' = PhaseOf(p)
  BY <1>1 DEF PhaseOf, Plugins
<1>3. Broken' = Broken
  BY <1>1 DEF Broken, Bad
<1>. QED
  BY <1>2, <1>3, Unseen

-----------------------------------------------------------------------------
(* Steps a language module sees. *)

\* What the protocol allows next.
Allowed == Protocol!ProtocolNext \/ UNCHANGED Protocol!protocolVars

\* Only the phase of the extension that moves changes, if it is a plugin.
LEMMA PhaseMove ==
  ASSUME TypeOK, NEW e \in Ext, NEW to \in ExtensionState, Move(e, to)
  PROVE  /\ e \in Plugins => Phases' = [Phases EXCEPT ![e] = PhaseOf(e)']
         /\ e \notin Plugins => Phases' = Phases
         /\ to \in Bad => Broken'
         /\ state[e] \notin Bad /\ to \notin Bad => Broken' = Broken
<1>1. state'[e] = to /\ \A x \in Ext \ {e} : state'[x] = state[x]
  BY MoveState
<1>2. \A p \in Plugins : p # e => PhaseOf(p)' = PhaseOf(p)
  BY <1>1 DEF PhaseOf, Plugins
<1>3. /\ e \in Plugins => Phases' = [Phases EXCEPT ![e] = PhaseOf(e)']
      /\ e \notin Plugins => Phases' = Phases
  BY <1>2 DEF Phases
<1>4. to \in Bad => Broken'
  BY <1>1 DEF Broken, Bad
<1>5. state[e] \notin Bad /\ to \notin Bad => Broken' = Broken
  BY <1>1 DEF Broken, Bad
<1>. QED
  BY <1>3, <1>4, <1>5

\* The plugin the stage is at gets a live module to hold it, or nothing changes.
MayHold ==
  \/ UNCHANGED languageModule
  \/ Item \in Plugins /\ \E m \in Modules :
       live[m] > 0 /\ languageModule' = [languageModule EXCEPT ![Item] = m]

\* A failed or a skipped item.
LEMMA FailAllowed ==
  ASSUME IInv, AtItem, NEW to \in {"Failed", "Skipped"}, Move(Item, to),
         live' = live,
         state[Item] \in {"Resolved", "Loading", "Loaded", "Exporting", "Exported", "Starting"},
         Item \in Modules => pc = "Loading",
         MayHold
  PROVE  Allowed
<1>. USE DEF IInv, MayHold
<1>1. Item \in Ext /\ to \in ExtensionState /\ to \in Bad
  BY ItemAt DEF ExtensionState, Bad
<1>2. Broken'
  BY <1>1, PhaseMove
<1>3. CASE Item \in Modules
  <2>1. Item \notin Plugins /\ Phases' = Phases
    BY <1>1, <1>3, PhaseMove DEF Plugins
  <2>2. Hosts' = Hosts
    BY <2>1 DEF Hosts
  <2>3. \A p \in Plugins : PhaseOf(p) \notin {"exported", "started", "ended"}
    BY <1>3, PhasesAt
  <2>4. Protocol!FailModule
    BY <1>2, <2>1, <2>2, <2>3
    DEF Protocol!FailModule, Protocol!NoneIn, Phases, Hosts, Broken
  <2>. QED
    BY <2>4 DEF Allowed, Protocol!ProtocolNext
<1>4. CASE Item \notin Modules
  <2>1. Item \in Plugins
    BY <1>1, <1>4 DEF Plugins
  <2>. PICK i \in Ext : i = Item
    BY <1>1
  <2>2. /\ PhaseOf(i) \in {"absent", "loaded", "exported"}
        /\ PhaseOf(i)' = "failed"
    <3>1. state'[i] = to
      BY <1>1, MoveState
    <3>. QED
      BY <3>1, PhaseRows, PhaseRowsNext
  <2>3. i \in Plugins /\ Phases' = [Phases EXCEPT ![i] = "failed"] /\ Phases[i] = PhaseOf(i)
    BY <1>1, <2>1, <2>2, PhaseMove DEF Phases
  <2>4. \/ Hosts' = Hosts
        \/ \E m \in Modules : live[m] > 0 /\ Hosts' = [Hosts EXCEPT ![i] = m]
    <3>1. CASE UNCHANGED languageModule
      BY <3>1 DEF Hosts
    <3>2. ASSUME NEW m \in Modules, live[m] > 0,
                 languageModule' = [languageModule EXCEPT ![Item] = m]
          PROVE  Hosts' = [Hosts EXCEPT ![i] = m]
      BY <3>2, <2>1 DEF Hosts, Plugins, TypeOK
    <3>. QED
      BY <3>1, <3>2
  <2>5. Protocol!FailPlugin(i)
    BY <1>2, <2>2, <2>3, <2>4 DEF Protocol!FailPlugin, Phases, Hosts, Broken
  <2>. QED
    BY <2>3, <2>5 DEF Allowed, Protocol!ProtocolNext
<1>. QED
  BY <1>3, <1>4

LEMMA LoadModuleAllowed == ASSUME IInv, LoadModule PROVE Allowed
<1>. USE DEF IInv
<1>1. /\ AtItem /\ Item \in Modules /\ state[Item] = "Loading" /\ Item \in Ext
  BY ItemAt DEF LoadModule
<1>2. pc = "Loading" /\ Item \notin Plugins
  BY <1>1, ItemAt DEF AtItem, SequentialStages, Ahead, Out, Plugins
<1>3. CASE HandleOperationFailure /\ UNCHANGED <<live, languageModule>>
  BY <1>1, <1>2, <1>3, FailAllowed DEF HandleOperationFailure, MayHold
<1>4. CASE LoadLanguageModule(Item) /\ Move(Item, "Loaded")
  <2>1. Phases' = Phases /\ Broken' = Broken
    BY <1>1, <1>2, <1>4, PhaseMove DEF ExtensionState, Bad
  <2>2. Hosts' = Hosts /\ live' = [live EXCEPT ![Item] = @ + 1]
    BY <1>2, <1>4 DEF LoadLanguageModule, Hosts, Plugins, TypeOK
  <2>3. \A p \in Plugins : PhaseOf(p) \notin {"exported", "started", "ended"}
    BY <1>2, PhasesAt
  <2>4. Protocol!InitializeModule(Item)
    BY <2>1, <2>2, <2>3
    DEF Protocol!InitializeModule, Protocol!NoneIn, Phases, Hosts, Broken
  <2>. QED
    BY <1>1, <2>4 DEF Allowed, Protocol!ProtocolNext
<1>. QED
  BY <1>3, <1>4 DEF LoadModule

LEMMA LoadPluginAllowed == ASSUME IInv, LoadPlugin PROVE Allowed
<1>. USE DEF IInv
<1>. DEFINE module == loadedModules[LanguageOf[Item]]
<1>1. /\ AtItem /\ Item \in Plugins /\ state[Item] = "Loading" /\ Item \in Ext /\ live' = live
      /\ languageModule' = [languageModule EXCEPT ![Item] = module]
      /\ \/ module # None /\ Move(Item, "Loaded")
         \/ Move(Item, "Failed")
  BY ItemAt DEF LoadPlugin, HandleOperationFailure
<1>2. pc = "Loading" /\ Item \notin Modules
  BY <1>1, ItemAt DEF AtItem, SequentialStages, Ahead, Out, Plugins
<1>3. module \in Modules \cup {None} /\ Modules \subseteq Ext
  BY <1>1, ManagerAssumption DEF ManagerAssumption, TypeOK
<1>4. module # None => live[module] > 0
  <2>1. module # None => languageModule[module] = module
    BY <1>1, <1>2, ManagerAssumption DEF ManagerAssumption, LoadedOK
  <2>. QED
    BY <2>1, <1>3 DEF PointersOK
<1>. HIDE DEF module
<1>5. languageModule[Item] = None
  BY <1>1 DEF PointersOK, Callable, Bad
<1>6. CASE Move(Item, "Failed")
  <2>1. module = None => languageModule' = languageModule
    BY <1>1, <1>5 DEF TypeOK
  <2>2. MayHold
    BY <1>1, <1>3, <1>4, <2>1 DEF MayHold
  <2>3. /\ AtItem /\ live' = live
        /\ state[Item] \in {"Resolved", "Loading", "Loaded", "Exporting", "Exported", "Starting"}
        /\ Item \in Modules => pc = "Loading"
    BY <1>1, <1>2
  <2>. QED
    BY <1>6, <2>2, <2>3, FailAllowed
<1>7. CASE module # None /\ Move(Item, "Loaded")
  <2>. PICK i \in Ext, m \in Modules : i = Item /\ m = module
    BY <1>1, <1>3, <1>7
  <2>1. state'[i] = "Loaded"
    BY <1>1, <1>7, MoveState DEF ExtensionState
  <2>2. PhaseOf(i) = "absent" /\ PhaseOf(i)' = "loaded"
    BY <1>1, <2>1, PhaseRows, PhaseRowsNext
  <2>3. /\ Phases' = [Phases EXCEPT ![i] = "loaded"] /\ Phases[i] = "absent" /\ i \in Plugins
        /\ Broken' = Broken
    BY <1>1, <1>7, <2>2, PhaseMove DEF Phases, ExtensionState, Bad
  <2>4. Hosts' = [Hosts EXCEPT ![i] = m] /\ live[m] > 0
    BY <1>1, <1>4, <1>7 DEF Hosts, Plugins, TypeOK
  <2>5. \A p \in Plugins : PhaseOf(p) \notin {"exported", "started", "ended"}
    BY <1>2, PhasesAt
  <2>6. Protocol!LoadPlugin(i, m)
    BY <1>1, <2>3, <2>4, <2>5
    DEF Protocol!LoadPlugin, Protocol!NoneIn, Phases, Hosts, Broken
  <2>. QED
    BY <2>3, <2>6 DEF Allowed, Protocol!ProtocolNext
<1>. QED
  BY <1>1, <1>6, <1>7

LEMMA ExportPluginAllowed == ASSUME IInv, ExportPlugin PROVE Allowed
<1>. USE DEF IInv
<1>1. /\ AtItem /\ state[Item] = "Exporting" /\ Item \in Ext
      /\ UNCHANGED <<live, languageModule>>
      /\ Move(Item, "Exported") \/ Move(Item, "Failed")
  BY ItemAt DEF ExportPlugin, HandleOperationFailure
<1>2. pc = "Exporting" /\ Item \in Plugins
  BY <1>1, ItemAt DEF AtItem, SequentialStages, Ahead, Out
<1>3. CASE Move(Item, "Failed")
  BY <1>1, <1>2, <1>3, FailAllowed DEF Plugins, MayHold
<1>4. CASE Move(Item, "Exported")
  <2>. PICK i \in Ext : i = Item
    BY <1>1
  <2>1. state'[i] = "Exported"
    BY <1>1, <1>4, MoveState DEF ExtensionState
  <2>2. PhaseOf(i) = "loaded" /\ PhaseOf(i)' = "exported"
    BY <1>1, <2>1, PhaseRows, PhaseRowsNext
  <2>3. /\ Phases' = [Phases EXCEPT ![i] = "exported"] /\ Phases[i] = "loaded" /\ i \in Plugins
        /\ Broken' = Broken
    BY <1>1, <1>2, <1>4, <2>2, PhaseMove DEF Phases, ExtensionState, Bad
  <2>4. \A p \in Plugins : PhaseOf(p) \notin {"started", "ended"}
    BY <1>2, PhasesAt
  <2>5. Protocol!ExportPlugin(i)
    BY <1>1, <2>3, <2>4
    DEF Protocol!ExportPlugin, Protocol!NoneIn, Phases, Hosts, Broken
  <2>. QED
    BY <2>3, <2>5 DEF Allowed, Protocol!ProtocolNext
<1>. QED
  BY <1>1, <1>3, <1>4

LEMMA StartPluginAllowed == ASSUME IInv, StartPlugin PROVE Allowed
<1>. USE DEF IInv
<1>1. /\ AtItem /\ state[Item] = "Starting" /\ Item \in Ext
      /\ UNCHANGED <<live, languageModule>>
      /\ Move(Item, "Started") \/ Move(Item, "Failed")
  BY ItemAt DEF StartPlugin, HandleOperationFailure
<1>2. pc = "Starting" /\ Item \in Plugins
  BY <1>1, ItemAt DEF AtItem, SequentialStages, Ahead, Out
<1>3. CASE Move(Item, "Failed")
  BY <1>1, <1>2, <1>3, FailAllowed DEF Plugins, MayHold
<1>4. CASE Move(Item, "Started")
  <2>. PICK i \in Ext : i = Item
    BY <1>1
  <2>1. state'[i] = "Started"
    BY <1>1, <1>4, MoveState DEF ExtensionState
  <2>2. PhaseOf(i) = "exported" /\ PhaseOf(i)' = "started"
    BY <1>1, <2>1, PhaseRows, PhaseRowsNext
  <2>3. /\ Phases' = [Phases EXCEPT ![i] = "started"] /\ Phases[i] = "exported" /\ i \in Plugins
        /\ Broken' = Broken
    BY <1>1, <1>2, <1>4, <2>2, PhaseMove DEF Phases, ExtensionState, Bad
  <2>4. \A p \in Plugins : PhaseOf(p) \notin {"loaded", "ended"}
    BY <1>2, PhasesAt
  <2>5. Protocol!StartPlugin(i)
    BY <1>1, <2>3, <2>4
    DEF Protocol!StartPlugin, Protocol!NoneIn, Phases, Hosts, Broken
  <2>. QED
    BY <2>3, <2>5 DEF Allowed, Protocol!ProtocolNext
<1>. QED
  BY <1>1, <1>3, <1>4

\* StartOperation and SetRunning leave the phase; a skip is a failure.
LEMMA ItemAllowed == ASSUME IInv, SkipItem \/ StartItem \/ SetRunning PROVE Allowed
<1>. USE DEF IInv
<1>1. AtItem /\ Item \in Ext /\ UNCHANGED <<live, languageModule>>
  BY ItemAt DEF SkipItem, StartItem, SetRunning
<1>2. CASE SkipItem
  <2>1. /\ Move(Item, "Skipped") /\ state[Item] \in {"Resolved", "Loaded", "Exported"}
        /\ Item \in Modules => pc = "Loading"
    BY <1>2 DEF SkipItem, ShouldProcess, Plugins
  <2>. QED
    BY <1>1, <2>1, FailAllowed DEF MayHold
<1>. PICK i \in Ext : i = Item
  BY <1>1
<1>3. CASE StartItem
  <2>1. /\ Move(i, pc) /\ pc \in SequentialStages
        /\ \/ pc = "Loading" /\ state[i] = "Resolved"
           \/ pc = "Exporting" /\ state[i] = "Loaded"
           \/ pc = "Starting" /\ state[i] = "Exported"
    BY <1>3 DEF StartItem, ShouldProcess, AtItem
  <2>2. PICK to \in SequentialStages : to = pc
    BY <2>1
  <2>3. Move(i, to) /\ to \in ExtensionState /\ to \notin Bad /\ state[i] \notin Bad
    BY <2>1, <2>2 DEF SequentialStages, ExtensionState, Bad
  <2>4. state'[i] = to
    BY <2>3, MoveState
  <2>5. PhaseOf(i)' = PhaseOf(i)
    BY <2>1, <2>2, <2>4, PhaseRows, PhaseRowsNext DEF SequentialStages
  <2>. QED
    BY <1>1, <2>3, <2>5, UnseenMove DEF Allowed
<1>4. CASE SetRunning
  <2>1. /\ Move(i, "Running")
        /\ (state[i] = "Loaded" /\ i \in Modules) \/ state[i] = "Started"
    BY <1>4 DEF SetRunning
  <2>2. state'[i] = "Running" /\ "Running" \in ExtensionState
    BY <2>1, MoveState DEF ExtensionState
  <2>3. i \in Plugins => PhaseOf(i)' = PhaseOf(i)
    BY <2>1, <2>2, PhaseRows, PhaseRowsNext DEF Plugins
  <2>4. state[i] \notin Bad /\ "Running" \notin Bad
    BY <2>1 DEF Bad
  <2>. QED
    BY <1>1, <2>1, <2>2, <2>3, <2>4, UnseenMove DEF Allowed
<1>. QED
  BY <1>2, <1>3, <1>4

LEMMA EndItemAllowed == ASSUME IInv, EndItem PROVE Allowed
<1>. USE DEF IInv
<1>1. /\ pc = "Ending" /\ pos > 0 /\ Item \in Ext /\ UNCHANGED <<live, languageModule>>
  BY ItemListed DEF EndItem
<1>. PICK i \in Ext : i = Item
  BY <1>1
<1>2. CASE UNCHANGED state
  BY <1>1, <1>2, Unseen DEF Allowed, PhaseOf, Broken
<1>3. CASE state[i] = "Running" /\ Move(i, "Ending")
  <2>1. state'[i] = "Ending" /\ "Ending" \in ExtensionState /\ "Ending" \notin Bad
    BY <1>3, MoveState DEF ExtensionState, Bad
  <2>2. PhaseOf(i)' = PhaseOf(i) /\ state[i] \notin Bad
    BY <1>3, <2>1, PhaseRows, PhaseRowsNext DEF Bad
  <2>. QED
    BY <1>1, <1>3, <2>1, <2>2, UnseenMove DEF Allowed
<1>4. CASE state[i] = "Ending" /\ Move(i, "Ended")
  <2>1. state'[i] = "Ended" /\ "Ended" \in ExtensionState /\ "Ended" \notin Bad
    BY <1>4, MoveState DEF ExtensionState, Bad
  <2>2. PhaseOf(i) = "started" /\ PhaseOf(i)' = "ended" /\ state[i] \notin Bad
    BY <1>4, <2>1, PhaseRows, PhaseRowsNext DEF Bad
  <2>3. Broken' = Broken /\ ~Broken
    BY <1>1, <1>4, <2>1, <2>2, PhaseMove, NotBroken
  <2>4. CASE i \notin Plugins
    BY <1>1, <1>4, <2>1, <2>2, <2>4, UnseenMove DEF Allowed
  <2>5. CASE i \in Plugins
    <3>1. Phases' = [Phases EXCEPT ![i] = "ended"] /\ Phases[i] = "started"
      BY <1>4, <2>1, <2>2, <2>5, PhaseMove DEF Phases
    <3>2. \A p \in Plugins : PhaseOf(p) \notin {"loaded", "exported"}
      BY <1>1, PhasesAt
    <3>3. Protocol!EndPlugin(i)
      BY <1>1, <2>3, <3>1, <3>2 DEF Protocol!EndPlugin, Protocol!NoneIn, Phases, Hosts, Broken
    <3>. QED
      BY <2>5, <3>3 DEF Allowed, Protocol!ProtocolNext
  <2>. QED
    BY <2>4, <2>5
<1>. QED
  BY <1>2, <1>3, <1>4 DEF EndItem

LEMMA UnloadItemAllowed == ASSUME IInv, UnloadItem PROVE Allowed
<1>. USE DEF IInv
<1>1. /\ pc = "Terminating" /\ pos > 0 /\ Item \in Ext /\ pos \in DOMAIN extensions
  BY ItemListed DEF UnloadItem
<1>. PICK i \in Ext : i = Item
  BY <1>1
<1>2. CASE UNCHANGED <<state, live, languageModule>>
  BY <1>1, <1>2, Unseen DEF Allowed, PhaseOf, Broken
<1>3. CASE state[i] = "Ended" /\ Move(i, "Terminating") /\ UNCHANGED <<live, languageModule>>
  <2>1. state'[i] = "Terminating" /\ "Terminating" \in ExtensionState /\ "Terminating" \notin Bad
    BY <1>3, MoveState DEF ExtensionState, Bad
  <2>2. PhaseOf(i)' = PhaseOf(i) /\ state[i] \notin Bad
    BY <1>3, <2>1, PhaseRows, PhaseRowsNext DEF Bad
  <2>. QED
    BY <1>1, <1>3, <2>1, <2>2, UnseenMove DEF Allowed
<1>4. CASE /\ state[i] = "Terminating" /\ Move(i, "Terminated")
           /\ IF i \in Modules THEN UnloadModule(i) ELSE UnloadPlugin(i)
  <2>1. state'[i] = "Terminated" /\ "Terminated" \in ExtensionState /\ "Terminated" \notin Bad
    BY <1>4, MoveState DEF ExtensionState, Bad
  <2>2. PhaseOf(i) = "ended" /\ PhaseOf(i)' = "absent" /\ state[i] \notin Bad
    BY <1>4, <2>1, PhaseRows, PhaseRowsNext DEF Bad
  <2>3. Broken' = Broken /\ ~Broken
    BY <1>1, <1>4, <2>1, <2>2, PhaseMove, NotBroken
  <2>4. \A p \in Plugins : PhaseOf(p) \notin {"loaded", "exported", "started"}
    BY <1>1, PhasesAt
  <2>5. CASE i \in Modules
    <3>1. /\ live' = IF languageModule[i] # None THEN [live EXCEPT ![i] = @ - 1] ELSE live
          /\ languageModule' = [languageModule EXCEPT ![i] = None]
      BY <1>4, <2>5 DEF UnloadModule
    <3>2. i \notin Plugins /\ i \in Modules
      BY <2>5 DEF Plugins
    <3>3. Phases' = Phases /\ Hosts' = Hosts
      BY <1>4, <2>1, <3>1, <3>2, PhaseMove DEF Hosts, Plugins, TypeOK
    <3>4. languageModule[i] = i /\ live[i] > 0 /\ live' = [live EXCEPT ![i] = @ - 1]
      <4>1. languageModule[i] # None
        BY <1>4 DEF PointersOK, Callable
      <4>2. languageModule[i] = i
        BY <2>5, <4>1 DEF PointersOK
      <4>3. live[i] > 0
        BY <4>1, <4>2 DEF PointersOK
      <4>. QED
        BY <3>1, <4>1, <4>2, <4>3
    <3>5. ASSUME NEW p \in Plugins, languageModule[p] = i PROVE FALSE
      <4>1. p \in Ext /\ i # None
        BY <2>5, ManagerAssumption DEF ManagerAssumption, Plugins
      <4>2. state[p] \in Callable \cup Bad
        BY <3>5, <4>1 DEF PointersOK
      <4>3. p \in ToSet(extensions)
        BY <4>1, <4>2 DEF ListedOnce, Callable, Bad
      <4>4. PICK j \in DOMAIN extensions : extensions[j] = p
        BY <4>3 DEF ToSet
      <4>5. pos < j
        BY <1>1, <3>5, <4>4 DEF PointersOK, Item
      <4>6. j \in Nat /\ pos \in Nat /\ StateAt(j)
        BY <4>4, LenProperties DEF TypeOK, StatesOK
      <4>7. state[p] \in {"Terminated"} \cup Out
        BY <1>1, <4>4, <4>5, <4>6 DEF StateAt
      <4>. QED
        BY <4>2, <4>7 DEF Callable, Bad, Out
    <3>6. Protocol!ShutdownModule(i)
      BY <2>3, <2>4, <3>3, <3>4, <3>5
      DEF Protocol!ShutdownModule, Protocol!NoneIn, Phases, Hosts, Broken
    <3>. QED
      BY <3>2, <3>6 DEF Allowed, Protocol!ProtocolNext
  <2>6. CASE i \notin Modules
    <3>1. live' = live /\ languageModule' = [languageModule EXCEPT ![i] = None]
      BY <1>4, <2>6 DEF UnloadPlugin
    <3>2. i \in Plugins
      BY <2>6 DEF Plugins
    <3>3. Phases' = [Phases EXCEPT ![i] = "absent"] /\ Phases[i] = "ended"
      BY <1>4, <2>1, <2>2, <3>2, PhaseMove DEF Phases
    <3>4. Hosts' = [Hosts EXCEPT ![i] = None]
      BY <3>1, <3>2 DEF Hosts, Plugins, TypeOK
    <3>5. Protocol!UnloadPlugin(i)
      BY <2>3, <2>4, <3>1, <3>3, <3>4
      DEF Protocol!UnloadPlugin, Protocol!NoneIn, Phases, Hosts, Broken
    <3>. QED
      BY <3>2, <3>5 DEF Allowed, Protocol!ProtocolNext
  <2>. QED
    BY <2>5, <2>6
<1>. QED
  BY <1>2, <1>3, <1>4 DEF UnloadItem

-----------------------------------------------------------------------------
(* The next run. *)

\* The protocol starts over when the last run failed or nothing is left of it.
FailureShows ==
  /\ pc \in {"Resolution", "Resolving"} => failed = 0
  /\ pc \in SequentialStages /\ failed > 0 => Broken
  /\ (pc = "Report" /\ failed > 0) \/ (pc \in {"idle", "destroyed"} /\ ~initialized) =>
       Broken \/ \A p \in Plugins : PhaseOf(p) = "absent"

LEMMA DiscoverAllowed == ASSUME IInv, FailureShows, Discover PROVE Allowed
<1>1. /\ pc = "idle" /\ ~initialized /\ live' = live
      /\ \A e \in Ext : state'[e] \in {"Discovered", "Unknown"}
      /\ languageModule' = [e \in Ext |-> None]
  BY DEF Discover
<1>2. \A p \in Plugins : PhaseOf(p)' = "absent"
  BY <1>1, PhaseRowsNext DEF Plugins
<1>3. Phases' = [p \in Plugins |-> "absent"]
  BY <1>2 DEF Phases
<1>4. Hosts' = [p \in Plugins |-> None]
  BY <1>1 DEF Hosts, Plugins
<1>5. ~Broken'
  BY <1>1 DEF Broken
<1>6. Broken \/ \A p \in Plugins : PhaseOf(p) = "absent"
  BY <1>1 DEF FailureShows
<1>7. Broken \/ \A p \in Plugins : Phases[p] \notin Protocol!Phase \ {"absent"}
  BY <1>6 DEF Phases
<1>8. Protocol!NextRun
  BY <1>1, <1>3, <1>4, <1>5, <1>7
  DEF Protocol!NextRun, Protocol!NoneIn, Phases, Hosts, Broken
<1>. QED
  BY <1>8 DEF Allowed, Protocol!ProtocolNext

\* Parsing and resolution touch nothing a language module sees.
LEMMA EarlyAllowed ==
  ASSUME IInv, FailureShows,
         \/ EndParsing \/ FilterByPolicy \/ Resolve
         \/ \E e \in Ext : StartParsing(e) \/ FinishParsing(e)
  PROVE  Allowed /\ FailureShows'
<1>. USE DEF IInv
<1>1. pc \in {"Parsing", "Resolution", "Resolving"} /\ UNCHANGED <<live, languageModule>>
  BY DEF EndParsing, FilterByPolicy, Resolve, StartParsing, FinishParsing
<1>2. \A e \in Ext :
        \/ state'[e] = state[e]
        \/ state'[e] \in {"Parsing", "Parsed", "Corrupted", "Disabled", "Resolving",
                          "Resolved", "Unresolved"}
  <2>1. CASE EndParsing \/ FilterByPolicy
    BY <2>1 DEF EndParsing, FilterByPolicy
  <2>2. CASE Resolve
    <3>1. CASE RestoreResult
      BY <3>1 DEF RestoreResult
    <3>2. CASE \E order \in LoadOrders : BuildResult(order)
      BY <3>2 DEF BuildResult
    <3>. QED
      BY <2>2, <3>1, <3>2 DEF Resolve
  <2>3. ASSUME NEW x \in Ext, StartParsing(x) \/ FinishParsing(x)
        PROVE  \A e \in Ext :
                 \/ state'[e] = state[e]
                 \/ state'[e] \in {"Parsing", "Parsed", "Corrupted", "Disabled", "Resolving",
                                   "Resolved", "Unresolved"}
    BY <2>3 DEF StartParsing, FinishParsing, Move, TypeOK
  <2>. QED
    BY <2>1, <2>2, <2>3
<1>3. ~Broken
  BY <1>1, NotBroken
<1>4. ~Broken'
  BY <1>2, <1>3 DEF Broken
<1>5. \A p \in Plugins : PhaseOf(p) = "absent" /\ PhaseOf(p)' = "absent"
  <2>1. ASSUME NEW p \in Plugins PROVE PhaseOf(p) = "absent" /\ PhaseOf(p)' = "absent"
    <3>1. PhaseOf(p) = "absent" /\ p \in Ext
      BY <1>1, <2>1, PhasesAt DEF Plugins
    <3>2. CASE state'[p] = state[p]
      BY <3>1, <3>2 DEF PhaseOf
    <3>3. CASE state'[p] # state[p]
      BY <3>1, <3>3, <1>2, PhaseRowsNext
    <3>. QED
      BY <3>1, <3>2, <3>3
  <2>. QED
    BY <2>1
<1>6. Allowed
  BY <1>1, <1>3, <1>4, <1>5, Unseen DEF Allowed, Broken
<1>7. FailureShows'
  <2>1. pc' \in {"Resolution", "Resolving"} => failed' = 0
    <3>1. CASE EndParsing
      BY <3>1 DEF EndParsing, TypeOK, pipelineVars
    <3>2. CASE FilterByPolicy
      BY <3>2 DEF FilterByPolicy, FailureShows, pipelineVars
    <3>3. CASE Resolve
      BY <3>3 DEF Resolve, RestoreResult, BuildResult
    <3>4. ASSUME NEW x \in Ext, StartParsing(x) \/ FinishParsing(x) PROVE pc' = "Parsing"
      BY <3>4 DEF StartParsing, FinishParsing
    <3>. QED
      BY <3>1, <3>2, <3>3, <3>4
  <2>2. pc' \in SequentialStages => failed' = 0
    <3>1. CASE Resolve
      BY <3>1, EmptySeq, LenProperties
      DEF Resolve, RestoreResult, BuildResult, FailureShows, SequentialStages
    <3>2. CASE ~Resolve
      BY <3>2 DEF EndParsing, FilterByPolicy, StartParsing, FinishParsing, SequentialStages
    <3>. QED
      BY <3>1, <3>2
  <2>. QED
    BY <2>1, <2>2, <1>5 DEF FailureShows
<1>. QED
  BY <1>6, <1>7

\* In a sequential stage a failure that is counted shows in a state.
LEMMA ItemShows ==
  ASSUME IInv, FailureShows, AtItem, pc' = pc, NEW to \in ExtensionState,
         \/ UNCHANGED <<state, failed>>
         \/ state[Item] \notin Bad /\ Move(Item, to) /\ (to \in Bad \/ failed' = failed)
  PROVE  FailureShows'
<1>1. Item \in Ext /\ TypeOK /\ pc \in SequentialStages
  BY ItemAt DEF IInv, AtItem
<1>2. CASE UNCHANGED <<state, failed>>
  BY <1>1, <1>2 DEF FailureShows, SequentialStages, Broken
<1>3. CASE state[Item] \notin Bad /\ Move(Item, to) /\ (to \in Bad \/ failed' = failed)
  <2>1. (to \in Bad => Broken') /\ (to \notin Bad => Broken' = Broken)
    BY <1>1, <1>3, PhaseMove
  <2>. QED
    BY <1>1, <1>3, <2>1 DEF FailureShows, SequentialStages
<1>. QED
  BY <1>2, <1>3

LEMMA StageStepShows ==
  ASSUME IInv, FailureShows,
         \/ PassItem \/ SkipItem \/ StartItem \/ LoadModule \/ LoadPlugin \/ ExportPlugin
         \/ StartPlugin \/ SetRunning
  PROVE  FailureShows'
<1>1. AtItem /\ pc' = pc
  BY DEF PassItem, SkipItem, StartItem, LoadModule, LoadPlugin, ExportPlugin, StartPlugin,
         SetRunning
<1>2. CASE PassItem
  BY <1>1, <1>2, ItemShows DEF PassItem, pipelineVars, ExtensionState
<1>3. CASE ~PassItem
  <2>1. state[Item] \notin Bad
    BY <1>3 DEF SkipItem, StartItem, LoadModule, LoadPlugin, ExportPlugin, StartPlugin,
                SetRunning, ShouldProcess, Bad
  <2>2. PICK to \in ExtensionState : Move(Item, to) /\ (to \in Bad \/ failed' = failed)
    <3>1. CASE SkipItem \/ StartItem \/ SetRunning
      BY <3>1, <1>1 DEF SkipItem, StartItem, SetRunning, AtItem, SequentialStages, pipelineVars,
                        ExtensionState, Bad
    <3>2. CASE LoadModule \/ LoadPlugin \/ ExportPlugin \/ StartPlugin
      BY <3>2 DEF LoadModule, LoadPlugin, ExportPlugin, StartPlugin, HandleOperationFailure,
                  ExtensionState, Bad
    <3>. QED
      BY <3>1, <3>2, <1>3
  <2>. QED
    BY <1>1, <2>1, <2>2, ItemShows
<1>. QED
  BY <1>2, <1>3

\* The steps of Terminate end with every plugin unloaded.
LEMMA FinishTerminateShows ==
  ASSUME IInv, FinishTerminate PROVE FailureShows'
<1>. USE DEF IInv
<1>1. pc = "Terminating" /\ pos = 0 /\ pc' = "idle" /\ state' = state
  BY DEF FinishTerminate
<1>2. ASSUME NEW p \in Plugins PROVE PhaseOf(p)' = "absent"
  <2>1. p \in Ext
    BY DEF Plugins
  <2>2. CASE p \notin ToSet(extensions)
    BY <1>1, <2>1, <2>2, PhaseRowsNext DEF ListedOnce
  <2>3. CASE p \in ToSet(extensions)
    <3>1. PICK j \in DOMAIN extensions : extensions[j] = p
      BY <2>3 DEF ToSet
    <3>2. j > pos /\ StateAt(j)
      BY <1>1, <3>1, LenProperties DEF TypeOK, StatesOK
    <3>3. state[p] \in {"Terminated"} \cup Out
      BY <1>1, <3>1, <3>2 DEF StateAt
    <3>. QED
      BY <1>1, <3>3, PhaseRowsNext DEF Out
  <2>. QED
    BY <2>2, <2>3
<1>. QED
  BY <1>1, <1>2 DEF FailureShows, SequentialStages

\* What remains: steps that move no extension.
LEMMA OtherShows ==
  ASSUME IInv, LiveOK, FailureShows,
         \/ EndStage \/ FinishInitialize \/ Update \/ UpdateItem \/ Terminate \/ EndedAll
         \/ Destroy \/ Destroyed \/ UNCHANGED vars
  PROVE  FailureShows'
<1>. USE DEF pipelineVars
<1>1. state' = state /\ failed \in Nat
  BY DEF EndStage, FinishInitialize, Update, UpdateItem, Terminate, EndedAll, Destroy, Destroyed,
         vars, IInv, TypeOK
<1>2. Broken' = Broken /\ \A p \in Plugins : PhaseOf(p)' = PhaseOf(p)
  BY <1>1 DEF Broken, PhaseOf
<1>3. CASE EndStage
  <2>1. /\ pc \in SequentialStages /\ failed' = failed
        /\ pc' \in {"Report", "Exporting", "Starting"}
    BY <1>3 DEF EndStage, NextStage
  <2>. QED
    BY <1>2, <2>1 DEF FailureShows, SequentialStages
<1>4. CASE FinishInitialize
  <2>1. pc = "Report" /\ pc' = "idle" /\ (initialized' \/ failed # 0)
    BY <1>4 DEF FinishInitialize, Succeeded
  <2>2. failed # 0 => failed > 0
    BY <1>1
  <2>. QED
    BY <1>2, <2>1, <2>2 DEF FailureShows, SequentialStages
<1>5. CASE Update \/ UpdateItem \/ Terminate \/ EndedAll
  <2>1. initialized /\ initialized' = initialized
        /\ pc' \in {"Updating", "idle", "Ending", "Terminating"}
    BY <1>5 DEF Update, UpdateItem, Terminate, EndedAll, LiveOK
  <2>. QED
    BY <2>1 DEF FailureShows, SequentialStages
<1>6. CASE Destroy \/ Destroyed \/ UNCHANGED vars
  <2>1. /\ initialized' = initialized /\ failed' = failed
        /\ pc' = pc \/ (pc = "idle" /\ pc' = "destroyed")
    BY <1>6 DEF Destroy, Destroyed, vars
  <2>. QED
    BY <1>2, <2>1 DEF FailureShows, SequentialStages
<1>. QED
  BY <1>3, <1>4, <1>5, <1>6

LEMMA OtherAllowed ==
  ASSUME \/ PassItem \/ EndStage \/ FinishInitialize \/ Update \/ UpdateItem \/ Terminate
         \/ EndedAll \/ FinishTerminate \/ Destroy \/ Destroyed \/ UNCHANGED vars
  PROVE  Allowed
<1>1. state' = state /\ languageModule' = languageModule /\ live' = live
  BY DEF PassItem, EndStage, FinishInitialize, Update, UpdateItem, Terminate, EndedAll,
         FinishTerminate, Destroy, Destroyed, vars
<1>2. Broken' = Broken /\ \A p \in Plugins : PhaseOf(p)' = PhaseOf(p)
  BY <1>1 DEF Broken, PhaseOf
<1>. QED
  BY <1>1, <1>2, Unseen DEF Allowed

LEMMA NextAllowed ==
  ASSUME IInv, LiveOK, FailureShows, [Next]_vars PROVE Allowed /\ FailureShows'
<1>. USE DEF IInv
<1>1. CASE Discover
  <2>1. pc' = "Parsing"
    BY <1>1 DEF Discover
  <2>. QED
    BY <1>1, <2>1, DiscoverAllowed DEF FailureShows, SequentialStages
<1>2. CASE \/ EndParsing \/ FilterByPolicy \/ Resolve
           \/ \E e \in Ext : StartParsing(e) \/ FinishParsing(e)
  BY <1>2, EarlyAllowed
<1>3. CASE \/ PassItem \/ SkipItem \/ StartItem \/ LoadModule \/ LoadPlugin \/ ExportPlugin
           \/ StartPlugin \/ SetRunning
  BY <1>3, StageStepShows, OtherAllowed, ItemAllowed, LoadModuleAllowed, LoadPluginAllowed,
     ExportPluginAllowed, StartPluginAllowed
<1>4. CASE \/ EndStage \/ FinishInitialize \/ Update \/ UpdateItem \/ Terminate \/ EndedAll
           \/ Destroy \/ Destroyed \/ UNCHANGED vars
  BY <1>4, OtherShows, OtherAllowed
<1>5. CASE FinishTerminate
  BY <1>5, FinishTerminateShows, OtherAllowed
<1>6. CASE EndItem \/ UnloadItem
  <2>1. pc \in {"Ending", "Terminating"} /\ pc' = pc
    BY <1>6 DEF EndItem, UnloadItem
  <2>. QED
    BY <1>6, <2>1, EndItemAllowed, UnloadItemAllowed DEF FailureShows, SequentialStages
<1>. QED
  BY <1>1, <1>2, <1>3, <1>4, <1>5, <1>6 DEF Next, Progress

LEMMA InitAllowed == Init => FailureShows /\ Protocol!ProtocolInit
<1> SUFFICES ASSUME Init PROVE FailureShows /\ Protocol!ProtocolInit
  OBVIOUS
<1>1. \A p \in Plugins : PhaseOf(p) = "absent"
  BY PhaseRows DEF Init, Plugins
<1>2. FailureShows
  BY <1>1 DEF Init, FailureShows, SequentialStages
<1>3. Protocol!ProtocolInit
  BY <1>1 DEF Init, Protocol!ProtocolInit, Plugins
<1>. QED
  BY <1>2, <1>3

\* The manager calls language modules as the protocol says: failures, retries
\* and reloads included, each of its steps is a step of the protocol.
THEOREM FollowsProtocolHolds == Spec => FollowsProtocol
<1>1. Init => LiveOK /\ FailureShows /\ Protocol!ProtocolInit
  BY InitLive, InitAllowed
<1>2. IInv /\ LiveOK /\ FailureShows /\ [Next]_vars => (LiveOK /\ FailureShows)'
  BY NextLive, NextAllowed
<1>3. IInv /\ LiveOK /\ FailureShows /\ [Next]_vars
        => [Protocol!ProtocolNext]_(Protocol!protocolVars)
  BY NextAllowed DEF Allowed
<1>. QED
  BY <1>1, <1>2, <1>3, Invariance, PTL DEF Spec, FollowsProtocol, Protocol!ProtocolSpec

=============================================================================

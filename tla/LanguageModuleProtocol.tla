----------------------- MODULE LanguageModuleProtocol -----------------------
(***************************************************************************)
(* What the manager promises the language modules it drives, with no       *)
(* pipeline, no loop and no failure tracker: in which order an             *)
(* ILanguageModule sees Initialize, OnPluginLoad, OnMethodExport,          *)
(* OnPluginStart, OnPluginEnd and Shutdown.                                *)
(*                                                                         *)
(* The plugins pass together through loading, exporting, starting, ending  *)
(* and unloading: none starts before all are exported, none is unloaded    *)
(* before all have ended, and a module is shut down when no plugin uses it *)
(* any more.  After a failure nothing is ended, unloaded or shut down, and *)
(* the next run begins on top of what the broken one left.                 *)
(***************************************************************************)
EXTENDS Naturals

CONSTANTS Modules, Plugins, None

VARIABLES
  phase,   \* [Plugins -> Phase]: where the plugin is in its run
  host,    \* [Plugins -> Modules \cup {None}]: the module that holds it
  live,    \* [Modules -> Nat]: Initialize calls without their Shutdown
  broken   \* the run has failed

protocolVars == <<phase, host, live, broken>>

Phase == {"absent", "loaded", "exported", "started", "ended", "failed"}

ProtocolInit ==
  /\ phase = [p \in Plugins |-> "absent"]
  /\ host = [p \in Plugins |-> None]
  /\ live = [m \in Modules |-> 0]
  /\ broken = FALSE

NoneIn(phases) == \A p \in Plugins : phase[p] \notin phases

InitializeModule(m) ==
  /\ NoneIn({"exported", "started", "ended"})
  /\ live' = [live EXCEPT ![m] = @ + 1]
  /\ UNCHANGED <<phase, host, broken>>

LoadPlugin(p, m) ==
  /\ phase[p] = "absent" /\ live[m] > 0
  /\ NoneIn({"exported", "started", "ended"})
  /\ phase' = [phase EXCEPT ![p] = "loaded"]
  /\ host' = [host EXCEPT ![p] = m]
  /\ UNCHANGED <<live, broken>>

ExportPlugin(p) ==
  /\ phase[p] = "loaded"
  /\ NoneIn({"started", "ended"})
  /\ phase' = [phase EXCEPT ![p] = "exported"]
  /\ UNCHANGED <<host, live, broken>>

StartPlugin(p) ==
  /\ phase[p] = "exported"
  /\ NoneIn({"loaded", "ended"})
  /\ phase' = [phase EXCEPT ![p] = "started"]
  /\ UNCHANGED <<host, live, broken>>

\* A plugin fails or is skipped; its module may be holding it.
FailPlugin(p) ==
  /\ phase[p] \in {"absent", "loaded", "exported"}
  /\ phase' = [phase EXCEPT ![p] = "failed"]
  /\ \/ UNCHANGED host
     \/ \E m \in Modules : live[m] > 0 /\ host' = [host EXCEPT ![p] = m]
  /\ broken' = TRUE
  /\ UNCHANGED live

\* A module fails to load or is skipped.
FailModule ==
  /\ NoneIn({"exported", "started", "ended"})
  /\ broken' = TRUE
  /\ UNCHANGED <<phase, host, live>>

EndPlugin(p) ==
  /\ ~broken
  /\ phase[p] = "started"
  /\ NoneIn({"loaded", "exported"})
  /\ phase' = [phase EXCEPT ![p] = "ended"]
  /\ UNCHANGED <<host, live, broken>>

UnloadPlugin(p) ==
  /\ ~broken
  /\ phase[p] = "ended"
  /\ NoneIn({"loaded", "exported", "started"})
  /\ phase' = [phase EXCEPT ![p] = "absent"]
  /\ host' = [host EXCEPT ![p] = None]
  /\ UNCHANGED <<live, broken>>

ShutdownModule(m) ==
  /\ ~broken
  /\ live[m] > 0
  /\ \A p \in Plugins : host[p] # m
  /\ NoneIn({"loaded", "exported", "started"})
  /\ live' = [live EXCEPT ![m] = @ - 1]
  /\ UNCHANGED <<phase, host, broken>>

\* The next run: everything was unloaded, or the last run broke.
NextRun ==
  /\ broken \/ NoneIn(Phase \ {"absent"})
  /\ phase' = [p \in Plugins |-> "absent"]
  /\ host' = [p \in Plugins |-> None]
  /\ broken' = FALSE
  /\ UNCHANGED live

ProtocolNext ==
  \/ \E m \in Modules : InitializeModule(m) \/ ShutdownModule(m)
  \/ \E p \in Plugins :
       \/ \E m \in Modules : LoadPlugin(p, m)
       \/ ExportPlugin(p) \/ StartPlugin(p) \/ FailPlugin(p)
       \/ EndPlugin(p) \/ UnloadPlugin(p)
  \/ FailModule \/ NextRun

ProtocolSpec == ProtocolInit /\ [][ProtocolNext]_protocolVars

=============================================================================

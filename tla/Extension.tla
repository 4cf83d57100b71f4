------------------------------ MODULE Extension ------------------------------
(***************************************************************************)
(* The states of an extension (a language module or a plugin) and the      *)
(* transition relation that Extension::SetState asserts on every change.   *)
(* "Unknown" is the state of a manifest file that has no Extension object. *)
(***************************************************************************)

ExtensionState == {
  "Unknown", "Discovered",
  "Parsing", "Parsed", "Corrupted",
  "Resolving", "Resolved", "Unresolved",
  "Disabled", "Skipped", "Failed",
  "Loading", "Loaded", "Exporting", "Exported",
  "Starting", "Started", "Running",
  "Ending", "Ended", "Terminating", "Terminated" }

\* The states no transition leaves.
TerminalStates ==
  {"Failed", "Terminated", "Corrupted", "Unresolved", "Disabled", "Skipped"}

ValidTransitions ==
  LET Row(from, tos) == {from} \X tos IN
  UNION {
    Row("Unknown",     {"Discovered"}),
    Row("Discovered",  {"Parsing", "Failed"}),
    Row("Parsing",     {"Parsed", "Corrupted"}),
    Row("Parsed",      {"Resolving", "Failed", "Disabled"}),
    Row("Resolving",   {"Resolved", "Unresolved", "Disabled"}),
    Row("Resolved",    {"Loading", "Skipped", "Failed"}),
    Row("Loading",     {"Loaded", "Failed"}),
    Row("Loaded",      {"Running", "Exporting", "Skipped", "Failed"}),
    Row("Exporting",   {"Exported", "Skipped", "Failed"}),
    Row("Exported",    {"Starting", "Skipped", "Failed"}),
    Row("Starting",    {"Started", "Skipped", "Failed"}),
    Row("Started",     {"Running", "Failed"}),
    Row("Running",     {"Ending", "Failed"}),
    Row("Ending",      {"Ended", "Failed"}),
    Row("Ended",       {"Terminating"}),
    Row("Terminating", {"Terminated"}) }

IsValidTransition(from, to) == <<from, to>> \in ValidTransitions

=============================================================================

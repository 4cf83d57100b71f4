--------------------------- MODULE MCAssemblyCache ---------------------------
(* Instances of AssemblyCache for TLC. *)
EXTENDS AssemblyCache

CONSTANTS left, right, core, extra, other, lib, single

\* Two managers and three modules, two of which share a library.
Modules == {core, extra, other}
Libraries == {lib, single}
Sharing == [m \in Modules |-> IF m = other THEN single ELSE lib]

=============================================================================

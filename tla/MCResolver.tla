------------------------------ MODULE MCResolver ------------------------------
(* Instances of Resolver for TLC. *)
EXTENDS Resolver

CONSTANTS base, base2, app, ring1, ring2

\* Two versions of base, an app that takes either, and two that need each other.
AllManifests == {base, base2, app, ring1, ring2}
AllRequires ==
  [m \in AllManifests |-> CASE m = app -> {{base, base2}}
                            [] m = ring1 -> {{ring2}} [] m = ring2 -> {{ring1}}
                            [] OTHER -> {}]
AllConflicts == {<<base, base2>>, <<base2, base>>}
\* An extension was installed, or removed, between two discoveries.
AllDiscoveries ==
  {<<app, base>>, <<base2, app, base>>, <<ring1, app, ring2, base2>>}

=============================================================================

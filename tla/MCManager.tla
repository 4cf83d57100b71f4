------------------------------ MODULE MCManager ------------------------------
(* Instances of Manager for TLC. *)
EXTENDS Manager

CONSTANTS cpp, py, base, app, odd, cpp2, left, right, user, banned

\* Two language modules; app (py) depends on base (cpp), odd on nothing there is.
CrossExt == {cpp, py, base, app, odd}
CrossModules == {cpp, py}
CrossLanguageOf ==
  [e \in CrossExt |-> IF e \in {cpp, base, odd} THEN "C++" ELSE "Python"]
CrossRequires ==
  [e \in CrossExt |-> CASE e = app -> {base} [] e = odd -> {None} [] OTHER -> {}]
CrossHooks == [e \in CrossExt |-> IF e = app THEN HookName \ {"export"} ELSE HookName]
CrossListings == {<<app, base, cpp, odd, py>>, <<py, odd, app, base, cpp>>}

\* Two modules for one language, plugins that depend on each other, a plugin
\* on top of the cycle and one the policy excludes.
CycleExt == {cpp, cpp2, left, right, user, banned}
CycleModules == {cpp, cpp2}
CycleRequires ==
  [e \in CycleExt |-> CASE e = left -> {right} [] e = right -> {left}
                        [] e = user -> {left}  [] OTHER -> {}]
CycleListings == {<<>>, <<user, right, cpp, banned, cpp2, left>>}
CycleLanguageOf == [e \in CycleExt |-> "C++"]
CycleHooks == [e \in CycleExt |-> HookName]
CycleConflicts == {<<user, banned>>}

=============================================================================

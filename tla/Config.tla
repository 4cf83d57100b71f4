--------------------------------- MODULE Config ---------------------------------
(***************************************************************************)
(* Config: directories, settings and sets of names, in four groups, each   *)
(* with the source that last changed it.  A configuration is merged into   *)
(* another by a source of a priority; what equals its default in the one   *)
(* merged counts as not set there.                                         *)
(*                                                                         *)
(* A path is the sequence of its names; an absolute one begins with Root.  *)
(***************************************************************************)
EXTENDS Naturals, SequencesExt

CONSTANT Text  \* bound: the names there are, and the values of settings

Root == "/"
Dot == "."

Path == Seq(Text)

IsAbsolute(p) == p # <<>> /\ p[1] = Root

\* lexically_normal
Normal(p) ==
  LET kept[n \in 0..Len(p)] ==
        IF n = 0 THEN <<>> ELSE IF p[n] = Dot THEN kept[n - 1] ELSE Append(kept[n - 1], p[n])
      rest == kept[Len(p)]
  IN  IF p # <<>> /\ rest = <<>> THEN <<Dot>> ELSE rest

\* One path is a parent of the other, or they are the same.
Nested(p, q) == IsPrefix(p, q) \/ IsPrefix(q, p)

Dir == {"extensions", "configs", "data", "logs", "cache"}
Loading == {"preferOwnSymbols", "maxConcurrentLoads", "loadTimeout", "exportTimeout", "startTimeout"}
Logging == {"severity", "printReport", "printLoadOrder", "printDependencyGraph",
            "printDigraphDot", "exportDigraphDot"}
Setting == Loading \cup Logging
Names == {"whitelisted", "blacklisted", "excluded"}

Group == {"paths", "loading", "security", "logging"}
GroupOf(f) == IF f \in Loading THEN "loading" ELSE "logging"

\* ConfigSource
Default == 0
File == 1
Builder == 2
Override == 3

\* A setting has its default value or another, a set of names its default or more.
Usual == "usual"
UsualNames(k) == IF k = "excluded" THEN {"disabled", ".git"} ELSE {}

Configuration ==
  [base : Path, dirs : [Dir -> Path], setting : [Setting -> Text],
   names : [Names -> SUBSET Text], source : [Group -> Default..Override]]

ConfigAssumption == Dir \cup {Root, Dot, Usual, "disabled", ".git"} \subseteq Text

Fresh ==
  [base |-> <<>>, dirs |-> [d \in Dir |-> <<d>>], setting |-> [f \in Setting |-> Usual],
   names |-> [k \in Names |-> UsualNames(k)], source |-> [g \in Group |-> Default]]

HasCustomDir(c, d) == c.dirs[d] # <<d>>
HasCustom(c, f) == c.setting[f] # Usual
HasNames(c, k) == c.names[k] # UsualNames(k)

Resolve(base, p) ==
  IF p # <<>> /\ ~IsAbsolute(p) /\ base # <<>> THEN Normal(base \o p) ELSE p

ResolveRelativePaths(c) == [c EXCEPT !.dirs = [d \in Dir |-> Resolve(c.base, @[d])]]

\* Whether a merge of other changes something in the group.
Changes(other, g) ==
  CASE g = "paths" -> other.base # <<>> \/ \E d \in Dir : HasCustomDir(other, d)
    [] g = "security" -> \E k \in Names : HasNames(other, k)
    [] g \in {"loading", "logging"} -> \E f \in Setting : GroupOf(f) = g /\ HasCustom(other, f)

MergeFrom_Defaults(c, other, source) ==
  ResolveRelativePaths([c EXCEPT !.base = other.base, !.setting = other.setting, !.names = other.names])
MergeFrom(c, other, source) ==
  LET Takes(g) == source >= c.source[g]
      Merged(k) == IF source = Override THEN other.names[k] ELSE c.names[k] \cup other.names[k]
  IN  ResolveRelativePaths(
        [base |-> IF Takes("paths") /\ other.base # <<>> THEN other.base ELSE c.base,
         dirs |-> [d \in Dir |-> IF Takes("paths") /\ HasCustomDir(other, d)
                                 THEN other.dirs[d] ELSE c.dirs[d]],
         setting |-> [f \in Setting |-> IF Takes(GroupOf(f)) /\ HasCustom(other, f)
                                        THEN other.setting[f] ELSE c.setting[f]],
         names |-> [k \in Names |-> IF Takes("security") /\ HasNames(other, k)
                                    THEN Merged(k) ELSE c.names[k]],
         source |-> [g \in Group |-> IF Takes(g) /\ Changes(other, g) THEN source ELSE c.source[g]]])

\* Validate: no two directories are the same.
ConfigValidates(c) ==
  c.base # <<>> /\ \A d, e \in Dir : d # e => c.dirs[d] # c.dirs[e]

=============================================================================

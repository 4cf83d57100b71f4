---------------------------------- MODULE Host ----------------------------------
(***************************************************************************)
(* PlugifyBuilder, which makes a configuration out of those it was given,  *)
(* and the Plugify it builds, which checks the directories and owns the    *)
(* extension manager.  Of the manager there is whether its Initialize has  *)
(* succeeded; module Manager is about the rest.                            *)
(*                                                                         *)
(* A builder builds once, as it gives its services away.                   *)
(***************************************************************************)
EXTENDS Config, FiniteSetsExt

CONSTANTS
  Given,        \* bound: configurations a file has, or a program passes
  BaseDirs,     \* bound: directories passed to WithBaseDir
  CurrentPath,  \* std::filesystem::current_path()
  Severities,   \* bound: log levels of the loggers passed
  Broken,       \* a file that cannot be read, or has no configuration
  NotGiven

HostAssumption ==
  /\ ConfigAssumption
  /\ BaseDirs \cup {CurrentPath} \subseteq Path /\ IsAbsolute(CurrentPath)
  /\ Given \subseteq Configuration /\ Severities \subseteq Text
  /\ Broken \notin Configuration /\ NotGiven \notin Configuration \cup {Broken}

VARIABLES
  builder,      \* PlugifyBuilder::Impl
  life,         \* of the Plugify: "building", "built", "gone", "aborted"
  config,       \* its config
  initialized,  \* its initialized
  running,      \* its manager's initialized
  exists        \* the directories there are

hostVars == <<builder, life, config, initialized, running, exists>>

Threads == {"owner", "other"}

HostInit ==
  /\ builder = [file |-> NotGiven, base |-> NotGiven, overrides |-> Fresh, hasPaths |-> FALSE]
  /\ life = "building"
  /\ config = Fresh
  /\ initialized = FALSE
  /\ running = FALSE
  /\ exists \in SUBSET (BaseDirs \cup {CurrentPath})

-----------------------------------------------------------------------------
(* The builder.  hasPaths stands for hasBaseDirOverride or hasPathsOverride. *)

Built == <<life, config, initialized, running, exists>>

With(b) == life = "building" /\ builder' = b /\ UNCHANGED Built

WithBaseDir == \E dir \in BaseDirs :
  With([builder EXCEPT !.overrides.base = dir, !.hasPaths = TRUE])

WithPaths == \E c \in Given :
  With([builder EXCEPT !.overrides.base = c.base, !.overrides.dirs = c.dirs, !.hasPaths = TRUE])

\* The file is read by Build.
WithConfigFile == \E c \in Given \cup {Broken} : With([builder EXCEPT !.file = c])

WithConfig == \E c \in Given : With([builder EXCEPT !.base = c])

WithLogger == \E level \in Severities : With([builder EXCEPT !.overrides.setting["severity"] = level])

Merge(c, other, source) == IF other = NotGiven THEN c ELSE MergeFrom(c, other, source)

FinalConfig_Unresolved ==
  LET given == Merge(Merge(Fresh, builder.file, File), builder.base, Builder)
      final == IF builder.hasPaths THEN MergeFrom(given, builder.overrides, Override) ELSE given
  IN  [final EXCEPT !.base = IF @ = <<>> THEN CurrentPath ELSE @]
FinalConfig ==
  LET given == Merge(Merge(Fresh, builder.file, File), builder.base, Builder)
      final == IF builder.hasPaths THEN MergeFrom(given, builder.overrides, Override) ELSE given
  IN  ResolveRelativePaths([final EXCEPT !.base = IF @ = <<>> THEN CurrentPath ELSE @])

Build ==
  /\ life = "building"
  /\ IF builder.file # Broken /\ ConfigValidates(FinalConfig)
     THEN life' = "built" /\ config' = FinalConfig
     ELSE UNCHANGED <<life, config>>
  /\ UNCHANGED <<builder, initialized, running, exists>>

-----------------------------------------------------------------------------
(* The host.  Its calls are refused, or throw, on a thread that did not      *)
(* build it.                                                                 *)

CheckDirectories ==
  /\ config.base = Normal(config.base) /\ config.base \in exists
  /\ \A d \in Dir : config.dirs[d] # <<>> /\ Normal(config.dirs[d]) = config.dirs[d]
  /\ \A d, e \in Dir : d # e => ~Nested(config.dirs[d], config.dirs[e])

\* A directory that cannot be created is logged and no more.
Initialize ==
  /\ life = "built" /\ ~initialized
  /\ CheckDirectories
  /\ \E made \in {{}, {config.dirs[d] : d \in Dir}} : exists' = exists \cup made
  /\ initialized' = TRUE
  /\ UNCHANGED <<builder, life, config, running>>

\* Manager::Initialize succeeds; the program calls it, before or after the host's.
InitializeManager ==
  /\ life = "built" /\ ~running
  /\ running' = TRUE
  /\ UNCHANGED <<builder, life, config, initialized, exists>>

Terminate ==
  /\ life = "built" /\ initialized
  /\ initialized' = FALSE
  /\ running' = FALSE
  /\ UNCHANGED <<builder, life, config, exists>>

TerminateManager ==
  /\ life = "built" /\ running
  /\ running' = FALSE
  /\ UNCHANGED <<builder, life, config, initialized, exists>>

\* The last reference goes: the host ends as by Terminate, then the manager as by
\* its own.  Terminate throws off the owner thread, and a destructor aborts.
Drop == \E thread \in Threads :
  /\ life = "built"
  /\ IF initialized /\ thread # "owner"
     THEN life' = "aborted" /\ UNCHANGED <<initialized, running>>
     ELSE life' = "gone" /\ initialized' = FALSE /\ running' = FALSE
  /\ UNCHANGED <<builder, config, exists>>

HostOver == life \in {"gone", "aborted"} /\ UNCHANGED hostVars

HostNext ==
  \/ WithBaseDir \/ WithPaths \/ WithConfigFile \/ WithConfig \/ WithLogger \/ Build
  \/ Initialize \/ InitializeManager \/ Terminate \/ TerminateManager \/ Drop \/ HostOver

HostSpec == HostInit /\ [][HostNext]_hostVars

-----------------------------------------------------------------------------
(* Properties. *)

\* What was given by each source, from the lowest priority, File, to the highest.
Sources == <<builder.file, builder.base, builder.overrides>>
GivenBy == {i \in DOMAIN Sources : Sources[i] # NotGiven}

GivenBases == ({CurrentPath} \cup {Sources[i].base : i \in GivenBy}) \ {<<>>}
GivenPlaces(d) == {<<d>>} \cup {Sources[i].dirs[d] : i \in GivenBy}

\* Places taken relative to a base directory, for certain and when a merge may have.
Taken(places) == {Resolve(base, p) : base \in GivenBases, p \in places}
PerhapsTaken(places) == places \cup Taken(places)

\* "Resolve all relative paths" (Build): a directory of the host is one that was
\* given, or its default, taken relative to a base directory: once when the base
\* directories given are absolute, however many merges have resolved it since; but
\* a relative one is put before the directory by each of up to three merges, too.
DirsFromGiven ==
  life = "built" => \A d \in Dir :
    config.dirs[d] \in IF \A base \in GivenBases : IsAbsolute(base) THEN Taken(GivenPlaces(d))
                       ELSE Taken(PerhapsTaken(PerhapsTaken(PerhapsTaken(GivenPlaces(d)))))

\* README.md:238: with baseDir "./app" and extensionsDir "extensions", whatever the
\* base directory is, a directory is relative to it once.
DirsResolvedOnce == life = "built" => \A d \in Dir : config.dirs[d] \in Taken(GivenPlaces(d))

\* The log level of WithLogger is an override that Build merges only with paths.
Overlooked(f) == HasCustom(builder.overrides, f) /\ ~builder.hasPaths

\* Every setting of the host that is not overlooked, and its base directory, is that
\* of the source of the highest priority that sets it; names are those of all sources.
BuiltFromHighest ==
  life = "built" =>
    /\ \A f \in Setting :
         LET highest == Max({Default} \cup {i \in GivenBy : HasCustom(Sources[i], f)})
         IN  ~Overlooked(f) =>
               config.setting[f] = IF highest = Default THEN Usual ELSE Sources[highest].setting[f]
    /\ LET highest == Max({Default} \cup {i \in GivenBy : Sources[i].base # <<>>})
       IN  config.base = IF highest = Default THEN CurrentPath ELSE Sources[highest].base
    /\ \A k \in Names :
         config.names[k] = UNION ({UsualNames(k)} \cup {Sources[i].names[k] : i \in GivenBy})

\* plugify.cpp:424: "Apply specific overrides (highest priority)": what the builder
\* overrides is what the host has.
OverridesAreHighest ==
  life = "built" =>
    \A f \in Setting : HasCustom(builder.overrides, f) =>
      config.setting[f] = builder.overrides.setting[f]

=============================================================================

-------------------------------- MODULE Registrar --------------------------------
(***************************************************************************)
(* The registry of names by id, one for the process.  An extension is      *)
(* registered when it gets its manifest, until it is destroyed; a manager  *)
(* numbers the extensions it discovers from 0.                             *)
(***************************************************************************)
EXTENDS Naturals

CONSTANTS
  Managers,
  ExtensionName,
  MaxId,  \* bound: the highest id
  Unnamed  \* no name

RegistrarAssumption == MaxId \in Nat /\ Unnamed \notin ExtensionName

VARIABLES
  extensions,  \* the name of each extension of each manager, Unnamed without a manifest
  registry,    \* the names registered
  shared       \* history: the ids that had names in two managers, until none names them

registrar == <<extensions, registry, shared>>

Id == 0..MaxId

RegistrarInit ==
  /\ extensions = [m \in Managers |-> [i \in {} |-> Unnamed]]
  /\ registry = [i \in Id |-> Unnamed]
  /\ shared = {}

\* The managers with an extension that has the id and a name.
Naming(i) == {m \in Managers : i \in DOMAIN extensions[m] /\ extensions[m][i] # Unnamed}

\* History of an action: two managers may number their extensions alike.
Share ==
  shared' = {i \in Id : \/ \E m, k \in Naming(i)' : m # k
                        \/ i \in shared /\ Naming(i)' # {}}

\* The destructors of the extensions of m.
Unregistered_Never(m) == registry
Unregistered(m) ==
  [i \in Id |-> IF i \in DOMAIN extensions[m] /\ extensions[m][i] # Unnamed THEN Unnamed ELSE registry[i]]

\* DiscoverExtensions; the extensions from before give way.
Discover(m) == \E n \in 0..(MaxId + 1) :
  /\ extensions' = [extensions EXCEPT ![m] = [i \in 0..(n - 1) |-> Unnamed]]
  /\ registry' = Unregistered(m)
  /\ Share

\* SetManifest, by the parsing stage in any order; a manifest may be refused.
SetManifest(m) == \E i \in DOMAIN extensions[m], name \in ExtensionName :
  /\ extensions[m][i] = Unnamed
  /\ extensions' = [extensions EXCEPT ![m][i] = name]
  /\ registry' = [registry EXCEPT ![i] = name]
  /\ Share

\* ~Manager
Destroy(m) ==
  /\ extensions' = [extensions EXCEPT ![m] = [i \in {} |-> Unnamed]]
  /\ registry' = Unregistered(m)
  /\ Share

RegistrarNext == \E m \in Managers : Discover(m) \/ SetManifest(m) \/ Destroy(m)

RegistrarSpec == RegistrarInit /\ [][RegistrarNext]_registrar

\* ToString gives the id of an extension with a manifest its name, and any other id
\* none: no name outlives its extension, whatever was discovered again.  Managers
\* number alike: of an id that two have named it gives one of the names or, once an
\* extension of either has gone, perhaps none.
RegistryNamesExtensions ==
  \A i \in Id :
    LET names == {extensions[m][i] : m \in Naming(i)}
    IN  IF i \in shared THEN registry[i] \in names \cup {Unnamed}
        ELSE IF names = {} THEN registry[i] = Unnamed ELSE names = {registry[i]}

=============================================================================

-------------------------------- MODULE MCParts --------------------------------
(***************************************************************************)
(* The parts around the manager, each on its own, those of MCHost and the  *)
(* services: "which" says the one a behaviour is about.                    *)
(***************************************************************************)
EXTENDS MCHost, MCServiceLocator, MCResolver, MCAssemblyCache

parts == <<locatorVars, resolverVars, cacheVars>>
partsVars == <<mcVars, parts>>

\* What a behaviour is not about stays in one of its initial states.
PartsInit ==
  /\ MCInit
  /\ LocatorInit /\ ResolverInit /\ CacheInit

HostParts == MCNext /\ UNCHANGED parts

PartsNext ==
  \/ HostParts
  \/ which = "locator" /\ LocatorNext /\ UNCHANGED <<mcVars, resolverVars, cacheVars>>
  \/ which = "resolver" /\ ResolverNext /\ UNCHANGED <<mcVars, locatorVars, cacheVars>>
  \/ which = "cache" /\ CacheNext /\ UNCHANGED <<mcVars, locatorVars, resolverVars>>

PartsSpec ==
  PartsInit /\ [][PartsNext]_partsVars /\ WF_partsVars(Resolves /\ UNCHANGED parts)

=============================================================================

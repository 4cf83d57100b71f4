SPECIFICATION ResolverSpec
CONSTANTS
  base = base
  base2 = base2
  app = app
  ring1 = ring1
  ring2 = ring2
  Manifest <- AllManifests
  Requires <- AllRequires
  Conflicts <- AllConflicts
  Discoveries <- AllDiscoveries
  MaxResolves = 3
INVARIANTS
  JobsInPool

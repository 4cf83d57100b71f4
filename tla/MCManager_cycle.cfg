SPECIFICATION Spec
CONSTANTS
  cpp = cpp
  py = py
  base = base
  app = app
  odd = odd
  cpp2 = cpp2
  left = left
  right = right
  user = user
  banned = banned
  None = None
  Ext <- CycleExt
  Modules <- CycleModules
  Languages = {"C++"}
  LanguageOf <- CycleLanguageOf
  Requires <- CycleRequires
  Conflicts <- CycleConflicts
  Disallowed = {banned}
  Hooks <- CycleHooks
  Listings <- CycleListings
  MaxConcurrentLoads = 1
  MaxInits = 2
INVARIANTS
  LifetimesNest
PROPERTIES
  ValidStateChanges
  FollowsProtocol

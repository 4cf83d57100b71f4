SPECIFICATION FairSpec
CONSTANTS
  cpp = cpp
  py = py
  base = base
  app = app
  odd = odd
  cpp2 = cpp2
  left = left
  right = right
  user = user
  banned = banned
  None = None
  Ext <- CrossExt
  Modules <- CrossModules
  Languages = {"C++", "Python"}
  LanguageOf <- CrossLanguageOf
  Requires <- CrossRequires
  Conflicts = {}
  Disallowed = {}
  Hooks <- CrossHooks
  Listings <- CrossListings
  MaxConcurrentLoads = 2
  MaxInits = 2
INVARIANTS
  TypeOK
  NoUseAfterShutdown
  ExportsBeforeStarts
  LifetimesNest
  SuccessMeansRunning
  ShutdownsBalance
PROPERTIES
  ValidStateChanges
  FollowsProtocol
  CallsReturn
  TerminateReachesAll

SPECIFICATION PartsSpec
CONSTANTS
  Kinds = {"host", "registrar", "manifest", "locator", "resolver", "cache"}
  None = None
  Broken = Broken
  NotGiven = NotGiven
  Text <- MCText
  Given <- MCGiven
  BaseDirs <- MCBaseDirs
  CurrentPath <- MCCurrentPath
  Severities <- MCSeverities
  Name = {"P", "Q"}
  Written <- MCWritten
  Managers = {"m", "k"}
  ExtensionName = {"x", "y"}
  Unnamed = Unnamed
  MaxId = 1
  logger = logger
  store = store
  t1 = t1
  t2 = t2
  Thread = {t1, t2}
  Service <- Services
  Needs <- Chain
  Offered <- AnyLifetime
  MaxScopes = 1
  NoLifetime = NoLifetime
  base = base
  base2 = base2
  app = app
  ring1 = ring1
  ring2 = ring2
  Manifest <- AllManifests
  Requires <- AllRequires
  Conflicts <- AllConflicts
  Discoveries <- AllDiscoveries
  MaxResolves = 3
  left = left
  right = right
  core = core
  extra = extra
  other = other
  lib = lib
  single = single
  Loader = {left, right}
  Module <- Modules
  Library <- Libraries
  LibraryOf <- Sharing
  BaseDirIsAbsolute = TRUE
  MaxAssemblies = 3
  Nil = Nil
INVARIANTS
  DirsFromGiven
  BuiltFromHighest
  RegistryNamesExtensions
  OneDefinitionPerName
  CyclesAreFound
  OnlyReentryBlocks
  DescriptorStable
  AnswersThisCall
  OneAssemblyPerLoader
  UnloadedIsForgotten
PROPERTIES
  ResolveEnds
  OnePerScope

SPECIFICATION CacheSpec
CONSTANTS
  left = left
  right = right
  core = core
  extra = extra
  other = other
  lib = lib
  single = single
  Nil = Nil
  Loader = {left, right}
  Module <- Modules
  Library <- Libraries
  LibraryOf <- Sharing
  BaseDirIsAbsolute = FALSE
  MaxAssemblies = 3
INVARIANTS
  UnloadedIsForgotten



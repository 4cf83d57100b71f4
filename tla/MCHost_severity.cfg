SPECIFICATION MCSpec
CONSTANTS
  Kinds = {"host"}
  None = None
  Broken = Broken
  NotGiven = NotGiven
  Text <- MCText
  Given <- MCGiven
  BaseDirs <- MCBaseDirs
  CurrentPath <- MCCurrentPath
  Severities <- MCSeverities
  Name = {"P", "Q"}
  Written <- MCWritten
  Managers = {"m", "k"}
  ExtensionName = {"x", "y"}
  Unnamed = Unnamed
  MaxId = 1
INVARIANT
  OverridesAreHighest

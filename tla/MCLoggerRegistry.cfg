SPECIFICATION PartsSpec
CONSTANTS
  Names <- SomeNames
  Objects = {o1, o2, o3, o4, o5, o6}
  Levels = {DEBUG}
  NoLogger = NoLogger
  NoLevel = NoLevel
SYMMETRY Addresses
INVARIANTS HeldIsRegistered ChainsEndInRoot RemovalIsComplete NothingGoneIsUsed
PROPERTIES EffectiveLevelIsKept
CHECK_DEADLOCK FALSE

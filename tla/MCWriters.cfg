SPECIFICATION PartsSpec
CONSTANTS
  BatchSize = 2
  MaxWireSize = 3
  Sizes = {1, 2}
  EventBound = 5
  FaultBound = 1
  BufferCapacity = 3
  TriggerLevel = 3
  Writers <- AllKinds
  Chains <- AllChains
  Levels = {1, 2, 3}
  Messages = {"A", "B"}
  CacheThreshold = 1
  ReleaseThreshold = 3
  Threshold = 2
  MatchLevel = 2
  LogBound = 4
  SendFaultBound = 2
INVARIANTS OutputTellsTheLog CachedComeOutInOrder BlobIsBounded
INVARIANTS ArrivesInOrder EachEventHasOnePlace RequestsFit
CHECK_DEADLOCK FALSE

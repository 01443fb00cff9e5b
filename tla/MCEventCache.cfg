SPECIFICATION PartsSpec
CONSTANTS
  ChunkSize = 11
  MaxSize = 16
  Sizes <- LeastAndWhole
  LengthWord = 1
  StreamBound = 56
  Names = {"a", "b"}
  Documents <- SomeDocuments
  Contents <- SomeContents
  Fallbacks <- SomeFallbacks
  OperationBound = 3
INVARIANTS ChunksAreTiled SizeIsStored NothingThrows OpenFileIsKept SizeIsBounded
INVARIANTS ConfigurationReplaces OldWritersAreGone LoggersAreMadeWhole
PROPERTIES ThresholdsAreReported ImplementsLossyQueue
CHECK_DEADLOCK FALSE

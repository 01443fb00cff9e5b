SPECIFICATION Spec
CONSTANTS
  Names = {"a", "b"}
  Documents <- SomeDocuments
  Contents <- SomeContents
  Fallbacks <- SomeFallbacks
  OperationBound = 2
INVARIANTS RootHasLevel
CHECK_DEADLOCK FALSE

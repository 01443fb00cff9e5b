SPECIFICATION PartsSpec
CONSTANTS
  Threads = {t1, t2}
  Operations <- WorkingOperations
  CallBound = 3
  Sizes <- SmallSizes
  Capacity = 4
  StreamBound = 7
INVARIANTS NoDeadlock WriterOutlivesCalls OnlyLatecomersAreLost
PROPERTIES CallsReturn DestructorReturns EventsLeaveTheCache
CHECK_DEADLOCK FALSE

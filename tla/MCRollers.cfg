SPECIFICATION RollersSpec
CONSTANTS
  MinIndex = 1
  MaxIndex = 3
  CompressFroms <- AllSecondNone
  MaxEvents = 2
  EventBound = 13
  FaultBound = 3
  MaxCount = 3
  SlidingCompressFroms = {1, 2, 3, 4}
  SlidingEventBound = 18
  FailureBound = 1
  RestartBound = 1
  MaxHistory = 1
  TimeCompressFroms = {0, 1, 2}
  DayLength = 2
  MonthLengths <- LongAndShort
  LookBack = 3
  Horizon = 8
  TimeEventBound = 4
  BufferSize = 2
  Sizes = {1, 3}
  FileEventBound = 3
  FileFaultBound = 2
  WorldBound = 3
INVARIANTS HistoryInOrder OnlyOldestAreRemoved LostDescriptorComesBack
INVARIANTS NewestAreKept FilesAreBounded OnlyOldEventsAreLost MonthsAreCleaned
INVARIANTS FilesTellTheEvents CheckRestores
CHECK_DEADLOCK FALSE

SPECIFICATION PartsSpec
CONSTANTS
  Threads = {t1}
  Observers = {o1, o2}
  Default = default
  HeadMax = 1
  TailMax = 2
  RecordBound = 4
  ChunkSize = 4
  MaxSize = 9
  Sizes <- SmallSizes
  LengthWord = 1
  StreamBound = 16
INVARIANTS LevelTellsTheWorst
CHECK_DEADLOCK FALSE

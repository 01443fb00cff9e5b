SPECIFICATION Spec
CONSTANTS
  Sizes <- SmallSizes
  Capacity = 4
  StreamBound = 7
INVARIANTS FlushOnDestruct
CHECK_DEADLOCK FALSE

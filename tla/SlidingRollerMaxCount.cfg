SPECIFICATION Spec
CONSTANTS
  MinIndex = 1
  MaxCount = 3
  CompressFroms = {1, 2, 3, 4}
  MaxEvents = 2
  EventBound = 18
  FailureBound = 0
  RestartBound = 0
INVARIANTS MaxCountIsMaximum
CHECK_DEADLOCK FALSE

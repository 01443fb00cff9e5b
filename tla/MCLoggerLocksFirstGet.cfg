SPECIFICATION Spec
CONSTANTS
  Threads = {t1, t2}
  Operations <- WorkingOperations
  CallBound = 3
PROPERTIES FirstGetReturns
CHECK_DEADLOCK FALSE

SPECIFICATION Spec
CONSTANTS
  Threads = {t1, t2}
  Operations <- EveryOperation
  CallBound = 3
PROPERTIES RemoveUnusedReturns
CHECK_DEADLOCK FALSE

--------------------------- MODULE MCLoggerLocks ----------------------------
(* Instances of LoggerLocks for TLC: two threads of one to three calls.      *)
EXTENDS LoggerLocks

\* Every call of both kinds of writer, but for the pair that does not work together.
WorkingOperations ==
  [asynch \in BOOLEAN |-> IF asynch THEN AllOperations \ {"remove_unused"} ELSE AllOperations]
EveryOperation == [asynch \in BOOLEAN |-> AllOperations]
=============================================================================

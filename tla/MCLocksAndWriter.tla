-------------------------- MODULE MCLocksAndWriter --------------------------
(* Instances of LoggerLocks, with two threads of one to three calls, and of  *)
(* AsyncWriter, with a cache that two or three events fill, for TLC. A       *)
(* behaviour is one of either: which, is chosen at the beginning.            *)
EXTENDS MCLoggerLocks, AsyncWriterConstants

VARIABLES part, queue, tail, taken, flushOnDestruct, stop, place, destructor, forwarded,
          emptyAt

writerVars == <<queue, tail, taken, flushOnDestruct, stop, place, destructor, forwarded,
                emptyAt>>

Asynch == INSTANCE AsyncWriter WITH worker <- place

SmallSizes == {1, 2}

\* The part that is not chosen stays in one initial state.
PartsInit ==
  /\ Init /\ Asynch!Init
  /\ part \in {"locks", "writer"}
  /\ part # "locks" => ~asynchronous /\ ~flushes
  /\ part # "writer" => place = "absent" /\ ~flushOnDestruct

PartsNext == \/ part = "locks" /\ Next /\ UNCHANGED <<part, writerVars>>
             \/ part = "writer" /\ Asynch!Next /\ UNCHANGED <<part, vars>>

\* The fairness of each, as its module states it.
PartsSpec ==
  /\ PartsInit /\ [][PartsNext]_<<part, vars, writerVars>>
  /\ \A t \in AllThreads : WF_vars(part = "locks" /\ Step(t))
  /\ \A t \in Threads : SF_vars(part = "locks" /\ AcquireCache(t))
  /\ WF_vars(part = "locks" /\ WorkerStep)
  /\ WF_writerVars(part = "writer" /\ Asynch!Worker)
  /\ WF_writerVars(part = "writer" /\ Asynch!Join)

\* The properties of AsyncWriter, where they are stated.
OnlyLatecomersAreLost == Asynch!OnlyLatecomersAreLost
DestructorReturns == Asynch!DestructorReturns
EventsLeaveTheCache == Asynch!EventsLeaveTheCache
=============================================================================

-------------------------- MODULE MCStatusManager ---------------------------
(* Instances of StatusManager, with caches of one or two that overflow and   *)
(* observers that come and go, and of EventCache on a disk that fails, for   *)
(* TLC. A behaviour is one of either: which, is chosen at the beginning.     *)
EXTENDS StatusManager

CONSTANTS ChunkSize, MaxSize, Sizes, LengthWord, StreamBound

VARIABLES part,
          buf, readPos, writePos, occupied, files, writeFile, tellp, currentSequence,
          currentSize, stats, written, callback, lastFull, taken, threw

cache == <<buf, readPos, writePos, occupied, files, writeFile, tellp, currentSequence,
           currentSize, stats, written, callback, lastFull, taken, threw>>

Cache == INSTANCE EventCache

SmallSizes == {2, 3, 4}

\* The part that is not chosen stays in its initial state.
PartsInit == Init /\ Cache!Init /\ part \in {"statuses", "faulty disk"}

PartsNext ==
  \/ part = "statuses" /\ Next /\ UNCHANGED <<part, cache>>
  \/ part = "faulty disk" /\ Cache!NextFaultyDisk /\ UNCHANGED <<part, vars>>

PartsSpec == /\ PartsInit /\ [][PartsNext]_<<part, vars, cache>>
             /\ \A t \in Threads : WF_vars(Notify(t))

\* The property of EventCache, where it is stated.
TakenInOrder == Cache!TakenInOrder
=============================================================================

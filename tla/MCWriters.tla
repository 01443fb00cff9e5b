----------------------------- MODULE MCWriters ------------------------------
(* Instances of CloudwatchWriter and of FilteredWriter for TLC. A behaviour  *)
(* is one of either: which, is chosen at the beginning.                      *)
EXTENDS CloudwatchWriter

CONSTANTS BufferCapacity, TriggerLevel, Writers, Chains, Levels, Messages, CacheThreshold,
          ReleaseThreshold, Threshold, MatchLevel, LogBound, SendFaultBound

VARIABLES part, chain, writer, duplicate, cache, logged, sendFaults

filtered == <<chain, writer, duplicate, cache, logged, sendFaults>>

Filtered == INSTANCE FilteredWriter
              WITH EventBound <- LogBound, FaultBound <- SendFaultBound,
                   faults <- sendFaults

ASSUME Assumptions == /\ Filtered!LevelAssumption /\ Filtered!MessageAssumption
                      /\ Filtered!WriterAssumption /\ Filtered!ChainAssumption
                      /\ Filtered!BufferAssumption /\ Filtered!BoundAssumption

AllKinds == {<<"queue", 2>>, <<"queue", 0>>, <<"email", 0>>, <<"direct", 0>>}

AllChains == {<<"duplicate">>, <<"threshold", "duplicate">>, <<"cache">>,
              <<"level", "cache">>, <<"cache", "duplicate">>, <<"duplicate", "cache">>}

\* The part that is not chosen stays in one initial state.
PartsInit == /\ Init /\ Filtered!Init
             /\ \/ part = "filtered"
                \/ part = "cloudwatch" /\ chain = <<"duplicate">> /\ writer.kind = "direct"

PartsNext == \/ part = "filtered" /\ Filtered!Next /\ UNCHANGED <<part, vars>>
             \/ part = "cloudwatch" /\ Next /\ UNCHANGED <<part, filtered>>

PartsSpec == PartsInit /\ [][PartsNext]_<<part, vars, filtered>>

\* The properties of FilteredWriter, where they are stated.
OutputTellsTheLog == Filtered!OutputTellsTheLog
CachedComeOutInOrder == Filtered!CachedComeOutInOrder
BlobIsBounded == Filtered!BlobIsBounded
=============================================================================

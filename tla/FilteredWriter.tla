--------------------------- MODULE FilteredWriter ---------------------------
(***************************************************************************)
(* writer::write with its filters: level_threshold_filter, level_filter,   *)
(* duplicate_message_filter and cache_and_release_filter, the last two of  *)
(* which write to the writer themselves while they evaluate an event.      *)
(* Writing holds guard_, so each call is one action.                       *)
(*                                                                         *)
(* A message stands for a formatted one.  The cache of the releasing       *)
(* filter is a queue that is never full here (EventCache has the rest).    *)
(***************************************************************************)
EXTENDS BatchingWriter, SequencesExt

CONSTANTS Writers,          \* what the writer may be: <<kind, coalesce_max_>>
          Chains,           \* the sequences of filters it may have
          Levels, Messages,
          CacheThreshold,   \* cache_threshold_
          ReleaseThreshold, \* release_threshold_
          Threshold,        \* level_ of level_threshold_filter
          MatchLevel,       \* level_ of level_filter, which accepts it
          EventBound,       \* no more events than this are logged
          FaultBound        \* no more writes than this end in an exception

Filters == {"threshold", "level", "duplicate", "cache"}

LevelAssumption == /\ Levels \subseteq Int /\ CacheThreshold \in Int
                   /\ ReleaseThreshold \in Int /\ Threshold \in Int /\ MatchLevel \in Int
MessageAssumption == "notice" \notin Messages
WriterAssumption == Writers \subseteq {"queue", "email", "direct"} \X Nat
ChainAssumption == Chains \subseteq Seq(Filters)
BoundAssumption == EventBound \in Nat

VARIABLES chain,     \* filters_
          writer,    \* what write_impl has done
          duplicate, \* count_ and message_ of the duplicate_message_filter
          cache,     \* cache_ of the cache_and_release_filter
          logged,    \* all events passed to write
          faults     \* how many of them ended in an exception

vars == <<chain, writer, duplicate, cache, logged, faults>>

Init == /\ chain \in Chains
        /\ \E w \in Writers : writer = NewWriter(w[1], w[2])
        /\ duplicate = [count |-> 0, message |-> "none"]
        /\ cache = <<>>
        /\ logged = <<>>
        /\ faults = 0

-----------------------------------------------------------------------------
(* The filters.  s is what an evaluation finds and leaves: the states of   *)
(* the filters and the writer, and what has been decided about the event.  *)

Write(s, e) == [s EXCEPT !.writer = WriteImpl(@, e)]

ByThreshold(s, e) ==
  [s EXCEPT !.verdict = IF e.level >= Threshold THEN "NEUTRAL" ELSE "DENY"]

\* With on_match ACCEPT and on_mismatch NEUTRAL.
ByLevel(s, e) ==
  [s EXCEPT !.verdict = IF e.level = MatchLevel THEN "ACCEPT" ELSE "NEUTRAL"]

\* The notice has the level of the event that ends the row.
Notice(n, e) == [id |-> e.id, level |-> e.level, message |-> "notice", times |-> n]

NewRow(s, e) == [s EXCEPT !.duplicate = [count |-> 1, message |-> e.message]]

\* Mutant: the count begins again before the notice is written.
ByDuplicateForgetting(s, e) ==
  IF s.duplicate.count > 0 /\ s.duplicate.message = e.message
  THEN [s EXCEPT !.duplicate.count = @ + 1, !.verdict = "DENY"]
  ELSE NewRow(IF NewRow(s, e).duplicate.count > 1
              THEN Write(s, Notice(s.duplicate.count, e)) ELSE s, e)
\* If the notice throws, the row goes on.
ByDuplicate(s, e) ==
  IF s.duplicate.count > 0 /\ s.duplicate.message = e.message
  THEN [s EXCEPT !.duplicate.count = @ + 1, !.verdict = "DENY"]
  ELSE LET t == IF s.duplicate.count > 1 THEN Write(s, Notice(s.duplicate.count, e)) ELSE s
       IN  IF t.writer.threw THEN t ELSE NewRow(t, e)

Uncache(s, e) == IF s.writer.threw THEN s
                 ELSE [Write(s, e) EXCEPT !.cache = Tail(@)]

\* An exception ends the releasing: what has been popped is gone, the rest stays.
Released(s) == LET After[n \in 0 .. Len(s.cache)] ==
                     IF n = 0 THEN s ELSE Uncache(After[n - 1], s.cache[n])
               IN  After[Len(s.cache)]

\* Mutant: the event that releases is written before what it releases.
ByCacheLate(s, e) ==
  CASE e.level >= ReleaseThreshold ->
         [Released(Write(s, e)) EXCEPT !.verdict = "DENY"]
    [] e.level < ReleaseThreshold /\ e.level <= CacheThreshold ->
         [s EXCEPT !.cache = Append(@, e), !.verdict = "DENY"]
    [] OTHER -> s
\* What is released is written to the writer past the other filters.
ByCache(s, e) ==
  CASE e.level >= ReleaseThreshold ->
         [Released(s) EXCEPT !.verdict = "ACCEPT"]
    [] e.level < ReleaseThreshold /\ e.level <= CacheThreshold ->
         [s EXCEPT !.cache = Append(@, e), !.verdict = "DENY"]
    [] OTHER -> s

Evaluated(filter, s, e) == CASE filter = "threshold" -> ByThreshold(s, e)
                             [] filter = "level"     -> ByLevel(s, e)
                             [] filter = "duplicate" -> ByDuplicate(s, e)
                             [] filter = "cache"     -> ByCache(s, e)

\* writer::permits: the first DENY or ACCEPT ends it.
PassedOn(filter, s, e) == IF s.verdict # "NEUTRAL" \/ s.writer.threw THEN s
                          ELSE Evaluated(filter, s, e)
Permitted(s, e) == LET After[n \in 0 .. Len(chain)] ==
                         IF n = 0 THEN s ELSE PassedOn(chain[n], After[n - 1], e)
                   IN  After[Len(chain)]

-----------------------------------------------------------------------------
(* writer::write and flush.                                                *)

Quiet(w) == [w EXCEPT !.luck = 0, !.threw = FALSE]
Fault(w) == IF w.threw THEN faults < FaultBound /\ faults' = faults + 1
                       ELSE UNCHANGED faults

\* An exception is caught and reported.
Log(level, message, luck) ==
  /\ Len(logged) < EventBound
  /\ LET e == [id |-> Len(logged) + 1, level |-> level, message |-> message, times |-> 0]
         p == Permitted([writer |-> [writer EXCEPT !.luck = luck], verdict |-> "NEUTRAL",
                         duplicate |-> duplicate, cache |-> cache], e)
         w == IF p.verdict = "DENY" \/ p.writer.threw THEN p.writer ELSE WriteImpl(p.writer, e)
     IN  /\ logged' = Append(logged, e)
         /\ writer' = Quiet(w) /\ duplicate' = p.duplicate /\ cache' = p.cache
         /\ Fault(w)
  /\ UNCHANGED chain

\* Called by the application and by the destructor of the logger.  It goes to the queue
\* even when there is nothing to send; only queues have it.
FlushWriter(luck) ==
  /\ writer.kind = "queue"
  /\ LET w == Flush([writer EXCEPT !.luck = luck])
     IN  writer' = Quiet(w) /\ Fault(w)
  /\ UNCHANGED <<chain, duplicate, cache, logged>>

\* No evaluation sends more often than this.
MaxLuck == EventBound + 1

Next == \/ \E level \in Levels, message \in Messages, luck \in {0, 1, MaxLuck} :
             Log(level, message, luck)
        \/ \E luck \in {0, 1} : FlushWriter(luck)

Spec == Init /\ [][Next]_vars

-----------------------------------------------------------------------------
(* Properties.                                                             *)

Out == writer.sent \o writer.held
Repeated(message, n) == [i \in 1 .. n |-> message]

\* What a reader takes the output to say.
Read(text, e) == IF e.message = "notice" THEN text \o Repeated(Last(text), e.times - 1)
                 ELSE Append(text, e.message)
Expanded(events) ==
  LET Text[n \in 0 .. Len(events)] == IF n = 0 THEN <<>> ELSE Read(Text[n - 1], events[n])
  IN  Text[Len(events)]
Pending == Repeated(duplicate.message, duplicate.count - 1)

\* What was logged and not held back by the level_threshold_filter.
Told(filters, text, e) ==
  IF Head(filters) = "threshold" /\ e.level < Threshold THEN text ELSE Append(text, e.message)
Texts(filters, events) ==
  LET Text[n \in 0 .. Len(events)] ==
        IF n = 0 THEN <<>> ELSE Told(filters, Text[n - 1], events[n])
  IN  Text[Len(events)]

IsCached(e) == e.level <= CacheThreshold /\ e.level < ReleaseThreshold

\* As long as nothing throws, a writer that drops no events and whose last filter is the
\* duplicate_message_filter, with no filter before it that accepts, tells in its output
\* and its notices exactly which messages were logged, how often and in which order; the
\* notice for the row that is going on is still to come.
OutputTellsTheLog ==
  /\ faults = 0 /\ writer.kind # "email"
  /\ chain \in {<<"duplicate">>, <<"threshold", "duplicate">>}
  => Expanded(Out) \o Pending = Texts(chain, logged)

\* Whatever throws, what the cache_and_release_filter has held back comes out in the
\* order of logging, once, and before the event that releases it, in a blob or a mail too;
\* unless a level_filter accepts such events before the other filter can see them.
CachedComeOutInOrder ==
  /\ "cache" \in ToSet(chain)
  /\ "level" \in ToSet(chain) => MatchLevel > CacheThreshold /\ MatchLevel < ReleaseThreshold
  =>
    \A i, j \in DOMAIN Out :
      i < j /\ Out[i].message # "notice" /\ Out[j].message # "notice" =>
        /\ Out[i].id # Out[j].id
        /\ IsCached(Out[j]) /\ (IsCached(Out[i]) \/ Out[i].level >= ReleaseThreshold)
             => Out[i].id < Out[j].id

\* While every blob can be sent, none is left with coalesce_max_ events or more.  The
\* count is compared for equality: after a blob that could not be sent it is past the
\* limit and nothing is sent until someone flushes.
BlobIsBounded ==
  writer.kind = "queue" /\ writer.max > 0 /\ faults = 0 => Len(writer.held) < writer.max
=============================================================================

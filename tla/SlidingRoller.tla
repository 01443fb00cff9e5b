--------------------------- MODULE SlidingRoller ----------------------------
(***************************************************************************)
(* A rolling_file_writer with a sliding_numbered_file_roller, a size       *)
(* trigger and a file compressor.  Files are never renamed: the number of  *)
(* the file that is written grows, and what is MaxCount behind it is       *)
(* removed.  NumberedRoller has the writer in more detail; here a failed   *)
(* compression and a restart are what can go wrong.                        *)
(*                                                                         *)
(* A file is the set of its events. The first file has no number in its    *)
(* name and stands below MinIndex.                                         *)
(***************************************************************************)
EXTENDS Integers, FiniteSets, Functions

CONSTANTS MinIndex,       \* min_index_
          MaxCount,       \* max_count_
          CompressFroms,  \* what get_min_index() of the compressor may be
          MaxEvents,      \* max_size_ of the trigger
          EventBound,     \* no more events than this are written
          FailureBound,   \* no more compressions than this fail
          RestartBound    \* no more restarts than this happen

CountAssumption == /\ MinIndex \in Int /\ MaxCount \in Nat \ {0}
                   /\ CompressFroms \subseteq Nat /\ MaxEvents \in Nat \ {0}

VARIABLES compressFrom,  \* get_min_index() of the compressor
          files,         \* the events in each file that exists
          current,       \* cur_index_
          open,          \* the file that the writer has open, or had open last
          event,         \* the events written so far
          failures, restarts

vars == <<compressFrom, files, current, open, event, failures, restarts>>

Plain(n) == [number |-> n, compressed |-> FALSE]
Exists(name) == name \in DOMAIN files

\* get_file_name, with the extension of the compressor.
IsCompressed(n, cur) == n <= cur - compressFrom
Name(n, cur) == [number |-> n, compressed |-> IsCompressed(n, cur)]

Opened(fs, name) == IF name \in DOMAIN fs THEN fs
                    ELSE [f \in DOMAIN fs \cup {name} |-> IF f = name THEN {} ELSE fs[f]]
Written(fs, name, e) == [Opened(fs, name) EXCEPT ![name] = @ \cup {e}]

Init == /\ compressFrom \in CompressFroms
        /\ current = MinIndex - 1
        /\ open = Plain(current)
        /\ files = [f \in {open} |-> {}]
        /\ event = 0 /\ failures = 0 /\ restarts = 0

-----------------------------------------------------------------------------
(* sliding_numbered_file_roller::roll, with the number cur made one more.  *)

\* Mutant: the file to be removed is looked for without the extension.
RemovedPlain(cur) == Restrict(files, DOMAIN files \ {Plain(cur - MaxCount)})
\* Mutant: the window is one file smaller.
RemovedEarly(cur) == Restrict(files, DOMAIN files \ {Name(cur - MaxCount + 1, cur)})
Removed(cur) ==
  IF cur - MaxCount >= MinIndex - 1
  THEN Restrict(files, DOMAIN files \ {Name(cur - MaxCount, cur)}) ELSE files

MustCompress(fs, cur) == /\ cur - compressFrom >= MinIndex - 1
                         /\ Plain(cur - compressFrom) \in DOMAIN fs

Compressed(fs, n) ==
  LET gz == [number |-> n, compressed |-> TRUE]
  IN  [f \in (DOMAIN fs \cup {gz}) \ {Plain(n)} |-> IF f = gz THEN fs[Plain(n)] ELSE fs[f]]

Rolled(cur) == LET fs == Removed(cur)
               IN  IF MustCompress(fs, cur) THEN Compressed(fs, cur - compressFrom) ELSE fs

-----------------------------------------------------------------------------
(* rolling_file_writer::write_impl.                                        *)

IsTriggered == Exists(open) /\ Cardinality(files[open]) >= MaxEvents

Write ==
  /\ ~IsTriggered /\ event < EventBound
  /\ event' = event + 1
  /\ files' = Written(files, open, event')
  /\ UNCHANGED <<compressFrom, current, open, failures, restarts>>

\* The number has grown when the new file is opened, which may be there already.
WriteRolling ==
  /\ IsTriggered /\ event < EventBound
  /\ event' = event + 1
  /\ current' = current + 1
  /\ open' = Plain(current')
  /\ files' = Written(Rolled(current'), open', event')
  /\ UNCHANGED <<compressFrom, failures, restarts>>

\* The number has grown, too, when the compression throws. The event is lost and the file
\* stays closed; it is still full, so that the next event rolls again.
RollFails ==
  /\ IsTriggered /\ event < EventBound /\ failures < FailureBound
  /\ MustCompress(Removed(current + 1), current + 1)
  /\ event' = event + 1
  /\ current' = current + 1
  /\ files' = Removed(current')
  /\ failures' = failures + 1
  /\ UNCHANGED <<compressFrom, open, restarts>>

\* A new process begins again with the file that has no number, whatever there is.
Restart ==
  /\ restarts < RestartBound
  /\ current' = MinIndex - 1
  /\ open' = Plain(current')
  /\ files' = Opened(files, open')
  /\ restarts' = restarts + 1
  /\ UNCHANGED <<compressFrom, event, failures>>

Next == Write \/ WriteRolling \/ RollFails \/ Restart

Spec == Init /\ [][Next]_vars

-----------------------------------------------------------------------------
(* Properties.                                                             *)

Kept == UNION Range(files)

\* Until the process is restarted, a file with a greater number is younger, even if
\* compressions fail and numbers are skipped. As long as none fails, the newest events
\* are kept, MaxEvents in each file but the last.
NewestAreKept ==
  restarts = 0 =>
    /\ \A f, g \in DOMAIN files : f.number < g.number =>
         \A old \in files[f], young \in files[g] : old < young
    /\ failures = 0 =>
         \A e \in (1 .. event) \ Kept : e <= event - (MaxCount - 1) * MaxEvents

\* What sliding_numbered_file_roller.hpp says of max_count: "the maximum of number of files
\* that can exist for this roller at a time". When compression begins with the file that
\* is to be removed, that file is looked for under the name it has once it is compressed,
\* before it is.
MaxCountIsMaximum == Cardinality(DOMAIN files) <= MaxCount

\* What remains of that maximum if compression begins anywhere else: it is exceeded only by
\* the files that a restart leaves ahead of the number, which begins again, and by those
\* that a failed compression leaves without the extension under which they are looked for
\* later. The factories turn a zero, with which the file that is written would be
\* compressed, into a one.
FilesAreBounded ==
  compressFrom \notin {0, MaxCount} =>
    Cardinality(DOMAIN files) <= MaxCount * (restarts + 1) + failures
=============================================================================

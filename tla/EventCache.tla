----------------------------- MODULE EventCache -----------------------------
(***************************************************************************)
(* The disk-backed cache of event_cache.cpp.  The oldest events are in one *)
(* memory chunk of ChunkSize bytes; when the chunk is full the younger     *)
(* ones go to files of at most ChunkSize bytes, named by a sequence        *)
(* number.  A reader that exhausts the chunk loads the oldest file into it.*)
(* When the cache holds MaxSize bytes its oldest chunk is culled.          *)
(*                                                                         *)
(* Every operation holds guard_ from its first line to its last, so each   *)
(* is one action.  Bytes are modelled by the events laid in them: what is  *)
(* in the chunk, or in a file, is a function from the offsets at which an  *)
(* event starts to that event.  An event carries its size and, to identify *)
(* it, its place in the stream of all the bytes ever pushed.               *)
(***************************************************************************)
EXTENDS Integers, FiniteSetsExt, Functions

CONSTANTS ChunkSize,    \* stats_.chunk_size_
          MaxSize,      \* stats_.max_size_
          Sizes,        \* the sizes of serialized events
          LengthWord,   \* the bytes of the length that starts an event, 4
          StreamBound   \* no push takes the stream beyond this many bytes

\* The constructor refuses a chunk that is not smaller than the cache.  An event
\* starts with its length and its other fields are not empty; the model stops at
\* events that fit a chunk.
ASSUME ChunkAssumption == /\ ChunkSize \in Nat /\ MaxSize \in Nat
                          /\ ChunkSize < MaxSize
ASSUME SizeAssumption == /\ LengthWord \in Nat
                         /\ Sizes \subseteq (LengthWord + 1) .. ChunkSize
ASSUME BoundAssumption == StreamBound \in Nat

VARIABLES
  buf,              \* mem_chunk_
  readPos,          \* read_pos_, as an offset in mem_chunk_
  writePos,         \* write_pos_, NoPos for nullptr
  occupied,         \* mem_chunk_occupied_
  files,            \* the files of directory_, by their number
  writeFile,        \* write_file_: "none", "open", or "failed" (it did not open)
  tellp,            \* write_file_->tellp()
  currentSequence,  \* current_sequence_
  currentSize,      \* stats_.current_size_
  stats,            \* files_created_, files_destroyed_ and bytes_culled_ of stats_
  written,          \* total_bytes_written_
  callback,         \* is progress_cb_ set?
  lastFull,         \* last_fullness_threshold_, as the size it was computed from
  taken,            \* the event the last successful pop returned
  threw             \* did the last operation end in an exception?

memory == <<buf, readPos, writePos, occupied>>
disk == <<files, writeFile, tellp, currentSequence>>
counts == <<currentSize, stats, written>>
progress == <<callback, lastFull>>
vars == <<memory, disk, counts, progress, taken, threw>>

Event == [at : Nat, size : Sizes]
NoEvent == [at |-> -1, size |-> 0]
NoPos == -1

Zeroed == [o \in {} |-> NoEvent]
Laid(bytes, pos, e) ==
  [o \in DOMAIN bytes \cup {pos} |-> IF o = pos THEN e ELSE bytes[o]]

Init ==
  /\ buf = Zeroed /\ readPos = 0 /\ writePos = 0 /\ occupied = 0
  /\ files = [n \in {} |-> [bytes |-> Zeroed, size |-> 0]]
  /\ writeFile = "none" /\ tellp = 0 /\ currentSequence = 0
  /\ currentSize = 0 /\ written = 0
  /\ stats = [files_created |-> 0, files_destroyed |-> 0, bytes_culled |-> 0]
  /\ callback = FALSE /\ lastFull = 0
  /\ taken = NoEvent /\ threw = FALSE

-----------------------------------------------------------------------------
(* find_oldest_file: the smallest number wins.                             *)

\* Mutant: the largest number wins.
NewestFile(fs) == Max(DOMAIN fs)
OldestFile(fs) == Min(DOMAIN fs)
Without(fs, n) == Restrict(fs, DOMAIN fs \ {n})

-----------------------------------------------------------------------------
(* The progress callback is called when the fullness crosses one of three  *)
(* thresholds since it was last called.                                    *)

AtLeast(size, percent) == 100 * size >= percent * MaxSize
Crossed(from, to) == \E t \in {80, 90, 95} : ~AtLeast(from, t) /\ AtLeast(to, t)

ReportUp(size) ==
  lastFull' = IF callback /\ Crossed(lastFull, size) THEN size ELSE lastFull

\* Mutant: falling below a threshold is not reported.
ReportDownNever(size) == UNCHANGED lastFull
ReportDown(size) ==
  lastFull' = IF callback /\ Crossed(size, lastFull) THEN size ELSE lastFull

-----------------------------------------------------------------------------
(* push, once it has laid the event in the chunk or in a file: bytes, occ  *)
(* and fs are the chunk, mem_chunk_occupied_ and the files as they then    *)
(* are, and full is stats_.current_size_ with the event in it.             *)

\* Mutant: the occupied bytes are reset before they are counted.
CulledUncounted(n, full) ==
  /\ currentSize' = full
  /\ lastFull' = IF callback THEN full ELSE lastFull

Culled(n, full) ==
  /\ currentSize' = full - n
  /\ lastFull' = IF callback THEN full - n ELSE lastFull

CullMemory(bytes, occ, fs, created, full) ==
  /\ occ > 0
  /\ buf' = Zeroed /\ occupied' = 0 /\ files' = fs
  /\ Culled(occ, full)
  /\ stats' = [stats EXCEPT !.files_created = @ + created, !.bytes_culled = @ + occ]
  /\ threw' = FALSE

CullFile(bytes, occ, fs, created, full) ==
  /\ occ = 0 /\ DOMAIN fs # {}
  /\ LET n == OldestFile(fs)
     IN  /\ buf' = bytes /\ occupied' = 0 /\ files' = Without(fs, n)
         /\ Culled(fs[n].size, full)
         /\ stats' = [stats EXCEPT !.files_created = @ + created,
                                   !.files_destroyed = @ + 1,
                                   !.bytes_culled = @ + fs[n].size]
  /\ threw' = FALSE

\* find_oldest_file throws: the counts made before the call to cull stay.
CullFails(bytes, occ, fs, created, full) ==
  /\ occ = 0 /\ DOMAIN fs = {}
  /\ buf' = bytes /\ occupied' = occ /\ files' = fs
  /\ currentSize' = full
  /\ stats' = [stats EXCEPT !.files_created = @ + created]
  /\ threw' = TRUE
  /\ UNCHANGED lastFull

Cull(bytes, occ, fs, created, full) ==
  \/ CullMemory(bytes, occ, fs, created, full)
  \/ CullFile(bytes, occ, fs, created, full)
  \/ CullFails(bytes, occ, fs, created, full)

\* Mutant: only the push that takes the cache to its maximum culls, and one that finds it
\* there, since a small chunk went for a large event, does not.
IsFullNow(full) == currentSize < MaxSize /\ full >= MaxSize
IsFull(full) == full >= MaxSize

Settle(s, bytes, occ, fs, created) ==
  LET full == currentSize + s
  IN  /\ written' = written + s
      /\ IF IsFull(full)
         THEN Cull(bytes, occ, fs, created, full)
         ELSE /\ buf' = bytes /\ occupied' = occ /\ files' = fs
              /\ currentSize' = full
              /\ stats' = [stats EXCEPT !.files_created = @ + created]
              /\ ReportUp(full)
              /\ threw' = FALSE
      /\ UNCHANGED <<readPos, callback, taken>>

Pushed(s) == [at |-> written, size |-> s]
\* Mutant: write_pos_ is kept when an event goes to a file.
StayInMemory == UNCHANGED writePos
LeaveMemory == writePos' = NoPos

InStream(s) == written + s <= StreamBound
FitsMemory(s) == writePos # NoPos /\ writePos + s <= ChunkSize

PushToMemory(s) ==
  /\ InStream(s) /\ FitsMemory(s)
  /\ writePos' = writePos + s
  /\ Settle(s, Laid(buf, writePos, Pushed(s)), occupied + s, files, 0)
  /\ UNCHANGED <<writeFile, tellp, currentSequence>>

\* A stream that never opened is at -1, which as a size_t wraps when s is added:
\* the sum is s - 1, so it is always taken to have room.
FitsFile(s) == writeFile # "none" /\ tellp + s <= ChunkSize

PushToFile(s) ==
  /\ InStream(s) /\ ~FitsMemory(s) /\ FitsFile(s) /\ writeFile = "open"
  /\ LeaveMemory
  /\ tellp' = tellp + s
  /\ Settle(s, buf, occupied,
            IF currentSequence \in DOMAIN files
            THEN [files EXCEPT ![currentSequence] =
                    [bytes |-> Laid(@.bytes, tellp, Pushed(s)), size |-> @.size + s]]
            ELSE files,
            0)
  /\ UNCHANGED <<writeFile, currentSequence>>

PushToNewFile(s) ==
  /\ InStream(s) /\ ~FitsMemory(s) /\ ~FitsFile(s)
  /\ LeaveMemory
  /\ currentSequence' = currentSequence + 1
  /\ writeFile' = "open" /\ tellp' = s
  /\ Settle(s, buf, occupied,
            [n \in DOMAIN files \cup {currentSequence + 1} |->
               IF n = currentSequence + 1
               THEN [bytes |-> Laid(Zeroed, 0, Pushed(s)), size |-> s]
               ELSE files[n]],
            1)

Push(s) == PushToMemory(s) \/ PushToFile(s) \/ PushToNewFile(s)

-----------------------------------------------------------------------------
(* pop.  The chunk has no more to give when no length fits after readPos,  *)
(* or when the length there is zero.                                       *)

NeedsLoad == readPos >= ChunkSize - LengthWord \/ readPos \notin DOMAIN buf

TakeAt(bytes, pos, occ) ==
  LET e == bytes[pos]
  IN  /\ taken' = e
      /\ buf' = bytes
      /\ readPos' = pos + e.size
      /\ occupied' = occ - e.size
      /\ currentSize' = currentSize - e.size
      /\ ReportDown(currentSize - e.size)

PopFromMemory ==
  /\ currentSize > 0 /\ ~NeedsLoad
  /\ TakeAt(buf, readPos, occupied)
  /\ threw' = FALSE
  /\ UNCHANGED <<writePos, disk, stats, written, callback>>

\* Mutant: the chunk is not zeroed before a file is read into it.
LoadedOver(file) ==
  [o \in DOMAIN file.bytes \cup DOMAIN buf |->
     IF o \in DOMAIN file.bytes THEN file.bytes[o] ELSE buf[o]]
Loaded(file) == file.bytes

\* Mutant: the file being written is loaded like any other.
ResumeNever(n) == UNCHANGED <<writePos, writeFile>>

\* When the file being written is loaded, writing goes on in memory behind it.
ResumeInMemory(n) ==
  IF writeFile # "none" /\ n = currentSequence
  THEN writePos' = tellp /\ writeFile' = "none"
  ELSE UNCHANGED <<writePos, writeFile>>

PopFromFile ==
  /\ currentSize > 0 /\ NeedsLoad /\ DOMAIN files # {}
  /\ LET n == OldestFile(files)
     IN  /\ TakeAt(Loaded(files[n]), 0, files[n].size)
         /\ ResumeInMemory(n)
         /\ files' = Without(files, n)
  /\ stats' = [stats EXCEPT !.files_destroyed = @ + 1]
  /\ threw' = FALSE
  /\ UNCHANGED <<tellp, currentSequence, written, callback>>

PopFails ==
  /\ currentSize > 0 /\ NeedsLoad /\ DOMAIN files = {}
  /\ threw' = TRUE
  /\ UNCHANGED <<memory, disk, counts, progress, taken>>

PopTimesOut ==
  /\ currentSize = 0
  /\ threw' = FALSE
  /\ UNCHANGED <<memory, disk, counts, progress, taken>>

Pop == PopFromMemory \/ PopFromFile \/ PopFails \/ PopTimesOut

SetProgressCallback ==
  /\ callback' \in BOOLEAN
  /\ threw' = FALSE
  /\ UNCHANGED <<memory, disk, counts, lastFull, taken>>

Next == \/ \E s \in Sizes : Push(s)
        \/ Pop
        \/ SetProgressCallback

Spec == Init /\ [][Next]_vars

-----------------------------------------------------------------------------
(* A disk that may refuse to make the directory, which the first new file  *)
(* needs, or to open a file.  push throws after it has dropped write_pos_, *)
(* and in the second case after it has replaced write_file_.  A stream     *)
(* that failed to open swallows the bytes written to it. What else a disk  *)
(* may refuse is not here: writes that are cut short, reads that fail, and *)
(* a file that pop has read and cannot remove.                             *)

PushFindsNoDirectory(s) ==
  /\ InStream(s) /\ ~FitsMemory(s) /\ ~FitsFile(s) /\ currentSequence = 0
  /\ LeaveMemory
  /\ threw' = TRUE
  /\ UNCHANGED <<buf, readPos, occupied, disk, counts, progress, taken>>

PushFailsToOpen(s) ==
  /\ InStream(s) /\ ~FitsMemory(s) /\ ~FitsFile(s)
  /\ LeaveMemory
  /\ currentSequence' = currentSequence + 1
  /\ writeFile' = "failed" /\ tellp' = -1
  /\ threw' = TRUE
  /\ UNCHANGED <<buf, readPos, occupied, files, counts, progress, taken>>

PushToFailedFile(s) ==
  /\ InStream(s) /\ ~FitsMemory(s) /\ FitsFile(s) /\ writeFile = "failed"
  /\ LeaveMemory
  /\ Settle(s, buf, occupied, files, 0)
  /\ UNCHANGED <<writeFile, tellp, currentSequence>>

DiskFailure(s) ==
  PushFindsNoDirectory(s) \/ PushFailsToOpen(s) \/ PushToFailedFile(s)

NextFaultyDisk == Next \/ \E s \in Sizes : DiskFailure(s)
SpecFaultyDisk == Init /\ [][NextFaultyDisk]_vars

-----------------------------------------------------------------------------
(* Properties.                                                             *)

Unread == {buf[o] : o \in {p \in DOMAIN buf : p >= readPos}}
OnDisk == UNION {Range(files[n].bytes) : n \in DOMAIN files}
Stored == Unread \cup OnDisk

IsBytes(bytes) ==
  /\ DOMAIN bytes \subseteq 0 .. ChunkSize - 1
  /\ bytes = [o \in DOMAIN bytes |-> bytes[o]]
  /\ Range(bytes) \subseteq Event

\* The variables have the types of the members they stand for.  A file has at
\* most ChunkSize bytes, so loading it never writes outside mem_chunk_.
TypeOK ==
  /\ IsBytes(buf)
  /\ readPos \in 0 .. ChunkSize
  /\ writePos \in 0 .. ChunkSize \cup {NoPos}
  /\ occupied \in 0 .. ChunkSize
  /\ DOMAIN files \subseteq 1 .. currentSequence
  /\ \A n \in DOMAIN files : /\ IsBytes(files[n].bytes)
                             /\ files[n].size \in 1 .. ChunkSize
  /\ writeFile \in {"none", "open", "failed"}
  /\ tellp \in 0 .. ChunkSize \cup {-1}
  /\ currentSequence \in Nat /\ currentSize \in Nat /\ written \in Nat
  /\ stats \in [files_created : Nat, files_destroyed : Nat, bytes_culled : Nat]
  /\ callback \in BOOLEAN /\ lastFull \in Nat
  /\ taken \in Event \cup {NoEvent}
  /\ threw \in BOOLEAN

\* From one offset to another the events of a chunk or a file lie end to end, with
\* no hole and no overlap, in the order of the stream.
Tiles(bytes, from, to) ==
  /\ from < to => from \in DOMAIN bytes
  /\ \A o \in DOMAIN bytes : o >= from =>
       LET end == o + bytes[o].size
       IN  /\ bytes[o].at = bytes[from].at + (o - from)
           /\ end = to \/ (end < to /\ end \in DOMAIN bytes)
           /\ \A p \in DOMAIN bytes : p <= o \/ p >= end

\* What is counted is what is there: the unread part of the chunk has exactly
\* mem_chunk_occupied_ bytes, writing in memory goes on exactly behind it, and
\* every file has exactly the bytes of its events.
ChunksAreTiled ==
  /\ Tiles(buf, readPos, readPos + occupied)
  /\ writePos # NoPos => writePos = readPos + occupied
  /\ \A n \in DOMAIN files : Tiles(files[n].bytes, 0, files[n].size)

\* stats_.current_size_ counts exactly the events that a reader will still get:
\* they are all the events of the last current_size_ bytes of the stream.
SizeIsStored ==
  /\ \A e \in Stored :
       /\ e.at >= written - currentSize
       /\ e.at + e.size = written \/ \E f \in Stored : f.at = e.at + e.size
  /\ currentSize > 0 => \E e \in Stored : e.at = written - currentSize

\* On a disk that works neither push, when it culls, nor pop ever throws.
NothingThrows == ~threw

\* Writing in memory resumes only when no younger event waits in a file.
MemoryWritesAreYoungest == writePos # NoPos => DOMAIN files = {} /\ writeFile = "none"

\* cull never removes the file that push is still writing, whose later events
\* would be lost, and the file is as long as its stream believes.
OpenFileIsKept ==
  writeFile = "open" => /\ currentSequence \in DOMAIN files
                        /\ files[currentSequence].size = tellp

\* Files are made and removed in the order of their numbers, and the statistics
\* count them: the files there are those made and not yet destroyed, without a gap.
FilesAreCounted ==
  /\ currentSequence = stats.files_created
  /\ DOMAIN files = stats.files_destroyed + 1 .. stats.files_created

\* Culling one chunk bounds the cache, though not by MaxSize: one chunk is removed
\* whatever its size, and may be smaller than the event that was pushed.  What never
\* grows while the cache is full is the number of chunks.  Two files next to each other
\* hold more than a chunk, so chunks that hold less than MaxSize may come to hold twice
\* as much, and the last file and what is left in memory count for a chunk each.
SizeIsBounded == currentSize < 2 * (MaxSize + ChunkSize)

\* While a callback is set, a step that leaves its thresholds behind has called it.
ThresholdsAreReported ==
  [][LET Band(size) == {t \in {80, 90, 95} : AtLeast(size, t)}
     IN  callback /\ Band(lastFull) = Band(currentSize)
           => Band(lastFull') = Band(currentSize')]_vars

\* Events are handed out in the order they were pushed, none of them twice, also after
\* pushes that could not make the directory or open a file.
TakenInOrder == [][taken' # taken => taken'.at >= taken.at + taken.size]_vars

\* The cache keeps the promise of the abstract queue.
Promise == INSTANCE LossyQueue WITH
  Capacity <- MaxSize, queue <- Stored, tail <- written
ImplementsLossyQueue == Promise!Spec
=============================================================================

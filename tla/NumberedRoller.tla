--------------------------- MODULE NumberedRoller ---------------------------
(***************************************************************************)
(* A rolling_file_writer with a numbered_file_roller, a size trigger and a *)
(* file compressor.  An event that finds the active file full makes the    *)
(* writer close it, move each numbered file to the next number, compress   *)
(* where compression begins, and open a new active file.  Every call on    *)
(* the file system is a step of its own: the process may die between any   *)
(* two of them, and a restarted one appends to what it finds.              *)
(*                                                                         *)
(* Events are numbered and of one size, a file is the set of its events,   *)
(* and the active file stands below the least number.                      *)
(***************************************************************************)
EXTENDS Integers, FiniteSets, Functions

CONSTANTS MinIndex,        \* min_index_
          MaxIndex,        \* max_index_
          CompressFroms,   \* what get_min_index() of the compressor may be
          MaxEvents,       \* max_size_ of the trigger
          EventBound,      \* no more events than this are written
          FaultBound       \* no more crashes and failed calls than this happen

ASSUME IndexAssumption == /\ MinIndex \in Int /\ MaxIndex \in Int
                          /\ MinIndex <= MaxIndex
ASSUME CompressAssumption == CompressFroms \subseteq Nat
ASSUME BoundAssumption == /\ MaxEvents \in Nat \ {0}
                          /\ EventBound \in Nat /\ FaultBound \in Nat

VARIABLES compressFrom,  \* the compressor begins with this numbered file
          files,         \* the events in each file that exists
          buffered,      \* the events that the compressor has not yet put in its file
          hasDescriptor, \* fd_ # -1
          isOpen,        \* is_open_
          event,         \* the events written so far: the last is being written
          step,          \* what the writer does next
          index,         \* i of the loop in roll
          faults         \* how often the system failed

disk == <<compressFrom, files, buffered>>
writer == <<hasDescriptor, isOpen>>
vars == <<disk, writer, event, step, index, faults>>

\* With no compressor no number is reached.
IsCompressed(n) == n - MinIndex + 1 >= compressFrom

Plain(n) == [number |-> n, compressed |-> FALSE]
Compressed(n) == [number |-> n, compressed |-> TRUE]
Active == Plain(MinIndex - 1)

Name(n) == [number |-> n, compressed |-> IsCompressed(n)]

Exists(name) == name \in DOMAIN files
With(name, content) ==
  [f \in DOMAIN files \cup {name} |-> IF f = name THEN content ELSE files[f]]
Without(name) == Restrict(files, DOMAIN files \ {name})

\* std::rename replaces what has the new name, and fails, unnoticed, if there is
\* nothing of the old one.
Renamed(from, to) ==
  IF Exists(from)
  THEN [f \in (DOMAIN files \cup {to}) \ {from} |->
          IF f = to THEN files[from] ELSE files[f]]
  ELSE files

Init == /\ compressFrom \in CompressFroms
        /\ files = [f \in {Active} |-> {}]
        /\ buffered = {}
        /\ hasDescriptor = TRUE /\ isOpen = TRUE
        /\ event = 0
        /\ step = "idle"
        /\ index = MaxIndex
        /\ faults = 0

-----------------------------------------------------------------------------
(* rolling_file_writer::write_impl.                                        *)

\* A file that is not there has no size and triggers nothing.
IsTriggered == Exists(Active) /\ Cardinality(files[Active]) >= MaxEvents

\* The file is closed before it is rolled.
Write ==
  /\ step = "idle" /\ event < EventBound
  /\ event' = event + 1
  /\ IF IsTriggered THEN step' = "remove" /\ hasDescriptor' = FALSE
                    ELSE step' = "write" /\ UNCHANGED hasDescriptor
  /\ UNCHANGED <<disk, isOpen, index, faults>>

\* Opening creates the file or appends to it.
Opened == IF Exists(Active) THEN files ELSE With(Active, {})

Open ==
  /\ step = "open"
  /\ files' = Opened
  /\ hasDescriptor' = TRUE /\ isOpen' = TRUE
  /\ step' = "write"
  /\ UNCHANGED <<compressFrom, buffered, event, index, faults>>

OpenFails ==
  /\ step = "open" /\ faults < FaultBound
  /\ isOpen' = FALSE
  /\ step' = "write"
  /\ faults' = faults + 1
  /\ UNCHANGED <<disk, hasDescriptor, event, index>>

\* file_writer::write_impl.  Three seconds after the file was last opened or looked
\* at, access to it is ensured: if it is missing it is opened.  An event that finds no
\* descriptor is discarded.
\* Mutant: a file that has lost its descriptor counts as one that is there.
MissingUnlessOpen == ~Exists(Active) /\ ~isOpen
Missing == ~Exists(Active)

WriteEvent(isDue) ==
  /\ step = "write"
  /\ IF isDue /\ Missing
     THEN /\ files' = With(Active, {event})
          /\ hasDescriptor' = TRUE /\ isOpen' = TRUE
     ELSE /\ files' = IF hasDescriptor /\ isOpen
                      THEN With(Active, files[Active] \cup {event}) ELSE files
          /\ UNCHANGED writer
  /\ step' = "idle"
  /\ UNCHANGED <<compressFrom, buffered, event, index, faults>>

EnsuringFails ==
  /\ step = "write" /\ Missing /\ faults < FaultBound
  /\ isOpen' = FALSE
  /\ step' = "idle"
  /\ faults' = faults + 1
  /\ UNCHANGED <<disk, hasDescriptor, event, index>>

-----------------------------------------------------------------------------
(* numbered_file_roller::roll.                                             *)

RemoveOldest ==
  /\ step = "remove"
  /\ files' = Without(Name(MaxIndex))
  /\ step' = "move" /\ index' = MaxIndex
  /\ UNCHANGED <<compressFrom, buffered, writer, event, faults>>

\* Mutant: the extension of the compressor is left out.
MoverPlain == IF index = MinIndex THEN Active ELSE Plain(index - 1)
\* Mutant: the file before the last is taken.
MoverSkipsOne == IF index = MinIndex THEN Active ELSE Plain(index - 2)
\* The file that goes to the number index.
Mover == IF index = MinIndex THEN Active ELSE Name(index - 1)
BeginsCompression == IsCompressed(index) /\ (index = MinIndex \/ ~IsCompressed(index - 1))
Destination == IF BeginsCompression THEN Plain(index) ELSE Name(index)

\* What follows when all is done for the number index.
After == IF index = MinIndex THEN step' = "open" /\ UNCHANGED index
                             ELSE step' = "move" /\ index' = index - 1

Move ==
  /\ step = "move"
  /\ files' = Renamed(Mover, Destination)
  /\ IF BeginsCompression /\ (Exists(Mover) \/ index = MinIndex)
     THEN step' = "compress" /\ UNCHANGED index ELSE After
  /\ UNCHANGED <<compressFrom, buffered, writer, event, faults>>

\* The result of std::rename is not looked at.
MoveIsRefused ==
  /\ step = "move" /\ Exists(Mover) /\ faults < FaultBound
  /\ IF BeginsCompression THEN step' = "compress" /\ UNCHANGED index ELSE After
  /\ faults' = faults + 1
  /\ UNCHANGED <<disk, writer, event>>

-----------------------------------------------------------------------------
(* file_compressor::compress, of the file with the number index.  What is  *)
(* compressed may still be in the memory of the library when the file it   *)
(* is read from is removed: the destructor of a local object writes the    *)
(* rest and closes.                                                        *)

\* upTo is the last event that has reached the compressed file.
CreateCompressed(upTo) ==
  /\ step = "compress" /\ Exists(Plain(index))
  /\ files' = With(Compressed(index), {e \in files[Plain(index)] : e <= upTo})
  /\ buffered' = files[Plain(index)]
  /\ step' = "drop"
  /\ UNCHANGED <<compressFrom, writer, event, index, faults>>

Dropped == Without(Plain(index))

DropPlain ==
  /\ step = "drop"
  /\ files' = Dropped
  /\ step' = "finish"
  /\ UNCHANGED <<compressFrom, buffered, writer, event, index, faults>>

Finish ==
  /\ step = "finish"
  /\ files' = With(Compressed(index), buffered)
  /\ buffered' = {}
  /\ After
  /\ UNCHANGED <<compressFrom, writer, event, faults>>

\* The result of closing is not looked at.
FinishFails ==
  /\ step = "finish" /\ faults < FaultBound
  /\ buffered' = {}
  /\ After
  /\ faults' = faults + 1
  /\ UNCHANGED <<compressFrom, files, writer, event>>

\* An exception leaves roll and write_impl: the writer catches it and reports it.
Abandon == /\ step' = "idle"
           /\ buffered' = {}
           /\ UNCHANGED <<compressFrom, files, writer, event, index>>

NothingToCompress ==
  /\ step = "compress" /\ ~Exists(Plain(index))
  /\ Abandon
  /\ UNCHANGED faults

CompressionFails ==
  /\ step \in {"compress", "drop"} /\ faults < FaultBound
  /\ Abandon
  /\ faults' = faults + 1

\* The process dies and is started again: the constructor opens the active file.
Restart ==
  /\ faults < FaultBound
  /\ files' = Opened
  /\ buffered' = {}
  /\ hasDescriptor' = TRUE /\ isOpen' = TRUE
  /\ step' = "idle"
  /\ faults' = faults + 1
  /\ UNCHANGED <<compressFrom, event, index>>

Next == \/ Write \/ Open \/ OpenFails \/ EnsuringFails
        \/ \E isDue \in BOOLEAN : WriteEvent(isDue)
        \/ RemoveOldest \/ Move \/ MoveIsRefused
        \/ \E upTo \in 0 .. event : CreateCompressed(upTo)
        \/ DropPlain \/ Finish \/ FinishFails
        \/ NothingToCompress \/ CompressionFails
        \/ Restart

Spec == Init /\ [][Next]_vars

-----------------------------------------------------------------------------
(* Properties.                                                             *)

Names == [number : MinIndex - 1 .. MaxIndex, compressed : BOOLEAN]
Steps == {"idle", "remove", "move", "compress", "drop", "finish", "open", "write"}

TypeOK == /\ compressFrom \in CompressFroms
          /\ DOMAIN files \subseteq Names
          /\ \A f \in DOMAIN files : files[f] \subseteq 1 .. event
          /\ buffered \subseteq 1 .. event
          /\ hasDescriptor \in BOOLEAN /\ isOpen \in BOOLEAN
          /\ event \in 0 .. EventBound
          /\ step \in Steps
          /\ index \in MinIndex .. MaxIndex
          /\ faults \in 0 .. FaultBound

\* Whatever fails and whenever the process dies, the events of a file with a greater
\* number are older than those of a file with a smaller number, but for the events that
\* are in both, because a compression that did not end has left them twice.
HistoryInOrder ==
  \A f, g \in DOMAIN files : f.number > g.number
    => \A old \in files[f] \ files[g], young \in files[g] \ files[f] : old < young

\* As long as nothing fails, the events that are no longer in any file are older than
\* all that are, and are missed only when every number is taken, by full files.
OnlyOldestAreRemoved ==
  faults = 0 /\ step = "idle" =>
    LET kept == UNION Range(files)
        lost == (1 .. event) \ kept
    IN  /\ \A e \in lost, k \in kept : e < k
        /\ lost # {} => \A n \in MinIndex .. MaxIndex :
                          Exists(Name(n)) /\ Cardinality(files[Name(n)]) = MaxEvents

\* A writer that has lost its descriptor to a failed roll always has a way back: the
\* next event rolls again, or the active file is missing and will be made again.
LostDescriptorComesBack ==
  ~(hasDescriptor /\ isOpen) /\ step = "idle" => IsTriggered \/ Missing
=============================================================================

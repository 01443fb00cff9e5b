---------------------------- MODULE RollerProofs -----------------------------
(***************************************************************************)
(* What modules NumberedRoller, SlidingRoller, FileWriter and TimeRoller   *)
(* check of a few files, proved for any numbers, any window, any size of   *)
(* the files, of the buffer and of the events, any compressor, any         *)
(* calendar and any number of crashes and failures.  The other three come  *)
(* after NumberedRoller, in that order, as their instances in MCRollers.   *)
(*                                                                         *)
(* LostDescriptorComesBack speaks of a writer between two events.  It      *)
(* follows from what holds during a roll: as long as the writer is without *)
(* its file, the active file is either still too full or already moved.    *)
(* HistoryInOrder needs a place for every file, the plain and the          *)
(* compressed one of a number included, and for what the compressor has in *)
(* memory (History, below).  OnlyOldestAreRemoved sees the files between   *)
(* two events; during a roll there is a gap in their row, which goes from  *)
(* the oldest number down to the active file (Undisturbed, further below). *)
(***************************************************************************)
EXTENDS MCRollers, Sequences, FiniteSetTheorems, WellFoundedInduction, TLAPS

\* An event that comes now starts a roll, or finds no active file.
Recoverable == IsTriggered \/ Missing

\* While the writer has its file, that file is there; otherwise it can be had again.
FileOrRecoverable ==
  IF step \in {"idle", "write"} /\ hasDescriptor /\ isOpen
  THEN Exists(Active) ELSE Recoverable

\* There is an event in hand.
InHand == step # "idle" => event # 0

\* The file is closed before anything is rolled.
ClosedForRoll == step \notin {"idle", "write"} => ~hasDescriptor

IInv == TypeOK /\ FileOrRecoverable /\ InHand /\ ClosedForRoll

\* The names and what they are made of.
LEMMA NameFacts ==
  ASSUME NEW n \in MinIndex - 1 .. MaxIndex
  PROVE  /\ Plain(n) \in Names /\ Compressed(n) \in Names /\ Name(n) \in Names
         /\ Active \in Names
         /\ n # MinIndex - 1 => Plain(n) # Active /\ Compressed(n) # Active /\ Name(n) # Active
<1>1. MinIndex - 1 \in MinIndex - 1 .. MaxIndex
  BY IndexAssumption
<1>2. IsCompressed(n) \in BOOLEAN
  BY DEF IsCompressed
<1> QED BY <1>1, <1>2 DEF Plain, Compressed, Name, Active, Names

\* What becomes of the files when one of them gets new events.
LEMMA WithFacts ==
  ASSUME NEW name \in Names, NEW content \in SUBSET (1 .. event'),
         TypeOK, event' \in Nat, event <= event', files' = With(name, content)
  PROVE  /\ DOMAIN files' \subseteq Names
         /\ \A f \in DOMAIN files' : files'[f] \subseteq 1 .. event'
         /\ DOMAIN files' = DOMAIN files \cup {name}
         /\ files'[name] = content
         /\ \A f \in DOMAIN files : f # name => files'[f] = files[f]
<1>1. /\ DOMAIN files' = DOMAIN files \cup {name}
      /\ files'[name] = content
      /\ \A f \in DOMAIN files : f # name => files'[f] = files[f]
  BY DEF With
<1>2. \A f \in DOMAIN files : files[f] \subseteq 1 .. event'
  <2> TAKE f \in DOMAIN files
  <2>1. files[f] \subseteq 1 .. event /\ event \in Nat
    BY BoundAssumption DEF TypeOK
  <2> QED BY <2>1
<1> QED BY <1>1, <1>2 DEF TypeOK

\* What becomes of them when one is removed.
LEMMA WithoutFacts ==
  ASSUME NEW name, TypeOK, files' = Without(name), event' = event
  PROVE  /\ DOMAIN files' = DOMAIN files \ {name}
         /\ DOMAIN files' \subseteq Names
         /\ \A f \in DOMAIN files' : files'[f] = files[f] /\ files'[f] \subseteq 1 .. event'
BY DEF TypeOK, Without, Restrict

\* What becomes of them when one is renamed.
LEMMA RenamedFacts ==
  ASSUME NEW from \in Names, NEW to \in Names, from # to, TypeOK,
         files' = Renamed(from, to), event' = event
  PROVE  /\ DOMAIN files' \subseteq Names
         /\ \A f \in DOMAIN files' : files'[f] \subseteq 1 .. event'
         /\ ~(from \in DOMAIN files')
         /\ \A f \in Names \ {from, to} :
              /\ (f \in DOMAIN files' <=> f \in DOMAIN files)
              /\ f \in DOMAIN files => files'[f] = files[f]
<1>1. CASE from \in DOMAIN files
  BY <1>1 DEF TypeOK, Renamed, Exists
<1>2. CASE from \notin DOMAIN files
  BY <1>2 DEF TypeOK, Renamed, Exists
<1> QED BY <1>1, <1>2

\* The active file is as recoverable as it was when it is as it was.
LEMMA SameActive ==
  ASSUME Recoverable,
         Active \in DOMAIN files' <=> Active \in DOMAIN files,
         Active \in DOMAIN files => files'[Active] = files[Active]
  PROVE  Recoverable'
BY DEF Recoverable, IsTriggered, Missing, Exists, Active, Plain

\* The next number of the loop, or the end of the roll.
LEMMA AfterFacts ==
  ASSUME TypeOK, After
  PROVE  step' \in {"move", "open"} /\ index' \in MinIndex .. MaxIndex
BY IndexAssumption DEF TypeOK, After

\* Opening leaves an active file, and everything that was there.
LEMMA OpenedFacts ==
  ASSUME TypeOK, files' = Opened, event' = event
  PROVE  /\ DOMAIN files' \subseteq Names
         /\ \A f \in DOMAIN files' : files'[f] \subseteq 1 .. event'
         /\ Active \in DOMAIN files'
<1>1. Active \in Names /\ event \in Nat
  BY NameFacts, IndexAssumption DEF TypeOK
<1>2. CASE Exists(Active)
  BY <1>2 DEF Opened, Exists, TypeOK
<1>3. CASE ~Exists(Active)
  <2>1. files' = With(Active, {})
    BY <1>3 DEF Opened
  <2>2. {} \in SUBSET (1 .. event') /\ event' \in Nat /\ event <= event'
    BY <1>1
  <2> QED BY <1>1, <2>1, <2>2, WithFacts
<1> QED BY <1>2, <1>3

\* What a step of the compressor leaves of the active file: it is another one.
LEMMA CompressorFacts ==
  ASSUME IInv, step \in {"compress", "drop", "finish"}, event' = event,
         \/ \E content \in SUBSET (1 .. event) : files' = With(Compressed(index), content)
         \/ files' = Without(Plain(index))
  PROVE  /\ DOMAIN files' \subseteq Names
         /\ \A f \in DOMAIN files' : files'[f] \subseteq 1 .. event'
         /\ Recoverable'
<1>1. /\ index \in MinIndex .. MaxIndex /\ index \in MinIndex - 1 .. MaxIndex
      /\ index # MinIndex - 1 /\ event \in Nat
  BY IndexAssumption DEF IInv, TypeOK
<1>2. /\ Plain(index) \in Names /\ Compressed(index) \in Names
      /\ Plain(index) # Active /\ Compressed(index) # Active
  BY <1>1, NameFacts
<1>3. Recoverable
  BY DEF IInv, FileOrRecoverable
<1>4. ASSUME NEW content \in SUBSET (1 .. event), files' = With(Compressed(index), content)
      PROVE  /\ DOMAIN files' \subseteq Names
             /\ \A f \in DOMAIN files' : files'[f] \subseteq 1 .. event'
             /\ Recoverable'
  <2>1. /\ DOMAIN files' \subseteq Names
        /\ \A f \in DOMAIN files' : files'[f] \subseteq 1 .. event'
        /\ DOMAIN files' = DOMAIN files \cup {Compressed(index)}
        /\ \A f \in DOMAIN files : f # Compressed(index) => files'[f] = files[f]
    <3>1. content \in SUBSET (1 .. event') /\ event' \in Nat /\ event <= event'
      BY <1>1
    <3> QED BY <1>2, <1>4, <3>1, WithFacts DEF IInv
  <2>2. Recoverable'
    BY <2>1, <1>2, <1>3, SameActive
  <2> QED BY <2>1, <2>2
<1>5. CASE files' = Without(Plain(index))
  <2>1. /\ DOMAIN files' = DOMAIN files \ {Plain(index)}
        /\ DOMAIN files' \subseteq Names
        /\ \A f \in DOMAIN files' : files'[f] = files[f] /\ files'[f] \subseteq 1 .. event'
    BY <1>5, WithoutFacts DEF IInv
  <2>2. Recoverable'
    BY <2>1, <1>2, <1>3, SameActive
  <2> QED BY <2>1, <2>2
<1> QED BY <1>4, <1>5

\* What moving a file leaves of the active file: the same, or nothing.
LEMMA MoveFacts ==
  ASSUME IInv, step = "move", event' = event, files' = Renamed(Mover, Destination)
  PROVE  /\ DOMAIN files' \subseteq Names
         /\ \A f \in DOMAIN files' : files'[f] \subseteq 1 .. event'
         /\ Recoverable'
<1>1. /\ index \in MinIndex - 1 .. MaxIndex /\ index # MinIndex - 1
      /\ index - 1 \in MinIndex - 1 .. MaxIndex
  BY IndexAssumption DEF IInv, TypeOK
<1>2. /\ Destination \in Names /\ Destination # Active /\ Destination.number = index
  BY <1>1, NameFacts DEF Destination, Name, Plain
<1>3. Mover \in Names /\ Mover.number = index - 1
  <2>1. CASE index = MinIndex
    BY <2>1, <1>1, NameFacts DEF Mover, Active, Plain
  <2>2. CASE index # MinIndex
    BY <2>2, <1>1, NameFacts DEF Mover, Name
  <2> QED BY <2>1, <2>2
<1>4. Mover # Destination
  BY <1>1, <1>2, <1>3 DEF IInv, TypeOK
<1>5. /\ DOMAIN files' \subseteq Names
      /\ \A f \in DOMAIN files' : files'[f] \subseteq 1 .. event'
      /\ ~(Mover \in DOMAIN files')
      /\ \A f \in Names \ {Mover, Destination} :
           /\ (f \in DOMAIN files' <=> f \in DOMAIN files)
           /\ f \in DOMAIN files => files'[f] = files[f]
  BY <1>2, <1>3, <1>4, RenamedFacts DEF IInv
<1>6. Recoverable'
  <2>1. CASE Mover = Active
    BY <2>1, <1>5 DEF Recoverable, Missing, Exists, Active, Plain
  <2>2. CASE Mover # Active
    <3>1. Active \in Names
      BY <1>1, NameFacts
    <3>2. Recoverable
      BY DEF IInv, FileOrRecoverable
    <3> QED BY <2>2, <3>1, <3>2, <1>2, <1>5, SameActive
  <2> QED BY <2>1, <2>2
<1> QED BY <1>5, <1>6

\* The writer starts with an open, empty file.
LEMMA Initially == Init => IInv
<1> SUFFICES ASSUME Init PROVE IInv
  OBVIOUS
<1>1. Active \in Names
  BY NameFacts, IndexAssumption
<1>2. TypeOK
  BY <1>1, IndexAssumption, BoundAssumption DEF Init, TypeOK, Steps
<1>3. FileOrRecoverable
  BY DEF Init, FileOrRecoverable, Exists
<1> QED BY <1>2, <1>3 DEF IInv, InHand, ClosedForRoll, Init

\* An event leaves the files alone, or is added to the active one.
LEMMA WriteEventStep ==
  ASSUME IInv, NEW isDue \in BOOLEAN, WriteEvent(isDue)
  PROVE  IInv'
<1>1. event \in Nat /\ event \in 0 .. EventBound
  BY BoundAssumption DEF IInv, TypeOK
<1>2. Active \in Names
  BY NameFacts, IndexAssumption
<1>3. event' = event /\ step' = "idle" /\ step = "write"
  BY DEF WriteEvent
<1>4. ASSUME NEW content \in SUBSET (1 .. event), files' = With(Active, content)
      PROVE  /\ DOMAIN files' \subseteq Names
             /\ \A f \in DOMAIN files' : files'[f] \subseteq 1 .. event'
             /\ Active \in DOMAIN files'
  <2>1. content \in SUBSET (1 .. event') /\ event' \in Nat /\ event <= event'
    BY <1>1, <1>3
  <2> QED BY <1>2, <1>4, <2>1, WithFacts DEF IInv
<1>5. /\ compressFrom' = compressFrom /\ buffered' = buffered
      /\ index' = index /\ faults' = faults
      /\ compressFrom \in CompressFroms /\ buffered \subseteq 1 .. event
      /\ index \in MinIndex .. MaxIndex /\ faults \in 0 .. FaultBound
  BY DEF WriteEvent, IInv, TypeOK
<1>6. ASSUME NEW content \in SUBSET (1 .. event), files' = With(Active, content),
             hasDescriptor', isOpen', hasDescriptor' \in BOOLEAN, isOpen' \in BOOLEAN
      PROVE  IInv'
  <2>1. TypeOK'
    BY <1>1, <1>3, <1>4, <1>5, <1>6 DEF TypeOK, Steps
  <2>2. FileOrRecoverable'
    BY <1>3, <1>4, <1>6 DEF FileOrRecoverable, Exists, Active, Plain
  <2> QED BY <1>3, <2>1, <2>2 DEF IInv, InHand, ClosedForRoll
<1>7. CASE isDue /\ Missing
  <2>1. files' = With(Active, {event}) /\ hasDescriptor' = TRUE /\ isOpen' = TRUE
    BY <1>7 DEF WriteEvent
  <2>2. {event} \in SUBSET (1 .. event)
    BY <1>1, <1>3 DEF IInv, InHand
  <2> QED BY <1>6, <2>1, <2>2
<1>8. CASE ~(isDue /\ Missing) /\ hasDescriptor /\ isOpen
  <2>1. files' = With(Active, files[Active] \cup {event}) /\ UNCHANGED writer
    BY <1>8 DEF WriteEvent
  <2>2. Active \in DOMAIN files
    BY <1>3, <1>8 DEF IInv, FileOrRecoverable, Exists
  <2>3. files[Active] \cup {event} \in SUBSET (1 .. event)
    BY <1>1, <1>3, <2>2 DEF IInv, InHand, TypeOK
  <2>4. /\ hasDescriptor' = hasDescriptor /\ isOpen' = isOpen
        /\ hasDescriptor \in BOOLEAN /\ isOpen \in BOOLEAN
    BY <2>1 DEF writer, IInv, TypeOK
  <2> QED BY <1>6, <1>8, <2>1, <2>3, <2>4
<1>9. CASE ~(isDue /\ Missing) /\ ~(hasDescriptor /\ isOpen)
  <2>1. /\ files' = files /\ hasDescriptor' = hasDescriptor /\ isOpen' = isOpen
    BY <1>9 DEF WriteEvent, writer
  <2>2. TypeOK'
    BY <1>3, <1>5, <2>1 DEF IInv, TypeOK, Steps
  <2>3. Recoverable
    BY <1>9 DEF IInv, FileOrRecoverable
  <2>4. Recoverable'
    BY <2>1, <2>3, SameActive
  <2>5. FileOrRecoverable'
    BY <1>9, <2>1, <2>4 DEF FileOrRecoverable
  <2> QED BY <1>3, <2>2, <2>5 DEF IInv, InHand, ClosedForRoll
<1> QED BY <1>7, <1>8, <1>9

\* The writer stays without a file, and there is a way back, in every step that ends
\* in the middle of a roll, in a failed opening or by an exception.
LEMMA StillRecoverable ==
  ASSUME IInv, Recoverable', UNCHANGED <<compressFrom, event>>,
         DOMAIN files' \subseteq Names,
         \A f \in DOMAIN files' : files'[f] \subseteq 1 .. event',
         buffered' \subseteq 1 .. event, step # "idle", step' \in Steps,
         faults' \in 0 .. FaultBound, index' \in MinIndex .. MaxIndex,
         hasDescriptor' \in BOOLEAN, isOpen' \in BOOLEAN,
         ~hasDescriptor' \/ (~isOpen' /\ step' \in {"idle", "write"})
  PROVE  IInv'
<1>1. TypeOK'
  BY DEF IInv, TypeOK
<1>2. FileOrRecoverable'
  BY DEF FileOrRecoverable
<1>3. InHand'
  BY DEF IInv, InHand
<1>4. ClosedForRoll'
  BY DEF ClosedForRoll
<1> QED BY <1>1, <1>2, <1>3, <1>4 DEF IInv

\* Opening the active file makes the writer whole.
LEMMA FileThere ==
  ASSUME IInv, files' = Opened, UNCHANGED <<compressFrom, event, index>>,
         buffered' \subseteq 1 .. event, step' \in {"idle", "write"},
         step' = "write" => step # "idle",
         faults' \in 0 .. FaultBound, hasDescriptor' = TRUE, isOpen' = TRUE
  PROVE  IInv'
<1>1. /\ DOMAIN files' \subseteq Names
      /\ \A f \in DOMAIN files' : files'[f] \subseteq 1 .. event'
      /\ Active \in DOMAIN files'
  BY OpenedFacts DEF IInv
<1>2. TypeOK'
  BY <1>1 DEF IInv, TypeOK, Steps
<1>3. FileOrRecoverable'
  BY <1>1 DEF FileOrRecoverable, Exists, Active, Plain
<1>4. InHand'
  BY DEF IInv, InHand
<1>5. ClosedForRoll'
  BY DEF ClosedForRoll
<1> QED BY <1>2, <1>3, <1>4, <1>5 DEF IInv

\* Every step of the writer, and every failure, keeps the invariant.
LEMMA Step == IInv /\ [Next]_vars => IInv'
<1> SUFFICES ASSUME IInv, [Next]_vars PROVE IInv'
  OBVIOUS
<1>1. /\ step \notin {"idle", "write"} => Recoverable /\ hasDescriptor = FALSE
      /\ buffered \subseteq 1 .. event /\ index \in MinIndex .. MaxIndex
      /\ faults \in 0 .. FaultBound /\ hasDescriptor \in BOOLEAN /\ isOpen \in BOOLEAN
      /\ DOMAIN files \subseteq Names /\ \A f \in DOMAIN files : files[f] \subseteq 1 .. event
      /\ MaxIndex \in MinIndex .. MaxIndex
  BY IndexAssumption DEF IInv, TypeOK, FileOrRecoverable, ClosedForRoll
<1>2. faults < FaultBound /\ faults' = faults + 1 => faults' \in 0 .. FaultBound
  BY <1>1, BoundAssumption
<1>3. files' = files /\ Recoverable => Recoverable'
  BY SameActive
<1>4. CASE Write
  <2>1. event' \in 0 .. EventBound /\ event' # 0 /\ event \in Nat /\ event' = event + 1
    BY <1>4, BoundAssumption DEF Write, IInv, TypeOK
  <2>2. /\ files' = files /\ buffered' = buffered /\ compressFrom' = compressFrom
        /\ isOpen' = isOpen /\ index' = index /\ faults' = faults /\ step = "idle"
    BY <1>4 DEF Write, disk
  <2>3. \A f \in DOMAIN files : files[f] \subseteq 1 .. event'
    BY <1>1, <2>1
  <2>4. buffered \subseteq 1 .. event'
    BY <1>1, <2>1
  <2>5. /\ IsTriggered => step' = "remove" /\ hasDescriptor' = FALSE
        /\ ~IsTriggered => step' = "write" /\ hasDescriptor' = hasDescriptor
    BY <1>4 DEF Write
  <2>6. TypeOK'
    BY <1>1, <2>1, <2>2, <2>3, <2>4, <2>5 DEF IInv, TypeOK, Steps
  <2>7. FileOrRecoverable'
    BY <1>3, <2>2, <2>5 DEF IInv, FileOrRecoverable, Recoverable, Exists
  <2> QED BY <2>1, <2>5, <2>6, <2>7 DEF IInv, InHand, ClosedForRoll
<1>5. CASE Open
  BY <1>1, <1>5, FileThere DEF Open
<1>6. CASE OpenFails
  BY <1>1, <1>2, <1>3, <1>6, StillRecoverable DEF OpenFails, disk, Steps
<1>7. CASE EnsuringFails
  <2>1. Recoverable
    BY <1>7 DEF EnsuringFails, Recoverable
  <2> QED BY <1>1, <1>2, <1>3, <1>7, <2>1, StillRecoverable DEF EnsuringFails, disk, Steps
<1>8. CASE \E isDue \in BOOLEAN : WriteEvent(isDue)
  BY <1>8, WriteEventStep
<1>9. CASE RemoveOldest
  <2>1. /\ DOMAIN files' = DOMAIN files \ {Name(MaxIndex)}
        /\ DOMAIN files' \subseteq Names
        /\ \A f \in DOMAIN files' : files'[f] = files[f] /\ files'[f] \subseteq 1 .. event'
    BY <1>9, WithoutFacts DEF RemoveOldest, IInv
  <2>2. Active # Name(MaxIndex)
    BY NameFacts, IndexAssumption
  <2>3. Recoverable'
    BY <1>1, <1>9, <2>1, <2>2, SameActive DEF RemoveOldest
  <2> QED BY <1>1, <1>9, <2>1, <2>3, StillRecoverable DEF RemoveOldest, writer, Steps
<1>10. CASE Move
  <2>1. step' \in {"compress", "move", "open"} /\ index' \in MinIndex .. MaxIndex
    BY <1>1, <1>10, AfterFacts DEF Move, IInv
  <2>2. /\ DOMAIN files' \subseteq Names
        /\ \A f \in DOMAIN files' : files'[f] \subseteq 1 .. event'
        /\ Recoverable'
    BY <1>10, MoveFacts DEF Move
  <2> QED BY <1>1, <1>10, <2>1, <2>2, StillRecoverable DEF Move, writer, Steps
<1>11. CASE MoveIsRefused
  <2>1. step' \in {"compress", "move", "open"} /\ index' \in MinIndex .. MaxIndex
    BY <1>1, <1>11, AfterFacts DEF MoveIsRefused, IInv
  <2> QED BY <1>1, <1>2, <1>3, <1>11, <2>1, StillRecoverable
          DEF MoveIsRefused, disk, writer, Steps
<1>12. CASE \E upTo \in 0 .. event : CreateCompressed(upTo)
  <2> PICK upTo \in 0 .. event : CreateCompressed(upTo)
    BY <1>12
  <2>1. files[Plain(index)] \subseteq 1 .. event
    BY <1>1 DEF CreateCompressed, Exists
  <2>2. {e \in files[Plain(index)] : e <= upTo} \in SUBSET (1 .. event)
    BY <2>1
  <2>3. /\ DOMAIN files' \subseteq Names
        /\ \A f \in DOMAIN files' : files'[f] \subseteq 1 .. event'
        /\ Recoverable'
    BY <2>2, CompressorFacts DEF CreateCompressed
  <2> QED BY <1>1, <2>1, <2>3, StillRecoverable DEF CreateCompressed, writer, Steps
<1>13. CASE DropPlain
  <2>1. /\ DOMAIN files' \subseteq Names
        /\ \A f \in DOMAIN files' : files'[f] \subseteq 1 .. event'
        /\ Recoverable'
    BY <1>13, CompressorFacts DEF DropPlain, Dropped
  <2> QED BY <1>1, <1>13, <2>1, StillRecoverable DEF DropPlain, writer, Steps
<1>14. CASE Finish
  <2>1. /\ DOMAIN files' \subseteq Names
        /\ \A f \in DOMAIN files' : files'[f] \subseteq 1 .. event'
        /\ Recoverable'
    BY <1>1, <1>14, CompressorFacts DEF Finish
  <2>2. step' \in {"move", "open"} /\ index' \in MinIndex .. MaxIndex
    BY <1>14, AfterFacts DEF Finish, IInv
  <2> QED BY <1>1, <1>14, <2>1, <2>2, StillRecoverable DEF Finish, writer, Steps
<1>15. CASE FinishFails
  <2>1. step' \in {"move", "open"} /\ index' \in MinIndex .. MaxIndex
    BY <1>15, AfterFacts DEF FinishFails, IInv
  <2> QED BY <1>1, <1>2, <1>3, <1>15, <2>1, StillRecoverable DEF FinishFails, writer, Steps
<1>16. CASE NothingToCompress
  BY <1>1, <1>3, <1>16, StillRecoverable DEF NothingToCompress, Abandon, writer, Steps
<1>17. CASE CompressionFails
  BY <1>1, <1>2, <1>3, <1>17, StillRecoverable DEF CompressionFails, Abandon, writer, Steps
<1>18. CASE Restart
  BY <1>1, <1>2, <1>18, FileThere DEF Restart
<1>19. CASE UNCHANGED vars
  <2>1. /\ UNCHANGED <<compressFrom, files, buffered, hasDescriptor, isOpen>>
        /\ UNCHANGED <<event, step, index, faults>>
    BY <1>19 DEF vars, disk, writer
  <2>2. TypeOK'
    BY <2>1 DEF IInv, TypeOK
  <2>3. FileOrRecoverable'
    BY <2>1, <1>3 DEF IInv, FileOrRecoverable, Exists
  <2> QED BY <2>1, <2>2, <2>3 DEF IInv, InHand, ClosedForRoll
<1> QED
  BY <1>4, <1>5, <1>6, <1>7, <1>8, <1>9, <1>10, <1>11, <1>12, <1>13, <1>14, <1>15,
     <1>16, <1>17, <1>18, <1>19 DEF Next

\* The strengthened invariant, for every value of the constants.
THEOREM Invariance == Spec => []IInv
<1> QED BY Initially, Step, PTL DEF Spec

\* The variables keep their types: no file gets a number above the greatest.
THEOREM TypeCorrect == Spec => []TypeOK
<1>1. IInv => TypeOK
  BY DEF IInv
<1> QED BY <1>1, Invariance, PTL

\* Whatever fails, a writer without a descriptor has a way back to its file:
\* ensure_access, which never looks at the descriptor, needs no more than the absence
\* of the file, and is_triggered no more than its size.
THEOREM DescriptorComesBack == Spec => []LostDescriptorComesBack
<1>1. IInv => LostDescriptorComesBack
  BY DEF IInv, FileOrRecoverable, Recoverable, LostDescriptorComesBack
<1> QED BY <1>1, Invariance, PTL

-----------------------------------------------------------------------------
(* The history of the events.                                              *)
(*                                                                         *)
(* HistoryInOrder compares files of different numbers only, and leaves out *)
(* what two files share.  Neither survives a step: when a compressed file  *)
(* moves on, the plain one that a crash has left at its number has to be   *)
(* younger, and of what it shares with an older file a prefix may be       *)
(* written again.  So every file has a place of its own, and all that is   *)
(* in a file and not in an older one is younger than all of the older one. *)

\* At one number the compressed file is the older.
Place(f) == 2 * f.number + (IF f.compressed THEN 1 ELSE 0)

Precedes(older, younger) == \A a \in older, b \in younger \ older : a < b

Ordered ==
  \A f, g \in DOMAIN files : Place(f) > Place(g) => Precedes(files[f], files[g])

BeginsAt(n) == IsCompressed(n) /\ (n = MinIndex \/ ~IsCompressed(n - 1))

\* Files are compressed where compression is due, and only where it begins a plain one
\* may stand besides.
ProperName(f) ==
  /\ f.number = MinIndex - 1 => f = Active
  /\ f.compressed => IsCompressed(f.number)
  /\ f.number >= MinIndex /\ ~f.compressed /\ IsCompressed(f.number) => BeginsAt(f.number)
ProperNames == \A f \in DOMAIN files : ProperName(f)

Compressing == step \in {"compress", "drop", "finish"} => BeginsAt(index)

\* What the compressor has in memory has the place of the file it is going to.
HasPlace(content, place) ==
  \A f \in DOMAIN files : /\ Place(f) > place => Precedes(files[f], content)
                          /\ Place(f) < place => Precedes(content, files[f])
BufferInPlace == step \in {"drop", "finish"} => HasPlace(buffered, Place(Compressed(index)))

\* The event in hand has not been written.
Unwritten ==
  step # "idle" => event \notin buffered /\ \A f \in DOMAIN files : event \notin files[f]

History == Ordered /\ ProperNames /\ Compressing /\ BufferInPlace /\ Unwritten

LEMMA PlaceFacts ==
  ASSUME NEW f \in Names, NEW g \in Names
  PROVE  /\ f.number \in Int /\ f.compressed \in BOOLEAN /\ Place(f) \in Int
         /\ Place(f) = Place(g) => f = g
         /\ Place(f) >= 2 * f.number /\ Place(f) <= 2 * f.number + 1
         /\ ~f.compressed => Place(f) = 2 * f.number
         /\ f.compressed => Place(f) = 2 * f.number + 1
<1>1. /\ f.number \in Int /\ f.compressed \in BOOLEAN
      /\ g.number \in Int /\ g.compressed \in BOOLEAN
      /\ f = [number |-> f.number, compressed |-> f.compressed]
      /\ g = [number |-> g.number, compressed |-> g.compressed]
  BY IndexAssumption DEF Names
<1>2. /\ Place(f) = IF f.compressed THEN 2 * f.number + 1 ELSE 2 * f.number
      /\ Place(g) = IF g.compressed THEN 2 * g.number + 1 ELSE 2 * g.number
  BY <1>1 DEF Place
<1>3. Place(f) = Place(g) => f.number = g.number /\ (f.compressed <=> g.compressed)
  BY <1>1, <1>2
<1>4. Place(f) = Place(g) => f = g
  BY <1>1, <1>3
<1> QED BY <1>1, <1>2, <1>4

\* Compression never ends again.
LEMMA CompressedOnwards ==
  ASSUME TypeOK, NEW m \in Int, NEW n \in Int, m <= n, IsCompressed(m)
  PROVE  IsCompressed(n)
<1>1. compressFrom \in Nat
  BY CompressAssumption DEF TypeOK
<1> QED BY <1>1, IndexAssumption DEF IsCompressed

\* A file that is written anew, at a place where what it gets belongs, leaves the
\* history in order.
LEMMA WithOrdered ==
  ASSUME TypeOK, Ordered, NEW name \in Names, NEW content,
         files' = With(name, content), HasPlace(content, Place(name))
  PROVE  Ordered'
<1>1. /\ DOMAIN files' = DOMAIN files \cup {name}
      /\ files'[name] = content
      /\ \A f \in DOMAIN files : f # name => files'[f] = files[f]
  BY DEF With
<1> SUFFICES ASSUME NEW f \in DOMAIN files', NEW g \in DOMAIN files', Place(f) > Place(g)
             PROVE  Precedes(files'[f], files'[g])
  BY DEF Ordered, Place, Precedes
<1>2. f \in Names /\ g \in Names /\ DOMAIN files \subseteq Names
  BY <1>1 DEF TypeOK
<1>3. f # g
  BY <1>2, PlaceFacts
<1>4. CASE f = name
  <2>1. g \in DOMAIN files /\ files'[g] = files[g] /\ Place(g) < Place(name)
    BY <1>1, <1>2, <1>3, <1>4, PlaceFacts
  <2> QED BY <1>1, <1>4, <2>1 DEF HasPlace
<1>5. CASE g = name
  <2>1. f \in DOMAIN files /\ files'[f] = files[f] /\ Place(f) > Place(name)
    BY <1>1, <1>2, <1>3, <1>5, PlaceFacts
  <2> QED BY <1>1, <1>5, <2>1 DEF HasPlace
<1>6. CASE f # name /\ g # name
  BY <1>1, <1>6 DEF Ordered
<1> QED BY <1>4, <1>5, <1>6

\* So does the removal of a file.
LEMMA WithoutOrdered ==
  ASSUME Ordered, ProperNames, NEW name, files' = Without(name),
         UNCHANGED compressFrom
  PROVE  Ordered' /\ ProperNames'
<1>1. DOMAIN files' \subseteq DOMAIN files /\ \A f \in DOMAIN files' : files'[f] = files[f]
  BY DEF Without, Restrict
<1>2. Ordered'
  BY <1>1 DEF Ordered, Place, Precedes
<1>3. ProperNames'
  BY <1>1 DEF ProperNames, ProperName, Active, Plain, BeginsAt, IsCompressed
<1> QED BY <1>2, <1>3

\* The active file is the youngest.
LEMMA ActiveIsLowest ==
  ASSUME TypeOK, ProperNames, NEW f \in DOMAIN files, f # Active
  PROVE  Active \in Names /\ Place(f) > Place(Active) /\ f.number >= MinIndex
<1>1. Active \in Names /\ f \in Names
  BY NameFacts, IndexAssumption DEF TypeOK
<1>2. f.number \in MinIndex - 1 .. MaxIndex /\ f.number # MinIndex - 1
  BY <1>1 DEF Names, ProperNames, ProperName
<1>3. Active.number = MinIndex - 1 /\ ~Active.compressed
  BY DEF Active, Plain
<1> QED BY <1>1, <1>2, <1>3, PlaceFacts, IndexAssumption

\* Opening adds at most an empty active file.
LEMMA OpenedOrdered ==
  ASSUME TypeOK, Ordered, ProperNames, files' = Opened, UNCHANGED compressFrom
  PROVE  /\ Ordered' /\ ProperNames'
         /\ \A f \in DOMAIN files' : f \notin DOMAIN files => files'[f] = {}
         /\ \A f \in DOMAIN files' : f \in DOMAIN files => files'[f] = files[f]
<1>1. CASE Exists(Active)
  <2>1. files' = files
    BY <1>1 DEF Opened
  <2> QED BY <2>1 DEF Ordered, Place, Precedes, ProperNames, ProperName, Active, Plain, BeginsAt,
                      IsCompressed
<1>2. CASE ~Exists(Active)
  <2>1. files' = With(Active, {})
    BY <1>2 DEF Opened
  <2>2. HasPlace({}, Place(Active))
    <3> SUFFICES ASSUME NEW f \in DOMAIN files
                 PROVE  Place(f) > Place(Active)
      BY PlaceFacts, NameFacts, IndexAssumption DEF HasPlace, Precedes
    <3> QED BY <1>2, ActiveIsLowest DEF Exists
  <2>3. Ordered'
    BY <2>1, <2>2, WithOrdered, NameFacts, IndexAssumption
  <2>4. /\ DOMAIN files' = DOMAIN files \cup {Active} /\ files'[Active] = {}
        /\ \A f \in DOMAIN files : f # Active => files'[f] = files[f]
    BY <2>1 DEF With
  <2>5. ProperNames'
    BY <2>4, IndexAssumption
       DEF ProperNames, ProperName, Active, Plain, BeginsAt, IsCompressed
  <2> QED BY <1>2, <2>3, <2>4, <2>5 DEF Exists
<1> QED BY <1>1, <1>2

\* Between the place that a file leaves and the one it goes to there is none, but for
\* one that it replaces.
LEMMA NothingBetween ==
  ASSUME TypeOK, ProperNames, NEW f \in DOMAIN files, f # Destination,
         Place(f) > Place(Mover)
  PROVE  Place(f) > Place(Destination)
<1>1. /\ index \in Int /\ index - 1 \in Int /\ index \in MinIndex .. MaxIndex
      /\ index - 1 \in MinIndex - 1 .. MaxIndex /\ index \in MinIndex - 1 .. MaxIndex
      /\ MinIndex \in Int
  BY IndexAssumption DEF TypeOK
<1>2. f \in Names /\ f.number \in Int /\ f.number \in MinIndex - 1 .. MaxIndex
  BY PlaceFacts DEF TypeOK, Names
<1>3. /\ f.compressed => IsCompressed(f.number)
      /\ f.number >= MinIndex /\ ~f.compressed /\ IsCompressed(f.number) => BeginsAt(f.number)
      /\ f.number = MinIndex - 1 => f = Active
  BY DEF ProperNames, ProperName
<1>4. Plain(index) \in Names /\ Compressed(index) \in Names
  BY <1>1, NameFacts
<1>5. /\ Place(Plain(index)) = 2 * index /\ Place(Compressed(index)) = 2 * index + 1
      /\ Place(Plain(index - 1)) = 2 * (index - 1)
      /\ Place(Compressed(index - 1)) = 2 * (index - 1) + 1
  BY <1>1 DEF Place, Plain, Compressed
<1>6. Place(f) \in Int /\ (Place(f) = 2 * f.number \/ Place(f) = 2 * f.number + 1)
      /\ (Place(f) = 2 * f.number <=> ~f.compressed)
  BY <1>2, PlaceFacts
<1>7. /\ IsCompressed(index) \/ IsCompressed(index) = FALSE
      /\ IsCompressed(index - 1) \/ IsCompressed(index - 1) = FALSE
  BY DEF IsCompressed
<1>8. CASE index # MinIndex /\ IsCompressed(index - 1)
  <2>1. IsCompressed(index) /\ ~BeginsCompression
    BY <1>1, <1>8, CompressedOnwards DEF BeginsCompression
  <2>2. Mover = Compressed(index - 1) /\ Destination = Compressed(index)
    BY <1>8, <2>1 DEF Mover, Destination, Name, Compressed
  <2>3. f # Plain(index)
    BY <1>1, <1>3, <1>8, <2>1 DEF Plain, BeginsAt
  <2>4. Place(f) # 2 * index /\ Place(f) # 2 * index + 1
    BY <1>2, <1>4, <1>5, <2>2, <2>3, PlaceFacts
  <2> QED BY <1>1, <1>5, <1>6, <2>2, <2>4
<1>9. CASE index # MinIndex /\ ~IsCompressed(index - 1)
  <2>1. Destination = Plain(index)
    BY <1>9, <1>7 DEF Destination, BeginsCompression, Name, Plain
  <2>2. Mover = Plain(index - 1)
    BY <1>9, <1>7 DEF Mover, Name, Plain
  <2>3. Place(f) # 2 * (index - 1) + 1
    BY <1>1, <1>2, <1>3, <1>6, <1>9
  <2>4. Place(f) # 2 * index
    BY <1>2, <1>4, <1>5, <2>1, PlaceFacts
  <2> QED BY <1>1, <1>5, <1>6, <2>1, <2>2, <2>3, <2>4
<1>10. CASE index = MinIndex
  <2>1. Destination = Plain(index)
    BY <1>10, <1>7 DEF Destination, BeginsCompression, Name, Plain
  <2>2. Mover = Plain(index - 1) /\ Mover = Active
    BY <1>10 DEF Mover, Active
  <2>3. Place(f) # 2 * (index - 1) + 1
    BY <1>1, <1>2, <1>3, <1>5, <1>6, <1>10, <2>2
  <2>4. Place(f) # 2 * index
    BY <1>2, <1>4, <1>5, <2>1, PlaceFacts
  <2> QED BY <1>1, <1>5, <1>6, <2>1, <2>2, <2>3, <2>4
<1> QED BY <1>8, <1>9, <1>10

\* Moving a file to the next number leaves the history in order.
LEMMA MoveOrdered ==
  ASSUME TypeOK, Ordered, ProperNames, files' = Renamed(Mover, Destination),
         UNCHANGED compressFrom
  PROVE  /\ Ordered' /\ ProperNames'
         /\ \A f \in DOMAIN files' : \E g \in DOMAIN files : files'[f] = files[g]
<1>1. CASE ~Exists(Mover)
  <2>1. files' = files
    BY <1>1 DEF Renamed
  <2> QED BY <2>1 DEF Ordered, Place, Precedes, ProperNames, ProperName, Active, Plain, BeginsAt,
                      IsCompressed
<1>2. CASE Exists(Mover)
  <2>1. /\ index \in Int /\ index \in MinIndex .. MaxIndex /\ MinIndex \in Int
        /\ index \in MinIndex - 1 .. MaxIndex
    BY IndexAssumption DEF TypeOK
  <2>2. /\ Destination \in Names /\ Destination.number = index /\ DOMAIN files \subseteq Names
        /\ Place(Destination) >= 2 * index
    <3>1. Destination \in Names /\ Destination.number = index
      BY <2>1, NameFacts DEF Destination, Name, Plain
    <3> QED BY <3>1, PlaceFacts DEF TypeOK
  <2>3. Mover \in DOMAIN files /\ Place(Mover) <= 2 * index - 1 /\ Place(Mover) \in Int
    <3>1. Mover \in DOMAIN files /\ Mover.number = index - 1
      BY <1>2, <2>1 DEF Exists, Mover, Active, Plain, Name
    <3>2. Mover \in Names
      BY <2>2, <3>1
    <3> QED BY <2>1, <3>1, <3>2, PlaceFacts
  <2>4. Mover # Destination /\ Place(Destination) > Place(Mover) /\ Place(Destination) \in Int
    BY <2>1, <2>2, <2>3, PlaceFacts
  <2>5. /\ DOMAIN files' = (DOMAIN files \cup {Destination}) \ {Mover}
        /\ files'[Destination] = files[Mover]
        /\ \A f \in DOMAIN files' : f # Destination => f \in DOMAIN files /\ files'[f] = files[f]
    BY <1>2, <2>4 DEF Renamed
  <2>6. Ordered'
    <3> SUFFICES ASSUME NEW f \in DOMAIN files', NEW g \in DOMAIN files', Place(f) > Place(g)
                 PROVE  Precedes(files'[f], files'[g])
      BY DEF Ordered, Place, Precedes
    <3>1. f \in Names /\ g \in Names /\ Place(f) \in Int /\ Place(g) \in Int
      BY <2>2, <2>5, PlaceFacts
    <3>2. f # g
      BY <3>1
    <3>3. CASE f = Destination
      <4>1. g \in DOMAIN files /\ g # Mover /\ files'[g] = files[g]
        BY <2>5, <3>2, <3>3
      <4>2. ~(Place(g) > Place(Mover))
        BY <2>4, <3>1, <3>2, <3>3, <4>1, NothingBetween
      <4>3. Mover \in Names
        BY <2>2, <2>3
      <4>4. Place(g) < Place(Mover)
        BY <2>3, <3>1, <4>1, <4>2, <4>3, PlaceFacts
      <4> QED BY <2>3, <2>5, <3>3, <4>1, <4>4 DEF Ordered
    <3>4. CASE g = Destination
      <4>1. f \in DOMAIN files /\ files'[f] = files[f]
        BY <2>5, <3>2, <3>4
      <4>2. Place(f) > Place(Mover)
        BY <2>3, <2>4, <3>1, <3>4
      <4> QED BY <2>3, <2>5, <3>4, <4>1, <4>2 DEF Ordered
    <3>5. CASE f # Destination /\ g # Destination
      BY <2>5, <3>5 DEF Ordered
    <3> QED BY <3>3, <3>4, <3>5
  <2>7. ProperName(Destination)
    <3>1. CASE BeginsCompression
      BY <2>1, <3>1 DEF ProperName, Destination, Plain, BeginsAt, BeginsCompression
    <3>2. CASE ~BeginsCompression
      BY <2>1, <3>2 DEF ProperName, Destination, Name
    <3> QED BY <3>1, <3>2
  <2>8. ProperNames'
    BY <2>5, <2>7 DEF ProperNames, ProperName, Active, Plain, BeginsAt, IsCompressed
  <2> QED BY <2>3, <2>5, <2>6, <2>8
<1> QED BY <1>1, <1>2

\* The event in hand is younger than all that is written.
LEMMA UnwrittenIsYoungest ==
  ASSUME TypeOK, Unwritten, step # "idle"
  PROVE  /\ event \in Nat
         /\ \A f \in DOMAIN files : \A e \in files[f] : e \in Nat /\ e < event
BY BoundAssumption DEF TypeOK, Unwritten

\* The event in hand goes to the active file.
LEMMA EventOrdered ==
  ASSUME TypeOK, History, step = "write", NEW content, files' = With(Active, content),
         \/ ~Exists(Active) /\ content = {event}
         \/ Exists(Active) /\ content = files[Active] \cup {event},
         UNCHANGED compressFrom
  PROVE  Ordered' /\ ProperNames'
<1>1. Active \in Names
  BY NameFacts, IndexAssumption
<1>2. HasPlace(content, Place(Active))
  <2> SUFFICES ASSUME NEW f \in DOMAIN files, Place(f) # Place(Active)
               PROVE  Place(f) > Place(Active) /\ Precedes(files[f], content)
    <3>1. \A f \in DOMAIN files : Place(f) \in Int /\ Place(Active) \in Int
      BY <1>1, PlaceFacts DEF TypeOK
    <3> QED BY <3>1 DEF HasPlace
  <2>1. Place(f) > Place(Active)
    BY ActiveIsLowest DEF History
  <2>2. \A e \in files[f] : e < event
    BY UnwrittenIsYoungest DEF History
  <2>3. Exists(Active) => Precedes(files[f], files[Active])
    BY <2>1 DEF History, Ordered, Exists
  <2> QED BY <2>1, <2>2, <2>3 DEF Precedes
<1>3. Ordered'
  BY <1>1, <1>2, WithOrdered DEF History
<1>4. DOMAIN files' = DOMAIN files \cup {Active}
  BY DEF With
<1>5. ProperNames'
  BY <1>4, IndexAssumption
     DEF History, ProperNames, ProperName, Active, Plain, BeginsAt, IsCompressed
<1> QED BY <1>3, <1>5

\* The compressor makes its file of the older part of the plain one, and has all of it.
LEMMA CreateOrdered ==
  ASSUME TypeOK, History, NEW upTo \in 0 .. event, CreateCompressed(upTo)
  PROVE  Ordered' /\ ProperNames' /\ BufferInPlace'
<1> DEFINE P == Plain(index)
           C == Compressed(index)
           part == {e \in files[P] : e <= upTo}
<1>1. /\ index \in Int /\ index \in MinIndex - 1 .. MaxIndex /\ MinIndex \in Int /\ event \in Nat
      /\ upTo \in Int /\ index # MinIndex - 1
  BY IndexAssumption, BoundAssumption DEF TypeOK
<1>2. P \in Names /\ C \in Names /\ P # C /\ Place(P) = 2 * index /\ Place(C) = 2 * index + 1
  BY <1>1, NameFacts DEF Place, Plain, Compressed
<1>3. /\ P \in DOMAIN files /\ files' = With(C, part) /\ buffered' = files[P]
      /\ step' = "drop" /\ index' = index /\ compressFrom' = compressFrom
      /\ step = "compress"
  BY DEF CreateCompressed, Exists
<1>4. \A f \in DOMAIN files : \A e \in files[f] : e \in Nat
  BY DEF TypeOK
<1> HIDE DEF P, C
<1>5. \A f \in DOMAIN files : /\ Place(f) > Place(C) => Precedes(files[f], files[P])
                              /\ Place(f) < Place(C) => Precedes(files[P], files[f])
  <2> TAKE f \in DOMAIN files
  <2>1. f \in Names /\ Place(f) \in Int
    BY PlaceFacts DEF TypeOK
  <2>2. CASE Place(f) > Place(C)
    BY <1>1, <1>2, <1>3, <2>1, <2>2 DEF History, Ordered
  <2>3. CASE Place(f) < Place(C)
    <3>1. CASE Place(f) = Place(P)
      <4>1. f = P
        BY <1>2, <2>1, <3>1, PlaceFacts
      <4> QED BY <1>2, <2>3, <3>1, <4>1 DEF Precedes
    <3>2. CASE Place(f) < Place(P)
      BY <1>1, <1>2, <1>3, <2>1, <2>3, <3>2 DEF History, Ordered
    <3> QED BY <1>1, <1>2, <2>1, <2>3, <3>1, <3>2
  <2> QED BY <1>1, <1>2, <2>1, <2>2, <2>3
<1>6. HasPlace(part, Place(C))
  <2> SUFFICES ASSUME NEW f \in DOMAIN files
               PROVE  /\ Place(f) > Place(C) => Precedes(files[f], part)
                      /\ Place(f) < Place(C) => Precedes(part, files[f])
    BY DEF HasPlace
  <2>1. part \subseteq files[P]
    OBVIOUS
  <2>2. ASSUME NEW a \in part, NEW b \in files[f] \ part, Precedes(files[P], files[f])
        PROVE  a < b
    <3>1. CASE b \in files[P]
      BY <1>1, <1>3, <1>4, <2>2, <3>1
    <3>2. CASE b \notin files[P]
      BY <2>1, <2>2, <3>2 DEF Precedes
    <3> QED BY <3>1, <3>2
  <2> QED BY <1>5, <2>1, <2>2 DEF Precedes
<1>7. Ordered'
  BY <1>2, <1>3, <1>6, WithOrdered DEF History
<1>8. DOMAIN files' = DOMAIN files \cup {C} /\ \A f \in DOMAIN files : f # C => files'[f] = files[f]
  BY <1>3 DEF With
<1>9. ProperNames'
  <2>1. BeginsAt(index)
    BY <1>3 DEF History, Compressing
  <2>2. ProperName(C)
    BY <1>1, <2>1 DEF C, ProperName, Compressed, BeginsAt
  <2> QED BY <1>3, <1>8, <2>2
          DEF History, ProperNames, ProperName, Active, Plain, BeginsAt, IsCompressed
<1>10. BufferInPlace'
  <2> SUFFICES ASSUME NEW f \in DOMAIN files'
               PROVE  /\ Place(f) > Place(C) => Precedes(files'[f], files[P])
                      /\ Place(f) < Place(C) => Precedes(files[P], files'[f])
    BY <1>3 DEF C, BufferInPlace, HasPlace, Place, Precedes, Compressed
  <2>1. CASE f = C
    BY <1>1, <1>2, <2>1
  <2>2. CASE f # C
    BY <1>5, <1>8, <2>2
  <2> QED BY <2>1, <2>2
<1> QED BY <1>7, <1>9, <1>10

\* In the end it has all of it.
LEMMA FinishOrdered ==
  ASSUME TypeOK, History, Finish
  PROVE  Ordered' /\ ProperNames'
<1>1. /\ index \in Int /\ index \in MinIndex - 1 .. MaxIndex /\ MinIndex \in Int
      /\ index # MinIndex - 1
  BY IndexAssumption DEF TypeOK
<1>2. Compressed(index) \in Names
  BY <1>1, NameFacts
<1>3. /\ files' = With(Compressed(index), buffered) /\ step = "finish"
      /\ compressFrom' = compressFrom
  BY DEF Finish
<1>4. HasPlace(buffered, Place(Compressed(index)))
  BY <1>3 DEF History, BufferInPlace
<1>5. Ordered'
  BY <1>2, <1>3, <1>4, WithOrdered DEF History
<1>6. DOMAIN files' = DOMAIN files \cup {Compressed(index)}
  BY <1>3 DEF With
<1>7. BeginsAt(index)
  BY <1>3 DEF History, Compressing
<1>8. ProperName(Compressed(index))
  BY <1>1, <1>7 DEF ProperName, Compressed, BeginsAt
<1>9. ProperNames'
  BY <1>3, <1>6, <1>8 DEF History, ProperNames, ProperName, Active, Plain, BeginsAt, IsCompressed
<1> QED BY <1>5, <1>9

LEMMA HistoryInit == Init => History
<1> SUFFICES ASSUME Init PROVE History
  OBVIOUS
<1>1. DOMAIN files = {Active} /\ files[Active] = {}
  BY DEF Init
<1> QED
  BY <1>1, IndexAssumption
     DEF Init, History, Ordered, Precedes, ProperNames, ProperName, Active, Plain, Compressing,
         BufferInPlace, Unwritten

\* Where the loop goes on nothing is being compressed.
LEMMA AfterHistory ==
  ASSUME After, Ordered', ProperNames', Unwritten'
  PROVE  History'
BY DEF After, History, Compressing, BufferInPlace

LEMMA HistoryStep == IInv /\ History /\ [Next]_vars => History'
<1> SUFFICES ASSUME IInv, History, [Next]_vars PROVE History'
  OBVIOUS
<1>1. /\ TypeOK /\ Ordered /\ ProperNames /\ Compressing /\ BufferInPlace /\ Unwritten
      /\ event \in Nat
  BY BoundAssumption DEF IInv, History, TypeOK
<1>2. ASSUME UNCHANGED <<compressFrom, files>>
      PROVE  Ordered' /\ ProperNames'
  BY <1>1, <1>2 DEF Ordered, Place, Precedes, ProperNames, ProperName, Active, Plain, BeginsAt,
                    IsCompressed
<1>3. ASSUME step # "idle", event' = event, UNCHANGED <<buffered, files>>
      PROVE  Unwritten'
  BY <1>1, <1>3 DEF Unwritten
<1>4. CASE Write
  <2>1. /\ UNCHANGED <<compressFrom, files, buffered>>
        /\ event' = event + 1 /\ step' \in {"remove", "write"}
    BY <1>4 DEF Write, disk
  <2>2. Unwritten'
    BY <1>1, <2>1 DEF TypeOK, Unwritten
  <2> QED BY <1>2, <2>1, <2>2 DEF History, Compressing, BufferInPlace
<1>5. CASE Open
  <2>1. /\ files' = Opened /\ UNCHANGED <<compressFrom, buffered, event>>
        /\ step' = "write" /\ step # "idle"
    BY <1>5 DEF Open
  <2>2. /\ Ordered' /\ ProperNames'
        /\ \A f \in DOMAIN files' : f \notin DOMAIN files => files'[f] = {}
        /\ \A f \in DOMAIN files' : f \in DOMAIN files => files'[f] = files[f]
    BY <1>1, <2>1, OpenedOrdered
  <2>3. Unwritten'
    BY <1>1, <2>1, <2>2 DEF Unwritten
  <2> QED BY <2>1, <2>2, <2>3 DEF History, Compressing, BufferInPlace
<1>6. CASE OpenFails
  BY <1>2, <1>3, <1>6 DEF OpenFails, disk, History, Compressing, BufferInPlace
<1>7. CASE EnsuringFails
  BY <1>2, <1>3, <1>7 DEF EnsuringFails, disk, History, Compressing, BufferInPlace
<1>8. CASE \E isDue \in BOOLEAN : WriteEvent(isDue)
  <2> PICK isDue \in BOOLEAN : WriteEvent(isDue)
    BY <1>8
  <2>1. step = "write" /\ step' = "idle" /\ UNCHANGED compressFrom
    BY DEF WriteEvent
  <2>2. CASE isDue /\ Missing
    <3>1. files' = With(Active, {event}) /\ ~Exists(Active)
      BY <2>2 DEF WriteEvent, Missing
    <3>2. Ordered' /\ ProperNames'
      BY <1>1, <2>1, <3>1, EventOrdered
    <3> QED BY <2>1, <3>2 DEF History, Compressing, BufferInPlace, Unwritten
  <2>3. CASE ~(isDue /\ Missing) /\ hasDescriptor /\ isOpen
    <3>1. files' = With(Active, files[Active] \cup {event})
      BY <2>3 DEF WriteEvent
    <3>2. Exists(Active)
      BY <2>1, <2>3 DEF IInv, FileOrRecoverable
    <3>3. Ordered' /\ ProperNames'
      BY <1>1, <2>1, <3>1, <3>2, EventOrdered
    <3> QED BY <2>1, <3>3 DEF History, Compressing, BufferInPlace, Unwritten
  <2>4. CASE ~(isDue /\ Missing) /\ ~(hasDescriptor /\ isOpen)
    <3>1. files' = files
      BY <2>4 DEF WriteEvent
    <3> QED BY <1>2, <2>1, <3>1 DEF History, Compressing, BufferInPlace, Unwritten
  <2> QED BY <2>2, <2>3, <2>4
<1>9. CASE RemoveOldest
  <2>1. /\ files' = Without(Name(MaxIndex)) /\ UNCHANGED <<compressFrom, buffered, event>>
        /\ step = "remove" /\ step' = "move"
    BY <1>9 DEF RemoveOldest
  <2>2. Ordered' /\ ProperNames'
    BY <1>1, <2>1, WithoutOrdered
  <2>3. Unwritten'
    BY <1>1, <2>1 DEF Unwritten, Without, Restrict
  <2> QED BY <2>1, <2>2, <2>3 DEF History, Compressing, BufferInPlace
<1>10. CASE Move
  <2>1. /\ files' = Renamed(Mover, Destination) /\ UNCHANGED <<compressFrom, buffered, event>>
        /\ step = "move"
    BY <1>10 DEF Move
  <2>2. /\ Ordered' /\ ProperNames'
        /\ \A f \in DOMAIN files' : \E g \in DOMAIN files : files'[f] = files[g]
    BY <1>1, <2>1, MoveOrdered
  <2>3. Unwritten'
    BY <1>1, <2>1, <2>2 DEF Unwritten
  <2>4. \/ step' = "compress" /\ index' = index /\ BeginsCompression
        \/ After
    BY <1>10 DEF Move
  <2>5. CASE step' = "compress" /\ index' = index /\ BeginsCompression
    BY <2>1, <2>2, <2>3, <2>5
       DEF History, Compressing, BufferInPlace, BeginsAt, BeginsCompression, IsCompressed
  <2> QED BY <2>2, <2>3, <2>4, <2>5, AfterHistory
<1>11. CASE MoveIsRefused
  <2>1. UNCHANGED <<compressFrom, files, buffered, event>> /\ step = "move"
    BY <1>11 DEF MoveIsRefused, disk
  <2>2. Ordered' /\ ProperNames' /\ Unwritten'
    BY <1>2, <1>3, <2>1
  <2>3. \/ step' = "compress" /\ index' = index /\ BeginsCompression
        \/ After
    BY <1>11 DEF MoveIsRefused
  <2>4. CASE step' = "compress" /\ index' = index /\ BeginsCompression
    BY <2>1, <2>2, <2>4
       DEF History, Compressing, BufferInPlace, BeginsAt, BeginsCompression, IsCompressed
  <2> QED BY <2>2, <2>3, <2>4, AfterHistory
<1>12. CASE \E upTo \in 0 .. event : CreateCompressed(upTo)
  <2> PICK upTo \in 0 .. event : CreateCompressed(upTo)
    BY <1>12
  <2>1. Ordered' /\ ProperNames' /\ BufferInPlace'
    BY <1>1, CreateOrdered
  <2>2. /\ step = "compress" /\ step' = "drop"
        /\ UNCHANGED <<compressFrom, event, index>>
        /\ Plain(index) \in DOMAIN files /\ buffered' = files[Plain(index)]
        /\ files' = With(Compressed(index), {e \in files[Plain(index)] : e <= upTo})
    BY DEF CreateCompressed, Exists
  <2>3. Unwritten'
    BY <1>1, <2>2 DEF Unwritten, With
  <2>4. Compressing'
    BY <1>1, <2>2 DEF Compressing, BeginsAt, IsCompressed
  <2> QED BY <2>1, <2>3, <2>4 DEF History
<1>13. CASE DropPlain
  <2>1. /\ files' = Without(Plain(index)) /\ UNCHANGED <<compressFrom, buffered, event, index>>
        /\ step = "drop" /\ step' = "finish"
    BY <1>13 DEF DropPlain, Dropped
  <2>2. Ordered' /\ ProperNames'
    BY <1>1, <2>1, WithoutOrdered
  <2>3. DOMAIN files' \subseteq DOMAIN files /\ \A f \in DOMAIN files' : files'[f] = files[f]
    BY <2>1 DEF Without, Restrict
  <2>4. Unwritten'
    BY <1>1, <2>1, <2>3 DEF Unwritten
  <2>5. Compressing'
    BY <1>1, <2>1 DEF Compressing, BeginsAt, IsCompressed
  <2>6. BufferInPlace'
    BY <1>1, <2>1, <2>3 DEF BufferInPlace, HasPlace, Place, Precedes, Compressed
  <2> QED BY <2>2, <2>4, <2>5, <2>6 DEF History
<1>14. CASE Finish
  <2>1. Ordered' /\ ProperNames'
    BY <1>1, <1>14, FinishOrdered
  <2>2. /\ files' = With(Compressed(index), buffered) /\ buffered' = {}
        /\ step = "finish" /\ event' = event /\ After
    BY <1>14 DEF Finish
  <2>3. Unwritten'
    BY <1>1, <2>2 DEF Unwritten, With
  <2> QED BY <2>1, <2>2, <2>3, AfterHistory
<1>15. CASE FinishFails
  <2>1. UNCHANGED <<compressFrom, files, event>> /\ buffered' = {} /\ step = "finish" /\ After
    BY <1>15 DEF FinishFails
  <2>2. Unwritten'
    BY <1>1, <2>1 DEF Unwritten
  <2> QED BY <1>2, <2>1, <2>2, AfterHistory
<1>16. CASE NothingToCompress \/ CompressionFails
  BY <1>2, <1>16 DEF NothingToCompress, CompressionFails, Abandon, History, Compressing,
                     BufferInPlace, Unwritten
<1>17. CASE Restart
  <2>1. files' = Opened /\ UNCHANGED compressFrom /\ step' = "idle"
    BY <1>17 DEF Restart
  <2>2. Ordered' /\ ProperNames'
    BY <1>1, <2>1, OpenedOrdered
  <2> QED BY <2>1, <2>2 DEF History, Compressing, BufferInPlace, Unwritten
<1>18. CASE UNCHANGED vars
  <2>1. UNCHANGED <<compressFrom, files, buffered, event, step, index>>
    BY <1>18 DEF vars, disk
  <2> QED BY <1>1, <1>2, <2>1
          DEF History, Compressing, BufferInPlace, HasPlace, Place, Precedes, Compressed,
              Unwritten, BeginsAt, IsCompressed
<1> QED
  BY <1>4, <1>5, <1>6, <1>7, <1>8, <1>9, <1>10, <1>11, <1>12, <1>13, <1>14, <1>15, <1>16,
     <1>17, <1>18 DEF Next

\* However often the process dies in the middle of a roll and whatever calls fail, a file
\* with a greater number never has an event that is younger than one of a file with a
\* smaller number, but for those that both have.
THEOREM HistoryStaysInOrder == Spec => []HistoryInOrder
<1>1. ASSUME TypeOK, History
      PROVE  HistoryInOrder
  <2> SUFFICES ASSUME NEW f \in DOMAIN files, NEW g \in DOMAIN files, f.number > g.number
               PROVE  Precedes(files[f], files[g])
    BY DEF HistoryInOrder, Precedes
  <2>1. f \in Names /\ g \in Names
    BY <1>1 DEF TypeOK
  <2>2. Place(f) > Place(g)
    BY <2>1, PlaceFacts
  <2> QED BY <1>1, <2>2 DEF History, Ordered
<1>2. IInv /\ History => HistoryInOrder
  BY <1>1 DEF IInv
<1> QED BY <1>2, Invariance, HistoryInit, HistoryStep, PTL DEF Spec
-----------------------------------------------------------------------------
(* What is lost.                                                           *)
(*                                                                         *)
(* While nothing fails the files are a row of slots, one for the active    *)
(* file and one for each number, and a roll moves a gap down the row.  How *)
(* files are named and compressed matters to Tidy alone, and what is lost  *)
(* to the row alone.                                                       *)

Numbers == MinIndex .. MaxIndex
Slots == MinIndex - 1 .. MaxIndex
NoGap == MaxIndex + 1

Contents(name) == IF Exists(name) THEN files[name] ELSE {}

\* Until a compression has ended some events may be in the memory of the compressor alone.
Slot(n) == CASE n = MinIndex - 1 -> Contents(Active)
             [] n \in Numbers /\ n = index /\ step = "compress" -> files[Plain(n)]
             [] n \in Numbers /\ n = index /\ step \in {"drop", "finish"} -> buffered
             [] OTHER -> Contents(Name(n))
Row == [n \in Slots |-> Slot(n)]

\* The slot whose file has been removed or moved on, and that none has yet come to.
Gap == CASE step = "move" -> index
         [] step \in {"compress", "drop", "finish"} -> index - 1
         [] step = "open" -> MinIndex - 1
         [] OTHER -> NoGap

\* Of the events 1 .. w, those that are not in the row are older than all that are, and
\* if there are any then only the gap is empty.
Complete(row, gap, w) ==
  \A e \in 1 .. w : (\A n \in Slots : e \notin row[n]) =>
    /\ \A n \in Slots : \A k \in row[n] : e < k
    /\ \A n \in Numbers \ {gap} : row[n] # {}

\* The numbered slots are full from the least number on, and greater numbers are older.
IsRow(row, gap, w) ==
  /\ \A n \in Slots : row[n] \subseteq 1 .. w
  /\ \A n \in Numbers : row[n] = {} \/ Cardinality(row[n]) = MaxEvents
  /\ gap \in Slots => row[gap] = {}
  /\ \A m, n \in Slots : m < n => \A a \in row[n], b \in row[m] : a < b
  /\ \A m, n \in Numbers : m < n /\ m # gap /\ row[n] # {} => row[m] # {}
  /\ Complete(row, gap, w)

\* There is one file at each number, but for a compressed one in the making.
ProperlyNamed ==
  \A f \in DOMAIN files : /\ f.number # Gap
                          /\ \/ f = Active
                             \/ f.number \in Numbers /\ f = Name(f.number)
                             \/ step \in {"compress", "drop"} /\ f = Plain(index)

Tidy ==
  /\ isOpen /\ (step \in {"idle", "write"} => hasDescriptor)
  /\ ProperlyNamed
  /\ Gap # MinIndex - 1 => Exists(Active)
  /\ step = "compress" => Exists(Plain(index))

\* Only a full file is rolled.
ActiveFills ==
  CASE step = "idle" -> Cardinality(Row[MinIndex - 1]) <= MaxEvents
    [] step = "write" -> Cardinality(Row[MinIndex - 1]) < MaxEvents
    [] OTHER -> Gap = MinIndex - 1 \/ Cardinality(Row[MinIndex - 1]) = MaxEvents

\* The last of the events that are not in hand.
Written == IF step = "idle" THEN event ELSE event - 1

NoneIsLost == Tidy /\ ActiveFills /\ IsRow(Row, Gap, Written)
Undisturbed == faults = 0 => NoneIsLost

\* Rows.
LEMMA SlotFacts ==
  /\ MinIndex \in Int /\ MaxIndex \in Int /\ MinIndex <= MaxIndex
  /\ MinIndex - 1 \in Slots /\ Numbers \subseteq Slots /\ MaxIndex \in Numbers
  /\ NoGap \notin Slots /\ NoGap # MinIndex - 1
  /\ \A n \in Slots : n \in Int
  /\ \A n \in Numbers : n - 1 \in Slots /\ (n # MinIndex => n - 1 \in Numbers)
BY IndexAssumption DEF Slots, Numbers, NoGap

\* The oldest slot is emptied: what was there is older than all the rest.
LEMMA RemovedFromRow ==
  ASSUME NEW row, NEW row2, NEW w \in Nat, IsRow(row, NoGap, w),
         \A n \in Slots : row2[n] = IF n = MaxIndex THEN {} ELSE row[n]
  PROVE  IsRow(row2, MaxIndex, w)
<1> USE SlotFacts
<1>1. MaxIndex \in Slots /\ \A n \in Slots : n <= MaxIndex
  BY IndexAssumption DEF Slots
<1>2. \A n \in Slots : row2[n] \subseteq row[n]
  OBVIOUS
<1>3. \A n \in Slots : row2[n] \subseteq 1 .. w
  BY <1>2 DEF IsRow
<1>4. \A n \in Numbers : row2[n] = {} \/ Cardinality(row2[n]) = MaxEvents
  BY DEF IsRow
<1>5. \A m, n \in Slots : m < n => \A a \in row2[n], b \in row2[m] : a < b
  BY <1>2 DEF IsRow
<1>6. ASSUME NEW m \in Numbers, NEW n \in Numbers, m < n, row2[n] # {}
      PROVE  row2[m] # {}
  <2>1. m \in Slots /\ n \in Slots /\ m \in Int /\ n \in Int /\ n <= MaxIndex
    BY <1>1, <1>6
  <2>2. m # MaxIndex /\ m # NoGap
    BY <1>6, <2>1
  <2>3. row[n] # {} /\ row2[m] = row[m]
    BY <1>2, <1>6, <2>1, <2>2
  <2> QED BY <1>6, <2>2, <2>3 DEF IsRow
<1>7. ASSUME NEW e \in 1 .. w, \A n \in Slots : e \notin row2[n]
      PROVE  /\ \A n \in Slots : \A k \in row2[n] : e < k
             /\ \A n \in Numbers \ {MaxIndex} : row2[n] # {}
  <2>1. CASE e \in row[MaxIndex]
    <3>1. ASSUME NEW n \in Slots, NEW k \in row2[n] PROVE e < k
      <4>1. n < MaxIndex /\ k \in row[n]
        BY <1>1, <3>1
      <4> QED BY <1>1, <2>1, <4>1 DEF IsRow
    <3>2. ASSUME NEW n \in Numbers \ {MaxIndex} PROVE row2[n] # {}
      <4>1. n \in Slots /\ n \in Int /\ n <= MaxIndex /\ n # MaxIndex
        BY <1>1
      <4>2. n < MaxIndex /\ n # NoGap
        BY <4>1
      <4> QED BY <2>1, <4>2 DEF IsRow
    <3> QED BY <3>1, <3>2
  <2>2. CASE e \notin row[MaxIndex]
    <3>1. \A n \in Slots : e \notin row[n]
      BY <1>7, <2>2
    <3>2. /\ \A n \in Slots : \A k \in row[n] : e < k
          /\ \A n \in Numbers \ {NoGap} : row[n] # {}
      BY <3>1 DEF IsRow, Complete
    <3> QED BY <1>2, <3>2
  <2> QED BY <2>1, <2>2
<1> QED BY <1>1, <1>3, <1>4, <1>5, <1>6, <1>7 DEF IsRow, Complete

\* A slot moves up into the gap.
LEMMA MovedInRow ==
  ASSUME NEW row, NEW row2, NEW w \in Nat, NEW i \in Numbers, IsRow(row, i, w),
         i = MinIndex => row[i - 1] # {} /\ Cardinality(row[i - 1]) = MaxEvents,
         \A n \in Slots : row2[n] = IF n = i THEN row[i - 1]
                                    ELSE IF n = i - 1 THEN {} ELSE row[n]
  PROVE  IsRow(row2, i - 1, w)
<1> USE SlotFacts
<1>1. i \in Slots /\ i - 1 \in Slots /\ i \in Int /\ i # i - 1 /\ row[i] = {}
  <2>1. i \in Slots /\ i - 1 \in Slots /\ i \in Int
    OBVIOUS
  <2>2. row[i] = {}
    BY <2>1 DEF IsRow
  <2> QED BY <2>1, <2>2
<1>2. row2[i] = row[i - 1] /\ row2[i - 1] = {}
      /\ \A n \in Slots : n # i /\ n # i - 1 => row2[n] = row[n]
  BY <1>1
<1>3. \A n \in Slots : row2[n] \subseteq 1 .. w
  BY <1>1, <1>2 DEF IsRow
<1>4. \A n \in Numbers : row2[n] = {} \/ Cardinality(row2[n]) = MaxEvents
  <2>1. row[i - 1] = {} \/ Cardinality(row[i - 1]) = MaxEvents
    BY DEF IsRow
  <2> QED BY <1>2, <2>1 DEF IsRow
<1>5. ASSUME NEW m \in Slots, NEW n \in Slots, m < n, NEW a \in row2[n], NEW b \in row2[m]
      PROVE  a < b
  <2>1. n # i - 1 /\ m # i - 1
    BY <1>2
  <2>2. CASE n = i
    <3>1. a \in row[i - 1] /\ b \in row[m] /\ m < i - 1
      BY <1>1, <1>2, <1>5, <2>1, <2>2
    <3> QED BY <1>1, <3>1 DEF IsRow
  <2>3. CASE m = i
    <3>1. b \in row[i - 1] /\ a \in row[n] /\ i - 1 < n
      BY <1>1, <1>2, <1>5, <2>1, <2>3
    <3> QED BY <1>1, <3>1 DEF IsRow
  <2>4. CASE n # i /\ m # i
    BY <1>2, <1>5, <2>1, <2>4 DEF IsRow
  <2> QED BY <2>2, <2>3, <2>4
<1>6. ASSUME NEW m \in Numbers, NEW n \in Numbers, m < n, m # i - 1, row2[n] # {}
      PROVE  row2[m] # {}
  <2>1. n # i - 1
    BY <1>2, <1>6
  <2>2. CASE m = i
    <3>1. row[n] # {} /\ i - 1 < n /\ i - 1 # i
      BY <1>1, <1>2, <1>6, <2>1, <2>2
    <3>2. row[i - 1] # {}
      BY <3>1 DEF IsRow
    <3> QED BY <1>2, <2>2, <3>2
  <2>3. CASE m # i /\ n = i
    <3>1. row[i - 1] # {} /\ m < i - 1 /\ i # MinIndex
      BY <1>1, <1>2, <1>6, <2>3, IndexAssumption DEF Numbers
    <3>2. row[m] # {}
      BY <2>3, <3>1 DEF IsRow
    <3> QED BY <1>2, <1>6, <2>3, <3>2
  <2>4. CASE m # i /\ n # i
    BY <1>2, <1>6, <2>1, <2>4 DEF IsRow
  <2> QED BY <2>2, <2>3, <2>4
<1>7. ASSUME NEW e \in 1 .. w, \A n \in Slots : e \notin row2[n]
      PROVE  /\ \A n \in Slots : \A k \in row2[n] : e < k
             /\ \A n \in Numbers \ {i - 1} : row2[n] # {}
  <2>1. \A n \in Slots : e \notin row[n]
    BY <1>1, <1>2, <1>7
  <2>2. /\ \A n \in Slots : \A k \in row[n] : e < k
        /\ \A n \in Numbers \ {i} : row[n] # {}
    BY <2>1 DEF IsRow, Complete
  <2>3. row[i - 1] # {}
    BY <1>1, <2>2
  <2> QED BY <1>1, <1>2, <2>2, <2>3
<1> QED BY <1>1, <1>2, <1>3, <1>4, <1>5, <1>6, <1>7 DEF IsRow, Complete

\* The next event goes to the slot of the active file.
LEMMA WrittenToRow ==
  ASSUME NEW row, NEW row2, NEW w \in Nat, IsRow(row, NoGap, w),
         \A n \in Slots : row2[n] = IF n = MinIndex - 1 THEN row[n] \cup {w + 1} ELSE row[n]
  PROVE  IsRow(row2, NoGap, w + 1)
<1> USE SlotFacts
<1>1. \A n \in Slots : row[n] \subseteq 1 .. w /\ n >= MinIndex - 1
  <2>1. \A n \in Slots : row[n] \subseteq 1 .. w
    BY DEF IsRow
  <2>2. \A n \in Slots : n >= MinIndex - 1
    BY IndexAssumption DEF Slots
  <2> QED BY <2>1, <2>2
<1>2. ASSUME NEW n \in Slots PROVE row2[n] \subseteq 1 .. w + 1
  <2>1. row2[n] \subseteq row[n] \cup {w + 1}
    OBVIOUS
  <2>2. row[n] \subseteq 1 .. w
    BY <1>1
  <2> QED BY <2>1, <2>2
<1>3. \A n \in Numbers : row2[n] = row[n]
  <2>1. \A n \in Numbers : n # MinIndex - 1 /\ n \in Slots
    BY IndexAssumption DEF Numbers, Slots
  <2> QED BY <2>1
<1>4. ASSUME NEW m \in Slots, NEW n \in Slots, m < n, NEW a \in row2[n], NEW b \in row2[m]
      PROVE  a < b
  <2>1. n # MinIndex - 1
    BY <1>1, <1>4
  <2>2. row2[n] = row[n]
    BY <2>1
  <2>3. a \in row[n] /\ a \in 1 .. w
    BY <1>1, <1>4, <2>2
  <2>4. CASE b = w + 1
    BY <2>3, <2>4
  <2>5. CASE b # w + 1
    <3>1. b \in row[m]
      BY <1>4, <2>5
    <3> QED BY <1>4, <2>3, <3>1 DEF IsRow
  <2> QED BY <2>4, <2>5
<1>5. ASSUME NEW e \in 1 .. w + 1, \A n \in Slots : e \notin row2[n]
      PROVE  /\ \A n \in Slots : \A k \in row2[n] : e < k
             /\ \A n \in Numbers \ {NoGap} : row2[n] # {}
  <2>1. e # w + 1 /\ \A n \in Slots : e \notin row[n]
    BY <1>5
  <2>2. e \in 1 .. w
    BY <2>1
  <2>3. /\ \A n \in Slots : \A k \in row[n] : e < k
        /\ \A n \in Numbers \ {NoGap} : row[n] # {}
    BY <2>1, <2>2 DEF IsRow, Complete
  <2>4. \A n \in Slots : \A k \in row2[n] : k \in row[n] \/ k = w + 1
    OBVIOUS
  <2> QED BY <1>3, <2>2, <2>3, <2>4
<1> QED BY <1>2, <1>3, <1>4, <1>5 DEF IsRow, Complete

\* An empty active file closes the gap.
LEMMA OpenedInRow ==
  ASSUME NEW row, NEW w, IsRow(row, MinIndex - 1, w)
  PROVE  IsRow(row, NoGap, w)
<1>1. MinIndex - 1 \notin Numbers
  BY IndexAssumption DEF Numbers
<1> QED BY <1>1, SlotFacts DEF IsRow, Complete

\* Rows are compared slot by slot.
LEMMA SameRow ==
  ASSUME NEW row, NEW row2, NEW gap, NEW w, IsRow(row, gap, w),
         \A n \in Slots : row2[n] = row[n]
  PROVE  IsRow(row2, gap, w)
<1>1. Numbers \subseteq Slots
  BY SlotFacts
<1> QED BY <1>1 DEF IsRow, Complete

-----------------------------------------------------------------------------
(* The steps that do not fail.                                             *)

\* The names of the slots, and where files are that have them.
LEMMA SlotNames ==
  /\ Active.number = MinIndex - 1
  /\ \A n \in Numbers : /\ Name(n).number = n /\ Plain(n).number = n /\ Compressed(n).number = n
                        /\ n # MinIndex - 1
                        /\ Name(n) # Active /\ Plain(n) # Active /\ Compressed(n) # Active
BY IndexAssumption DEF Active, Name, Plain, Compressed, Numbers

\* What a slot has when no compression is under way, and what it has when one is.
SlotsHold ==
  /\ Row[MinIndex - 1] = Contents(Active)
  /\ \A n \in Numbers :
       /\ n # index \/ step \notin {"compress", "drop", "finish"} => Row[n] = Contents(Name(n))
       /\ n = index /\ step = "compress" => Row[n] = files[Plain(n)]
       /\ n = index /\ step \in {"drop", "finish"} => Row[n] = buffered

LEMMA SlotContents == SlotsHold
<1>1. MinIndex - 1 \in Slots /\ \A n \in Numbers : n \in Slots /\ n # MinIndex - 1
  BY SlotFacts, SlotNames
<1>2. Row[MinIndex - 1] = Slot(MinIndex - 1) /\ \A n \in Numbers : Row[n] = Slot(n)
  BY <1>1 DEF Row
<1>3. Slot(MinIndex - 1) = Contents(Active)
  BY <1>1 DEF Slot
<1>4. ASSUME NEW n \in Numbers
      PROVE  /\ n # index \/ step \notin {"compress", "drop", "finish"} => Slot(n) = Contents(Name(n))
             /\ n = index /\ step = "compress" => Slot(n) = files[Plain(n)]
             /\ n = index /\ step \in {"drop", "finish"} => Slot(n) = buffered
  BY <1>1 DEF Slot
<1> QED BY <1>2, <1>3, <1>4 DEF SlotsHold

\* The same after a step, of the names before it.
LEMMA SlotContentsAfter ==
  ASSUME compressFrom' = compressFrom
  PROVE  /\ Row'[MinIndex - 1] = IF Active \in DOMAIN files' THEN files'[Active] ELSE {}
         /\ \A n \in Numbers :
              /\ n # index' \/ step' \notin {"compress", "drop", "finish"}
                   => Row'[n] = IF Name(n) \in DOMAIN files' THEN files'[Name(n)] ELSE {}
              /\ n = index' /\ step' = "compress" => Row'[n] = files'[Plain(n)]
              /\ n = index' /\ step' \in {"drop", "finish"} => Row'[n] = buffered'
<1>1. SlotsHold'
  BY SlotContents, PTL
<1>2. ASSUME NEW n \in Numbers PROVE Name(n)' = Name(n)
  BY DEF Name, IsCompressed
<1>3. ASSUME NEW n \in Numbers
      PROVE  Contents(Name(n))' = IF Name(n) \in DOMAIN files' THEN files'[Name(n)] ELSE {}
  BY <1>2 DEF Contents, Exists
<1>4. Contents(Active)' = IF Active \in DOMAIN files' THEN files'[Active] ELSE {}
  BY DEF Contents, Exists, Active, Plain
<1> QED BY <1>1, <1>3, <1>4 DEF SlotsHold

LEMMA SlotsAreAll == \A n \in Slots : n = MinIndex - 1 \/ n \in Numbers
BY IndexAssumption DEF Slots, Numbers

\* The files are finite.
LEMMA SizeOfSlot ==
  ASSUME NEW w, NEW S \in SUBSET (1 .. w), w \in Nat
  PROVE  IsFiniteSet(S) /\ Cardinality(S) \in Nat
<1>1. IsFiniteSet(1 .. w)
  BY FS_Interval
<1>2. IsFiniteSet(S)
  BY <1>1, FS_Subset
<1> QED BY <1>2, FS_CardinalityType

LEMMA OneMore ==
  ASSUME NEW S, NEW x, NEW max \in Nat, IsFiniteSet(S), Cardinality(S) \in Nat,
         Cardinality(S) < max
  PROVE  Cardinality(S \cup {x}) <= max
<1>1. Cardinality(S \cup {x}) = IF x \in S THEN Cardinality(S) ELSE Cardinality(S) + 1
  BY FS_AddElement
<1> QED BY <1>1

LEMMA SizeOfActive ==
  ASSUME NEW row, NEW gap, NEW w \in Nat, IsRow(row, gap, w)
  PROVE  IsFiniteSet(row[MinIndex - 1]) /\ Cardinality(row[MinIndex - 1]) \in Nat
<1>1. row[MinIndex - 1] \in SUBSET (1 .. w)
  BY SlotFacts DEF IsRow
<1> QED BY <1>1, SizeOfSlot

\* The files are not touched, and with the row ready for it the file is rolled or written.
LEMMA WriteKeeps ==
  ASSUME IInv, NoneIsLost, Write
  PROVE  NoneIsLost'
<1>1. /\ step = "idle" /\ step' \in {"remove", "write"} /\ event \in Nat /\ event' = event + 1
      /\ files' = files /\ compressFrom' = compressFrom /\ isOpen' = isOpen
      /\ step' = "write" => ~IsTriggered /\ hasDescriptor' = hasDescriptor
      /\ step' = "remove" => IsTriggered
  BY DEF Write, disk, IInv, TypeOK
<1>2. Gap = NoGap /\ Gap' = NoGap /\ Written = event /\ Written' = event
  BY <1>1 DEF Gap, Written, NoGap
<1>3. Tidy'
  <2>1. ProperlyNamed'
    BY <1>1, <1>2 DEF NoneIsLost, Tidy, ProperlyNamed, Name, IsCompressed
  <2>2. Exists(Active)'
    BY <1>1, <1>2, SlotFacts DEF NoneIsLost, Tidy, Exists
  <2>3. isOpen' /\ hasDescriptor
    BY <1>1 DEF NoneIsLost, Tidy
  <2>4. /\ step' \in {"idle", "write"} => hasDescriptor'
        /\ step' # "compress"
    BY <1>1, <2>3
  <2> QED BY <2>1, <2>2, <2>3, <2>4 DEF Tidy
<1>4. \A n \in Slots : Row'[n] = Row[n]
  BY <1>1 DEF Row, Slot, Contents, Exists, Name, IsCompressed
<1>5. IsRow(Row', Gap', Written')
  BY <1>2, <1>4, SameRow DEF NoneIsLost
<1>6. ActiveFills'
  <2>1. Row[MinIndex - 1] = files[Active] /\ Exists(Active)
    BY <1>2, SlotFacts, SlotContents DEF NoneIsLost, Tidy, Contents, SlotsHold
  <2>2. Cardinality(Row[MinIndex - 1]) \in Nat
    BY <1>1, <1>2, SizeOfActive DEF NoneIsLost
  <2>3. Cardinality(Row[MinIndex - 1]) <= MaxEvents
    BY <1>1 DEF NoneIsLost, ActiveFills
  <2>4. IsTriggered <=> Cardinality(Row[MinIndex - 1]) = MaxEvents
    BY <2>1, <2>2, <2>3, BoundAssumption DEF IsTriggered
  <2>5. Row'[MinIndex - 1] = Row[MinIndex - 1]
    BY <1>4, SlotFacts
  <2> QED BY <1>1, <2>2, <2>3, <2>4, <2>5, BoundAssumption DEF ActiveFills
<1> QED BY <1>3, <1>5, <1>6 DEF NoneIsLost

\* The event in hand goes to the active file.
LEMMA WriteEventKeeps ==
  ASSUME IInv, NoneIsLost, NEW isDue \in BOOLEAN, WriteEvent(isDue)
  PROVE  NoneIsLost'
<1>1. /\ step = "write" /\ step' = "idle" /\ event' = event /\ compressFrom' = compressFrom
      /\ event \in Nat /\ event - 1 \in Nat
  BY DEF WriteEvent, IInv, TypeOK, InHand
<1>2. Gap = NoGap /\ Gap' = NoGap /\ Written = event - 1 /\ Written' = event
  BY <1>1 DEF Gap, Written, NoGap
<1>3. Exists(Active) /\ hasDescriptor /\ isOpen
  BY <1>1, <1>2, SlotFacts DEF NoneIsLost, Tidy
<1>4. /\ files' = With(Active, files[Active] \cup {event})
      /\ hasDescriptor' = hasDescriptor /\ isOpen' = isOpen
  BY <1>3 DEF WriteEvent, Missing, writer
<1>5. /\ DOMAIN files' = DOMAIN files
      /\ files'[Active] = files[Active] \cup {event}
      /\ \A f \in DOMAIN files : f # Active => files'[f] = files[f]
  BY <1>3, <1>4 DEF With, Exists
<1>6. Tidy'
  <2>1. ProperlyNamed'
    BY <1>1, <1>2, <1>5 DEF NoneIsLost, Tidy, ProperlyNamed, Name, IsCompressed
  <2> QED BY <1>1, <1>3, <1>4, <1>5, <2>1 DEF Tidy, Exists
<1>7. Row[MinIndex - 1] = files[Active] /\ Row'[MinIndex - 1] = Row[MinIndex - 1] \cup {event}
  BY <1>1, <1>3, <1>5, SlotContents, SlotContentsAfter DEF SlotsHold, Contents, Exists
<1>8. ASSUME NEW n \in Numbers PROVE Row'[n] = Row[n]
  <2>1. Row[n] = Contents(Name(n)) /\ Name(n) # Active
    BY <1>1, SlotContents, SlotNames DEF SlotsHold
  <2>2. Row'[n] = IF Name(n) \in DOMAIN files' THEN files'[Name(n)] ELSE {}
    BY <1>1, SlotContentsAfter
  <2> QED BY <1>5, <2>1, <2>2 DEF Contents, Exists
<1>9. IsRow(Row', Gap', Written')
  <2>1. \A n \in Slots : Row'[n] = IF n = MinIndex - 1 THEN Row[n] \cup {event - 1 + 1} ELSE Row[n]
    BY <1>1, <1>7, <1>8, SlotsAreAll, SlotNames
  <2>2. IsRow(Row, NoGap, event - 1)
    BY <1>2 DEF NoneIsLost
  <2>3. IsRow(Row', NoGap, event - 1 + 1)
    BY <1>1, <2>1, <2>2, WrittenToRow
  <2> QED BY <1>1, <1>2, <2>3
<1>10. ActiveFills'
  <2>1. /\ IsFiniteSet(Row[MinIndex - 1]) /\ Cardinality(Row[MinIndex - 1]) \in Nat
        /\ Cardinality(Row[MinIndex - 1]) < MaxEvents
    BY <1>1, <1>2, SizeOfActive DEF NoneIsLost, ActiveFills
  <2>2. Cardinality(Row[MinIndex - 1] \cup {event}) <= MaxEvents
    BY <2>1, OneMore, BoundAssumption
  <2> QED BY <1>1, <1>7, <2>2 DEF ActiveFills
<1> QED BY <1>6, <1>9, <1>10 DEF NoneIsLost

\* An empty active file closes the gap: none was there.
LEMMA OpenKeeps ==
  ASSUME IInv, NoneIsLost, Open
  PROVE  NoneIsLost'
<1>1. /\ step = "open" /\ step' = "write" /\ event' = event /\ compressFrom' = compressFrom
      /\ event - 1 \in Nat /\ hasDescriptor' /\ isOpen' /\ files' = Opened
  BY DEF Open, IInv, TypeOK, InHand
<1>2. Gap = MinIndex - 1 /\ Gap' = NoGap /\ Written = event - 1 /\ Written' = event - 1
  BY <1>1 DEF Gap, Written, NoGap
<1>3. Active \notin DOMAIN files
  BY <1>2, SlotNames DEF NoneIsLost, Tidy, ProperlyNamed
<1>4. /\ DOMAIN files' = DOMAIN files \cup {Active}
      /\ files'[Active] = {}
      /\ \A f \in DOMAIN files : files'[f] = files[f]
  BY <1>1, <1>3 DEF Opened, With, Exists
<1>5. Tidy'
  <2>1. \A f \in DOMAIN files' : f = Active \/ (f.number \in Numbers /\ f = Name(f.number))
    BY <1>1, <1>4 DEF NoneIsLost, Tidy, ProperlyNamed
  <2>2. Active.number # NoGap /\ \A n \in Numbers : n # NoGap
    BY SlotNames, SlotFacts
  <2>3. ASSUME NEW f \in DOMAIN files'
        PROVE  f.number # Gap' /\ (f = Active \/ (f.number \in Numbers /\ f = Name(f.number)'))
    BY <1>1, <1>2, <2>1, <2>2 DEF Name, IsCompressed
  <2>4. ProperlyNamed'
    BY <2>3 DEF ProperlyNamed, Active, Plain
  <2> QED BY <1>1, <1>4, <2>4 DEF Tidy, Exists
<1>6. Row[MinIndex - 1] = {} /\ Row'[MinIndex - 1] = {}
  BY <1>1, <1>3, <1>4, SlotContents, SlotContentsAfter DEF SlotsHold, Contents, Exists
<1>7. ASSUME NEW n \in Numbers PROVE Row'[n] = Row[n]
  <2>1. Row[n] = Contents(Name(n)) /\ Name(n) # Active
    BY <1>1, SlotContents, SlotNames DEF SlotsHold
  <2>2. Row'[n] = IF Name(n) \in DOMAIN files' THEN files'[Name(n)] ELSE {}
    BY <1>1, SlotContentsAfter
  <2> QED BY <1>4, <2>1, <2>2 DEF Contents, Exists
<1>8. IsRow(Row', Gap', Written')
  <2>1. \A n \in Slots : Row'[n] = Row[n]
    BY <1>6, <1>7, SlotsAreAll
  <2>2. IsRow(Row, NoGap, event - 1)
    BY <1>2, OpenedInRow DEF NoneIsLost
  <2>3. IsRow(Row', NoGap, event - 1)
    BY <2>1, <2>2, SameRow
  <2> QED BY <1>2, <2>3
<1>9. ActiveFills'
  <2>1. Cardinality({}) < MaxEvents
    BY FS_EmptySet, BoundAssumption
  <2> QED BY <1>1, <1>6, <2>1 DEF ActiveFills
<1> QED BY <1>5, <1>8, <1>9 DEF NoneIsLost

\* The oldest slot is emptied.
LEMMA RemoveKeeps ==
  ASSUME IInv, NoneIsLost, RemoveOldest
  PROVE  NoneIsLost'
<1>1. /\ step = "remove" /\ step' = "move" /\ event' = event /\ compressFrom' = compressFrom
      /\ index' = MaxIndex /\ isOpen' = isOpen /\ files' = Without(Name(MaxIndex))
      /\ event - 1 \in Nat
  BY DEF RemoveOldest, IInv, TypeOK, InHand, writer
<1>2. Gap = NoGap /\ Gap' = MaxIndex /\ Written = event - 1 /\ Written' = event - 1
  BY <1>1 DEF Gap, Written, NoGap
<1>3. /\ DOMAIN files' = DOMAIN files \ {Name(MaxIndex)}
      /\ \A f \in DOMAIN files' : files'[f] = files[f]
  BY <1>1 DEF Without, Restrict
<1>4. MaxIndex \in Numbers /\ MaxIndex # MinIndex - 1
  BY SlotFacts, SlotNames
<1>5. Active \in DOMAIN files /\ Active \in DOMAIN files'
  BY <1>2, <1>3, <1>4, SlotFacts, SlotNames DEF NoneIsLost, Tidy, Exists
<1>6. Tidy'
  <2>1. \A f \in DOMAIN files' : f = Active \/ (f.number \in Numbers /\ f = Name(f.number))
    BY <1>1, <1>3 DEF NoneIsLost, Tidy, ProperlyNamed
  <2>2. ASSUME NEW f \in DOMAIN files'
        PROVE  f.number # Gap' /\ (f = Active \/ (f.number \in Numbers /\ f = Name(f.number)'))
    BY <1>1, <1>2, <1>3, <1>4, <2>1, SlotNames DEF Name, IsCompressed
  <2>3. ProperlyNamed'
    BY <2>2 DEF ProperlyNamed, Active, Plain
  <2>4. isOpen'
    BY <1>1 DEF NoneIsLost, Tidy
  <2> QED BY <1>1, <1>5, <2>3, <2>4 DEF Tidy, Exists, Active, Plain
<1>7. Row'[MinIndex - 1] = Row[MinIndex - 1]
  BY <1>1, <1>3, <1>5, SlotContents, SlotContentsAfter DEF SlotsHold, Contents, Exists
<1>8. ASSUME NEW n \in Numbers PROVE Row'[n] = IF n = MaxIndex THEN {} ELSE Row[n]
  <2>1. Row[n] = Contents(Name(n)) /\ (n # MaxIndex => Name(n) # Name(MaxIndex))
    BY <1>1, <1>4, SlotContents, SlotNames DEF SlotsHold
  <2>2. Row'[n] = IF Name(n) \in DOMAIN files' THEN files'[Name(n)] ELSE {}
    BY <1>1, SlotContentsAfter
  <2> QED BY <1>3, <2>1, <2>2 DEF Contents, Exists
<1>9. IsRow(Row', Gap', Written')
  <2>1. \A n \in Slots : Row'[n] = IF n = MaxIndex THEN {} ELSE Row[n]
    BY <1>4, <1>7, <1>8, SlotsAreAll
  <2>2. IsRow(Row, NoGap, event - 1)
    BY <1>2 DEF NoneIsLost
  <2>3. IsRow(Row', MaxIndex, event - 1)
    BY <1>1, <2>1, <2>2, RemovedFromRow
  <2> QED BY <1>2, <2>3
<1>10. ActiveFills'
  <2>1. Cardinality(Row[MinIndex - 1]) = MaxEvents
    BY <1>1, <1>2, SlotFacts DEF NoneIsLost, ActiveFills
  <2> QED BY <1>1, <1>7, <2>1 DEF ActiveFills
<1> QED BY <1>6, <1>9, <1>10 DEF NoneIsLost

\* What is moved is all that its slot has, and goes to the gap.
LEMMA MoveKeeps ==
  ASSUME IInv, NoneIsLost, Move
  PROVE  NoneIsLost'
<1>1. /\ step = "move" /\ index \in Numbers /\ event' = event /\ compressFrom' = compressFrom
      /\ isOpen' = isOpen /\ files' = Renamed(Mover, Destination)
      /\ event - 1 \in Nat
  BY DEF Move, IInv, TypeOK, InHand, writer, Numbers
<1>2. Gap = index /\ index # MinIndex - 1 /\ Exists(Active) /\ index - 1 # index
  BY <1>1, SlotNames, SlotFacts DEF Gap, NoneIsLost, Tidy
<1>3. /\ index = MinIndex => Mover = Active
      /\ index # MinIndex => Mover = Name(index - 1) /\ index - 1 \in Numbers
                             /\ index - 1 # MinIndex - 1
      /\ Mover.number = index - 1
  BY <1>1, SlotNames, SlotFacts DEF Mover
<1>4. /\ BeginsCompression => Destination = Plain(index)
      /\ ~BeginsCompression => Destination = Name(index)
      /\ Destination.number = index /\ Mover # Destination
  BY <1>1, <1>2, <1>3, SlotNames DEF Destination
<1>5. \/ /\ BeginsCompression /\ Exists(Mover)
         /\ step' = "compress" /\ index' = index
      \/ /\ ~(BeginsCompression /\ Exists(Mover))
         /\ index = MinIndex /\ step' = "open" /\ index' = index
      \/ /\ ~(BeginsCompression /\ Exists(Mover))
         /\ index # MinIndex /\ step' = "move" /\ index' = index - 1
  BY <1>2, <1>3 DEF Move, After
<1>6. Gap' = index - 1 /\ Written = event - 1 /\ Written' = event - 1
  BY <1>1, <1>5 DEF Gap, Written
<1>7. \A f \in DOMAIN files : f.number # index /\ (f.number = index - 1 => f = Mover)
  BY <1>1, <1>2, <1>3, SlotNames DEF NoneIsLost, Tidy, ProperlyNamed
<1>8. /\ Mover \notin DOMAIN files'
      /\ Destination \in DOMAIN files' <=> Exists(Mover)
      /\ Exists(Mover) => files'[Destination] = files[Mover]
      /\ \A f : f # Mover /\ f # Destination => (f \in DOMAIN files' <=> f \in DOMAIN files)
      /\ \A f \in DOMAIN files : f # Mover /\ f # Destination => files'[f] = files[f]
  <2>1. Destination \notin DOMAIN files
    BY <1>4, <1>7
  <2>2. CASE Exists(Mover)
    BY <1>1, <1>4, <2>1, <2>2 DEF Renamed, Exists
  <2>3. CASE ~Exists(Mover)
    BY <1>1, <1>4, <2>1, <2>3 DEF Renamed, Exists
  <2> QED BY <2>2, <2>3
<1>9. Tidy'
  <2>1. ASSUME NEW f \in DOMAIN files'
        PROVE  /\ f.number # Gap'
               /\ \/ f = Active
                  \/ f.number \in Numbers /\ f = Name(f.number)'
                  \/ step' = "compress" /\ f = Plain(index')
    <3>1. Name(f.number)' = Name(f.number)
      BY <1>1 DEF Name, IsCompressed
    <3>2. CASE f = Destination
      BY <1>1, <1>2, <1>4, <1>5, <1>6, <1>8, <3>1, <3>2
    <3>3. CASE f # Destination
      <4>1. f \in DOMAIN files /\ f # Mover
        BY <1>8, <3>3
      <4>2. f.number # index - 1
        BY <1>7, <4>1
      <4> QED BY <1>1, <1>6, <3>1, <4>1, <4>2 DEF NoneIsLost, Tidy, ProperlyNamed
    <3> QED BY <3>2, <3>3
  <2>2. ProperlyNamed'
    BY <2>1 DEF ProperlyNamed, Active, Plain
  <2>3. Gap' # MinIndex - 1 => Active \in DOMAIN files'
    <3>1. ASSUME index # MinIndex PROVE Active # Mover /\ Active # Destination
      BY <1>1, <1>3, <1>4, <3>1, SlotNames
    <3> QED BY <1>2, <1>3, <1>6, <1>8, <3>1 DEF Exists
  <2>4. step' = "compress" => Plain(index') \in DOMAIN files'
    BY <1>4, <1>5, <1>8
  <2>5. isOpen' /\ step' \notin {"idle", "write"}
    BY <1>1, <1>5 DEF NoneIsLost, Tidy
  <2>6. Exists(Active)' <=> Active \in DOMAIN files'
    BY DEF Exists, Active, Plain
  <2>7. Exists(Plain(index))' <=> Plain(index') \in DOMAIN files'
    BY DEF Exists, Plain
  <2> QED BY <2>2, <2>3, <2>4, <2>5, <2>6, <2>7 DEF Tidy
<1>10. Row[index - 1] = Contents(Mover)
  BY <1>1, <1>3, SlotContents DEF SlotsHold
<1>11. Row'[index - 1] = {}
  BY <1>1, <1>2, <1>3, <1>5, <1>8, SlotContentsAfter
<1>12. Row'[index] = Contents(Mover)
  <2>1. CASE step' = "compress"
    BY <1>1, <1>4, <1>5, <1>8, <2>1, SlotContentsAfter DEF Contents
  <2>2. CASE step' # "compress"
    <3>1. Row'[index] = IF Name(index) \in DOMAIN files' THEN files'[Name(index)] ELSE {}
      BY <1>1, <1>5, <2>2, SlotContentsAfter
    <3>2. Name(index) = Destination \/ (Name(index) \notin DOMAIN files' /\ ~Exists(Mover))
      <4>1. Name(index).number = index /\ index # index - 1
        BY <1>1, <1>2, SlotNames
      <4> QED BY <1>3, <1>4, <1>5, <1>7, <1>8, <2>2, <4>1
    <3> QED BY <1>8, <3>1, <3>2 DEF Contents
  <2> QED BY <2>1, <2>2
<1>13. ASSUME NEW n \in Slots, n # index, n # index - 1
       PROVE  Row'[n] = Row[n]
  <2>1. CASE n = MinIndex - 1
    <3>1. Active # Mover /\ Active # Destination
      BY <1>3, <1>4, <1>13, <2>1, SlotNames
    <3> QED BY <1>1, <1>8, <2>1, <3>1, SlotContents, SlotContentsAfter DEF SlotsHold, Contents, Exists
  <2>2. CASE n \in Numbers
    <3>1. Name(n) # Mover /\ Name(n) # Destination
      BY <1>3, <1>4, <1>13, <2>2, SlotNames
    <3>2. Row[n] = Contents(Name(n))
      BY <1>1, <2>2, SlotContents DEF SlotsHold
    <3>3. Row'[n] = IF Name(n) \in DOMAIN files' THEN files'[Name(n)] ELSE {}
      BY <1>1, <1>5, <1>13, <2>2, SlotContentsAfter
    <3> QED BY <1>8, <3>1, <3>2, <3>3 DEF Contents, Exists
  <2> QED BY <2>1, <2>2, SlotsAreAll
<1>14. Gap # MinIndex - 1 /\ Cardinality(Row[MinIndex - 1]) = MaxEvents
  BY <1>1, <1>2 DEF NoneIsLost, ActiveFills
<1>15. IsRow(Row', Gap', Written')
  <2>1. \A n \in Slots : Row'[n] = IF n = index THEN Row[index - 1]
                                   ELSE IF n = index - 1 THEN {} ELSE Row[n]
    BY <1>10, <1>11, <1>12, <1>13
  <2>2. IsRow(Row, index, event - 1)
    BY <1>2, <1>6 DEF NoneIsLost
  <2>3. index = MinIndex => Row[index - 1] # {} /\ Cardinality(Row[index - 1]) = MaxEvents
    BY <1>14, FS_EmptySet, BoundAssumption
  <2>4. IsRow(Row', index - 1, event - 1)
    BY <1>1, <2>1, <2>2, <2>3, MovedInRow
  <2> QED BY <1>6, <2>4
<1>16. ActiveFills'
  <2>1. CASE index = MinIndex
    BY <1>5, <1>6, <2>1 DEF ActiveFills
  <2>2. CASE index # MinIndex
    <3>1. Row'[MinIndex - 1] = Row[MinIndex - 1]
      BY <1>2, <1>3, <1>13, <2>2, SlotFacts
    <3> QED BY <1>5, <1>14, <3>1 DEF ActiveFills
  <2> QED BY <2>1, <2>2
<1> QED BY <1>9, <1>15, <1>16 DEF NoneIsLost

\* The steps of the compressor leave the row and the gap.
LEMMA SameRowIsKept ==
  ASSUME NoneIsLost, Tidy', event' = event, Gap' = Gap,
         step \in {"compress", "drop", "finish"}, step' \notin {"idle", "write"},
         \A n \in Slots : Row'[n] = Row[n]
  PROVE  NoneIsLost'
<1>1. IsRow(Row', Gap', Written')
  <2>1. Written' = Written
    BY DEF Written
  <2> QED BY <2>1, SameRow DEF NoneIsLost
<1>2. ActiveFills'
  <2>1. Row'[MinIndex - 1] = Row[MinIndex - 1]
    BY SlotFacts
  <2>2. Gap = MinIndex - 1 \/ Cardinality(Row[MinIndex - 1]) = MaxEvents
    BY DEF NoneIsLost, ActiveFills
  <2> QED BY <2>1, <2>2 DEF ActiveFills
<1> QED BY <1>1, <1>2 DEF NoneIsLost

\* What is common to the steps of the compressor.
LEMMA CompressorSteps ==
  ASSUME IInv, Compressing, NoneIsLost, step \in {"compress", "drop", "finish"}
  PROVE  /\ index \in Numbers /\ Gap = index - 1 /\ index - 1 # index
         /\ Compressed(index) = Name(index) /\ isOpen
         /\ \A f \in DOMAIN files :
              /\ f.number # index - 1
              /\ \/ f = Active
                 \/ f.number \in Numbers /\ f = Name(f.number)
                 \/ step \in {"compress", "drop"} /\ f = Plain(index)
         /\ index # MinIndex => Exists(Active)
<1>1. index \in Numbers
  BY DEF IInv, TypeOK, Numbers
<1>2. Gap = index - 1 /\ index - 1 # index
  BY <1>1, SlotFacts DEF Gap
<1>3. Compressed(index) = Name(index)
  BY DEF Compressing, BeginsAt, Compressed, Name
<1>4. index # MinIndex => index - 1 # MinIndex - 1
  BY <1>1, IndexAssumption DEF Numbers
<1> QED BY <1>1, <1>2, <1>3, <1>4 DEF NoneIsLost, Tidy, ProperlyNamed

LEMMA CreateKeeps ==
  ASSUME IInv, Compressing, NoneIsLost, NEW upTo, CreateCompressed(upTo)
  PROVE  NoneIsLost'
<1>1. /\ step = "compress" /\ step' = "drop" /\ event' = event /\ compressFrom' = compressFrom
      /\ isOpen' = isOpen /\ index' = index /\ buffered' = files[Plain(index)]
      /\ files' = With(Compressed(index), {e \in files[Plain(index)] : e <= upTo})
  BY DEF CreateCompressed, writer
<1>2. /\ DOMAIN files' = DOMAIN files \cup {Name(index)}
      /\ \A f \in DOMAIN files : f # Name(index) => files'[f] = files[f]
  BY <1>1, CompressorSteps DEF With
<1>3. index \in Numbers /\ Gap' = Gap /\ Gap = index - 1
  BY <1>1, CompressorSteps DEF Gap
<1>4. Active # Name(index) /\ Name(index).number = index
  BY <1>3, SlotNames
<1>5. Tidy'
  <2>1. ASSUME NEW f \in DOMAIN files'
        PROVE  /\ f.number # Gap'
               /\ \/ f = Active
                  \/ f.number \in Numbers /\ f = Name(f.number)'
                  \/ f = Plain(index')
    <3>1. Name(f.number)' = Name(f.number)
      BY <1>1 DEF Name, IsCompressed
    <3> QED BY <1>1, <1>2, <1>3, <1>4, <3>1, CompressorSteps
  <2>2. ProperlyNamed'
    BY <1>1, <2>1 DEF ProperlyNamed, Active, Plain
  <2>3. Gap' # MinIndex - 1 => Exists(Active)'
    BY <1>2, <1>3 DEF NoneIsLost, Tidy, Exists, Active, Plain
  <2> QED BY <1>1, <2>2, <2>3, CompressorSteps DEF Tidy
<1>6. ASSUME NEW n \in Slots PROVE Row'[n] = Row[n]
  <2>1. CASE n = MinIndex - 1
    BY <1>1, <1>2, <1>4, <2>1, SlotContents, SlotContentsAfter DEF SlotsHold, Contents, Exists
  <2>2. CASE n \in Numbers /\ n = index
    BY <1>1, <2>2, SlotContents, SlotContentsAfter DEF SlotsHold
  <2>3. CASE n \in Numbers /\ n # index
    <3>1. Name(n) # Name(index)
      BY <1>4, <2>3, SlotNames
    <3>2. Row[n] = Contents(Name(n))
      BY <2>3, SlotContents DEF SlotsHold
    <3>3. Row'[n] = IF Name(n) \in DOMAIN files' THEN files'[Name(n)] ELSE {}
      BY <1>1, <2>3, SlotContentsAfter
    <3> QED BY <1>2, <3>1, <3>2, <3>3 DEF Contents, Exists
  <2> QED BY <2>1, <2>2, <2>3, SlotsAreAll
<1> QED BY <1>1, <1>3, <1>5, <1>6, SameRowIsKept

LEMMA DropKeeps ==
  ASSUME IInv, Compressing, NoneIsLost, DropPlain
  PROVE  NoneIsLost'
<1>1. /\ step = "drop" /\ step' = "finish" /\ event' = event /\ compressFrom' = compressFrom
      /\ isOpen' = isOpen /\ index' = index /\ buffered' = buffered
      /\ files' = Without(Plain(index))
  BY DEF DropPlain, Dropped, writer
<1>2. /\ DOMAIN files' = DOMAIN files \ {Plain(index)}
      /\ \A f \in DOMAIN files' : files'[f] = files[f]
  BY <1>1 DEF Without, Restrict
<1>3. index \in Numbers /\ Gap' = Gap /\ Gap = index - 1
  BY <1>1, CompressorSteps DEF Gap
<1>4. Active # Plain(index) /\ Plain(index).number = index
  BY <1>3, SlotNames
<1>5. Tidy'
  <2>1. ASSUME NEW f \in DOMAIN files'
        PROVE  /\ f.number # Gap'
               /\ \/ f = Active
                  \/ f.number \in Numbers /\ f = Name(f.number)'
    <3>1. Name(f.number)' = Name(f.number)
      BY <1>1 DEF Name, IsCompressed
    <3> QED BY <1>1, <1>2, <1>3, <3>1, CompressorSteps
  <2>2. ProperlyNamed'
    BY <2>1 DEF ProperlyNamed, Active, Plain
  <2>3. Gap' # MinIndex - 1 => Exists(Active)'
    BY <1>2, <1>3, <1>4 DEF NoneIsLost, Tidy, Exists, Active, Plain
  <2> QED BY <1>1, <2>2, <2>3, CompressorSteps DEF Tidy
<1>6. ASSUME NEW n \in Slots PROVE Row'[n] = Row[n]
  <2>1. CASE n = MinIndex - 1
    BY <1>1, <1>2, <1>4, <2>1, SlotContents, SlotContentsAfter DEF SlotsHold, Contents, Exists
  <2>2. CASE n \in Numbers /\ n = index
    BY <1>1, <2>2, SlotContents, SlotContentsAfter DEF SlotsHold
  <2>3. CASE n \in Numbers /\ n # index
    <3>1. Name(n) # Plain(index)
      BY <1>4, <2>3, SlotNames
    <3>2. Row[n] = Contents(Name(n))
      BY <2>3, SlotContents DEF SlotsHold
    <3>3. Row'[n] = IF Name(n) \in DOMAIN files' THEN files'[Name(n)] ELSE {}
      BY <1>1, <2>3, SlotContentsAfter
    <3> QED BY <1>2, <3>1, <3>2, <3>3 DEF Contents, Exists
  <2> QED BY <2>1, <2>2, <2>3, SlotsAreAll
<1> QED BY <1>1, <1>3, <1>5, <1>6, SameRowIsKept

LEMMA FinishKeeps ==
  ASSUME IInv, Compressing, NoneIsLost, Finish
  PROVE  NoneIsLost'
<1>1. /\ step = "finish" /\ event' = event /\ compressFrom' = compressFrom
      /\ isOpen' = isOpen /\ files' = With(Compressed(index), buffered) /\ After
  BY DEF Finish, writer
<1>2. /\ DOMAIN files' = DOMAIN files \cup {Name(index)}
      /\ files'[Name(index)] = buffered
      /\ \A f \in DOMAIN files : f # Name(index) => files'[f] = files[f]
  BY <1>1, CompressorSteps DEF With
<1>3. index \in Numbers /\ Gap = index - 1
  BY <1>1, CompressorSteps
<1>4. /\ Gap' = Gap /\ step' \in {"open", "move"}
  BY <1>1, <1>3 DEF Gap, After
<1>5. Active # Name(index) /\ Name(index).number = index
  BY <1>3, SlotNames
<1>6. Tidy'
  <2>1. ASSUME NEW f \in DOMAIN files'
        PROVE  /\ f.number # Gap'
               /\ \/ f = Active
                  \/ f.number \in Numbers /\ f = Name(f.number)'
    <3>1. Name(f.number)' = Name(f.number)
      BY <1>1 DEF Name, IsCompressed
    <3> QED BY <1>1, <1>2, <1>3, <1>4, <1>5, <3>1, CompressorSteps
  <2>2. ProperlyNamed'
    BY <2>1 DEF ProperlyNamed, Active, Plain
  <2>3. Gap' # MinIndex - 1 => Exists(Active)'
    BY <1>2, <1>4 DEF NoneIsLost, Tidy, Exists, Active, Plain
  <2> QED BY <1>1, <1>4, <2>2, <2>3, CompressorSteps DEF Tidy
<1>7. ASSUME NEW n \in Slots PROVE Row'[n] = Row[n]
  <2>1. CASE n = MinIndex - 1
    BY <1>1, <1>2, <1>5, <2>1, SlotContents, SlotContentsAfter DEF SlotsHold, Contents, Exists
  <2>2. CASE n \in Numbers
    <3>1. Row'[n] = IF Name(n) \in DOMAIN files' THEN files'[Name(n)] ELSE {}
      BY <1>1, <1>4, <2>2, SlotContentsAfter
    <3>2. CASE n = index
      BY <1>1, <1>2, <2>2, <3>1, <3>2, SlotContents DEF SlotsHold
    <3>3. CASE n # index
      <4>1. Name(n) # Name(index)
        BY <1>5, <2>2, <3>3, SlotNames
      <4>2. Row[n] = Contents(Name(n))
        BY <2>2, <3>3, SlotContents DEF SlotsHold
      <4> QED BY <1>2, <3>1, <4>1, <4>2 DEF Contents, Exists
    <3> QED BY <3>2, <3>3
  <2> QED BY <2>1, <2>2, SlotsAreAll
<1> QED BY <1>1, <1>4, <1>6, <1>7, SameRowIsKept

LEMMA RowInit == Init => NoneIsLost
<1> SUFFICES ASSUME Init PROVE NoneIsLost
  OBVIOUS
<1>1. /\ DOMAIN files = {Active} /\ files[Active] = {} /\ step = "idle" /\ event = 0
      /\ isOpen /\ hasDescriptor
  BY DEF Init
<1>2. Gap = NoGap /\ Written = 0
  BY <1>1 DEF Gap, Written
<1>3. Tidy
  BY <1>1, <1>2, SlotNames, SlotFacts DEF Tidy, ProperlyNamed, Exists
<1>4. \A n \in Slots : Row[n] = {}
  <2>1. Row[MinIndex - 1] = {}
    BY <1>1, SlotContents DEF SlotsHold, Contents, Exists
  <2>2. ASSUME NEW n \in Numbers PROVE Row[n] = {}
    BY <1>1, <2>2, SlotContents, SlotNames DEF SlotsHold, Contents, Exists
  <2> QED BY <2>1, <2>2, SlotsAreAll
<1>5. IsRow(Row, Gap, Written)
  <2>1. 1 .. 0 = {}
    OBVIOUS
  <2> QED BY <1>2, <1>4, <2>1, SlotFacts DEF IsRow, Complete
<1>6. ActiveFills
  <2>1. Cardinality(Row[MinIndex - 1]) = 0
    BY <1>4, SlotFacts, FS_EmptySet
  <2> QED BY <1>1, <2>1, BoundAssumption DEF ActiveFills
<1> QED BY <1>3, <1>5, <1>6 DEF NoneIsLost

LEMMA UndisturbedStep == IInv /\ History /\ Undisturbed /\ [Next]_vars => Undisturbed'
<1> SUFFICES ASSUME IInv, Compressing, Undisturbed, [Next]_vars, faults' = 0
             PROVE  NoneIsLost'
  BY DEF Undisturbed, History
<1>1. ~(faults' = faults + 1) /\ (faults' = faults => NoneIsLost)
  BY DEF IInv, TypeOK, Undisturbed
<1>2. ASSUME UNCHANGED vars PROVE NoneIsLost'
  <2>1. \A n \in Slots : Row'[n] = Row[n]
    BY <1>2 DEF Row, Slot, Contents, Exists, Name, IsCompressed, vars, disk
  <2>2. Gap' = Gap /\ Written' = Written
    BY <1>2 DEF Gap, Written, vars
  <2>3. NoneIsLost
    BY <1>1, <1>2 DEF vars, Undisturbed
  <2>4. Tidy'
    BY <1>2, <2>2, <2>3
    DEF NoneIsLost, Tidy, ProperlyNamed, Exists, Active, Plain, Name, IsCompressed, vars, disk, writer
  <2>5. IsRow(Row', Gap', Written')
    BY <2>1, <2>2, <2>3, SameRow DEF NoneIsLost
  <2>6. ActiveFills'
    <3>1. Row'[MinIndex - 1] = Row[MinIndex - 1]
      BY <2>1, SlotFacts
    <3> QED BY <1>2, <2>2, <2>3, <3>1 DEF NoneIsLost, ActiveFills, vars
  <2> QED BY <2>4, <2>5, <2>6 DEF NoneIsLost
<1>3. CASE Write
  BY <1>1, <1>3, WriteKeeps DEF Write
<1>4. CASE Open
  BY <1>1, <1>4, OpenKeeps DEF Open
<1>5. CASE OpenFails
  BY <1>1, <1>5 DEF OpenFails
<1>6. CASE EnsuringFails
  BY <1>1, <1>6 DEF EnsuringFails
<1>7. ASSUME NEW isDue \in BOOLEAN, WriteEvent(isDue) PROVE NoneIsLost'
  BY <1>1, <1>7, WriteEventKeeps DEF WriteEvent
<1>8. CASE RemoveOldest
  BY <1>1, <1>8, RemoveKeeps DEF RemoveOldest
<1>9. CASE Move
  BY <1>1, <1>9, MoveKeeps DEF Move
<1>10. CASE MoveIsRefused
  BY <1>1, <1>10 DEF MoveIsRefused
<1>11. ASSUME NEW upTo \in 0 .. event, CreateCompressed(upTo) PROVE NoneIsLost'
  BY <1>1, <1>11, CreateKeeps DEF CreateCompressed
<1>12. CASE DropPlain
  BY <1>1, <1>12, DropKeeps DEF DropPlain
<1>13. CASE Finish
  BY <1>1, <1>13, FinishKeeps DEF Finish
<1>14. CASE FinishFails
  BY <1>1, <1>14 DEF FinishFails
<1>15. CASE NothingToCompress
  BY <1>1, <1>15 DEF NothingToCompress, NoneIsLost, Tidy
<1>16. CASE CompressionFails
  BY <1>1, <1>16 DEF CompressionFails
<1>17. CASE Restart
  BY <1>1, <1>17 DEF Restart
<1> QED
  BY <1>2, <1>3, <1>4, <1>5, <1>6, <1>7, <1>8, <1>9, <1>10, <1>11, <1>12, <1>13, <1>14,
     <1>15, <1>16, <1>17 DEF Next

\* As long as nothing fails, the events that are no longer in any file are older than
\* all that are, and some are missed only when every number has a full file: a roll
\* removes the oldest file and no other.
THEOREM OldestAreRemovedOnly == Spec => []OnlyOldestAreRemoved
<1>1. Init => Undisturbed
  BY RowInit DEF Undisturbed
<1>2. IInv /\ History /\ Undisturbed /\ [Next]_vars => Undisturbed'
  BY UndisturbedStep
<1>3. Undisturbed => OnlyOldestAreRemoved
  <2> SUFFICES ASSUME NoneIsLost, step = "idle"
               PROVE  LET kept == UNION Range(files)
                          lost == (1 .. event) \ kept
                      IN  /\ \A e \in lost, k \in kept : e < k
                          /\ lost # {} => \A n \in MinIndex .. MaxIndex :
                               Exists(Name(n)) /\ Cardinality(files[Name(n)]) = MaxEvents
    BY DEF Undisturbed, OnlyOldestAreRemoved
  <2> DEFINE kept == UNION Range(files)
             lost == (1 .. event) \ kept
  <2>1. IsRow(Row, NoGap, event)
    BY DEF NoneIsLost, Gap, Written
  <2>2. /\ Row[MinIndex - 1] = Contents(Active)
        /\ \A n \in Numbers : Row[n] = Contents(Name(n))
    BY SlotContents DEF SlotsHold
  <2>3. \A n \in Slots : \A k \in Row[n] : k \in kept
    BY <2>2, SlotsAreAll DEF Contents, Exists, Range
  <2>4. ASSUME NEW k \in kept PROVE \E n \in Slots : k \in Row[n]
    <3>1. PICK f \in DOMAIN files : k \in files[f]
      BY DEF Range
    <3>2. f = Active \/ (f.number \in Numbers /\ f = Name(f.number))
      BY DEF NoneIsLost, Tidy, ProperlyNamed
    <3> QED BY <2>2, <3>1, <3>2, SlotFacts DEF Contents, Exists
  <2> HIDE DEF kept
  <2>5. ASSUME NEW e \in lost
        PROVE  /\ \A n \in Slots : \A k \in Row[n] : e < k
               /\ \A n \in Numbers \ {NoGap} : Row[n] # {}
    <3>1. e \in 1 .. event /\ \A n \in Slots : e \notin Row[n]
      BY <2>3, <2>5
    <3> QED BY <2>1, <3>1 DEF IsRow, Complete
  <2>6. \A e \in lost, k \in kept : e < k
    BY <2>4, <2>5
  <2>7. ASSUME lost # {}, NEW n \in MinIndex .. MaxIndex
        PROVE  Exists(Name(n)) /\ Cardinality(files[Name(n)]) = MaxEvents
    <3>1. n \in Numbers /\ n # NoGap
      BY SlotFacts DEF Numbers
    <3>2. Row[n] # {} /\ Row[n] = Contents(Name(n))
      BY <2>2, <2>5, <2>7, <3>1
    <3>3. Cardinality(Row[n]) = MaxEvents
      BY <2>1, <3>1, <3>2 DEF IsRow
    <3> QED BY <3>2, <3>3 DEF Contents
  <2> QED BY <2>6, <2>7 DEF kept
<1> QED BY <1>1, <1>2, <1>3, Invariance, HistoryStep, HistoryInit, PTL DEF Spec

-----------------------------------------------------------------------------
(* The sliding roller.                                                     *)
(*                                                                         *)
(* NewestAreKept says of each file that it is younger than those of        *)
(* smaller numbers, and of each lost event how old it is at least.  For    *)
(* the first it is enough that nothing has a greater number than the file  *)
(* that is written.  For the second the files have to be filled evenly:    *)
(* as long as nothing fails the number of an event's file tells how old    *)
(* the event is, whatever the file is called by then.                      *)

SlidingNames == [number : Int, compressed : BOOLEAN]

\* The files fs have no other events than the first n.
Holds(fs, n) == DOMAIN fs \subseteq SlidingNames /\ \A f \in DOMAIN fs : fs[f] \subseteq 1 .. n

\* The number of none of the files fs is greater than n.
UpTo(fs, n) == \A f \in DOMAIN fs : f.number <= n

\* Of the files fs one with a greater number is younger.
InOrder(fs) == \A f, g \in DOMAIN fs : f.number < g.number =>
                        \A old \in fs[f], young \in fs[g] : old < young

SlidingTypeOK == /\ compressed \in SlidingCompressFroms
                 /\ Holds(slidingFiles, slidingEvent)
                 /\ current \in Int /\ open \in SlidingNames
                 /\ slidingEvent \in Nat /\ slidingFailures \in Nat /\ slidingRestarts \in Nat

\* All files are behind the one that is written, and a greater number is younger.
SlidingOrdered == /\ open = Sliding!Plain(open.number) /\ open.number <= current
                  /\ UpTo(slidingFiles, open.number) /\ InOrder(slidingFiles)

\* How many events have been written before the file with the number n.
Before(n) == (n - MinIndex + 1) * MaxEvents

\* The file that is written has all events from its first on, no file has events that
\* belong behind it, only what compression is due for is compressed, and an event that is
\* lost belongs before the window.
Even ==
  /\ open = Sliding!Plain(current) /\ Sliding!Exists(open)
  /\ slidingFiles[open] = Before(current) + 1 .. slidingEvent
  /\ Before(current) <= slidingEvent /\ slidingEvent <= Before(current + 1)
  /\ \A f \in DOMAIN slidingFiles : /\ f.compressed => f.number <= current - compressed
                                    /\ \A e \in slidingFiles[f] : e <= Before(f.number + 1)
  /\ \A e \in (1 .. slidingEvent) \ Sliding!Kept : e <= Before(current - MaxCount + 1)

SlidingIInv == /\ SlidingTypeOK
               /\ slidingRestarts = 0 => SlidingOrdered /\ (slidingFailures = 0 => Even)

-----------------------------------------------------------------------------
(* What the sliding roller's operators return.                             *)

Zipped(n) == [number |-> n, compressed |-> TRUE]

LEMMA BeforeFacts ==
  ASSUME Sliding!CountAssumption, NEW n \in Int
  PROVE  /\ Before(n) \in Int
         /\ Before(n + 1) = Before(n) + MaxEvents
         /\ Before(n - MaxCount + 1) = Before(n) - (MaxCount - 1) * MaxEvents
         /\ Before(n - MaxCount + 1) \in Int
         /\ Before(MinIndex - 1) = 0
BY DEF Sliding!CountAssumption, Before

LEMMA WrittenFacts ==
  ASSUME NEW fs, NEW name, NEW e, NEW gs, gs = Sliding!Written(fs, name, e)
  PROVE  /\ \A f : f \in DOMAIN gs <=> f \in DOMAIN fs \/ f = name
         /\ name \in DOMAIN fs => gs[name] = fs[name] \cup {e}
         /\ name \notin DOMAIN fs => gs[name] = {e}
         /\ \A f \in DOMAIN fs : f # name => gs[f] = fs[f]
<1>1. CASE name \in DOMAIN fs
  <2>1. gs = [fs EXCEPT ![name] = @ \cup {e}]
    BY <1>1 DEF Sliding!Written, Sliding!Opened
  <2> QED BY <1>1, <2>1
<1>2. CASE name \notin DOMAIN fs
  <2> DEFINE hs == [f \in DOMAIN fs \cup {name} |-> IF f = name THEN {} ELSE fs[f]]
  <2>1. gs = [hs EXCEPT ![name] = @ \cup {e}]
    BY <1>2 DEF Sliding!Written, Sliding!Opened
  <2>2. DOMAIN hs = DOMAIN fs \cup {name} /\ hs[name] = {} /\ \A f \in DOMAIN fs : hs[f] = fs[f]
    BY <1>2
  <2> HIDE DEF hs
  <2> QED BY <1>2, <2>1, <2>2
<1> QED BY <1>1, <1>2

\* A roll removes one file and renames one, at most.
LEMMA RemovedFacts ==
  ASSUME NEW cur
  PROVE  /\ DOMAIN Sliding!Removed(cur) \subseteq DOMAIN slidingFiles
         /\ \A f \in DOMAIN slidingFiles :
              f \in DOMAIN Sliding!Removed(cur) \/ f = Sliding!Name(cur - MaxCount, cur)
         /\ \A f \in DOMAIN Sliding!Removed(cur) : Sliding!Removed(cur)[f] = slidingFiles[f]
BY DEF Sliding!Removed, Sliding!Restrict

LEMMA CompressedFacts ==
  ASSUME NEW fs, NEW n, Sliding!Plain(n) \in DOMAIN fs
  PROVE  /\ DOMAIN Sliding!Compressed(fs, n) = (DOMAIN fs \cup {Zipped(n)}) \ {Sliding!Plain(n)}
         /\ Sliding!Compressed(fs, n)[Zipped(n)] = fs[Sliding!Plain(n)]
         /\ Zipped(n) \in DOMAIN Sliding!Compressed(fs, n)
         /\ \A f \in DOMAIN Sliding!Compressed(fs, n) :
              f # Zipped(n) => Sliding!Compressed(fs, n)[f] = fs[f]
<1>1. Zipped(n) # Sliding!Plain(n)
  BY DEF Sliding!Plain, Zipped
<1> QED BY <1>1 DEF Sliding!Compressed, Zipped

\* What a file has after a roll, the file of the same number had before, and the file with
\* the number n loses nothing if it is not the one to be removed and none is overwritten.
LEMMA RolledFacts ==
  ASSUME NEW cur \in Int, Sliding!CountAssumption, SlidingTypeOK
  PROVE  /\ DOMAIN Sliding!Rolled(cur) \subseteq SlidingNames
         /\ \A f \in DOMAIN Sliding!Rolled(cur) : \E g \in DOMAIN slidingFiles :
              /\ Sliding!Rolled(cur)[f] = slidingFiles[g] /\ f.number = g.number
              /\ f = g \/ (f.compressed /\ f.number = cur - compressed)
         /\ \A g \in DOMAIN slidingFiles :
              \/ g = Sliding!Name(cur - MaxCount, cur)
              \/ g = Zipped(cur - compressed)
              \/ \E f \in DOMAIN Sliding!Rolled(cur) : Sliding!Rolled(cur)[f] = slidingFiles[g]
<1> DEFINE n == cur - compressed
           gz == Zipped(n)
           fs == Sliding!Removed(cur)
<1>1. n \in Int /\ gz \in SlidingNames /\ gz.number = n /\ Sliding!Plain(n).number = n /\ gz.compressed
  <2>1. compressed \in Nat
    BY DEF Sliding!CountAssumption, SlidingTypeOK
  <2> QED BY <2>1 DEF SlidingNames, Sliding!Plain, Zipped
<1>2. /\ DOMAIN fs \subseteq DOMAIN slidingFiles /\ DOMAIN fs \subseteq SlidingNames
      /\ \A f \in DOMAIN slidingFiles : f \in DOMAIN fs \/ f = Sliding!Name(cur - MaxCount, cur)
      /\ \A f \in DOMAIN fs : fs[f] = slidingFiles[f]
  BY RemovedFacts DEF SlidingTypeOK, Holds
<1>3. CASE ~Sliding!MustCompress(fs, cur)
  <2>1. Sliding!Rolled(cur) = fs
    BY <1>3 DEF Sliding!Rolled
  <2> QED BY <1>2, <2>1
<1>4. CASE Sliding!MustCompress(fs, cur)
  <2>1. Sliding!Rolled(cur) = Sliding!Compressed(fs, n) /\ Sliding!Plain(n) \in DOMAIN fs
    BY <1>4 DEF Sliding!Rolled, Sliding!MustCompress
  <2> HIDE DEF n, fs
  <2>2. /\ DOMAIN Sliding!Rolled(cur) = (DOMAIN fs \cup {gz}) \ {Sliding!Plain(n)}
        /\ Sliding!Rolled(cur)[gz] = fs[Sliding!Plain(n)] /\ gz \in DOMAIN Sliding!Rolled(cur)
        /\ \A f \in DOMAIN Sliding!Rolled(cur) : f # gz => Sliding!Rolled(cur)[f] = fs[f]
    BY <2>1, CompressedFacts
  <2> HIDE DEF gz
  <2>3. DOMAIN Sliding!Rolled(cur) \subseteq SlidingNames
    BY <1>1, <1>2, <2>2
  <2>4. ASSUME NEW f \in DOMAIN Sliding!Rolled(cur)
        PROVE  \E g \in DOMAIN slidingFiles :
                 /\ Sliding!Rolled(cur)[f] = slidingFiles[g] /\ f.number = g.number
                 /\ f = g \/ (f.compressed /\ f.number = n)
    <3>1. CASE f = gz
      BY <1>1, <1>2, <2>1, <2>2, <3>1
    <3>2. CASE f # gz
      BY <1>2, <2>2, <3>2
    <3> QED BY <3>1, <3>2
  <2>5. ASSUME NEW g \in DOMAIN slidingFiles
        PROVE  \/ g = Sliding!Name(cur - MaxCount, cur) \/ g = gz
               \/ \E f \in DOMAIN Sliding!Rolled(cur) : Sliding!Rolled(cur)[f] = slidingFiles[g]
    <3>1. CASE g \notin DOMAIN fs
      BY <1>2, <3>1
    <3>2. CASE g = Sliding!Plain(n)
      BY <1>2, <2>1, <2>2, <3>2
    <3>3. CASE g \in DOMAIN fs /\ g # Sliding!Plain(n) /\ g # gz
      BY <1>2, <2>2, <3>3
    <3> QED BY <3>1, <3>2, <3>3
  <2> QED BY <2>3, <2>4, <2>5 DEF n, gz
<1> QED BY <1>3, <1>4

-----------------------------------------------------------------------------
(* The sliding roller's steps.                                             *)

LEMMA SlidingInitially ==
  ASSUME Sliding!CountAssumption, Sliding!Init
  PROVE  SlidingIInv
<1>1. /\ DOMAIN slidingFiles = {open} /\ slidingFiles[open] = {} /\ slidingEvent = 0
      /\ slidingFailures = 0 /\ slidingRestarts = 0
      /\ current = MinIndex - 1 /\ open = Sliding!Plain(current)
      /\ compressed \in SlidingCompressFroms
  BY DEF Sliding!Init
<1>2. /\ current \in Int /\ open \in SlidingNames /\ open.number = current /\ ~open.compressed
      /\ 1 .. slidingEvent = {}
  BY <1>1 DEF Sliding!CountAssumption, SlidingNames, Sliding!Plain
<1>3. Before(current) = 0 /\ Before(current + 1) = MaxEvents
  BY <1>1 DEF Before, Sliding!CountAssumption
<1>4. slidingFiles[open] = Before(current) + 1 .. slidingEvent /\ MaxEvents >= 0
  BY <1>1, <1>2, <1>3 DEF Sliding!CountAssumption
<1>5. SlidingTypeOK
  BY <1>1, <1>2 DEF SlidingTypeOK, Holds
<1>6. SlidingOrdered
  BY <1>1, <1>2 DEF SlidingOrdered, UpTo, InOrder
<1>7. Even
  BY <1>1, <1>2, <1>3, <1>4 DEF Even, Sliding!Exists
<1> QED BY <1>5, <1>6, <1>7 DEF SlidingIInv

\* What is put in a file is what is written and what the file had.
LEMMA WrittenTypes ==
  ASSUME NEW fs, NEW name \in SlidingNames, NEW n \in Nat, NEW e, NEW gs,
         gs = Sliding!Written(fs, name, e), e = n + 1, Holds(fs, n)
  PROVE  Holds(gs, e)
<1>1. /\ \A f : f \in DOMAIN gs <=> f \in DOMAIN fs \/ f = name
      /\ name \in DOMAIN fs => gs[name] = fs[name] \cup {e}
      /\ name \notin DOMAIN fs => gs[name] = {e}
      /\ \A f \in DOMAIN fs : f # name => gs[f] = fs[f]
  BY WrittenFacts
<1>2. e \in 1 .. e /\ \A f \in DOMAIN fs : f \in SlidingNames /\ fs[f] \subseteq 1 .. e
  BY DEF Holds
<1>3. gs[name] \subseteq 1 .. e
  BY <1>1, <1>2
<1> QED BY <1>1, <1>2, <1>3 DEF Holds

\* The file that gets the next event has the greatest number.
LEMMA WrittenInOrder ==
  ASSUME NEW fs, NEW name \in SlidingNames, NEW n \in Nat, NEW e, NEW gs,
         gs = Sliding!Written(fs, name, e), e = n + 1,
         Holds(fs, n), UpTo(fs, name.number), InOrder(fs)
  PROVE  InOrder(gs) /\ UpTo(gs, name.number)
<1>1. /\ \A f : f \in DOMAIN gs <=> f \in DOMAIN fs \/ f = name
      /\ name \in DOMAIN fs => gs[name] = fs[name] \cup {e}
      /\ name \notin DOMAIN fs => gs[name] = {e}
      /\ \A f \in DOMAIN fs : f # name => gs[f] = fs[f]
  BY WrittenFacts
<1>2. ASSUME NEW f \in DOMAIN gs, NEW g \in DOMAIN gs, f.number < g.number,
             NEW old \in gs[f], NEW young \in gs[g]
      PROVE  old < young
  <2>1. name.number \in Int /\ f.number \in Int /\ g.number \in Int /\ g.number <= name.number
    BY <1>1, <1>2 DEF SlidingNames, Holds, UpTo
  <2>2. f # name /\ f \in DOMAIN fs /\ old \in fs[f] /\ old \in 1 .. n
    BY <1>1, <1>2, <2>1 DEF Holds
  <2>3. CASE young = e
    BY <2>2, <2>3
  <2>4. CASE young # e
    <3>1. g \in DOMAIN fs /\ young \in fs[g]
      BY <1>1, <1>2, <2>4
    <3> QED BY <1>2, <2>2, <3>1 DEF InOrder
  <2> QED BY <2>3, <2>4
<1>3. UpTo(gs, name.number)
  BY <1>1 DEF SlidingNames, UpTo
<1> QED BY <1>2, <1>3 DEF InOrder

\* The instance has the library's operators under names of its own.
LEMMA SlidingCardinality ==
  ASSUME NEW S
  PROVE  Sliding!Cardinality(S) = Cardinality(S)
BY Zenon DEF Sliding!Cardinality, Cardinality

\* How full the file is that is written.
LEMMA Fullness ==
  ASSUME Sliding!CountAssumption, SlidingTypeOK, Even
  PROVE  Sliding!IsTriggered <=> slidingEvent = Before(current + 1)
<1>1. /\ Before(current) \in Int /\ Before(current + 1) = Before(current) + MaxEvents
      /\ slidingEvent \in Nat /\ MaxEvents \in Nat \ {0}
  BY BeforeFacts DEF SlidingTypeOK, Sliding!CountAssumption
<1>2. /\ Sliding!Exists(open) /\ slidingFiles[open] = Before(current) + 1 .. slidingEvent
      /\ Before(current) <= slidingEvent /\ slidingEvent <= Before(current + 1)
  BY DEF Even
<1>3. Cardinality(Before(current) + 1 .. slidingEvent)
        = IF Before(current) + 1 > slidingEvent THEN 0 ELSE slidingEvent - (Before(current) + 1) + 1
  <2> DEFINE first == Before(current) + 1
  <2>1. first \in Int /\ slidingEvent \in Int
    BY <1>1
  <2> HIDE DEF first
  <2>2. Cardinality(first .. slidingEvent)
          = IF first > slidingEvent THEN 0 ELSE slidingEvent - first + 1
    BY <2>1, FS_Interval
  <2> QED BY <2>2 DEF first
<1>4. Cardinality(slidingFiles[open]) = slidingEvent - Before(current)
  BY <1>1, <1>2, <1>3
<1> QED BY <1>1, <1>2, <1>4, SlidingCardinality DEF Sliding!IsTriggered

LEMMA WriteStep ==
  ASSUME Sliding!CountAssumption, SlidingIInv, Sliding!Write
  PROVE  SlidingIInv'
<1>1. /\ slidingEvent' = slidingEvent + 1
      /\ slidingFiles' = Sliding!Written(slidingFiles, open, slidingEvent')
      /\ ~Sliding!IsTriggered
      /\ compressed' = compressed /\ current' = current /\ open' = open
      /\ slidingFailures' = slidingFailures /\ slidingRestarts' = slidingRestarts
  BY DEF Sliding!Write
<1>2. /\ \A f : f \in DOMAIN slidingFiles' <=> f \in DOMAIN slidingFiles \/ f = open
      /\ open \in DOMAIN slidingFiles => slidingFiles'[open] = slidingFiles[open] \cup {slidingEvent'}
      /\ open \notin DOMAIN slidingFiles => slidingFiles'[open] = {slidingEvent'}
      /\ \A f \in DOMAIN slidingFiles : f # open => slidingFiles'[f] = slidingFiles[f]
  BY <1>1, WrittenFacts
<1>3. SlidingTypeOK'
  BY <1>1, WrittenTypes DEF SlidingIInv, SlidingTypeOK
<1>4. ASSUME slidingRestarts = 0 PROVE SlidingOrdered'
  <2>1. /\ open = Sliding!Plain(open.number) /\ open.number <= current
        /\ open \in SlidingNames /\ slidingEvent \in Nat /\ Holds(slidingFiles, slidingEvent)
        /\ UpTo(slidingFiles, open.number) /\ InOrder(slidingFiles)
    BY <1>4 DEF SlidingIInv, SlidingTypeOK, SlidingOrdered
  <2>2. InOrder(slidingFiles') /\ UpTo(slidingFiles', open.number)
    BY <1>1, <2>1, WrittenInOrder
  <2> QED BY <1>1, <2>1, <2>2 DEF SlidingOrdered, UpTo, InOrder, Sliding!Plain
<1>5. ASSUME slidingRestarts = 0, slidingFailures = 0 PROVE Even'
  <2>1. SlidingTypeOK /\ Even
    BY <1>5 DEF SlidingIInv
  <2>2. /\ Before(current) \in Int /\ Before(current + 1) \in Int /\ slidingEvent \in Nat
        /\ Before(current) <= slidingEvent /\ slidingEvent < Before(current + 1)
    <3>1. Before(current + 1) = Before(current) + MaxEvents /\ Before(current) \in Int
          /\ MaxEvents \in Nat
      BY <2>1, BeforeFacts DEF SlidingTypeOK, Sliding!CountAssumption
    <3>2. slidingEvent # Before(current + 1)
      BY <1>1, <2>1, Fullness
    <3> QED BY <2>1, <3>1, <3>2 DEF SlidingTypeOK, Even
  <2>3. open = Sliding!Plain(current) /\ open \in DOMAIN slidingFiles /\ open.number = current
    BY <2>1 DEF Even, Sliding!Exists, Sliding!Plain
  <2>4. slidingFiles'[open] = Before(current) + 1 .. slidingEvent + 1
    <3>1. slidingFiles[open] = Before(current) + 1 .. slidingEvent
      BY <2>1 DEF Even
    <3>2. (Before(current) + 1 .. slidingEvent) \cup {slidingEvent + 1}
            = Before(current) + 1 .. slidingEvent + 1
      BY <2>2
    <3> QED BY <1>1, <1>2, <2>3, <3>1, <3>2
  <2>5. ASSUME NEW f \in DOMAIN slidingFiles'
        PROVE  /\ f.compressed => f.number <= current - compressed
               /\ \A e \in slidingFiles'[f] : e <= Before(f.number + 1)
    <3>1. f \in DOMAIN slidingFiles
      BY <1>2, <2>3
    <3>2. CASE f = open
      BY <2>2, <2>3, <2>4, <3>2 DEF Sliding!Plain
    <3>3. CASE f # open
      BY <1>2, <2>1, <3>1, <3>3 DEF Even
    <3> QED BY <3>2, <3>3
  <2>6. ASSUME NEW e \in (1 .. slidingEvent + 1) \ Sliding!Kept'
        PROVE  e <= Before(current - MaxCount + 1)
    <3>1. \A f \in DOMAIN slidingFiles' : e \notin slidingFiles'[f]
      BY DEF Sliding!Kept, Sliding!Range
    <3>2. e # slidingEvent + 1 /\ \A f \in DOMAIN slidingFiles : e \notin slidingFiles[f]
      BY <1>1, <1>2, <2>3, <3>1
    <3>3. e \in (1 .. slidingEvent) \ Sliding!Kept
      BY <2>2, <3>2 DEF Sliding!Kept, Sliding!Range
    <3> QED BY <2>1, <3>3 DEF Even
  <2>7. Before(current) <= slidingEvent + 1 /\ slidingEvent + 1 <= Before(current + 1)
    BY <2>2
  <2>8. Sliding!Exists(open)'
    BY <1>1, <1>2 DEF Sliding!Exists
  <2> QED BY <1>1, <2>3, <2>4, <2>5, <2>6, <2>7, <2>8 DEF Even, Before, Sliding!Plain
<1> QED BY <1>1, <1>3, <1>4, <1>5 DEF SlidingIInv

LEMMA WriteRollingStep ==
  ASSUME Sliding!CountAssumption, SlidingIInv, Sliding!WriteRolling
  PROVE  SlidingIInv'
<1> DEFINE cur == current + 1
           fs == Sliding!Rolled(cur)
<1>1. /\ slidingEvent' = slidingEvent + 1
      /\ slidingFiles' = Sliding!Written(fs, open', slidingEvent') /\ Sliding!IsTriggered
      /\ compressed' = compressed /\ current' = cur /\ open' = Sliding!Plain(cur)
      /\ slidingFailures' = slidingFailures /\ slidingRestarts' = slidingRestarts
  BY DEF Sliding!WriteRolling
<1>2. /\ cur \in Int /\ open' \in SlidingNames /\ open'.number = cur /\ ~open'.compressed
      /\ cur = current + 1 /\ current \in Int /\ slidingEvent \in Nat /\ slidingEvent' \in Nat
  BY <1>1 DEF SlidingIInv, SlidingTypeOK, SlidingNames, Sliding!Plain
<1>3. /\ DOMAIN fs \subseteq SlidingNames
      /\ \A f \in DOMAIN fs : \E g \in DOMAIN slidingFiles :
           /\ fs[f] = slidingFiles[g] /\ f.number = g.number
           /\ f = g \/ (f.compressed /\ f.number = cur - compressed)
      /\ \A g \in DOMAIN slidingFiles :
           \/ g = Sliding!Name(cur - MaxCount, cur)
           \/ g = Zipped(cur - compressed)
           \/ \E f \in DOMAIN fs : fs[f] = slidingFiles[g]
  BY <1>2, RolledFacts DEF SlidingIInv
<1> HIDE DEF fs, cur
<1>4. Holds(fs, slidingEvent)
  BY <1>3 DEF SlidingIInv, SlidingTypeOK, Holds
<1>5. /\ \A f : f \in DOMAIN slidingFiles' <=> f \in DOMAIN fs \/ f = open'
      /\ open' \in DOMAIN fs => slidingFiles'[open'] = fs[open'] \cup {slidingEvent'}
      /\ open' \notin DOMAIN fs => slidingFiles'[open'] = {slidingEvent'}
      /\ \A f \in DOMAIN fs : f # open' => slidingFiles'[f] = fs[f]
  BY <1>1, WrittenFacts
<1>6. SlidingTypeOK'
  <2>1. Holds(slidingFiles', slidingEvent')
    BY <1>1, <1>2, <1>4, WrittenTypes
  <2> QED BY <1>1, <1>2, <2>1 DEF SlidingIInv, SlidingTypeOK, Holds
<1>7. ASSUME slidingRestarts = 0
      PROVE  SlidingOrdered' /\ \A f \in DOMAIN fs : f.number < cur
  <2>1. SlidingTypeOK /\ SlidingOrdered
    BY <1>7 DEF SlidingIInv
  <2>2. \A f \in DOMAIN slidingFiles : f.number \in Int /\ f.number <= current
    <3>1. open.number \in Int /\ \A f \in DOMAIN slidingFiles : f.number \in Int
      BY <2>1 DEF SlidingTypeOK, SlidingNames, Holds
    <3> QED BY <1>2, <2>1, <3>1 DEF SlidingOrdered, UpTo
  <2>3. \A f \in DOMAIN fs : f.number \in Int /\ f.number < cur
    BY <1>2, <1>3, <2>2
  <2>4. InOrder(fs) /\ UpTo(fs, open'.number)
    <3>1. ASSUME NEW f \in DOMAIN fs, NEW g \in DOMAIN fs, f.number < g.number
          PROVE  \A old \in fs[f], young \in fs[g] : old < young
      <4>1. PICK f0 \in DOMAIN slidingFiles : fs[f] = slidingFiles[f0] /\ f.number = f0.number
        BY <1>3
      <4>2. PICK g0 \in DOMAIN slidingFiles : fs[g] = slidingFiles[g0] /\ g.number = g0.number
        BY <1>3
      <4> QED BY <2>1, <3>1, <4>1, <4>2 DEF SlidingOrdered, InOrder
    <3> QED BY <1>2, <2>3, <3>1 DEF InOrder, UpTo
  <2>5. InOrder(slidingFiles') /\ UpTo(slidingFiles', open'.number)
    BY <1>1, <1>2, <1>4, <2>4, WrittenInOrder
  <2>6. open' = Sliding!Plain(open'.number) /\ open'.number <= current'
    BY <1>1, <1>2
  <2> QED BY <2>3, <2>5, <2>6 DEF SlidingOrdered, UpTo, InOrder, Sliding!Plain
<1>8. ASSUME slidingRestarts = 0, slidingFailures = 0 PROVE Even'
  <2>1. SlidingTypeOK /\ Even /\ compressed \in Nat /\ MaxEvents \in Nat \ {0}
    BY <1>8 DEF SlidingIInv, SlidingTypeOK, Sliding!CountAssumption
  <2>2. /\ Before(cur) \in Int /\ Before(cur + 1) = Before(cur) + MaxEvents
        /\ slidingEvent = Before(cur)
    BY <1>1, <1>2, <2>1, Fullness, BeforeFacts DEF cur
  <2>3. open' \notin DOMAIN fs
    BY <1>2, <1>7, <1>8
  <2>4. slidingFiles'[open'] = Before(cur) + 1 .. slidingEvent'
    <3>1. Before(cur) + 1 .. slidingEvent' = {slidingEvent'}
      BY <1>1, <1>2, <2>2
    <3> QED BY <1>5, <2>3, <3>1
  <2>5. ASSUME NEW f \in DOMAIN slidingFiles'
        PROVE  /\ f.compressed => f.number <= cur - compressed
               /\ \A e \in slidingFiles'[f] : e <= Before(f.number + 1)
    <3>1. CASE f = open'
      <4>1. slidingFiles'[f] = {slidingEvent'} /\ slidingEvent' <= Before(cur + 1)
        BY <1>1, <1>2, <1>5, <2>1, <2>2, <2>3, <3>1
      <4> QED BY <1>2, <3>1, <4>1
    <3>2. CASE f # open'
      <4>1. f \in DOMAIN fs /\ slidingFiles'[f] = fs[f]
        BY <1>5, <3>2
      <4>2. PICK g \in DOMAIN slidingFiles :
              /\ fs[f] = slidingFiles[g] /\ f.number = g.number
              /\ f = g \/ (f.compressed /\ f.number = cur - compressed)
        BY <1>3, <4>1
      <4>3. \A e \in slidingFiles'[f] : e <= Before(f.number + 1)
        BY <2>1, <4>1, <4>2 DEF Even
      <4>4. CASE f.compressed /\ f.number = cur - compressed
        BY <1>2, <2>1, <4>3, <4>4
      <4>5. CASE f = g
        <5>1. f.compressed => f.number <= current - compressed
          BY <2>1, <4>2, <4>5 DEF Even
        <5>2. f.number \in Int
          BY <2>1, <4>2, <4>5 DEF SlidingTypeOK, SlidingNames, Holds
        <5> QED BY <1>2, <2>1, <4>3, <5>1, <5>2
      <4> QED BY <4>2, <4>4, <4>5
    <3> QED BY <3>1, <3>2
  <2>6. ASSUME NEW e \in (1 .. slidingEvent') \ Sliding!Kept' PROVE e <= Before(cur - MaxCount + 1)
    <3>1. \A f \in DOMAIN slidingFiles' : e \notin slidingFiles'[f]
      BY DEF Sliding!Kept, Sliding!Range
    <3>2. e \in 1 .. slidingEvent /\ \A f \in DOMAIN fs : e \notin fs[f]
      <4>1. e # slidingEvent'
        BY <1>5, <2>3, <3>1
      <4> QED BY <1>1, <1>2, <1>5, <2>3, <3>1, <4>1
    <3>3. CASE e \in Sliding!Kept
      <4>1. PICK g \in DOMAIN slidingFiles : e \in slidingFiles[g]
        BY <3>3 DEF Sliding!Kept, Sliding!Range
      <4>2. g # Zipped(cur - compressed)
        <5>1. g.compressed => g.number <= current - compressed
          BY <2>1 DEF Even
        <5> QED BY <1>2, <2>1, <5>1 DEF Zipped
      <4>3. g = Sliding!Name(cur - MaxCount, cur)
        BY <1>3, <3>2, <4>1, <4>2
      <4>4. g.number = cur - MaxCount
        BY <4>3 DEF Sliding!Name
      <4> QED BY <2>1, <4>1, <4>4 DEF Even
    <3>4. CASE e \notin Sliding!Kept
      <4>1. e <= Before(current - MaxCount + 1)
        BY <2>1, <3>2, <3>4 DEF Even
      <4>2. /\ Before(current - MaxCount + 1) \in Int /\ Before(cur - MaxCount + 1) \in Int
            /\ Before(current - MaxCount + 1) <= Before(cur - MaxCount + 1)
        <5>1. /\ Before(current - MaxCount + 1) = Before(current) - (MaxCount - 1) * MaxEvents
              /\ Before(cur - MaxCount + 1) = Before(cur) - (MaxCount - 1) * MaxEvents
              /\ Before(cur) = Before(current) + MaxEvents
              /\ Before(current) \in Int /\ Before(current - MaxCount + 1) \in Int
              /\ Before(cur - MaxCount + 1) \in Int
          BY <1>2, BeforeFacts
        <5> QED BY <2>1, <5>1 DEF Sliding!CountAssumption
      <4> QED BY <3>2, <4>1, <4>2
    <3> QED BY <3>3, <3>4
  <2>7. Before(cur) <= slidingEvent' /\ slidingEvent' <= Before(cur + 1)
    BY <1>1, <1>2, <2>1, <2>2
  <2>8. Sliding!Exists(open)'
    BY <1>5 DEF Sliding!Exists
  <2> QED BY <1>1, <2>4, <2>5, <2>6, <2>7, <2>8 DEF Even, Before, Sliding!Plain
<1> QED BY <1>1, <1>6, <1>7, <1>8 DEF SlidingIInv

\* A failed compression leaves a number without a file, and the order as it was.
LEMMA RollFailsStep ==
  ASSUME Sliding!CountAssumption, SlidingIInv, Sliding!RollFails
  PROVE  SlidingIInv'
<1>1. /\ slidingEvent' = slidingEvent + 1 /\ slidingFiles' = Sliding!Removed(current + 1)
      /\ current' = current + 1
      /\ compressed' = compressed /\ open' = open
      /\ slidingFailures' = slidingFailures + 1 /\ slidingRestarts' = slidingRestarts
  BY DEF Sliding!RollFails
<1>2. /\ DOMAIN slidingFiles' \subseteq DOMAIN slidingFiles
      /\ \A f \in DOMAIN slidingFiles' : slidingFiles'[f] = slidingFiles[f]
  BY <1>1, RemovedFacts
<1>3. SlidingTypeOK /\ slidingFailures \in Nat /\ slidingEvent \in Nat /\ current \in Int
  BY DEF SlidingIInv, SlidingTypeOK
<1>4. SlidingTypeOK'
  <2>1. \A f \in DOMAIN slidingFiles' : slidingFiles'[f] \subseteq 1 .. slidingEvent'
    BY <1>1, <1>2, <1>3 DEF SlidingTypeOK, Holds
  <2> QED BY <1>1, <1>2, <1>3, <2>1 DEF SlidingTypeOK, Holds
<1>5. ASSUME slidingRestarts = 0 PROVE SlidingOrdered'
  <2>1. SlidingOrdered /\ open.number \in Int
    BY <1>3, <1>5 DEF SlidingIInv, SlidingTypeOK, SlidingNames
  <2> QED BY <1>1, <1>2, <1>3, <2>1 DEF SlidingOrdered, Sliding!Plain, UpTo, InOrder
<1>6. slidingFailures' # 0
  BY <1>1, <1>3
<1> QED BY <1>1, <1>4, <1>5, <1>6 DEF SlidingIInv

LEMMA RestartStep ==
  ASSUME Sliding!CountAssumption, SlidingIInv, Sliding!Restart
  PROVE  SlidingIInv'
<1>1. /\ current' = MinIndex - 1 /\ open' = Sliding!Plain(current')
      /\ slidingFiles' = Sliding!Opened(slidingFiles, open')
      /\ slidingRestarts' = slidingRestarts + 1 /\ compressed' = compressed
      /\ slidingEvent' = slidingEvent
      /\ slidingFailures' = slidingFailures
  BY DEF Sliding!Restart
<1>2. current' \in Int /\ open' \in SlidingNames
  BY <1>1 DEF Sliding!CountAssumption, Sliding!Plain, SlidingNames
<1>3. /\ \A f : f \in DOMAIN slidingFiles' <=> f \in DOMAIN slidingFiles \/ f = open'
      /\ \A f \in DOMAIN slidingFiles' :
           \/ slidingFiles'[f] = {}
           \/ f \in DOMAIN slidingFiles /\ slidingFiles'[f] = slidingFiles[f]
  BY <1>1 DEF Sliding!Opened
<1>4. SlidingTypeOK'
  BY <1>1, <1>2, <1>3 DEF SlidingIInv, SlidingTypeOK, Holds
<1>5. slidingRestarts' # 0
  BY <1>1 DEF SlidingIInv, SlidingTypeOK
<1> QED BY <1>4, <1>5 DEF SlidingIInv

\* For any window, size of the files and compressor: without a restart files with a
\* greater number are younger, and without a failed compression what is lost is older than
\* all that MaxCount - 1 full files can have.
THEOREM NewestStayKept == RollersSpec => []NewestAreKept
<1> USE Assumptions DEF Assumptions
<1>1. RollersInit => SlidingIInv
  BY SlidingInitially DEF RollersInit
<1>2. SlidingIInv /\ [RollersNext]_<<roller, vars, sliding, time, plain>> => SlidingIInv'
  <2> SUFFICES ASSUME SlidingIInv, [RollersNext]_<<roller, vars, sliding, time, plain>>
               PROVE  SlidingIInv'
    OBVIOUS
  <2>1. CASE UNCHANGED sliding
    BY <2>1
    DEF SlidingIInv, SlidingTypeOK, Holds, SlidingOrdered, UpTo, InOrder, Even, Before,
        Sliding!Kept, Sliding!Exists, Sliding!Plain, sliding
  <2>2. CASE Sliding!Next
    BY <2>2, WriteStep, WriteRollingStep, RollFailsStep, RestartStep DEF Sliding!Next
  <2>3. Sliding!Next \/ UNCHANGED sliding
    BY DEF RollersNext
  <2> QED BY <2>1, <2>2, <2>3
<1>3. SlidingIInv => NewestAreKept
  <2> SUFFICES ASSUME SlidingIInv, slidingRestarts = 0
               PROVE  /\ \A f, g \in DOMAIN slidingFiles : f.number < g.number =>
                           \A old \in slidingFiles[f], young \in slidingFiles[g] : old < young
                      /\ slidingFailures = 0 =>
                           \A e \in (1 .. slidingEvent) \ Sliding!Kept :
                             e <= slidingEvent - (MaxCount - 1) * MaxEvents
    BY DEF NewestAreKept, Sliding!NewestAreKept
  <2>1. ASSUME slidingFailures = 0, NEW e \in (1 .. slidingEvent) \ Sliding!Kept
        PROVE  e <= slidingEvent - (MaxCount - 1) * MaxEvents
    <3>1. e <= Before(current - MaxCount + 1) /\ Before(current) <= slidingEvent
      BY <2>1 DEF SlidingIInv, Even
    <3>2. /\ Before(current - MaxCount + 1) = Before(current) - (MaxCount - 1) * MaxEvents
          /\ Before(current) \in Int /\ Before(current - MaxCount + 1) \in Int
      BY BeforeFacts DEF SlidingIInv, SlidingTypeOK
    <3>3. (MaxCount - 1) * MaxEvents \in Int /\ slidingEvent \in Int
      BY DEF Sliding!CountAssumption, SlidingIInv, SlidingTypeOK
    <3> QED BY <3>1, <3>2, <3>3
  <2> QED BY <2>1 DEF SlidingIInv, SlidingOrdered, InOrder
<1> QED BY <1>1, <1>2, <1>3, PTL DEF RollersSpec

\* The names that the files of this process may have: with the number cur, what a roll
\* removes or compresses is looked for under these names.
Window(cur) == {Sliding!Name(n, cur) : n \in {k \in cur - MaxCount + 1 .. cur : k >= MinIndex - 1}}

\* What an earlier process or a failed compression has left is not more than this.
Leftover(begun, failed) == MaxCount * begun + failed

\* But for some files stray all are in the window.
IsBounded(fs, cur, name, stray) ==
  /\ DOMAIN fs \subseteq Window(cur) \cup stray
  /\ name \in Window(cur) \cup stray

SlidingBounded ==
  \E stray \in SUBSET SlidingNames :
    /\ IsFiniteSet(stray)
    /\ Cardinality(stray) <= Leftover(slidingRestarts, slidingFailures)
    /\ IsBounded(slidingFiles, current, open, stray)

BoundInv == /\ SlidingTypeOK
            /\ open = Sliding!Plain(open.number) /\ current >= MinIndex - 1
            /\ compressed \notin {0, MaxCount} => SlidingBounded

LEMMA LeftoverFacts ==
  ASSUME Sliding!CountAssumption, NEW r \in Nat, NEW f \in Nat
  PROVE  /\ Leftover(r, f) \in Nat
         /\ Leftover(r + 1, f) = Leftover(r, f) + MaxCount
         /\ Leftover(r, f + 1) = Leftover(r, f) + 1
         /\ MaxCount * (r + 1) + f = Leftover(r, f) + MaxCount
<1>1. MaxCount * r \in Nat /\ MaxCount * (r + 1) = MaxCount * r + MaxCount
  BY DEF Sliding!CountAssumption
<1> QED BY <1>1 DEF Leftover, Sliding!CountAssumption

LEMMA WindowFacts ==
  ASSUME Sliding!CountAssumption, NEW cur \in Int
  PROVE  /\ IsFiniteSet(Window(cur)) /\ Cardinality(Window(cur)) <= MaxCount
         /\ Window(cur) \subseteq SlidingNames
<1> DEFINE I == cur - MaxCount + 1 .. cur
           J == {k \in I : k >= MinIndex - 1}
<1>1. IsFiniteSet(I) /\ Cardinality(I) = MaxCount
  BY FS_Interval DEF Sliding!CountAssumption
<1>2. IsFiniteSet(J) /\ Cardinality(J) <= Cardinality(I)
  BY <1>1, FS_Subset
<1>3. /\ IsFiniteSet(Window(cur)) /\ Cardinality(Window(cur)) <= Cardinality(J)
  <2> DEFINE name == [n \in J |-> Sliding!Name(n, cur)]
  <2>1. Window(cur) = {name[n] : n \in J}
    BY DEF Window
  <2> HIDE DEF J
  <2>2. name \in [J -> Window(cur)] /\ \A x \in Window(cur) : \E n \in J : name[n] = x
    BY <2>1
  <2> HIDE DEF name
  <2>3. name \in Surjection(J, Window(cur))
    BY <2>2, Zenon DEF Surjection
  <2> QED BY <1>2, <2>3, FS_Surjection
<1>4. Cardinality(Window(cur)) \in Nat /\ Cardinality(J) \in Nat /\ Cardinality(I) \in Nat
  BY <1>1, <1>2, <1>3, FS_CardinalityType
<1>5. Window(cur) \subseteq SlidingNames
  <2> SUFFICES ASSUME NEW n \in I, n >= MinIndex - 1 PROVE Sliding!Name(n, cur) \in SlidingNames
    BY DEF Window
  <2>1. n \in Int /\ Sliding!IsCompressed(n, cur) \in BOOLEAN
    BY DEF Sliding!IsCompressed, Sliding!CountAssumption
  <2> QED BY <2>1 DEF Sliding!Name, SlidingNames
<1> HIDE DEF I, J
<1> QED BY <1>1, <1>2, <1>3, <1>4, <1>5

\* What a name is.
LEMMA NamesOfWindow ==
  ASSUME Sliding!CountAssumption, NEW cur \in Int, NEW n \in Int, compressed \in Nat
  PROVE  /\ Sliding!Name(n, cur)
              = IF n <= cur - compressed THEN Zipped(n) ELSE Sliding!Plain(n)
         /\ n >= cur - MaxCount + 1 /\ n <= cur /\ n >= MinIndex - 1
              => Sliding!Name(n, cur) \in Window(cur)
<1>1. Sliding!Name(n, cur) = IF n <= cur - compressed THEN Zipped(n) ELSE Sliding!Plain(n)
  <2>1. CASE n <= cur - compressed
    BY <2>1 DEF Sliding!Name, Sliding!IsCompressed, Zipped
  <2>2. CASE ~(n <= cur - compressed)
    <3>1. Sliding!IsCompressed(n, cur) = FALSE
      BY <2>2 DEF Sliding!IsCompressed
    <3> QED BY <2>2, <3>1 DEF Sliding!Name, Sliding!Plain
  <2> QED BY <2>1, <2>2
<1>2. ASSUME n >= cur - MaxCount + 1, n <= cur, n >= MinIndex - 1
      PROVE  n \in {k \in cur - MaxCount + 1 .. cur : k >= MinIndex - 1}
  BY <1>2 DEF Sliding!CountAssumption
<1> QED BY <1>1, <1>2 DEF Window

LEMMA InWindow ==
  ASSUME Sliding!CountAssumption, NEW cur \in Int, NEW f \in Window(cur), compressed \in Nat
  PROVE  \E n \in Int : /\ f = IF n <= cur - compressed THEN Zipped(n) ELSE Sliding!Plain(n)
                        /\ f = Sliding!Name(n, cur)
                        /\ cur - MaxCount + 1 <= n /\ n <= cur /\ MinIndex - 1 <= n
<1>1. PICK n \in cur - MaxCount + 1 .. cur : n >= MinIndex - 1 /\ f = Sliding!Name(n, cur)
  BY DEF Window
<1>2. /\ n \in Int /\ cur - MaxCount + 1 <= n /\ n <= cur /\ MinIndex - 1 <= n
  BY <1>1 DEF Sliding!CountAssumption
<1> QED BY <1>1, <1>2, NamesOfWindow

\* A file that is left when the number becomes one more is in the new window, but for the
\* one to be compressed.
LEMMA WindowMoves ==
  ASSUME Sliding!CountAssumption, SlidingTypeOK, compressed \notin {0, MaxCount},
         NEW f \in DOMAIN Sliding!Removed(current + 1), f \in Window(current)
  PROVE  \/ f \in Window(current + 1)
         \/ f = Sliding!Plain((current + 1) - compressed) /\ compressed < MaxCount
            /\ (current + 1) - compressed >= MinIndex - 1
<1> DEFINE cur == current + 1
<1>1. current \in Int /\ compressed \in Nat /\ cur \in Int /\ MaxCount \in Nat \ {0}
  BY DEF SlidingTypeOK, Sliding!CountAssumption
<1>2. PICK n \in Int :
        /\ f = IF n <= current - compressed THEN Zipped(n) ELSE Sliding!Plain(n)
        /\ current - MaxCount + 1 <= n /\ n <= current /\ MinIndex - 1 <= n
  BY <1>1, InWindow
<1>3. Sliding!Name(n, cur) = IF n <= cur - compressed THEN Zipped(n) ELSE Sliding!Plain(n)
  BY <1>1, NamesOfWindow
<1>4. CASE n = cur - compressed
  <2>1. f = Sliding!Plain(n)
    BY <1>1, <1>2, <1>4
  <2>2. compressed < MaxCount
    BY <1>1, <1>2, <1>4
  <2>3. n = (current + 1) - compressed /\ n >= MinIndex - 1
    BY <1>1, <1>2, <1>4 DEF Sliding!CountAssumption
  <2> QED BY <2>1, <2>2, <2>3
<1>5. CASE n # cur - compressed
  <2>1. f = Sliding!Name(n, cur)
    BY <1>1, <1>2, <1>3, <1>5
  <2>2. n # cur - MaxCount
    <3> SUFFICES ASSUME n = cur - MaxCount PROVE FALSE
      OBVIOUS
    <3>1. cur - MaxCount >= MinIndex - 1 /\ f = Sliding!Name(cur - MaxCount, cur)
      BY <1>2, <2>1
    <3>2. f \notin DOMAIN Sliding!Removed(cur)
      BY <3>1 DEF Sliding!Removed, Sliding!Restrict
    <3> QED BY <3>2
  <2>3. n >= cur - MaxCount + 1 /\ n <= cur /\ n >= MinIndex - 1
    BY <1>1, <1>2, <2>2 DEF Sliding!CountAssumption
  <2> QED BY <1>1, <2>1, <2>3, NamesOfWindow
<1> QED BY <1>4, <1>5

\* The file whose number is the current one has no extension.
LEMMA OpenInWindow ==
  ASSUME Sliding!CountAssumption, NEW cur \in Int, cur >= MinIndex - 1,
         compressed \in Nat \ {0}
  PROVE  Sliding!Plain(cur) \in Window(cur)
<1>1. cur >= cur - MaxCount + 1 /\ cur <= cur /\ ~(cur <= cur - compressed)
  BY DEF Sliding!CountAssumption
<1> QED BY <1>1, NamesOfWindow DEF Sliding!CountAssumption

LEMMA BoundedInitially ==
  ASSUME Sliding!CountAssumption, Sliding!Init
  PROVE  BoundInv
<1>1. SlidingTypeOK
  BY SlidingInitially DEF SlidingIInv
<1>2. /\ current = MinIndex - 1 /\ open = Sliding!Plain(current)
      /\ DOMAIN slidingFiles = {open} /\ slidingRestarts = 0 /\ slidingFailures = 0
  BY DEF Sliding!Init
<1>3. open = Sliding!Plain(open.number) /\ current >= MinIndex - 1
  BY <1>2 DEF Sliding!Plain, Sliding!CountAssumption
<1>4. ASSUME compressed # 0 PROVE SlidingBounded
  <2>1. open \in Window(current)
    BY <1>1, <1>2, <1>3, <1>4, OpenInWindow DEF SlidingTypeOK, Sliding!CountAssumption
  <2>2. IsFiniteSet({}) /\ Cardinality({}) = 0 /\ Leftover(0, 0) \in Nat
    BY FS_EmptySet, LeftoverFacts
  <2> QED BY <1>2, <2>1, <2>2 DEF SlidingBounded, IsBounded
<1> QED BY <1>1, <1>3, <1>4 DEF BoundInv

LEMMA BoundedWhenWriting ==
  ASSUME Sliding!CountAssumption, BoundInv, Sliding!Write, SlidingTypeOK'
  PROVE  BoundInv'
<1>1. /\ compressed' = compressed /\ current' = current /\ open' = open
      /\ slidingFailures' = slidingFailures /\ slidingRestarts' = slidingRestarts
      /\ slidingFiles' = Sliding!Written(slidingFiles, open, slidingEvent')
  BY DEF Sliding!Write
<1>2. DOMAIN slidingFiles' = DOMAIN slidingFiles \cup {open}
  BY <1>1, WrittenFacts
<1>3. Window(current)' = Window(current)
  BY <1>1 DEF Window, Sliding!Name, Sliding!IsCompressed
<1>4. SlidingBounded => SlidingBounded'
  BY <1>1, <1>2, <1>3 DEF SlidingBounded, IsBounded
<1> QED BY <1>1, <1>4 DEF BoundInv

\* What a roll leaves is in the new window, or was not in the old one.
LEMMA BoundedWhenRolling ==
  ASSUME Sliding!CountAssumption, BoundInv, Sliding!WriteRolling, SlidingTypeOK'
  PROVE  BoundInv'
<1> DEFINE cur == current + 1
           n == cur - compressed
           fs == Sliding!Removed(cur)
<1>1. /\ compressed' = compressed /\ current' = cur /\ open' = Sliding!Plain(cur)
      /\ slidingFailures' = slidingFailures /\ slidingRestarts' = slidingRestarts
      /\ slidingFiles' = Sliding!Written(Sliding!Rolled(cur), open', slidingEvent')
  BY DEF Sliding!WriteRolling
<1>2. /\ current \in Int /\ cur \in Int /\ compressed \in Nat /\ n \in Int /\ cur >= MinIndex - 1
      /\ open' = Sliding!Plain(open'.number)
  BY <1>1 DEF BoundInv, SlidingTypeOK, Sliding!CountAssumption, Sliding!Plain
<1>3. DOMAIN slidingFiles' = DOMAIN Sliding!Rolled(cur) \cup {Sliding!Plain(cur)}
  <2> DEFINE old == Sliding!Rolled(cur)
             name == Sliding!Plain(cur)
  <2>1. slidingFiles' = Sliding!Written(old, name, slidingEvent')
    BY <1>1
  <2> HIDE DEF old, name
  <2>2. \A f : f \in DOMAIN slidingFiles' <=> f \in DOMAIN old \/ f = name
    BY <2>1, WrittenFacts
  <2>3. DOMAIN slidingFiles' = DOMAIN old \cup {name}
    BY <2>2
  <2> QED BY <2>3 DEF old, name
<1>4. Window(current)' = Window(cur)
  BY <1>1 DEF Window, Sliding!Name, Sliding!IsCompressed
<1>5. ASSUME compressed \notin {0, MaxCount} PROVE SlidingBounded'
  <2>1. PICK stray \in SUBSET SlidingNames :
          /\ IsFiniteSet(stray)
          /\ Cardinality(stray) <= Leftover(slidingRestarts, slidingFailures)
          /\ DOMAIN slidingFiles \subseteq Window(current) \cup stray
    BY <1>5 DEF BoundInv, SlidingBounded, IsBounded
  <2>2. Sliding!Plain(cur) \in Window(cur)
    BY <1>2, <1>5, OpenInWindow
  <2>3. \A f \in DOMAIN fs : \/ f \in stray \/ f \in Window(cur)
                             \/ f = Sliding!Plain(n) /\ compressed < MaxCount /\ n >= MinIndex - 1
    <3> SUFFICES ASSUME NEW f \in DOMAIN fs, f \notin stray
                 PROVE  \/ f \in Window(cur)
                        \/ f = Sliding!Plain(n) /\ compressed < MaxCount /\ n >= MinIndex - 1
      OBVIOUS
    <3>1. f \in Window(current)
      BY <2>1, RemovedFacts
    <3>2. SlidingTypeOK
      BY DEF BoundInv
    <3> QED BY <1>5, <3>1, <3>2, WindowMoves, Zenon
  <2>4. CASE ~Sliding!MustCompress(fs, cur)
    <3>1. Sliding!Rolled(cur) = fs
      BY <2>4 DEF Sliding!Rolled
    <3>2. ~(n >= MinIndex - 1) \/ Sliding!Plain(n) \notin DOMAIN fs
      BY <2>4 DEF Sliding!MustCompress
    <3> HIDE DEF fs, n, cur
    <3>3. DOMAIN slidingFiles' \subseteq Window(cur) \cup stray
      BY <1>3, <2>2, <2>3, <3>1, <3>2
    <3> QED BY <1>1, <1>4, <2>1, <2>2, <3>3 DEF SlidingBounded, IsBounded
  <2>5. CASE Sliding!MustCompress(fs, cur)
    <3>1. Sliding!Rolled(cur) = Sliding!Compressed(fs, n) /\ n >= MinIndex - 1
          /\ Sliding!Plain(n) \in DOMAIN fs
      BY <2>5 DEF Sliding!Rolled, Sliding!MustCompress
    <3>2. DOMAIN Sliding!Rolled(cur) = (DOMAIN fs \cup {Zipped(n)}) \ {Sliding!Plain(n)}
      BY <3>1, CompressedFacts
    <3>3. CASE compressed < MaxCount
      <4>1. n >= cur - MaxCount + 1 /\ n <= cur /\ n <= cur - compressed
        BY <1>2, <3>3 DEF Sliding!CountAssumption
      <4>2. Zipped(n) \in Window(cur)
        BY <1>2, <3>1, <4>1, NamesOfWindow
      <4> HIDE DEF fs, n, cur
      <4>3. DOMAIN slidingFiles' \subseteq Window(cur) \cup stray
        BY <1>3, <2>2, <2>3, <3>2, <4>2
      <4> QED BY <1>1, <1>4, <2>1, <2>2, <4>3 DEF SlidingBounded, IsBounded
    <3>4. CASE ~(compressed < MaxCount)
      <4> DEFINE rest == (stray \ {Sliding!Plain(n)}) \cup {Zipped(n)}
      <4>1. Sliding!Plain(n) \in stray
        <5>1. Sliding!Plain(n) \notin Window(cur)
          <6> SUFFICES ASSUME Sliding!Plain(n) \in Window(cur) PROVE FALSE
            OBVIOUS
          <6>1. PICK k \in Int : /\ Sliding!Plain(n) = IF k <= cur - compressed
                                                       THEN Zipped(k) ELSE Sliding!Plain(k)
                                 /\ cur - MaxCount + 1 <= k
            BY <1>2, InWindow
          <6>2. ~(k <= n)
            BY <1>2, <3>4, <6>1 DEF Sliding!CountAssumption
          <6> QED BY <6>1, <6>2 DEF Sliding!Plain, Zipped
        <5> QED BY <2>3, <3>1, <3>4, <5>1
      <4>2. IsFiniteSet(stray \ {Sliding!Plain(n)})
            /\ Cardinality(stray \ {Sliding!Plain(n)}) = Cardinality(stray) - 1
        BY <2>1, <4>1, FS_RemoveElement
      <4>3. IsFiniteSet(rest)
            /\ (Cardinality(rest) = Cardinality(stray) \/ Cardinality(rest) = Cardinality(stray) - 1)
        <5>1. Cardinality(stray) \in Nat
          BY <2>1, FS_CardinalityType
        <5> DEFINE less == stray \ {Sliding!Plain(n)}
        <5>2. IsFiniteSet(less) /\ Cardinality(less) = Cardinality(stray) - 1
          BY <4>2
        <5> HIDE DEF less
        <5>3. /\ IsFiniteSet(less \cup {Zipped(n)})
              /\ \/ Cardinality(less \cup {Zipped(n)}) = Cardinality(less)
                 \/ Cardinality(less \cup {Zipped(n)}) = Cardinality(less) + 1
          BY <5>2, FS_AddElement
        <5>4. \/ Cardinality(less \cup {Zipped(n)}) = Cardinality(stray)
              \/ Cardinality(less \cup {Zipped(n)}) = Cardinality(stray) - 1
          BY <5>1, <5>2, <5>3
        <5> QED BY <5>3, <5>4 DEF less
      <4>4. Cardinality(rest) <= Leftover(slidingRestarts, slidingFailures)
        <5>1. /\ Cardinality(stray) \in Nat
              /\ Leftover(slidingRestarts, slidingFailures) \in Nat
          BY <2>1, FS_CardinalityType, LeftoverFacts DEF BoundInv, SlidingTypeOK
        <5> HIDE DEF rest
        <5> QED BY <2>1, <4>3, <5>1
      <4>5. rest \in SUBSET SlidingNames
        <5>1. Zipped(n) \in SlidingNames
          BY <1>2 DEF SlidingNames, Zipped
        <5> QED BY <2>1, <5>1
      <4> HIDE DEF fs, cur
      <4>6. DOMAIN slidingFiles' \subseteq Window(cur) \cup rest
        BY <1>3, <2>2, <2>3, <3>2, <3>4
      <4> HIDE DEF rest
      <4> QED BY <1>1, <1>4, <2>2, <4>3, <4>4, <4>5, <4>6 DEF SlidingBounded, IsBounded
    <3> QED BY <3>3, <3>4
  <2> QED BY <2>4, <2>5
<1> QED BY <1>1, <1>2, <1>5 DEF BoundInv

\* A failed compression leaves one file outside of the window, or had left it before and
\* now leaves the one that is written.
LEMMA BoundedWhenRollFails ==
  ASSUME Sliding!CountAssumption, BoundInv, Sliding!RollFails, SlidingTypeOK'
  PROVE  BoundInv'
<1> DEFINE cur == current + 1
           n == cur - compressed
           fs == Sliding!Removed(cur)
           left == Sliding!Plain(n)
<1>1. /\ compressed' = compressed /\ current' = cur /\ open' = open
      /\ slidingFailures' = slidingFailures + 1 /\ slidingRestarts' = slidingRestarts
      /\ slidingFiles' = fs /\ left \in DOMAIN fs
  BY DEF Sliding!RollFails, Sliding!MustCompress
<1>2. /\ current \in Int /\ cur \in Int /\ compressed \in Nat /\ n \in Int /\ cur >= MinIndex - 1
      /\ open = Sliding!Plain(open.number)
  BY DEF BoundInv, SlidingTypeOK, Sliding!CountAssumption
<1>3. Window(current)' = Window(cur)
  BY <1>1 DEF Window, Sliding!Name, Sliding!IsCompressed
<1>4. ASSUME compressed \notin {0, MaxCount} PROVE SlidingBounded'
  <2>1. PICK stray \in SUBSET SlidingNames :
          /\ IsFiniteSet(stray)
          /\ Cardinality(stray) <= Leftover(slidingRestarts, slidingFailures)
          /\ IsBounded(slidingFiles, current, open, stray)
    BY <1>4 DEF BoundInv, SlidingBounded
  <2>2. \A f \in DOMAIN fs : \/ f \in stray \/ f \in Window(cur)
                             \/ f = left /\ compressed < MaxCount
    <3> SUFFICES ASSUME NEW f \in DOMAIN fs, f \notin stray
                 PROVE  f \in Window(cur) \/ (f = left /\ compressed < MaxCount)
      OBVIOUS
    <3>1. f \in Window(current)
      BY <2>1, RemovedFacts DEF IsBounded
    <3>2. SlidingTypeOK
      BY DEF BoundInv
    <3> QED BY <1>4, <3>1, <3>2, WindowMoves, Zenon
  <2>3. ASSUME NEW x \in SlidingNames, IsBounded(slidingFiles', cur, open, stray \cup {x})
        PROVE  SlidingBounded'
    <3>1. IsFiniteSet(stray \cup {x})
          /\ (Cardinality(stray \cup {x}) = Cardinality(stray)
              \/ Cardinality(stray \cup {x}) = Cardinality(stray) + 1)
      BY <2>1, FS_AddElement
    <3>2. /\ Cardinality(stray) \in Nat
          /\ Leftover(slidingRestarts, slidingFailures) \in Nat
          /\ Leftover(slidingRestarts', slidingFailures')
               = Leftover(slidingRestarts, slidingFailures) + 1
      BY <1>1, <2>1, FS_CardinalityType, LeftoverFacts DEF BoundInv, SlidingTypeOK
    <3> DEFINE more == stray \cup {x}
    <3>3. more \in SUBSET SlidingNames
      BY <2>1
    <3>4. IsBounded(slidingFiles', cur, open, more)
      BY <2>3
    <3>5. IsFiniteSet(more)
          /\ (Cardinality(more) = Cardinality(stray) \/ Cardinality(more) = Cardinality(stray) + 1)
      BY <3>1
    <3> HIDE DEF more, cur
    <3>6. Cardinality(more) <= Leftover(slidingRestarts', slidingFailures')
      BY <2>1, <3>2, <3>5
    <3> QED BY <1>1, <1>3, <3>3, <3>4, <3>5, <3>6 DEF SlidingBounded, IsBounded
  <2>4. left \in SlidingNames /\ open \in SlidingNames
    BY <1>2 DEF SlidingNames, Sliding!Plain, BoundInv, SlidingTypeOK
  <2>5. CASE left \in stray
    <3>1. DOMAIN slidingFiles' \subseteq Window(cur) \cup (stray \cup {open})
      BY <1>1, <2>2, <2>5
    <3> QED BY <2>3, <2>4, <3>1 DEF IsBounded
  <2>6. CASE left \notin stray
    <3>1. left \notin Window(cur) \/ compressed < MaxCount
      <4> SUFFICES ASSUME left \in Window(cur) PROVE compressed < MaxCount
        OBVIOUS
      <4>1. PICK k \in Int : /\ left = IF k <= cur - compressed
                                       THEN Zipped(k) ELSE Sliding!Plain(k)
                             /\ cur - MaxCount + 1 <= k
        BY <1>2, InWindow
      <4>2. ~(k <= n) /\ n = k
        BY <1>2, <4>1 DEF Sliding!Plain, Zipped
      <4> QED BY <1>2, <4>2
    <3>2. compressed < MaxCount
      BY <1>1, <2>2, <2>6, <3>1
    <3>3. open \in Window(cur) \cup (stray \cup {left})
      <4>1. CASE open \in stray
        BY <4>1
      <4>2. CASE open \in Window(current)
        <5>1. PICK k \in Int :
                /\ open = IF k <= current - compressed THEN Zipped(k) ELSE Sliding!Plain(k)
                /\ current - MaxCount + 1 <= k /\ k <= current /\ MinIndex - 1 <= k
          BY <1>2, <4>2, InWindow
        <5>2. ~(k <= current - compressed) /\ open = Sliding!Plain(k)
          BY <1>2, <5>1 DEF Sliding!Plain, Zipped
        <5>3. CASE k = n
          BY <5>2, <5>3
        <5>4. CASE k # n
          <6>1. ~(k <= cur - compressed) /\ cur - MaxCount + 1 <= k /\ k <= cur
            BY <1>2, <3>2, <5>1, <5>2, <5>4 DEF Sliding!CountAssumption
          <6> QED BY <1>2, <5>1, <5>2, <6>1, NamesOfWindow
        <5> QED BY <5>3, <5>4
      <4> QED BY <2>1, <4>1, <4>2 DEF IsBounded
    <3>4. DOMAIN slidingFiles' \subseteq Window(cur) \cup (stray \cup {left})
      BY <1>1, <2>2
    <3> QED BY <2>3, <2>4, <3>3, <3>4 DEF IsBounded
  <2> QED BY <2>5, <2>6
<1> QED BY <1>1, <1>2, <1>4 DEF BoundInv

\* All that there is when a process begins may stay.
LEMMA BoundedWhenRestarting ==
  ASSUME Sliding!CountAssumption, BoundInv, Sliding!Restart, SlidingTypeOK'
  PROVE  BoundInv'
<1> DEFINE first == MinIndex - 1
<1>1. /\ compressed' = compressed /\ current' = first /\ open' = Sliding!Plain(first)
      /\ slidingFailures' = slidingFailures /\ slidingRestarts' = slidingRestarts + 1
      /\ slidingFiles' = Sliding!Opened(slidingFiles, open')
  BY DEF Sliding!Restart
<1>2. /\ current \in Int /\ first \in Int /\ compressed \in Nat
      /\ current' >= MinIndex - 1 /\ open' = Sliding!Plain(open'.number)
  BY <1>1 DEF BoundInv, SlidingTypeOK, Sliding!CountAssumption, Sliding!Plain
<1>3. DOMAIN slidingFiles' = DOMAIN slidingFiles \cup {Sliding!Plain(first)}
  BY <1>1 DEF Sliding!Opened
<1>4. Window(current)' = Window(first)
  BY <1>1 DEF Window, Sliding!Name, Sliding!IsCompressed
<1>5. ASSUME compressed \notin {0, MaxCount} PROVE SlidingBounded'
  <2>1. PICK stray \in SUBSET SlidingNames :
          /\ IsFiniteSet(stray)
          /\ Cardinality(stray) <= Leftover(slidingRestarts, slidingFailures)
          /\ DOMAIN slidingFiles \subseteq Window(current) \cup stray
    BY <1>5 DEF BoundInv, SlidingBounded, IsBounded
  <2> DEFINE more == Window(current) \cup stray
  <2>2. /\ IsFiniteSet(Window(current)) /\ Cardinality(Window(current)) <= MaxCount
        /\ Window(current) \subseteq SlidingNames
    BY <1>2, WindowFacts
  <2>3. /\ IsFiniteSet(more)
        /\ Cardinality(more) <= Cardinality(Window(current)) + Cardinality(stray)
    <3>1. /\ IsFiniteSet(more) /\ IsFiniteSet(Window(current) \cap stray)
          /\ Cardinality(more) = Cardinality(Window(current)) + Cardinality(stray)
                                  - Cardinality(Window(current) \cap stray)
      BY <2>1, <2>2, FS_Union, FS_Subset
    <3>2. Cardinality(Window(current) \cap stray) \in Nat /\ Cardinality(stray) \in Nat
          /\ Cardinality(Window(current)) \in Nat
      BY <2>1, <2>2, <3>1, FS_CardinalityType
    <3> HIDE DEF more
    <3> QED BY <3>1, <3>2
  <2>4. more \in SUBSET SlidingNames
    BY <2>1, <2>2
  <2>5. Sliding!Plain(first) \in Window(first)
    BY <1>1, <1>2, <1>5, OpenInWindow
  <2>6. DOMAIN slidingFiles' \subseteq Window(first) \cup more
    BY <1>3, <2>1, <2>5
  <2> HIDE DEF more
  <2>7. Cardinality(more) <= Leftover(slidingRestarts', slidingFailures')
    <3>1. /\ Leftover(slidingRestarts', slidingFailures')
               = Leftover(slidingRestarts, slidingFailures) + MaxCount
          /\ Leftover(slidingRestarts, slidingFailures) \in Nat
      BY <1>1, LeftoverFacts DEF BoundInv, SlidingTypeOK
    <3>2. /\ Cardinality(more) \in Nat /\ Cardinality(stray) \in Nat
          /\ Cardinality(Window(current)) \in Nat /\ MaxCount \in Nat
      BY <2>1, <2>2, <2>3, FS_CardinalityType DEF Sliding!CountAssumption
    <3> QED BY <2>1, <2>2, <2>3, <3>1, <3>2
  <2> QED BY <1>1, <1>4, <2>3, <2>4, <2>5, <2>6, <2>7 DEF SlidingBounded, IsBounded
<1> QED BY <1>1, <1>2, <1>5 DEF BoundInv

\* For any window, size of the files and compressor, and any number of failures and
\* restarts: each restart leaves no more than a window of files and each failed compression
\* no more than one.
THEOREM FilesStayBounded == RollersSpec => []FilesAreBounded
<1> USE Assumptions DEF Assumptions
<1>1. RollersInit => SlidingIInv /\ BoundInv
  BY SlidingInitially, BoundedInitially DEF RollersInit
<1>2. SlidingIInv /\ BoundInv /\ [RollersNext]_<<roller, vars, sliding, time, plain>>
        => SlidingIInv' /\ BoundInv'
  <2> SUFFICES ASSUME SlidingIInv, BoundInv,
                      [RollersNext]_<<roller, vars, sliding, time, plain>>
               PROVE  SlidingIInv' /\ BoundInv'
    OBVIOUS
  <2>1. CASE UNCHANGED sliding
    <3>1. SlidingIInv'
      BY <2>1
      DEF SlidingIInv, SlidingTypeOK, Holds, SlidingOrdered, UpTo, InOrder, Even, Before,
          Sliding!Kept, Sliding!Exists, Sliding!Plain, sliding
    <3>2. BoundInv'
      BY <2>1
      DEF BoundInv, SlidingTypeOK, Holds, SlidingBounded, IsBounded, Window, Sliding!Name,
          Sliding!IsCompressed, Sliding!Plain, sliding
    <3> QED BY <3>1, <3>2
  <2>2. CASE Sliding!Next
    <3>1. SlidingIInv'
      BY <2>2, WriteStep, WriteRollingStep, RollFailsStep, RestartStep DEF Sliding!Next
    <3>2. SlidingTypeOK'
      BY <3>1 DEF SlidingIInv
    <3>3. BoundInv'
      BY <2>2, <3>2, BoundedWhenWriting, BoundedWhenRolling, BoundedWhenRollFails,
         BoundedWhenRestarting DEF Sliding!Next
    <3> QED BY <3>1, <3>3
  <2>3. Sliding!Next \/ UNCHANGED sliding
    BY DEF RollersNext
  <2> QED BY <2>1, <2>2, <2>3
<1>3. BoundInv => FilesAreBounded
  <2> SUFFICES ASSUME BoundInv, compressed \notin {0, MaxCount}
               PROVE  Cardinality(DOMAIN slidingFiles)
                        <= MaxCount * (slidingRestarts + 1) + slidingFailures
    BY SlidingCardinality DEF FilesAreBounded, Sliding!FilesAreBounded
  <2>1. PICK stray \in SUBSET SlidingNames :
          /\ IsFiniteSet(stray)
          /\ Cardinality(stray) <= Leftover(slidingRestarts, slidingFailures)
          /\ DOMAIN slidingFiles \subseteq Window(current) \cup stray
    BY DEF BoundInv, SlidingBounded, IsBounded
  <2>2. current \in Int /\ slidingRestarts \in Nat /\ slidingFailures \in Nat
    BY DEF BoundInv, SlidingTypeOK
  <2> DEFINE all == Window(current) \cup stray
             both == Window(current) \cap stray
  <2>3. IsFiniteSet(Window(current)) /\ Cardinality(Window(current)) <= MaxCount
    BY <2>2, WindowFacts
  <2>4. /\ IsFiniteSet(all) /\ IsFiniteSet(both)
        /\ Cardinality(all) = Cardinality(Window(current)) + Cardinality(stray) - Cardinality(both)
    BY <2>1, <2>3, FS_Union, FS_Subset
  <2>5. IsFiniteSet(DOMAIN slidingFiles) /\ Cardinality(DOMAIN slidingFiles) <= Cardinality(all)
    BY <2>1, <2>4, FS_Subset
  <2> HIDE DEF all, both
  <2>6. /\ Cardinality(all) \in Nat /\ Cardinality(both) \in Nat /\ Cardinality(stray) \in Nat
        /\ Cardinality(Window(current)) \in Nat /\ Cardinality(DOMAIN slidingFiles) \in Nat
    BY <2>1, <2>3, <2>4, <2>5, FS_CardinalityType
  <2>7. /\ MaxCount * (slidingRestarts + 1) + slidingFailures
             = Leftover(slidingRestarts, slidingFailures) + MaxCount
        /\ Leftover(slidingRestarts, slidingFailures) \in Nat /\ MaxCount \in Nat
    BY <2>2, LeftoverFacts DEF Sliding!CountAssumption
  <2> DEFINE bound == MaxCount * (slidingRestarts + 1) + slidingFailures
  <2>8. bound = Leftover(slidingRestarts, slidingFailures) + MaxCount
    BY <2>7
  <2> HIDE DEF bound
  <2>9. Cardinality(DOMAIN slidingFiles) <= bound
    BY <2>1, <2>3, <2>4, <2>5, <2>6, <2>7, <2>8
  <2> QED BY <2>9 DEF bound
<1> QED BY <1>1, <1>2, <1>3, PTL DEF RollersSpec

-----------------------------------------------------------------------------
(* The file writer.  What is in the buffer is younger than what is in any  *)
(* file, whichever file the descriptor refers to: so it does not matter    *)
(* into which of them it is written, in how many parts, or when.           *)

Pieces == [event : Nat, piece : Nat]

\* All pieces of s come before all pieces of t.
Precede(s, t) == \A i \in DOMAIN s, j \in DOMAIN t : Plainly!Before(s[i], t[j])

\* The files have their pieces in order, none of them twice, and older ones than the buffer.
FilesTidy(fs) ==
  /\ \A i \in DOMAIN fs : Plainly!Follow(fs[i])
  /\ \A i, j \in DOMAIN fs : i # j =>
       \A k \in DOMAIN fs[i], l \in DOMAIN fs[j] : fs[i][k] # fs[j][l]
AllTidy(fs, buffer) == /\ FilesTidy(fs)
                    /\ Plainly!Follow(buffer)
                    /\ \A i \in DOMAIN fs : Precede(fs[i], buffer)

\* Is the piece p in a file or in the buffer?
IsIn(s, p) == \E i \in DOMAIN s : s[i] = p
IsThere(p, fs, buffer) == IsIn(buffer, p) \/ \E i \in DOMAIN fs : IsIn(fs[i], p)

\* An entry of s \o t is one of s, or one of t behind all of s.
LEMMA JoinedEntry ==
  ASSUME NEW T, NEW s \in Seq(T), NEW t \in Seq(T), NEW i \in DOMAIN (s \o t)
  PROVE  \/ i \in DOMAIN s /\ (s \o t)[i] = s[i]
         \/ /\ i \in Int /\ i - Len(s) \in DOMAIN t /\ (s \o t)[i] = t[i - Len(s)]
            /\ \A k \in DOMAIN s : k < i
  OBVIOUS

\* All of s and all of t are in s \o t.
LEMMA EntriesJoined ==
  ASSUME NEW T, NEW s \in Seq(T), NEW t \in Seq(T)
  PROVE  /\ s \o t \in Seq(T)
         /\ \A i \in DOMAIN s : i \in DOMAIN (s \o t) /\ (s \o t)[i] = s[i]
         /\ \A i \in DOMAIN t : i + Len(s) \in DOMAIN (s \o t) /\ (s \o t)[i + Len(s)] = t[i]
  OBVIOUS

\* What is in order, behind what is in order, is in order.
LEMMA JoinedFollow ==
  ASSUME NEW s \in Seq(Pieces), NEW t \in Seq(Pieces),
         Plainly!Follow(s), Plainly!Follow(t), Precede(s, t)
  PROVE  Plainly!Follow(s \o t)
<1> SUFFICES ASSUME NEW i \in DOMAIN (s \o t), NEW j \in DOMAIN (s \o t), i < j
             PROVE  Plainly!Before((s \o t)[i], (s \o t)[j])
  BY DEF Plainly!Follow
<1>1. \/ i \in DOMAIN s /\ (s \o t)[i] = s[i]
      \/ /\ i \in Int /\ i - Len(s) \in DOMAIN t /\ (s \o t)[i] = t[i - Len(s)]
         /\ \A k \in DOMAIN s : k < i
  BY JoinedEntry
<1>2. \/ j \in DOMAIN s /\ (s \o t)[j] = s[j]
      \/ /\ j \in Int /\ j - Len(s) \in DOMAIN t /\ (s \o t)[j] = t[j - Len(s)]
         /\ \A k \in DOMAIN s : k < j
  BY JoinedEntry
<1>3. CASE i \in DOMAIN s /\ (s \o t)[i] = s[i]
  BY <1>2, <1>3 DEF Plainly!Follow, Precede
<1>4. CASE /\ i \in Int /\ i - Len(s) \in DOMAIN t /\ (s \o t)[i] = t[i - Len(s)]
           /\ \A k \in DOMAIN s : k < i
  <2>1. j \notin DOMAIN s
    BY <1>4
  <2>2. /\ j - Len(s) \in DOMAIN t /\ (s \o t)[j] = t[j - Len(s)]
        /\ i - Len(s) < j - Len(s)
    BY <1>2, <1>4, <2>1
  <2> QED BY <1>4, <2>2 DEF Plainly!Follow
<1> QED BY <1>1, <1>3, <1>4

\* What is in one of two sequences is in both together.
LEMMA IsInJoined ==
  ASSUME NEW s \in Seq(Pieces), NEW t \in Seq(Pieces), NEW p
  PROVE  IsIn(s \o t, p) <=> IsIn(s, p) \/ IsIn(t, p)
<1>1. ASSUME IsIn(s \o t, p) PROVE IsIn(s, p) \/ IsIn(t, p)
  <2>1. PICK i \in DOMAIN (s \o t) : (s \o t)[i] = p
    BY <1>1 DEF IsIn
  <2> QED BY <2>1, JoinedEntry DEF IsIn
<1>2. ASSUME IsIn(s, p) \/ IsIn(t, p) PROVE IsIn(s \o t, p)
  <2>1. CASE IsIn(s, p)
    BY <2>1, EntriesJoined DEF IsIn
  <2>2. CASE IsIn(t, p)
    <3>1. PICK i \in DOMAIN t : t[i] = p
      BY <2>2 DEF IsIn
    <3>2. i + Len(s) \in DOMAIN (s \o t) /\ (s \o t)[i + Len(s)] = t[i]
      BY EntriesJoined
    <3> QED BY <3>1, <3>2 DEF IsIn
  <2> QED BY <1>2, <2>1, <2>2
<1> QED BY <1>1, <1>2

\* One more piece is in a sequence that it is appended to.
LEMMA IsInAppended ==
  ASSUME NEW s \in Seq(Pieces), NEW q \in Pieces, NEW p
  PROVE  IsIn(Append(s, q), p) <=> IsIn(s, p) \/ p = q
<1> DEFINE t == Append(s, q)
<1>1. /\ \A i \in DOMAIN t : (i \in DOMAIN s /\ t[i] = s[i]) \/ t[i] = q
      /\ \A i \in DOMAIN s : i \in DOMAIN t /\ t[i] = s[i]
      /\ \E i \in DOMAIN t : t[i] = q
  <2>1. Len(s) + 1 \in DOMAIN t /\ t[Len(s) + 1] = q
    OBVIOUS
  <2> QED BY <2>1
<1> HIDE DEF t
<1>2. IsIn(t, p) <=> IsIn(s, p) \/ p = q
  BY <1>1 DEF IsIn
<1> QED BY <1>2 DEF t

\* A piece that comes after all the others may be appended to them.
LEMMA AppendedFollow ==
  ASSUME NEW s \in Seq(Pieces), NEW q \in Pieces, Plainly!Follow(s),
         \A i \in DOMAIN s : Plainly!Before(s[i], q)
  PROVE  Plainly!Follow(Append(s, q))
<1> DEFINE t == Append(s, q)
<1>1. \A i \in DOMAIN t : /\ t[i] = q \/ (i \in DOMAIN s /\ t[i] = s[i])
                          /\ \A j \in DOMAIN t : i < j => i \in DOMAIN s /\ t[i] = s[i]
  OBVIOUS
<1> HIDE DEF t
<1>2. Plainly!Follow(t)
  BY <1>1 DEF Plainly!Follow
<1> QED BY <1>2 DEF t

\* A part is in order, and comes before the rest.
LEMMA Parted ==
  ASSUME NEW s \in Seq(Pieces), NEW n \in 0 .. Len(s)
  PROVE  LET begin == SubSeq(s, 1, n)
             rest == SubSeq(s, n + 1, Len(s))
         IN  /\ begin \in Seq(Pieces) /\ rest \in Seq(Pieces)
             /\ \A i \in DOMAIN begin : i \in DOMAIN s /\ i <= n /\ begin[i] = s[i]
             /\ \A i \in DOMAIN rest : n + i \in DOMAIN s /\ i > 0 /\ rest[i] = s[n + i]
             /\ \A i \in DOMAIN s : \/ i \in DOMAIN begin /\ begin[i] = s[i]
                                    \/ i - n \in DOMAIN rest /\ rest[i - n] = s[i]
<1> DEFINE begin == SubSeq(s, 1, n)
           rest == SubSeq(s, n + 1, Len(s))
<1>1. /\ begin \in Seq(Pieces) /\ Len(begin) = n /\ DOMAIN begin = 1 .. n
      /\ \A i \in 1 .. n : begin[i] = s[i]
  OBVIOUS
<1>2. /\ rest \in Seq(Pieces) /\ Len(rest) = Len(s) - n /\ DOMAIN rest = 1 .. Len(s) - n
      /\ \A i \in 1 .. Len(s) - n : rest[i] = s[n + i]
  OBVIOUS
<1>3. DOMAIN s = 1 .. Len(s) /\ Len(s) \in Nat /\ n \in Nat /\ n <= Len(s)
  OBVIOUS
<1> HIDE DEF begin, rest
<1>4. \A i \in DOMAIN begin : i \in DOMAIN s /\ i <= n /\ begin[i] = s[i]
  BY <1>1, <1>3
<1>5. \A i \in DOMAIN rest : n + i \in DOMAIN s /\ i > 0 /\ rest[i] = s[n + i]
  BY <1>2, <1>3
<1>6. ASSUME NEW i \in DOMAIN s
      PROVE  \/ i \in DOMAIN begin /\ begin[i] = s[i]
             \/ i - n \in DOMAIN rest /\ rest[i - n] = s[i]
  <2>1. CASE i <= n
    BY <1>1, <1>3, <2>1
  <2>2. CASE i > n
    <3>1. i - n \in 1 .. Len(s) - n /\ n + (i - n) = i
      BY <1>3, <2>2
    <3> QED BY <1>2, <3>1
  <2> QED BY <1>3, <2>1, <2>2
<1> QED BY <1>1, <1>2, <1>4, <1>5, <1>6 DEF begin, rest

\* Both parts are in order, one before the other, and together they have everything.
LEMMA PartsFollow ==
  ASSUME NEW s \in Seq(Pieces), NEW n \in 0 .. Len(s), Plainly!Follow(s)
  PROVE  LET begin == SubSeq(s, 1, n)
             rest == SubSeq(s, n + 1, Len(s))
         IN  /\ begin \in Seq(Pieces) /\ rest \in Seq(Pieces)
             /\ Plainly!Follow(begin) /\ Plainly!Follow(rest) /\ Precede(begin, rest)
             /\ \A t : Precede(t, s) => Precede(t, begin) /\ Precede(t, rest)
             /\ \A p : IsIn(s, p) <=> IsIn(begin, p) \/ IsIn(rest, p)
<1> DEFINE begin == SubSeq(s, 1, n)
           rest == SubSeq(s, n + 1, Len(s))
<1>1. /\ begin \in Seq(Pieces) /\ rest \in Seq(Pieces) /\ n \in Int
      /\ \A i \in DOMAIN begin : i \in DOMAIN s /\ i \in Int /\ i <= n /\ begin[i] = s[i]
      /\ \A i \in DOMAIN rest : n + i \in DOMAIN s /\ i \in Int /\ i > 0 /\ rest[i] = s[n + i]
      /\ \A i \in DOMAIN s : \/ i \in DOMAIN begin /\ begin[i] = s[i]
                             \/ i - n \in DOMAIN rest /\ rest[i - n] = s[i]
  BY Parted
<1> HIDE DEF begin, rest
<1>2. Plainly!Follow(begin) /\ Plainly!Follow(rest)
  BY <1>1 DEF Plainly!Follow
<1>3. Precede(begin, rest)
  BY <1>1 DEF Plainly!Follow, Precede
<1>4. \A t : Precede(t, s) => Precede(t, begin) /\ Precede(t, rest)
  BY <1>1 DEF Precede
<1>5. \A p : IsIn(s, p) <=> IsIn(begin, p) \/ IsIn(rest, p)
  BY <1>1 DEF IsIn
<1> QED BY <1>1, <1>2, <1>3, <1>4, <1>5 DEF begin, rest

-----------------------------------------------------------------------------
(* What writing does to tidy files.                                        *)

\* Does the piece q come after all there are?
IsNext(q, fs, buffer) ==
  /\ \A i \in DOMAIN fs : \A k \in DOMAIN fs[i] : Plainly!Before(fs[i][k], q)
  /\ \A k \in DOMAIN buffer : Plainly!Before(buffer[k], q)

\* No piece comes before itself.
LEMMA BeforeIsStrict == \A p \in Pieces : ~Plainly!Before(p, p)
BY DEF Plainly!Before, Pieces

\* The first n pieces of the buffer go to any of the files.
LEMMA TidyWhenWritten ==
  ASSUME NEW fs \in Seq(Seq(Pieces)), NEW buffer \in Seq(Pieces), AllTidy(fs, buffer),
         NEW f \in DOMAIN fs, NEW n \in 0 .. Len(buffer)
  PROVE  LET gs == [fs EXCEPT ![f] = @ \o SubSeq(buffer, 1, n)]
             rest == SubSeq(buffer, n + 1, Len(buffer))
         IN  /\ gs \in Seq(Seq(Pieces)) /\ Len(gs) = Len(fs) /\ rest \in Seq(Pieces)
             /\ AllTidy(gs, rest)
             /\ \A p : IsThere(p, gs, rest) <=> IsThere(p, fs, buffer)
<1> DEFINE begin == SubSeq(buffer, 1, n)
           rest == SubSeq(buffer, n + 1, Len(buffer))
           gs == [fs EXCEPT ![f] = @ \o begin]
<1>1. /\ begin \in Seq(Pieces) /\ rest \in Seq(Pieces)
      /\ Plainly!Follow(begin) /\ Plainly!Follow(rest) /\ Precede(begin, rest)
      /\ \A t : Precede(t, buffer) => Precede(t, begin) /\ Precede(t, rest)
      /\ \A p : IsIn(buffer, p) <=> IsIn(begin, p) \/ IsIn(rest, p)
  BY PartsFollow DEF AllTidy
<1> HIDE DEF begin, rest
<1>2. /\ fs[f] \in Seq(Pieces) /\ fs[f] \o begin \in Seq(Pieces)
      /\ \A i \in DOMAIN fs : fs[i] \in Seq(Pieces)
  BY <1>1, EntriesJoined
<1>3. gs \in Seq(Seq(Pieces)) /\ Len(gs) = Len(fs)
  BY <1>2
<1>4. /\ DOMAIN gs = DOMAIN fs /\ gs[f] = fs[f] \o begin
      /\ \A i \in DOMAIN fs : i # f => gs[i] = fs[i]
  OBVIOUS
<1> HIDE DEF gs
<1>5. \A i \in DOMAIN fs : Plainly!Follow(fs[i]) /\ Precede(fs[i], begin) /\ Precede(fs[i], rest)
  BY <1>1 DEF AllTidy, FilesTidy
<1>6. ASSUME NEW i \in DOMAIN gs PROVE Plainly!Follow(gs[i]) /\ Precede(gs[i], rest)
  <2>1. CASE i # f
    BY <1>4, <1>5, <2>1
  <2>2. CASE i = f
    <3>1. Plainly!Follow(fs[f] \o begin)
      BY <1>1, <1>2, <1>5, JoinedFollow
    <3>2. Precede(fs[f] \o begin, rest)
      <4> SUFFICES ASSUME NEW k \in DOMAIN (fs[f] \o begin), NEW l \in DOMAIN rest
                   PROVE  Plainly!Before((fs[f] \o begin)[k], rest[l])
        BY DEF Precede
      <4>1. \/ k \in DOMAIN fs[f] /\ (fs[f] \o begin)[k] = fs[f][k]
            \/ k - Len(fs[f]) \in DOMAIN begin /\ (fs[f] \o begin)[k] = begin[k - Len(fs[f])]
        BY <1>1, <1>2, JoinedEntry
      <4> QED BY <1>1, <1>5, <4>1 DEF Precede
    <3> QED BY <1>4, <2>2, <3>1, <3>2
  <2> QED BY <2>1, <2>2
<1>7. \A p : IsIn(gs[f], p) <=> IsIn(fs[f], p) \/ IsIn(begin, p)
  BY <1>1, <1>2, <1>4, IsInJoined
<1>8. ASSUME NEW i \in DOMAIN gs, NEW j \in DOMAIN gs, i # j, NEW p \in Pieces,
             IsIn(gs[i], p), IsIn(gs[j], p)
      PROVE  FALSE
  <2>1. \A k, l \in DOMAIN fs : k # l => ~(IsIn(fs[k], p) /\ IsIn(fs[l], p))
    BY DEF AllTidy, FilesTidy, IsIn
  <2>2. \A k \in DOMAIN fs : ~(IsIn(fs[k], p) /\ IsIn(begin, p))
    BY <1>5, BeforeIsStrict DEF Precede, IsIn
  <2>3. (i = f \/ i # f) /\ (j = f \/ j # f)
    OBVIOUS
  <2> QED BY <1>4, <1>7, <1>8, <2>1, <2>2, <2>3
<1>9. FilesTidy(gs)
  <2>1. ASSUME NEW i \in DOMAIN gs, NEW j \in DOMAIN gs, i # j,
               NEW k \in DOMAIN gs[i], NEW l \in DOMAIN gs[j], gs[i][k] = gs[j][l]
        PROVE  FALSE
    <3>1. gs[i] \in Seq(Pieces)
      BY <1>2, <1>4
    <3>2. gs[i][k] \in Pieces
      BY <3>1
    <3> QED BY <1>8, <2>1, <3>2 DEF IsIn
  <2> QED BY <1>6, <2>1 DEF FilesTidy
<1>10. ASSUME NEW p PROVE IsThere(p, gs, rest) <=> IsThere(p, fs, buffer)
  <2>1. (\E i \in DOMAIN gs : IsIn(gs[i], p))
          <=> (\E i \in DOMAIN fs : IsIn(fs[i], p)) \/ IsIn(begin, p)
    BY <1>4, <1>7
  <2> QED BY <1>1, <2>1 DEF IsThere
<1> QED BY <1>1, <1>3, <1>6, <1>9, <1>10 DEF gs, rest, begin, AllTidy

\* A piece that comes after all others is put in the buffer.
LEMMA TidyWhenAppended ==
  ASSUME NEW fs \in Seq(Seq(Pieces)), NEW buffer \in Seq(Pieces), AllTidy(fs, buffer),
         NEW q \in Pieces, IsNext(q, fs, buffer)
  PROVE  /\ Append(buffer, q) \in Seq(Pieces)
         /\ AllTidy(fs, Append(buffer, q))
         /\ \A p : IsThere(p, fs, Append(buffer, q)) <=> IsThere(p, fs, buffer) \/ p = q
<1> DEFINE more == Append(buffer, q)
<1>1. /\ more \in Seq(Pieces) /\ Plainly!Follow(more)
      /\ \A p : IsIn(more, p) <=> IsIn(buffer, p) \/ p = q
  BY AppendedFollow, IsInAppended DEF AllTidy, IsNext
<1>2. \A i \in DOMAIN more : more[i] = q \/ (i \in DOMAIN buffer /\ more[i] = buffer[i])
  OBVIOUS
<1> HIDE DEF more
<1>3. \A i \in DOMAIN fs : Precede(fs[i], more)
  BY <1>2 DEF AllTidy, Precede, IsNext
<1>4. AllTidy(fs, more)
  BY <1>1, <1>3 DEF AllTidy
<1>5. \A p : IsThere(p, fs, more) <=> IsThere(p, fs, buffer) \/ p = q
  BY <1>1 DEF IsThere
<1> QED BY <1>1, <1>4, <1>5 DEF more

\* The buffer is given up.
LEMMA TidyWhenDiscarded ==
  ASSUME NEW fs, NEW buffer, AllTidy(fs, buffer)
  PROVE  /\ AllTidy(fs, <<>>)
         /\ \A p : IsThere(p, fs, <<>>) => IsThere(p, fs, buffer)
         /\ buffer = <<>> => \A p : IsThere(p, fs, buffer) <=> IsThere(p, fs, <<>>)
<1>1. DOMAIN <<>> = {}
  OBVIOUS
<1> QED BY <1>1 DEF AllTidy, Plainly!Follow, Precede, IsThere, IsIn

\* A new file is empty.
LEMMA TidyWhenMade ==
  ASSUME NEW fs \in Seq(Seq(Pieces)), NEW buffer, AllTidy(fs, buffer)
  PROVE  LET gs == Append(fs, <<>>)
         IN  /\ gs \in Seq(Seq(Pieces)) /\ Len(gs) = Len(fs) + 1
             /\ AllTidy(gs, buffer)
             /\ \A p : IsThere(p, gs, buffer) <=> IsThere(p, fs, buffer)
<1> DEFINE gs == Append(fs, <<>>)
<1>1. gs \in Seq(Seq(Pieces)) /\ Len(gs) = Len(fs) + 1
  OBVIOUS
<1>2. /\ \A i \in DOMAIN gs : DOMAIN gs[i] = {} \/ (i \in DOMAIN fs /\ gs[i] = fs[i])
      /\ \A i \in DOMAIN fs : i \in DOMAIN gs /\ gs[i] = fs[i]
  <2>1. DOMAIN <<>> = {}
    OBVIOUS
  <2>2. \A i \in DOMAIN gs : gs[i] = <<>> \/ (i \in DOMAIN fs /\ gs[i] = fs[i])
    OBVIOUS
  <2>3. \A i \in DOMAIN fs : i \in DOMAIN gs /\ gs[i] = fs[i]
    OBVIOUS
  <2> HIDE DEF gs
  <2> QED BY <2>1, <2>2, <2>3
<1> HIDE DEF gs
<1>3. FilesTidy(gs)
  BY <1>2 DEF AllTidy, FilesTidy, Plainly!Follow
<1>4. \A i \in DOMAIN gs : Precede(gs[i], buffer)
  BY <1>2 DEF AllTidy, Precede
<1>5. \A p : IsThere(p, gs, buffer) <=> IsThere(p, fs, buffer)
  BY <1>2 DEF IsThere, IsIn
<1> QED BY <1>1, <1>3, <1>4, <1>5 DEF gs, AllTidy

\* A file is emptied.
LEMMA TidyWhenEmptied ==
  ASSUME NEW fs \in Seq(Seq(Pieces)), NEW buffer, AllTidy(fs, buffer), NEW f \in DOMAIN fs
  PROVE  LET gs == [fs EXCEPT ![f] = <<>>]
         IN  /\ gs \in Seq(Seq(Pieces)) /\ Len(gs) = Len(fs)
             /\ AllTidy(gs, buffer)
             /\ \A p : IsThere(p, gs, buffer) => IsThere(p, fs, buffer)
<1> DEFINE gs == [fs EXCEPT ![f] = <<>>]
<1>1. gs \in Seq(Seq(Pieces)) /\ Len(gs) = Len(fs)
  OBVIOUS
<1>2. /\ \A i \in DOMAIN gs : DOMAIN gs[i] = {} \/ (i \in DOMAIN fs /\ gs[i] = fs[i])
      /\ DOMAIN gs = DOMAIN fs
  <2>1. DOMAIN <<>> = {}
    OBVIOUS
  <2>2. \A i \in DOMAIN gs : gs[i] = <<>> \/ (i \in DOMAIN fs /\ gs[i] = fs[i])
    OBVIOUS
  <2>3. DOMAIN gs = DOMAIN fs
    OBVIOUS
  <2> HIDE DEF gs
  <2> QED BY <2>1, <2>2, <2>3
<1> HIDE DEF gs
<1>3. FilesTidy(gs)
  <2>1. \A i \in DOMAIN gs : Plainly!Follow(gs[i])
    BY <1>2 DEF AllTidy, FilesTidy, Plainly!Follow
  <2>2. ASSUME NEW i \in DOMAIN gs, NEW j \in DOMAIN gs, i # j
        PROVE  \A k \in DOMAIN gs[i], l \in DOMAIN gs[j] : gs[i][k] # gs[j][l]
    <3>1. CASE DOMAIN gs[i] = {} \/ DOMAIN gs[j] = {}
      BY <3>1
    <3>2. CASE gs[i] = fs[i] /\ gs[j] = fs[j]
      BY <1>2, <2>2, <3>2 DEF AllTidy, FilesTidy
    <3> QED BY <1>2, <3>1, <3>2
  <2> QED BY <2>1, <2>2 DEF FilesTidy
<1>4. \A i \in DOMAIN gs : Precede(gs[i], buffer)
  BY <1>2 DEF AllTidy, Precede
<1>5. \A p : IsThere(p, gs, buffer) => IsThere(p, fs, buffer)
  BY <1>2 DEF IsThere, IsIn
<1> QED BY <1>1, <1>3, <1>4, <1>5 DEF gs, AllTidy

-----------------------------------------------------------------------------
(* The calls of the file_descriptor_writer.                                *)

FileWriters == [fd : Nat, buffer : Seq(Pieces), isOpen : BOOLEAN, wasOpened : BOOLEAN,
                writeability : {"none", "writeable", "non_writeable", "non_existent"}]
FileDisks == [files : Seq(Seq(Pieces)), named : Nat, permitted : BOOLEAN]

\* The files that the name and the descriptor refer to exist.
Linked(d, w) == d.named <= Len(d.files) /\ w.fd <= Len(d.files)

\* What a call works on.
Calls == [disk : FileDisks, writer : FileWriters, opening : Plainly!Openings,
          writings : Seq({"all", "some", "error"}), threw : BOOLEAN, discarded : BOOLEAN]
InOrderly(s) == Linked(s.disk, s.writer) /\ AllTidy(s.disk.files, s.writer.buffer)
There(p, s) == IsThere(p, s.disk.files, s.writer.buffer)

\* What flushing leaves as it is.
SameFile(s, t) ==
  /\ t.disk.named = s.disk.named /\ t.disk.permitted = s.disk.permitted
  /\ t.writer.fd = s.writer.fd /\ t.writer.isOpen = s.writer.isOpen
  /\ t.writer.wasOpened = s.writer.wasOpened
  /\ t.writer.writeability = s.writer.writeability
  /\ t.opening = s.opening

\* Writing the buffer, or a part of it, loses nothing.
LEMMA WriteBufferFacts ==
  ASSUME NEW s \in Calls, InOrderly(s), s.writer.fd # Plainly!NoFile,
         NEW n \in 0 .. Len(s.writer.buffer)
  PROVE  LET t == Plainly!WriteBuffer(s, n)
         IN  /\ t \in Calls /\ InOrderly(t) /\ SameFile(s, t)
             /\ t.threw = s.threw /\ t.discarded = s.discarded
             /\ \A p : There(p, t) <=> There(p, s)
<1> DEFINE t == Plainly!WriteBuffer(s, n)
           fs == s.disk.files
           buffer == s.writer.buffer
           f == s.writer.fd
           gs == [fs EXCEPT ![f] = @ \o SubSeq(buffer, 1, n)]
           rest == SubSeq(buffer, n + 1, Len(buffer))
<1>1. /\ fs \in Seq(Seq(Pieces)) /\ buffer \in Seq(Pieces)
      /\ f \in DOMAIN fs /\ AllTidy(fs, buffer)
  BY DEF Calls, FileDisks, FileWriters, InOrderly, Linked, Plainly!NoFile
<1>2. /\ gs \in Seq(Seq(Pieces)) /\ Len(gs) = Len(fs) /\ rest \in Seq(Pieces)
      /\ AllTidy(gs, rest)
      /\ \A p : IsThere(p, gs, rest) <=> IsThere(p, fs, buffer)
  BY <1>1, TidyWhenWritten
<1>3. t = [s EXCEPT !.disk = [s.disk EXCEPT !.files = gs],
                    !.writer = [s.writer EXCEPT !.buffer = rest]]
  BY DEF Plainly!WriteBuffer, Calls, FileDisks, FileWriters
<1> HIDE DEF gs, rest, t
<1>4. /\ t.disk = [s.disk EXCEPT !.files = gs] /\ t.writer = [s.writer EXCEPT !.buffer = rest]
      /\ t.threw = s.threw /\ t.discarded = s.discarded /\ t.opening = s.opening
      /\ t.writings = s.writings
  BY <1>3 DEF Calls
<1>5. /\ t.disk \in FileDisks /\ t.disk.files = gs /\ t.disk.named = s.disk.named
      /\ t.disk.permitted = s.disk.permitted
  BY <1>2, <1>4 DEF Calls, FileDisks
<1>6. /\ t.writer \in FileWriters /\ t.writer.buffer = rest /\ t.writer.fd = s.writer.fd
      /\ t.writer.isOpen = s.writer.isOpen /\ t.writer.wasOpened = s.writer.wasOpened
      /\ t.writer.writeability = s.writer.writeability
  BY <1>2, <1>4 DEF Calls, FileWriters
<1>7. t \in Calls
  BY <1>3, <1>4, <1>5, <1>6 DEF Calls
<1>8. InOrderly(t)
  <2>1. Linked(s.disk, s.writer) /\ AllTidy(t.disk.files, t.writer.buffer)
    BY <1>2, <1>5, <1>6 DEF InOrderly
  <2>2. Linked(t.disk, t.writer)
    BY <1>2, <1>5, <1>6, <2>1 DEF Linked
  <2> QED BY <2>1, <2>2 DEF InOrderly
<1>9. SameFile(s, t)
  BY <1>4, <1>5, <1>6 DEF SameFile
<1>10. \A p : There(p, t) <=> There(p, s)
  BY <1>2, <1>5, <1>6 DEF There
<1> QED BY <1>4, <1>7, <1>8, <1>9, <1>10 DEF t

\* What flushing does: nothing is lost unless there is no file.
Flushed(s, t) ==
  /\ t \in Calls /\ InOrderly(t) /\ SameFile(s, t)
  /\ s.threw => t.threw
  /\ \A p : There(p, t) => There(p, s)
  /\ s.writer.fd # Plainly!NoFile => t.discarded = s.discarded
  /\ s.writer.fd # Plainly!NoFile \/ ~t.discarded => \A p : There(p, s) => There(p, t)

\* flush, whatever the writing comes to.
LEMMA FlushFacts ==
  ASSUME NEW s \in Calls, InOrderly(s)
  PROVE  Flushed(s, Plainly!Flush(s))
<1> DEFINE rest == IF s.writings = <<>> THEN s.writings ELSE Tail(s.writings)
           t == [s EXCEPT !.writings = rest]
           buffer == s.writer.buffer
           lost == buffer # <<>>
           u == [s EXCEPT !.writer.buffer = <<>>, !.discarded = lost]
           v == [t EXCEPT !.threw = TRUE]
<1>1. Plainly!Flush(s)
        = IF s.writer.fd = Plainly!NoFile THEN u
          ELSE LET result == IF s.writings = <<>> THEN "all" ELSE Head(s.writings)
               IN  CASE result = "error" -> v
                     [] result = "some" /\ Len(buffer) > 1 -> Plainly!WriteBuffer(t, 1)
                     [] OTHER -> Plainly!WriteBuffer(t, Len(buffer))
  BY DEF Plainly!Flush
<1>2. buffer \in Seq(Pieces) /\ Len(buffer) \in Nat /\ lost \in BOOLEAN
  BY DEF Calls, FileWriters
<1>3. rest \in Seq({"all", "some", "error"})
  BY DEF Calls
<1> HIDE DEF rest
<1>4. /\ t \in Calls /\ t.disk = s.disk /\ t.writer = s.writer /\ t.threw = s.threw
      /\ t.discarded = s.discarded /\ t.opening = s.opening
  BY <1>3 DEF Calls
<1> HIDE DEF t
<1>5. InOrderly(t) /\ SameFile(s, t) /\ \A p : There(p, t) <=> There(p, s)
  BY <1>4 DEF InOrderly, SameFile, There
<1>6. CASE s.writer.fd = Plainly!NoFile
  <2>1. buffer = <<>> <=> ~lost
    OBVIOUS
  <2> HIDE DEF lost
  <2>2. /\ u.disk = s.disk /\ u.writer = [s.writer EXCEPT !.buffer = <<>>] /\ u.discarded = lost
        /\ u.threw = s.threw /\ u.opening = s.opening /\ u.writings = s.writings
        /\ u = [s EXCEPT !.writer = [s.writer EXCEPT !.buffer = <<>>], !.discarded = lost]
    BY DEF Calls
  <2> HIDE DEF u
  <2>3. /\ u.writer \in FileWriters /\ u.writer.buffer = <<>> /\ u.writer.fd = s.writer.fd
        /\ u.writer.isOpen = s.writer.isOpen /\ u.writer.wasOpened = s.writer.wasOpened
        /\ u.writer.writeability = s.writer.writeability
    <3>1. s.writer \in FileWriters /\ <<>> \in Seq(Pieces)
      BY DEF Calls
    <3> QED BY <2>2, <3>1 DEF FileWriters
  <2>4. u \in Calls
    BY <1>2, <2>2, <2>3 DEF Calls
  <2>5. /\ AllTidy(u.disk.files, <<>>)
        /\ \A p : IsThere(p, s.disk.files, <<>>) => IsThere(p, s.disk.files, buffer)
        /\ buffer = <<>> =>
             \A p : IsThere(p, s.disk.files, buffer) <=> IsThere(p, s.disk.files, <<>>)
    BY <2>2, TidyWhenDiscarded DEF InOrderly
  <2>6. InOrderly(u)
    BY <2>2, <2>3, <2>5 DEF InOrderly, Linked
  <2>7. SameFile(s, u)
    BY <2>2, <2>3 DEF SameFile
  <2>8. /\ \A p : There(p, u) => There(p, s)
        /\ ~u.discarded => \A p : There(p, s) => There(p, u)
    BY <2>1, <2>2, <2>3, <2>5 DEF There
  <2>9. Flushed(s, u)
    BY <1>6, <2>2, <2>4, <2>6, <2>7, <2>8 DEF Flushed
  <2> QED BY <1>1, <1>6, <2>9
<1>7. CASE s.writer.fd # Plainly!NoFile
  <2> HIDE DEF u
  <2>1. ASSUME NEW n \in 0 .. Len(buffer) PROVE Flushed(s, Plainly!WriteBuffer(t, n))
    <3> DEFINE w == Plainly!WriteBuffer(t, n)
    <3>1. /\ w \in Calls /\ InOrderly(w) /\ SameFile(t, w)
          /\ w.threw = t.threw /\ w.discarded = t.discarded
          /\ \A p : There(p, w) <=> There(p, t)
      BY <1>4, <1>5, <1>7, WriteBufferFacts
    <3> HIDE DEF w
    <3>2. SameFile(s, w)
      BY <1>5, <3>1 DEF SameFile
    <3>3. Flushed(s, w)
      BY <1>4, <1>5, <3>1, <3>2 DEF Flushed
    <3> QED BY <3>3 DEF w
  <2>2. Flushed(s, v)
    <3>1. v \in Calls /\ v.disk = t.disk /\ v.writer = t.writer /\ v.discarded = t.discarded
          /\ v.threw /\ v.opening = t.opening
      BY <1>4 DEF Calls
    <3> HIDE DEF v
    <3>2. InOrderly(v) /\ SameFile(s, v) /\ \A p : There(p, v) <=> There(p, s)
      BY <1>4, <1>5, <3>1 DEF InOrderly, SameFile, There
    <3> QED BY <1>4, <3>1, <3>2 DEF Flushed
  <2>3. \/ Plainly!Flush(s) = v
        \/ Len(buffer) > 1 /\ Plainly!Flush(s) = Plainly!WriteBuffer(t, 1)
        \/ Plainly!Flush(s) = Plainly!WriteBuffer(t, Len(buffer))
    <3> HIDE DEF v, buffer
    <3> QED BY <1>1, <1>7
  <2>4. Len(buffer) \in 0 .. Len(buffer) /\ (Len(buffer) > 1 => 1 \in 0 .. Len(buffer))
    BY <1>2
  <2> QED BY <2>1, <2>2, <2>3, <2>4
<1> QED BY <1>6, <1>7

\* Does the piece q come after all that s has?
ComesNext(q, s) == \A p : There(p, s) => Plainly!Before(p, q)

\* The piece q is added, but for an exception.
AddedOne(s, t, q) ==
  /\ t \in Calls /\ InOrderly(t) /\ SameFile(s, t) /\ t.discarded = s.discarded
  /\ \A p : There(p, t) => There(p, s) \/ p = q
  /\ \A p : There(p, s) => There(p, t)
  /\ ~t.threw => ~s.threw /\ There(q, t)

\* The pieces of the buffer give way to the new one, or an exception keeps it out.
LEMMA WritePieceFacts ==
  ASSUME NEW s \in Calls, InOrderly(s), s.writer.fd # Plainly!NoFile,
         NEW q \in Pieces, ComesNext(q, s)
  PROVE  ~s.threw => AddedOne(s, Plainly!WritePiece(s, q), q)
<1> SUFFICES ASSUME ~s.threw PROVE AddedOne(s, Plainly!WritePiece(s, q), q)
  OBVIOUS
<1> DEFINE room == IF Plainly!IsFull(s) THEN Plainly!Flush(s) ELSE s
           t == [room EXCEPT !.writer.buffer = Append(@, q)]
           last == Plainly!Flush(t)
<1>1. Plainly!WritePiece(s, q)
        = IF room.threw THEN room ELSE IF Plainly!IsFull(t) THEN last ELSE t
  BY DEF Plainly!WritePiece
<1>2. /\ room \in Calls /\ InOrderly(room) /\ SameFile(s, room) /\ room.discarded = s.discarded
      /\ \A p : There(p, room) <=> There(p, s)
  <2>1. CASE Plainly!IsFull(s)
    <3>1. Flushed(s, Plainly!Flush(s)) /\ room = Plainly!Flush(s)
      BY <2>1, FlushFacts
    <3> HIDE DEF room
    <3> QED BY <3>1 DEF Flushed
  <2>2. CASE ~Plainly!IsFull(s)
    <3>1. room = s
      BY <2>2
    <3> HIDE DEF room
    <3> QED BY <3>1 DEF SameFile
  <2> QED BY <2>1, <2>2
<1> HIDE DEF room
<1> DEFINE buffer == room.writer.buffer
           more == Append(buffer, q)
<1>3. IsNext(q, room.disk.files, buffer)
  BY <1>2 DEF ComesNext, IsNext, There, IsThere, IsIn
<1>4. /\ room.disk.files \in Seq(Seq(Pieces)) /\ buffer \in Seq(Pieces)
      /\ AllTidy(room.disk.files, buffer)
  BY <1>2 DEF Calls, FileDisks, FileWriters, InOrderly
<1>5. /\ more \in Seq(Pieces) /\ AllTidy(room.disk.files, more)
      /\ \A p : IsThere(p, room.disk.files, more)
                 <=> IsThere(p, room.disk.files, buffer) \/ p = q
  BY <1>3, <1>4, TidyWhenAppended
<1> HIDE DEF more
<1>6. /\ t.disk = room.disk /\ t.writer = [room.writer EXCEPT !.buffer = more]
      /\ t.threw = room.threw /\ t.discarded = room.discarded /\ t.opening = room.opening
      /\ t = [room EXCEPT !.writer = [room.writer EXCEPT !.buffer = more]]
  BY <1>2 DEF Calls, more
<1> HIDE DEF t
<1>7. /\ t.writer \in FileWriters /\ t.writer.buffer = more /\ t.writer.fd = room.writer.fd
      /\ t.writer.isOpen = room.writer.isOpen /\ t.writer.wasOpened = room.writer.wasOpened
      /\ t.writer.writeability = room.writer.writeability
  <2>1. room.writer \in FileWriters
    BY <1>2 DEF Calls
  <2> QED BY <1>5, <1>6, <2>1 DEF FileWriters
<1>8. t \in Calls
  BY <1>2, <1>6, <1>7 DEF Calls
<1>9. InOrderly(t) /\ SameFile(s, t)
  BY <1>2, <1>5, <1>6, <1>7 DEF InOrderly, Linked, SameFile
<1>10. \A p : There(p, t) <=> There(p, s) \/ p = q
  BY <1>2, <1>5, <1>6, <1>7 DEF There
<1>11. CASE room.threw
  BY <1>1, <1>2, <1>11 DEF AddedOne
<1>12. CASE ~room.threw
  <2>1. AddedOne(s, t, q)
    BY <1>2, <1>6, <1>8, <1>9, <1>10 DEF AddedOne
  <2>2. AddedOne(s, last, q)
    <3>1. Flushed(t, last)
      BY <1>8, <1>9, FlushFacts
    <3>2. t.writer.fd # Plainly!NoFile
      BY <1>9 DEF SameFile
    <3> HIDE DEF last
    <3>3. SameFile(s, last)
      BY <1>9, <3>1 DEF Flushed, SameFile
    <3>4. \A p : There(p, last) <=> There(p, t)
      BY <3>1, <3>2 DEF Flushed
    <3> QED BY <1>2, <1>6, <1>10, <3>1, <3>2, <3>3, <3>4 DEF Flushed, AddedOne
  <2> QED BY <1>1, <1>12, <2>1, <2>2
<1> QED BY <1>11, <1>12

\* Of the event n the pieces up to i are added, but for an exception.
Added(s, t, n, i) ==
  /\ t \in Calls /\ InOrderly(t) /\ SameFile(s, t) /\ t.discarded = s.discarded
  /\ \A p : There(p, t) => There(p, s) \/ (p.event = n /\ p.piece \in 1 .. i)
  /\ \A p : There(p, s) => There(p, t)
  /\ ~t.threw => ~s.threw /\ \A k \in 1 .. i : There([event |-> n, piece |-> k], t)

\* All that s has is of an earlier event than n.
AllBefore(s, n) == \A p : There(p, s) => p.event < n

\* One piece more of the event.
LEMMA AddedNext ==
  ASSUME NEW s, s.writer.fd # Plainly!NoFile, NEW n \in Nat, AllBefore(s, n),
         NEW i \in Nat \ {0}, NEW t, Added(s, t, n, i - 1)
  PROVE  Added(s, Plainly!WritePiece(t, [event |-> n, piece |-> i]), n, i)
<1> DEFINE q == [event |-> n, piece |-> i]
           u == Plainly!WritePiece(t, q)
<1>1. q \in Pieces /\ q.event = n /\ q.piece = i
  BY DEF Pieces
<1>2. t \in Calls /\ InOrderly(t) /\ t.writer.fd # Plainly!NoFile
  BY DEF Added, SameFile
<1>3. ComesNext(q, t)
  BY <1>1 DEF Added, AllBefore, ComesNext, Plainly!Before
<1>4. CASE t.threw
  <2>1. u = t
    BY <1>4 DEF Plainly!WritePiece
  <2>2. Added(s, t, n, i)
    BY <1>4 DEF Added
  <2> QED BY <2>1, <2>2
<1>5. CASE ~t.threw
  <2>1. AddedOne(t, u, q)
    BY <1>1, <1>2, <1>3, <1>5, WritePieceFacts
  <2> HIDE DEF u
  <2>2. SameFile(s, u)
    BY <2>1 DEF Added, AddedOne, SameFile
  <2>3. \A p : There(p, u) => There(p, s) \/ (p.event = n /\ p.piece \in 1 .. i)
    BY <1>1, <2>1 DEF Added, AddedOne
  <2>4. ASSUME ~u.threw, NEW k \in 1 .. i PROVE There([event |-> n, piece |-> k], u)
    <3>1. k = i \/ k \in 1 .. i - 1
      OBVIOUS
    <3> QED BY <2>1, <2>4, <3>1 DEF Added, AddedOne
  <2>5. /\ u \in Calls /\ InOrderly(u) /\ u.discarded = s.discarded
        /\ \A p : There(p, s) => There(p, u)
        /\ ~u.threw => ~s.threw
    BY <1>5, <2>1 DEF Added, AddedOne
  <2>6. Added(s, u, n, i)
    BY <2>2, <2>3, <2>4, <2>5 DEF Added
  <2> QED BY <2>6 DEF u
<1> QED BY <1>4, <1>5

\* Induction over the numbers, from the well-foundedness of the finite sets: a least
\* number outside P would be the successor of one inside.
LEMMA Induction ==
  ASSUME NEW P, 0 \in P, \A n \in Nat : n \in P => n + 1 \in P
  PROVE  \A n \in Nat : n \in P
<1> SUFFICES ASSUME NEW n \in Nat, n \notin P PROVE FALSE
  OBVIOUS
<1> DEFINE Outside == {k \in 0 .. n : k \notin P}
           Below == {0 .. k : k \in Outside}
<1>1. IsWellFoundedOn(StrictSubsetOrdering(0 .. n), SUBSET (0 .. n))
  <2>1. IsFiniteSet(0 .. n)
    BY FS_Interval
  <2>2. FiniteSubsetsOf(0 .. n) = SUBSET (0 .. n)
    BY <2>1, FS_FiniteSubsetsOfFinite
  <2> QED BY <2>2, FS_StrictSubsetOrderingWellFounded
<1>2. Below \subseteq SUBSET (0 .. n) /\ Below # {}
  OBVIOUS
<1>3. PICK least \in Below : \A s \in Below : <<s, least>> \notin StrictSubsetOrdering(0 .. n)
  BY <1>1, <1>2, WFMin
<1>4. PICK k \in Outside : least = 0 .. k
  OBVIOUS
<1>5. k # 0 /\ k - 1 \in Outside
  BY <1>4
<1>6. <<0 .. k - 1, 0 .. k>> \in StrictSubsetOrdering(0 .. n)
  BY <1>5 DEF StrictSubsetOrdering
<1> QED
  BY <1>3, <1>4, <1>5, <1>6

\* What begins with start and makes each value from the one before.
FoldsFrom(f, start, onto, N) == f = [k \in 0 .. N |-> IF k = 0 THEN start ELSE onto[k][f[k - 1]]]

\* There is one, with values in the sets given.
LEMMA FoldExists ==
  ASSUME NEW S, NEW N \in Nat, NEW start, NEW onto,
         start \in S[0], \A k \in 1 .. N : \A x \in S[k - 1] : onto[k][x] \in S[k]
  PROVE  \E f : FoldsFrom(f, start, onto, N) /\ \A k \in 0 .. N : f[k] \in S[k]
<1> DEFINE Good(f, n) == FoldsFrom(f, start, onto, n) /\ \A k \in 0 .. n : f[k] \in S[k]
           P == {n \in Nat : n <= N => \E f : Good(f, n)}
<1>1. 0 \in P
  <2> DEFINE f == [k \in 0 .. 0 |-> start]
  <2>1. f = [k \in 0 .. 0 |-> IF k = 0 THEN start ELSE onto[k][f[k - 1]]]
    OBVIOUS
  <2>2. Good(f, 0)
    BY <2>1 DEF FoldsFrom
  <2> QED BY <2>2
<1>2. ASSUME NEW n \in Nat, n \in P PROVE n + 1 \in P
  <2> SUFFICES ASSUME n + 1 <= N PROVE \E f : Good(f, n + 1)
    OBVIOUS
  <2> PICK f : Good(f, n)
    BY <1>2
  <2> DEFINE g == [k \in 0 .. n + 1 |-> IF k <= n THEN f[k] ELSE onto[n + 1][f[n]]]
  <2>1. f[0] = start /\ \A k \in 1 .. n : f[k] = onto[k][f[k - 1]]
    BY DEF FoldsFrom
  <2>2. ASSUME NEW k \in 0 .. n + 1 PROVE g[k] = IF k = 0 THEN start ELSE onto[k][g[k - 1]]
    <3>1. CASE k = 0
      BY <2>1, <3>1
    <3>2. CASE k \in 1 .. n
      <4>1. g[k] = f[k] /\ g[k - 1] = f[k - 1]
        BY <3>2
      <4> QED BY <2>1, <3>2, <4>1
    <3>3. CASE k = n + 1
      <4>1. g[k] = onto[n + 1][f[n]] /\ g[n] = f[n] /\ k - 1 = n
        BY <3>3
      <4> QED BY <3>3, <4>1
    <3> QED BY <3>1, <3>2, <3>3
  <2>3. ASSUME NEW k \in 0 .. n + 1 PROVE g[k] \in S[k]
    <3>1. CASE k <= n
      BY <3>1
    <3>2. CASE k = n + 1
      <4>1. g[k] = onto[n + 1][f[n]] /\ f[n] \in S[n] /\ n + 1 \in 1 .. N
        BY <3>2
      <4> QED BY <3>2, <4>1
    <3> QED BY <3>1, <3>2
  <2>4. g = [k \in 0 .. n + 1 |-> IF k = 0 THEN start ELSE onto[k][g[k - 1]]]
    BY <2>2
  <2>5. Good(g, n + 1)
    BY <2>3, <2>4 DEF FoldsFrom
  <2> QED BY <2>5
<1> HIDE DEF P
<1>3. N \in P
  BY <1>1, <1>2, Induction
<1> QED BY <1>3 DEF P

\* And any that keeps to the sets from each value to the next ends in the last.
LEMMA FoldStays ==
  ASSUME NEW S, NEW N \in Nat, NEW f,
         f[0] \in S[0], \A k \in 1 .. N : f[k - 1] \in S[k - 1] => f[k] \in S[k]
  PROVE  f[N] \in S[N]
<1> DEFINE P == {n \in Nat : n <= N => f[n] \in S[n]}
<1>1. 0 \in P
  OBVIOUS
<1>2. ASSUME NEW n \in Nat, n \in P PROVE n + 1 \in P
  <2> SUFFICES ASSUME n + 1 <= N PROVE f[n + 1] \in S[n + 1]
    OBVIOUS
  <2>1. f[n] \in S[n] /\ n + 1 \in 1 .. N /\ (n + 1) - 1 = n
    BY <1>2
  <2> QED BY <2>1
<1> HIDE DEF P
<1>3. N \in P
  BY <1>1, <1>2, Induction
<1> QED BY <1>3 DEF P

\* What writing a piece keeps from each piece to the next, writing them all keeps.
LEMMA PutPiecesStays ==
  ASSUME NEW S, NEW s, NEW n, NEW size \in Nat, s \in S[0],
         \A k \in 1 .. size : \A t \in S[k - 1] :
           Plainly!WritePiece(t, [event |-> n, piece |-> k]) \in S[k]
  PROVE  Plainly!PutPieces(s, n, size) \in S[size]
<1> DEFINE next(k, t) == Plainly!WritePiece(t, [event |-> n, piece |-> k])
           onto == [k \in 1 .. size |-> [t \in S[k - 1] |-> next(k, t)]]
           Is(f) == f = [k \in 0 .. size |-> IF k = 0 THEN s ELSE next(k, f[k - 1])]
           h == CHOOSE f : Is(f)
<1>1. Plainly!PutPieces(s, n, size) = h[size]
  BY Zenon DEF Plainly!PutPieces
<1>2. \A k \in 1 .. size : \A t \in S[k - 1] : onto[k][t] = next(k, t) /\ next(k, t) \in S[k]
  OBVIOUS
<1> HIDE DEF onto, next
<1>3. PICK g : FoldsFrom(g, s, onto, size) /\ \A k \in 0 .. size : g[k] \in S[k]
  <2>1. \A k \in 1 .. size : \A t \in S[k - 1] : onto[k][t] \in S[k]
    BY <1>2
  <2> QED BY <2>1, FoldExists
<1>4. Is(g)
  <2>1. g = [k \in 0 .. size |-> g[k]]
    BY <1>3 DEF FoldsFrom
  <2>2. ASSUME NEW k \in 0 .. size PROVE g[k] = IF k = 0 THEN s ELSE next(k, g[k - 1])
    <3>1. g[k] = IF k = 0 THEN s ELSE onto[k][g[k - 1]]
      BY <1>3 DEF FoldsFrom
    <3>2. CASE k # 0
      <4>1. k \in 1 .. size /\ k - 1 \in 0 .. size
        BY <3>2
      <4> QED BY <1>2, <1>3, <3>1, <3>2, <4>1
    <3> QED BY <3>1, <3>2
  <2> QED BY <2>1, <2>2
<1>5. Is(h)
  <2>1. \E f : Is(f)
    BY <1>4
  <2> QED BY <2>1, Zenon
<1> HIDE DEF h
<1>6. h[0] = s /\ \A k \in 1 .. size : h[k] = next(k, h[k - 1])
  <2>1. \A k \in 0 .. size : h[k] = IF k = 0 THEN s ELSE next(k, h[k - 1])
    BY <1>5
  <2>2. 0 \in 0 .. size /\ \A k \in 1 .. size : k \in 0 .. size /\ k # 0
    OBVIOUS
  <2> QED BY <2>1, <2>2
<1> HIDE DEF Is
<1>7. h[size] \in S[size]
  <2>1. \A k \in 1 .. size : h[k - 1] \in S[k - 1] => h[k] \in S[k]
    BY <1>2, <1>6
  <2> QED BY <1>6, <2>1, FoldStays
<1> QED BY <1>1, <1>7

\* The whole event is written, but for an exception, and perhaps flushed.
LEMMA WritePiecesFacts ==
  ASSUME NEW s \in Calls, InOrderly(s), s.writer.fd # Plainly!NoFile, ~s.threw,
         NEW n \in Nat, NEW size \in Nat, AllBefore(s, n)
  PROVE  Added(s, Plainly!WritePieces(s, n, size), n, size)
<1> DEFINE t == Plainly!PutPieces(s, n, size)
           last == Plainly!Flush(t)
<1>1. Added(s, t, n, size)
  <2> DEFINE S == [k \in 0 .. size |-> {u \in Calls : Added(s, u, n, k)}]
  <2>1. Added(s, s, n, 0)
    BY DEF Added, SameFile
  <2>2. ASSUME NEW k \in 1 .. size, NEW u \in S[k - 1]
        PROVE  Plainly!WritePiece(u, [event |-> n, piece |-> k]) \in S[k]
    <3>1. Added(s, u, n, k - 1)
      OBVIOUS
    <3>2. Added(s, Plainly!WritePiece(u, [event |-> n, piece |-> k]), n, k)
      BY <3>1, AddedNext
    <3> QED BY <3>2 DEF Added
  <2>3. s \in S[0]
    BY <2>1
  <2>4. \A u \in S[size] : Added(s, u, n, size)
    OBVIOUS
  <2> HIDE DEF S
  <2>5. t \in S[size]
    BY <2>2, <2>3, PutPiecesStays
  <2> QED BY <2>4, <2>5
<1>2. Plainly!WritePieces(s, n, size) = t \/ Plainly!WritePieces(s, n, size) = last
  BY DEF Plainly!WritePieces
<1> HIDE DEF t
<1>3. Added(s, last, n, size)
  <2>1. t \in Calls /\ InOrderly(t) /\ t.writer.fd # Plainly!NoFile
    BY <1>1 DEF Added, SameFile
  <2>2. Flushed(t, last)
    BY <2>1, FlushFacts
  <2> HIDE DEF last
  <2>3. /\ last \in Calls /\ InOrderly(last) /\ last.discarded = t.discarded
        /\ SameFile(t, last) /\ (~last.threw => ~t.threw)
        /\ \A p : There(p, last) <=> There(p, t)
    BY <2>1, <2>2 DEF Flushed
  <2>4. SameFile(s, last)
    BY <1>1, <2>3 DEF Added, SameFile
  <2> QED BY <1>1, <2>3, <2>4 DEF Added
<1> QED BY <1>1, <1>2, <1>3

-----------------------------------------------------------------------------
(* Opening, closing and the check of the file_writer.                      *)

\* Nothing is thrown or added, and only what a file had before is lost.
Passed(s, t) ==
  /\ t \in Calls /\ InOrderly(t)
  /\ t.threw = s.threw /\ t.discarded = s.discarded /\ t.opening = s.opening
  /\ \A p : There(p, t) => There(p, s)
  /\ \A p : There(p, s) /\ p.event # 0 => There(p, t)

\* One call after another.
LEMMA PassedOn ==
  ASSUME NEW s, NEW t, NEW u, Passed(s, t), Passed(t, u)
  PROVE  Passed(s, u)
BY DEF Passed

\* An open writer has a file, and a writer with a file has been opened.
OpenHasFile(w) == /\ w.isOpen => w.fd # Plainly!NoFile
                  /\ w.fd # Plainly!NoFile => w.wasOpened
\* Before it is first opened there is only what files had before.
NothingYet(s) == ~s.writer.wasOpened => \A p : There(p, s) => p.event = 0

\* close leaves in the buffer what could not be written.
LEMMA CloseFacts ==
  ASSUME NEW s \in Calls, InOrderly(s)
  PROVE  LET t == Plainly!Close(s)
         IN  /\ Passed(s, t)
             /\ t.writer.fd = Plainly!NoFile
             /\ t.disk.named = s.disk.named /\ t.disk.permitted = s.disk.permitted
             /\ t.writer.isOpen = s.writer.isOpen /\ t.writer.wasOpened = s.writer.wasOpened
             /\ t.writer.writeability = s.writer.writeability
<1> DEFINE flushed == IF s.writer.buffer # <<>> THEN Plainly!Flush(s) ELSE s
           t == [flushed EXCEPT !.writer.fd = Plainly!NoFile, !.threw = s.threw]
<1>1. CASE s.writer.fd = Plainly!NoFile
  <2>1. Plainly!Close(s) = s
    BY <1>1 DEF Plainly!Close
  <2>2. Passed(s, s)
    BY DEF Passed
  <2> QED BY <1>1, <2>1, <2>2
<1>2. CASE s.writer.fd # Plainly!NoFile
  <2>1. Plainly!Close(s) = t
    BY <1>2 DEF Plainly!Close
  <2>2. /\ flushed \in Calls /\ InOrderly(flushed) /\ SameFile(s, flushed)
        /\ flushed.discarded = s.discarded
        /\ \A p : There(p, flushed) <=> There(p, s)
    <3>1. Flushed(s, Plainly!Flush(s))
      BY FlushFacts
    <3>2. flushed = Plainly!Flush(s) \/ flushed = s
      OBVIOUS
    <3> HIDE DEF flushed
    <3> QED BY <1>2, <3>1, <3>2 DEF Flushed, SameFile
  <2> HIDE DEF flushed
  <2>3. /\ t = [flushed EXCEPT !.writer = [flushed.writer EXCEPT !.fd = Plainly!NoFile],
                               !.threw = s.threw]
        /\ t.disk = flushed.disk /\ t.writer = [flushed.writer EXCEPT !.fd = Plainly!NoFile]
        /\ t.threw = s.threw /\ t.discarded = flushed.discarded /\ t.opening = flushed.opening
    BY <2>2 DEF Calls
  <2> HIDE DEF t
  <2>4. /\ t.writer \in FileWriters /\ t.writer.fd = Plainly!NoFile
        /\ t.writer.buffer = flushed.writer.buffer /\ t.writer.isOpen = flushed.writer.isOpen
        /\ t.writer.wasOpened = flushed.writer.wasOpened
        /\ t.writer.writeability = flushed.writer.writeability
    <3>1. flushed.writer \in FileWriters /\ Plainly!NoFile \in Nat
      BY <2>2 DEF Calls, Plainly!NoFile
    <3> QED BY <2>3, <3>1 DEF FileWriters
  <2>5. t \in Calls
    <3>1. s.threw \in BOOLEAN
      BY DEF Calls
    <3> QED BY <2>2, <2>3, <2>4, <3>1 DEF Calls
  <2>6. InOrderly(t)
    <3>1. flushed.disk.files \in Seq(Seq(Pieces))
      BY <2>2 DEF Calls, FileDisks
    <3>2. Plainly!NoFile <= Len(flushed.disk.files)
      BY <3>1 DEF Plainly!NoFile
    <3> QED BY <2>2, <2>3, <2>4, <3>2 DEF InOrderly, Linked
  <2>7. \A p : There(p, t) <=> There(p, s)
    BY <2>2, <2>3, <2>4 DEF There
  <2>8. Passed(s, t)
    BY <2>2, <2>3, <2>5, <2>6, <2>7 DEF Passed, SameFile
  <2> QED BY <2>1, <2>2, <2>3, <2>4, <2>8 DEF SameFile
<1> QED BY <1>1, <1>2

\* What opening makes of the disk, for any writer that has a buffer and a descriptor.
LEMMA FileOpenedFacts ==
  ASSUME NEW s, s.disk \in FileDisks, s.writer \in FileWriters, InOrderly(s)
  PROVE  LET d == Plainly!Opened(s)
         IN  /\ d \in FileDisks /\ d.named # Plainly!NoFile
             /\ d.named <= Len(d.files) /\ Len(s.disk.files) <= Len(d.files)
             /\ AllTidy(d.files, s.writer.buffer)
             /\ \A p : IsThere(p, d.files, s.writer.buffer) => There(p, s)
             /\ s.writer.wasOpened =>
                  \A p : There(p, s) => IsThere(p, d.files, s.writer.buffer)
<1> DEFINE fs == s.disk.files
           buffer == s.writer.buffer
           n == s.disk.named
           more == Append(fs, <<>>)
           less == [fs EXCEPT ![n] = <<>>]
<1>1. /\ fs \in Seq(Seq(Pieces)) /\ n \in Nat /\ n <= Len(fs) /\ Len(fs) \in Nat
      /\ AllTidy(fs, buffer)
  BY DEF FileDisks, InOrderly, Linked
<1>2. CASE n = Plainly!NoFile
  <2>1. /\ more \in Seq(Seq(Pieces)) /\ Len(more) = Len(fs) + 1
        /\ AllTidy(more, buffer)
        /\ \A p : IsThere(p, more, buffer) <=> IsThere(p, fs, buffer)
    BY <1>1, TidyWhenMade
  <2> DEFINE next == Len(fs) + 1
             d == Plainly!Opened(s)
  <2>2. next \in Nat /\ next # Plainly!NoFile /\ Len(fs) <= next /\ next <= Len(more)
    BY <1>1, <2>1 DEF Plainly!NoFile
  <2>3. d = [s.disk EXCEPT !.files = more, !.named = next, !.permitted = TRUE]
    BY <1>2 DEF Plainly!Opened
  <2> HIDE DEF more, next, d
  <2>4. d \in FileDisks /\ d.files = more /\ d.named = next
    BY <2>1, <2>2, <2>3 DEF FileDisks
  <2>5. Len(fs) <= Len(more)
    BY <1>1, <2>1
  <2>6. \A p : There(p, s) <=> IsThere(p, d.files, buffer)
    BY <2>1, <2>4 DEF There
  <2>7. /\ d \in FileDisks /\ d.named # Plainly!NoFile
        /\ d.named <= Len(d.files) /\ Len(fs) <= Len(d.files)
        /\ AllTidy(d.files, buffer)
    BY <2>1, <2>2, <2>4, <2>5
  <2> QED BY <2>6, <2>7 DEF d
<1>3. CASE n # Plainly!NoFile /\ (append \/ s.writer.wasOpened)
  <2>1. Plainly!Opened(s) = s.disk
    BY <1>3 DEF Plainly!Opened
  <2> QED BY <1>1, <1>3, <2>1 DEF There
<1>4. CASE n # Plainly!NoFile /\ ~(append \/ s.writer.wasOpened)
  <2>1. n \in DOMAIN fs
    BY <1>1, <1>4 DEF Plainly!NoFile
  <2>2. /\ less \in Seq(Seq(Pieces)) /\ Len(less) = Len(fs)
        /\ AllTidy(less, buffer)
        /\ \A p : IsThere(p, less, buffer) => IsThere(p, fs, buffer)
    BY <1>1, <2>1, TidyWhenEmptied
  <2> HIDE DEF less
  <2>3. Plainly!Opened(s) = [s.disk EXCEPT !.files = less]
    BY <1>4 DEF Plainly!Opened, less, FileDisks
  <2>4. /\ Plainly!Opened(s) \in FileDisks /\ Plainly!Opened(s).files = less
        /\ Plainly!Opened(s).named = n
    BY <2>2, <2>3 DEF FileDisks
  <2> QED BY <1>1, <1>4, <2>2, <2>4 DEF There
<1> QED BY <1>2, <1>3, <1>4

\* The writer has the file that has the name open.
Reached(t) == /\ t.writer.isOpen /\ t.writer.writeability = "writeable"
              /\ t.disk.named # Plainly!NoFile /\ t.writer.fd = t.disk.named

\* is_open_ becomes false and nothing else.
LEMMA WithoutOpen ==
  ASSUME NEW w \in FileWriters
  PROVE  LET v == [w EXCEPT !.isOpen = FALSE]
         IN  /\ v \in FileWriters /\ ~v.isOpen
             /\ v.fd = w.fd /\ v.buffer = w.buffer /\ v.wasOpened = w.wasOpened
             /\ v.writeability = w.writeability
<1> DEFINE v == [w EXCEPT !.isOpen = FALSE]
<1>1. v.isOpen = FALSE
  BY DEF FileWriters
<1>2. /\ v.fd = w.fd /\ v.buffer = w.buffer /\ v.wasOpened = w.wasOpened
      /\ v.writeability = w.writeability
  BY DEF FileWriters
<1>3. v \in FileWriters
  BY DEF FileWriters
<1> HIDE DEF v
<1> QED BY <1>1, <1>2, <1>3 DEF v

\* open, whether it succeeds or not.
LEMMA OpenFacts ==
  ASSUME NEW s \in Calls, InOrderly(s), OpenHasFile(s.writer), NothingYet(s)
  PROVE  LET t == Plainly!Open(s)
         IN  /\ Passed(s, t) /\ OpenHasFile(t.writer) /\ NothingYet(t)
             /\ \/ t = s /\ s.disk.named = Plainly!NoFile
                \/ /\ ~t.writer.isOpen /\ t.disk = s.disk /\ t.writer.fd = s.writer.fd
                   /\ t.writer.writeability = s.writer.writeability
                \/ Reached(t)
             /\ s.opening = "opened" /\ (s.disk.named = Plainly!NoFile \/ s.disk.permitted) =>
                  Reached(t)
<1> DEFINE closed == [s EXCEPT !.writer.isOpen = FALSE]
           d == Plainly!Opened(s)
           w == [s.writer EXCEPT !.fd = d.named, !.isOpen = TRUE,
                                 !.wasOpened = TRUE, !.writeability = "writeable"]
           opened == [s EXCEPT !.disk = d, !.writer = w]
           none == s.opening = "no_directory" /\ s.disk.named = Plainly!NoFile
           refused == \/ s.opening = "not_opened"
                      \/ s.disk.named # Plainly!NoFile /\ ~s.disk.permitted
<1>1. Plainly!Open(s) = CASE none -> s [] refused -> closed [] OTHER -> opened
  BY DEF Plainly!Open
<1>2. CASE none
  <2>1. ~refused /\ s.opening # "opened"
    BY <1>2
  <2>2. Plainly!Open(s) = s
    BY <1>1, <1>2, <2>1
  <2>3. Passed(s, s)
    BY DEF Passed
  <2> QED BY <1>2, <2>1, <2>2, <2>3
<1>3. CASE ~none /\ refused
  <2>1. Plainly!Open(s) = closed
    BY <1>1, <1>3
  <2>2. ~(s.opening = "opened" /\ (s.disk.named = Plainly!NoFile \/ s.disk.permitted))
    BY <1>3
  <2>3. /\ closed.disk = s.disk /\ closed.writer = [s.writer EXCEPT !.isOpen = FALSE]
        /\ closed = [s EXCEPT !.writer = [s.writer EXCEPT !.isOpen = FALSE]]
        /\ closed.threw = s.threw /\ closed.discarded = s.discarded
        /\ closed.opening = s.opening
    BY DEF Calls
  <2> HIDE DEF closed, none, refused
  <2>4. /\ closed.writer \in FileWriters /\ closed.writer.fd = s.writer.fd
        /\ closed.writer.buffer = s.writer.buffer /\ ~closed.writer.isOpen
        /\ closed.writer.wasOpened = s.writer.wasOpened
        /\ closed.writer.writeability = s.writer.writeability
    <3>1. s.writer \in FileWriters
      BY DEF Calls
    <3> QED BY <2>3, <3>1, WithoutOpen
  <2>5. closed \in Calls
    BY <2>3, <2>4 DEF Calls
  <2>6. InOrderly(closed) /\ \A p : There(p, closed) <=> There(p, s)
    BY <2>3, <2>4 DEF InOrderly, Linked, There
  <2>7. Passed(s, closed) /\ NothingYet(closed) /\ OpenHasFile(closed.writer)
    BY <2>3, <2>4, <2>5, <2>6 DEF Passed, NothingYet, OpenHasFile
  <2> QED BY <2>1, <2>2, <2>3, <2>4, <2>7
<1>4. CASE ~none /\ ~refused
  <2>1. Plainly!Open(s) = opened
    BY <1>1, <1>4
  <2>2. /\ d \in FileDisks /\ d.named # Plainly!NoFile
        /\ d.named <= Len(d.files) /\ Len(s.disk.files) <= Len(d.files)
        /\ AllTidy(d.files, s.writer.buffer)
        /\ \A p : IsThere(p, d.files, s.writer.buffer) => There(p, s)
        /\ s.writer.wasOpened => \A p : There(p, s) => IsThere(p, d.files, s.writer.buffer)
    BY FileOpenedFacts DEF Calls
  <2> HIDE DEF d, none, refused
  <2>3. /\ w \in FileWriters /\ w.fd = d.named /\ w.isOpen /\ w.wasOpened
        /\ w.writeability = "writeable" /\ w.buffer = s.writer.buffer
    <3>1. s.writer \in FileWriters /\ d.named \in Nat
      BY <2>2 DEF Calls, FileDisks
    <3> QED BY <3>1 DEF FileWriters
  <2> HIDE DEF w
  <2>4. /\ opened \in Calls /\ opened.disk = d /\ opened.writer = w
        /\ opened.threw = s.threw /\ opened.discarded = s.discarded
        /\ opened.opening = s.opening
    BY <2>2, <2>3 DEF Calls
  <2> HIDE DEF opened
  <2>5. InOrderly(opened)
    BY <2>2, <2>3, <2>4 DEF InOrderly, Linked
  <2>6. Reached(opened) /\ OpenHasFile(opened.writer) /\ NothingYet(opened)
    BY <2>2, <2>3, <2>4 DEF Reached, OpenHasFile, NothingYet
  <2>7. \A p : There(p, opened) <=> IsThere(p, d.files, s.writer.buffer)
    BY <2>3, <2>4 DEF There
  <2>8. Passed(s, opened)
    BY <2>2, <2>4, <2>5, <2>7 DEF Passed, NothingYet
  <2> QED BY <2>1, <2>6, <2>8
<1> QED BY <1>2, <1>3, <1>4

\* The file is closed because it may not be written any more, or is another one.
LEMMA ShutFacts ==
  ASSUME NEW s \in Calls, InOrderly(s), NothingYet(s)
  PROVE  LET t == Plainly!Shut(s)
         IN  /\ Passed(s, t) /\ OpenHasFile(t.writer) /\ NothingYet(t)
             /\ t.disk.named = s.disk.named /\ t.disk.permitted = s.disk.permitted
             /\ ~t.writer.isOpen
<1> DEFINE c == Plainly!Close(s)
           t == [c EXCEPT !.writer.isOpen = FALSE]
<1>1. Plainly!Shut(s) = t
  BY DEF Plainly!Shut
<1>2. /\ Passed(s, c)
      /\ c.writer.fd = Plainly!NoFile
      /\ c.disk.named = s.disk.named /\ c.disk.permitted = s.disk.permitted
      /\ c.writer.isOpen = s.writer.isOpen /\ c.writer.wasOpened = s.writer.wasOpened
      /\ c.writer.writeability = s.writer.writeability
  BY CloseFacts
<1> HIDE DEF c
<1>3. c \in Calls /\ InOrderly(c)
  BY <1>2 DEF Passed
<1>4. /\ t.disk = c.disk /\ t.writer = [c.writer EXCEPT !.isOpen = FALSE]
      /\ t = [c EXCEPT !.writer = [c.writer EXCEPT !.isOpen = FALSE]]
      /\ t.threw = c.threw /\ t.discarded = c.discarded /\ t.opening = c.opening
  BY <1>3 DEF Calls
<1> HIDE DEF t
<1>5. /\ t.writer \in FileWriters /\ t.writer.fd = c.writer.fd
      /\ t.writer.buffer = c.writer.buffer /\ ~t.writer.isOpen
      /\ t.writer.wasOpened = c.writer.wasOpened
  <2>1. c.writer \in FileWriters
    BY <1>3 DEF Calls
  <2> QED BY <1>4, <2>1, WithoutOpen
<1>6. t \in Calls
  BY <1>3, <1>4, <1>5 DEF Calls
<1>7. InOrderly(t) /\ \A p : There(p, t) <=> There(p, c)
  BY <1>3, <1>4, <1>5 DEF InOrderly, Linked, There
<1>8. Passed(s, t)
  BY <1>2, <1>4, <1>6, <1>7 DEF Passed
<1>9. OpenHasFile(t.writer) /\ NothingYet(t)
  BY <1>2, <1>5, <1>8 DEF OpenHasFile, NothingYet, Passed
<1> QED BY <1>1, <1>2, <1>4, <1>5, <1>8, <1>9

\* What the check finds is noted.
LEMMA NotedFacts ==
  ASSUME NEW s \in Calls, InOrderly(s), OpenHasFile(s.writer), NothingYet(s),
         NEW x \in {"none", "writeable", "non_writeable", "non_existent"}
  PROVE  LET t == [s EXCEPT !.writer.writeability = x]
         IN  /\ Passed(s, t) /\ OpenHasFile(t.writer) /\ NothingYet(t)
             /\ t.disk = s.disk /\ t.writer.writeability = x
<1> DEFINE v == [s.writer EXCEPT !.writeability = x]
           t == [s EXCEPT !.writer.writeability = x]
<1>1. /\ v \in FileWriters /\ v.fd = s.writer.fd /\ v.buffer = s.writer.buffer
      /\ v.writeability = x
  BY DEF Calls, FileWriters
<1>2. v.isOpen = s.writer.isOpen /\ v.wasOpened = s.writer.wasOpened
  BY DEF Calls, FileWriters
<1>3. /\ t.disk = s.disk /\ t.writer = v /\ t = [s EXCEPT !.writer = v]
      /\ t.threw = s.threw /\ t.discarded = s.discarded /\ t.opening = s.opening
  BY DEF Calls
<1> HIDE DEF v, t
<1>4. t \in Calls
  BY <1>1, <1>3 DEF Calls
<1>5. InOrderly(t) /\ \A p : There(p, t) <=> There(p, s)
  BY <1>1, <1>3 DEF InOrderly, Linked, There
<1>6. Passed(s, t) /\ OpenHasFile(t.writer) /\ NothingYet(t)
  BY <1>1, <1>2, <1>3, <1>4, <1>5 DEF Passed, OpenHasFile, NothingYet
<1> QED BY <1>1, <1>3, <1>6 DEF t

\* What the writer takes for writeable, it has open.
Known(s) == s.writer.writeability = "writeable" /\ s.disk.named # Plainly!NoFile =>
              s.writer.isOpen /\ s.writer.fd = s.disk.named

\* What the access check does to s.
Accessed(s, t) ==
  /\ Passed(s, t) /\ OpenHasFile(t.writer) /\ NothingYet(t)
  /\ Known(s) => Known(t)
  /\ t.disk.named # s.disk.named => Reached(t)
  /\ Known(s) /\ s.opening = "opened" /\ t.disk.permitted /\ t.writer.writeability # "none" =>
       t.writer.isOpen /\ t.writer.fd = t.disk.named

\* Nothing has the name.
LEMMA CheckMissingFacts ==
  ASSUME NEW s \in Calls, InOrderly(s), OpenHasFile(s.writer), NothingYet(s),
         s.disk.named = Plainly!NoFile
  PROVE  Accessed(s, Plainly!CheckMissing(s))
<1> DEFINE t == Plainly!Open(s)
           noted == [t EXCEPT !.writer.writeability = "non_existent"]
<1>1. /\ Passed(s, t) /\ OpenHasFile(t.writer) /\ NothingYet(t)
      /\ \/ t = s
         \/ ~t.writer.isOpen /\ t.disk = s.disk
         \/ Reached(t)
      /\ s.opening = "opened" => Reached(t)
  BY OpenFacts
<1>2. Plainly!CheckMissing(s) = IF t.writer.isOpen THEN t ELSE noted
  BY DEF Plainly!CheckMissing
<1> HIDE DEF t
<1>3. CASE t.writer.isOpen
  <2>1. Accessed(s, t)
    BY <1>1, <1>3 DEF Accessed, Known, Reached
  <2> QED BY <1>2, <1>3, <2>1
<1>4. CASE ~t.writer.isOpen
  <2>1. t \in Calls /\ InOrderly(t)
    BY <1>1 DEF Passed
  <2>2. /\ Passed(t, noted) /\ OpenHasFile(noted.writer) /\ NothingYet(noted)
        /\ noted.disk = t.disk /\ noted.writer.writeability = "non_existent"
    BY <1>1, <2>1, NotedFacts
  <2> HIDE DEF noted
  <2>3. Passed(s, noted)
    BY <1>1, <2>2, PassedOn
  <2>4. t.disk = s.disk /\ s.opening # "opened"
    BY <1>1, <1>4 DEF Reached
  <2>5. Accessed(s, noted)
    BY <2>2, <2>3, <2>4 DEF Accessed, Known
  <2> QED BY <1>2, <1>4, <2>5
<1> QED BY <1>3, <1>4

\* The file may not be written.
LEMMA CheckForbiddenFacts ==
  ASSUME NEW s \in Calls, InOrderly(s), OpenHasFile(s.writer), NothingYet(s), ~s.disk.permitted
  PROVE  Accessed(s, Plainly!CheckForbidden(s))
<1> DEFINE t == IF s.writer.writeability = "non_writeable" THEN s ELSE Plainly!Shut(s)
           noted == [t EXCEPT !.writer.writeability = "non_writeable"]
<1>1. Plainly!CheckForbidden(s) = IF s.writer.writeability = "none" THEN s ELSE noted
  BY DEF Plainly!CheckForbidden
<1>2. Passed(s, s)
  BY DEF Passed
<1>3. CASE s.writer.writeability = "none"
  <2>1. Accessed(s, s)
    BY <1>2, <1>3 DEF Accessed
  <2> QED BY <1>1, <1>3, <2>1
<1>4. CASE s.writer.writeability # "none"
  <2>1. /\ Passed(s, t) /\ OpenHasFile(t.writer) /\ NothingYet(t)
        /\ t.disk.named = s.disk.named /\ t.disk.permitted = s.disk.permitted
    BY <1>2, ShutFacts
  <2> HIDE DEF t
  <2>2. t \in Calls /\ InOrderly(t)
    BY <2>1 DEF Passed
  <2>3. /\ Passed(t, noted) /\ OpenHasFile(noted.writer) /\ NothingYet(noted)
        /\ noted.disk = t.disk /\ noted.writer.writeability = "non_writeable"
    BY <2>1, <2>2, NotedFacts
  <2> HIDE DEF noted
  <2>4. Passed(s, noted)
    BY <2>1, <2>3, PassedOn
  <2>5. Accessed(s, noted)
    BY <2>1, <2>3, <2>4 DEF Accessed, Known
  <2> QED BY <1>1, <1>4, <2>5
<1> QED BY <1>3, <1>4

\* The file may be written.
LEMMA CheckWriteableFacts ==
  ASSUME NEW s \in Calls, InOrderly(s), OpenHasFile(s.writer), NothingYet(s),
         s.disk.named # Plainly!NoFile, s.disk.permitted
  PROVE  Accessed(s, Plainly!CheckWriteable(s))
<1> DEFINE shut == Plainly!Shut(s)
           t == Plainly!Open(shut)
           noted == [t EXCEPT !.writer.writeability = "non_writeable"]
<1>1. Plainly!CheckWriteable(s)
        = IF s.writer.writeability \in {"none", "writeable"} THEN s
          ELSE IF t.writer.isOpen THEN t ELSE noted
  BY DEF Plainly!CheckWriteable
<1>2. CASE s.writer.writeability \in {"none", "writeable"}
  <2>1. Passed(s, s)
    BY DEF Passed
  <2>2. Accessed(s, s)
    BY <1>2, <2>1 DEF Accessed, Known
  <2> QED BY <1>1, <1>2, <2>2
<1>3. CASE s.writer.writeability \notin {"none", "writeable"}
  <2>1. /\ Passed(s, shut) /\ OpenHasFile(shut.writer) /\ NothingYet(shut)
        /\ shut.disk.named = s.disk.named /\ shut.disk.permitted = s.disk.permitted
    BY ShutFacts
  <2> HIDE DEF shut
  <2>2. shut \in Calls /\ InOrderly(shut) /\ shut.opening = s.opening
    BY <2>1 DEF Passed
  <2>3. /\ Passed(shut, t) /\ OpenHasFile(t.writer) /\ NothingYet(t)
        /\ \/ ~t.writer.isOpen /\ t.disk = shut.disk
           \/ Reached(t)
        /\ s.opening = "opened" => Reached(t)
    BY <2>1, <2>2, OpenFacts
  <2> HIDE DEF t
  <2>4. Passed(s, t)
    BY <2>1, <2>3, PassedOn
  <2>5. CASE t.writer.isOpen
    <3>1. Accessed(s, t)
      BY <2>3, <2>4, <2>5 DEF Accessed, Known, Reached
    <3> QED BY <1>1, <1>3, <2>5, <3>1
  <2>6. CASE ~t.writer.isOpen
    <3>1. t \in Calls /\ InOrderly(t)
      BY <2>3 DEF Passed
    <3>2. /\ Passed(t, noted) /\ OpenHasFile(noted.writer) /\ NothingYet(noted)
          /\ noted.disk = t.disk /\ noted.writer.writeability = "non_writeable"
      BY <2>3, <3>1, NotedFacts
    <3> HIDE DEF noted
    <3>3. Passed(s, noted)
      BY <2>4, <3>2, PassedOn
    <3>4. t.disk.named = s.disk.named /\ s.opening # "opened"
      BY <2>1, <2>3, <2>6 DEF Reached
    <3>5. Accessed(s, noted)
      BY <3>2, <3>3, <3>4 DEF Accessed, Known
    <3> QED BY <1>1, <1>3, <2>6, <3>5
  <2> QED BY <2>5, <2>6
<1> QED BY <1>2, <1>3

\* ensure_access is one of these three.
LEMMA EnsureAccessFacts ==
  ASSUME NEW s \in Calls, InOrderly(s), OpenHasFile(s.writer), NothingYet(s)
  PROVE  Accessed(s, Plainly!EnsureAccess(s))
<1>1. CASE s.disk.named = Plainly!NoFile
  BY <1>1, CheckMissingFacts DEF Plainly!EnsureAccess
<1>2. CASE s.disk.named # Plainly!NoFile /\ ~s.disk.permitted
  BY <1>2, CheckForbiddenFacts DEF Plainly!EnsureAccess
<1>3. CASE s.disk.named # Plainly!NoFile /\ s.disk.permitted
  BY <1>3, CheckWriteableFacts DEF Plainly!EnsureAccess
<1> QED BY <1>1, <1>2, <1>3

-----------------------------------------------------------------------------
(* The invariant.                                                          *)

At(d, w) == [disk |-> d, writer |-> w]

\* Everything is in its place, and of no event after n.
IsSound(s, n) ==
  /\ s.disk \in FileDisks /\ s.writer \in FileWriters
  /\ InOrderly(s) /\ OpenHasFile(s.writer) /\ NothingYet(s)
  /\ AllBefore(s, n + 1)

\* Of each event there is all or nothing.
IsWhole(s, parts) ==
  \A p : There(p, s) /\ p.event # 0 =>
    \A k \in 1 .. parts[p.event] : There([event |-> p.event, piece |-> k], s)

FileInv ==
  /\ fileEvent \in Nat /\ sizes \in Seq(Nat) /\ Len(sizes) = fileEvent
  /\ IsSound(At(fileDisk, fileWriter), fileEvent)
  /\ ~spoiled => IsWhole(At(fileDisk, fileWriter), sizes)
  /\ foreign \in BOOLEAN /\ (~foreign => Known(At(fileDisk, fileWriter)))
  /\ CheckRestores

\* A sequence of one entry.
LEMMA OneEntry ==
  ASSUME NEW S, NEW w \in [1 .. 1 -> S]
  PROVE  w \in Seq(S)
<1>1. w[1] \in S
  OBVIOUS
<1>2. w = [i \in 1 .. 1 |-> w[1]]
  OBVIOUS
<1>3. <<w[1]>> = [i \in 1 .. 1 |-> w[1]]
  OBVIOUS
<1>4. <<w[1]>> \in Seq(S)
  BY <1>1
<1> QED BY <1>2, <1>3, <1>4, Zenon

\* What a call begins with, in terms of the variables.
LEMMA BegunFacts ==
  ASSUME FileInv, NEW opening \in Plainly!Openings, NEW writings \in Plainly!Writings
  PROVE  LET s == Plainly!Begun(opening, writings)
         IN  /\ s \in Calls /\ s.disk = fileDisk /\ s.writer = fileWriter /\ s.opening = opening
             /\ ~s.threw /\ ~s.discarded
             /\ InOrderly(s) /\ OpenHasFile(s.writer) /\ NothingYet(s)
             /\ AllBefore(s, fileEvent + 1)
             /\ \A p : There(p, s) <=> There(p, At(fileDisk, fileWriter))
             /\ Known(s) <=> Known(At(fileDisk, fileWriter))
<1> DEFINE s == Plainly!Begun(opening, writings)
           was == At(fileDisk, fileWriter)
<1>1. writings \in Seq({"all", "some", "error"})
  <2>1. CASE writings \in [1 .. 1 -> {"some", "error"}]
    <3>1. writings \in [1 .. 1 -> {"all", "some", "error"}]
      BY <2>1
    <3> QED BY <3>1, OneEntry
  <2>2. CASE writings \in {<<>>, <<"all", "some">>, <<"all", "error">>}
    <3> DEFINE kinds == {"all", "some", "error"}
    <3>1. "all" \in kinds /\ "some" \in kinds /\ "error" \in kinds
      OBVIOUS
    <3> HIDE DEF kinds
    <3>2. /\ <<>> \in Seq(kinds) /\ <<"all", "some">> \in Seq(kinds)
          /\ <<"all", "error">> \in Seq(kinds)
      BY <3>1
    <3> QED BY <2>2, <3>2 DEF kinds
  <2> QED BY <2>1, <2>2 DEF Plainly!Writings
<1>2. /\ s.disk = fileDisk /\ s.writer = fileWriter /\ s.opening = opening
      /\ s.threw = FALSE /\ s.discarded = FALSE /\ s.writings = writings
      /\ was.disk = fileDisk /\ was.writer = fileWriter
      /\ s = [disk |-> s.disk, writer |-> s.writer, opening |-> s.opening,
              writings |-> s.writings, threw |-> s.threw, discarded |-> s.discarded]
  BY DEF Plainly!Begun, At
<1> HIDE DEF s, was
<1>3. IsSound(was, fileEvent)
  BY DEF FileInv, was
<1>4. s \in Calls
  BY <1>1, <1>2, <1>3 DEF IsSound, Calls
<1>5. \A p : There(p, s) <=> There(p, was)
  BY <1>2 DEF There
<1>6. InOrderly(s) /\ OpenHasFile(s.writer)
  BY <1>2, <1>3 DEF IsSound, InOrderly
<1>7. NothingYet(s) /\ AllBefore(s, fileEvent + 1)
  BY <1>2, <1>3, <1>5 DEF IsSound, NothingYet, AllBefore
<1>8. Known(s) <=> Known(was)
  BY <1>2 DEF Known
<1> QED BY <1>2, <1>4, <1>5, <1>6, <1>7, <1>8 DEF s, was

\* Only pieces are there.
LEMMA ThereArePieces ==
  ASSUME NEW s, s.disk \in FileDisks, s.writer \in FileWriters, NEW p, There(p, s)
  PROVE  p \in Pieces /\ p.event \in Nat
<1>1. s.disk.files \in Seq(Seq(Pieces)) /\ s.writer.buffer \in Seq(Pieces)
  BY DEF FileDisks, FileWriters
<1>2. p \in Pieces
  <2>1. CASE IsIn(s.writer.buffer, p)
    BY <1>1, <2>1 DEF IsIn
  <2>2. ASSUME NEW i \in DOMAIN s.disk.files, IsIn(s.disk.files[i], p)
        PROVE  p \in Pieces
    <3>1. s.disk.files[i] \in Seq(Pieces)
      BY <1>1
    <3> QED BY <2>2, <3>1 DEF IsIn
  <2> QED BY <2>1, <2>2 DEF There, IsThere
<1> QED BY <1>2 DEF Pieces

\* An event is written, or dropped, after the check or without it.
LEMMA FileWriteStep ==
  ASSUME FileInv, Plainly!BufferAssumption,
         NEW size \in Sizes, NEW opening \in Plainly!Openings, NEW writings \in Plainly!Writings,
         Plainly!Write(size, opening, writings)
  PROVE  FileInv'
<1> DEFINE s == Plainly!Begun(opening, writings)
           a == IF due THEN Plainly!EnsureAccess(s) ELSE s
           n == fileEvent + 1
           t == IF a.writer.isOpen THEN Plainly!WritePieces(a, n, size) ELSE a
           was == At(fileDisk, fileWriter)
           is == At(fileDisk', fileWriter')
<1>1. /\ s \in Calls /\ s.disk = fileDisk /\ s.writer = fileWriter /\ s.opening = opening
      /\ ~s.threw /\ ~s.discarded
      /\ InOrderly(s) /\ OpenHasFile(s.writer) /\ NothingYet(s) /\ AllBefore(s, n)
      /\ \A p : There(p, s) <=> There(p, was)
      /\ Known(s) <=> Known(was)
  BY BegunFacts
<1>2. /\ fileEvent' = n /\ sizes' = Append(sizes, size)
      /\ fileDisk' = t.disk /\ fileWriter' = t.writer
      /\ spoiled' = (spoiled \/ t.threw \/ t.discarded \/ "error" \in Plainly!ToSet(writings))
      /\ foreign' = (foreign /\ a.disk.named = fileDisk.named)
      /\ checked' = IF due THEN opening = "opened" /\ a.disk.permitted ELSE checked
  BY DEF Plainly!Write, Plainly!Leave
<1>3. /\ n \in Nat /\ size \in Nat /\ fileEvent \in Nat /\ sizes \in Seq(Nat)
      /\ Len(sizes) = fileEvent /\ foreign \in BOOLEAN
  BY DEF FileInv, Plainly!BufferAssumption
<1> HIDE DEF s, was
<1>4. /\ Passed(s, a) /\ OpenHasFile(a.writer) /\ NothingYet(a)
      /\ Known(s) => Known(a)
      /\ a.disk.named # s.disk.named => Reached(a)
      /\ ~due => a = s
      /\ due /\ Known(s) /\ opening = "opened" /\ a.disk.permitted
             /\ a.writer.writeability # "none" =>
           a.writer.isOpen /\ a.writer.fd = a.disk.named
  <2>1. CASE due
    <3>1. Accessed(s, a)
      BY <1>1, <2>1, EnsureAccessFacts
    <3> HIDE DEF a
    <3> QED BY <1>1, <2>1, <3>1 DEF Accessed
  <2>2. CASE ~due
    <3>1. a = s /\ Passed(s, s)
      BY <1>1, <2>2 DEF Passed
    <3> HIDE DEF a
    <3> QED BY <1>1, <2>2, <3>1
  <2> QED BY <2>1, <2>2
<1> HIDE DEF a
<1>5. a \in Calls /\ InOrderly(a) /\ ~a.threw /\ AllBefore(a, n)
  BY <1>1, <1>4 DEF Passed, AllBefore
<1>6. /\ t \in Calls /\ InOrderly(t) /\ SameFile(a, t)
      /\ \A p : There(p, a) => There(p, t)
      /\ \A p : There(p, t) => \/ There(p, a)
                               \/ /\ a.writer.isOpen /\ p.event = n
                                  /\ ~t.threw =>
                                       \A k \in 1 .. size : There([event |-> n, piece |-> k], t)
  <2>1. CASE a.writer.isOpen
    <3>1. Added(a, t, n, size)
      BY <1>3, <1>4, <1>5, <2>1, WritePiecesFacts DEF OpenHasFile
    <3> HIDE DEF t
    <3> QED BY <2>1, <3>1 DEF Added
  <2>2. CASE ~a.writer.isOpen
    <3>1. t = a
      BY <2>2
    <3> HIDE DEF t
    <3> QED BY <1>5, <3>1 DEF SameFile
  <2> QED BY <2>1, <2>2
<1> HIDE DEF t, n
<1>7. is.disk = t.disk /\ is.writer = t.writer
  BY <1>2 DEF At
<1> HIDE DEF is
<1>8. \A p : There(p, is) <=> There(p, t)
  BY <1>7 DEF There
<1>9. IsSound(is, n)
  <2>1. is.disk \in FileDisks /\ is.writer \in FileWriters
    BY <1>6, <1>7 DEF Calls
  <2>2. InOrderly(is)
    BY <1>6, <1>7 DEF InOrderly
  <2>3. OpenHasFile(is.writer)
    BY <1>4, <1>6, <1>7 DEF OpenHasFile, SameFile
  <2>4. NothingYet(is)
    BY <1>4, <1>6, <1>7, <1>8 DEF NothingYet, OpenHasFile, SameFile
  <2>5. AllBefore(is, n + 1)
    <3> SUFFICES ASSUME NEW p, There(p, is) PROVE p.event < n + 1
      BY DEF AllBefore
    <3>1. p.event < n \/ p.event = n
      BY <1>5, <1>6, <1>8 DEF AllBefore
    <3>2. p.event \in Nat
      BY <2>1, ThereArePieces
    <3> QED BY <1>3, <3>1, <3>2
  <2> QED BY <2>1, <2>2, <2>3, <2>4, <2>5 DEF IsSound
<1>10. ASSUME ~spoiled' PROVE IsWhole(is, sizes')
  <2>1. ~spoiled /\ ~t.threw
    BY <1>2, <1>10
  <2>2. IsWhole(was, sizes)
    BY <2>1 DEF FileInv, was
  <2> SUFFICES ASSUME NEW p, There(p, is), p.event # 0, NEW k \in 1 .. sizes'[p.event]
               PROVE  There([event |-> p.event, piece |-> k], is)
    BY DEF IsWhole
  <2>3. CASE There(p, a)
    <3>1. There(p, was)
      BY <1>1, <1>4, <2>3 DEF Passed
    <3>2. sizes'[p.event] = sizes[p.event]
      <4>1. p.event \in Nat /\ p.event < n
        BY <1>5, <2>3, ThereArePieces DEF AllBefore, Calls
      <4> QED BY <1>2, <1>3, <4>1 DEF n
    <3>3. There([event |-> p.event, piece |-> k], was)
      BY <2>2, <3>1, <3>2 DEF IsWhole
    <3>4. There([event |-> p.event, piece |-> k], a)
      BY <1>1, <1>4, <3>3 DEF Passed
    <3> QED BY <1>6, <1>8, <3>4
  <2>4. CASE ~There(p, a)
    <3>1. p.event = n /\ \A i \in 1 .. size : There([event |-> n, piece |-> i], t)
      BY <1>6, <1>8, <2>1, <2>4
    <3>2. sizes'[n] = size
      BY <1>2, <1>3 DEF n
    <3> QED BY <1>8, <3>1, <3>2
  <2> QED BY <2>3, <2>4
<1>11. foreign' \in BOOLEAN
  BY <1>2
<1>12. ~foreign' => Known(a)
  BY <1>1, <1>2, <1>4 DEF FileInv, Known, Reached, was
<1>13. ~foreign' => Known(is)
  BY <1>6, <1>7, <1>12 DEF Known, SameFile
<1>14. CheckRestores'
  <2> SUFFICES ASSUME checked', ~foreign', is.writer.writeability # "none"
               PROVE  is.writer.isOpen /\ is.writer.fd = is.disk.named
    BY <1>2, <1>7 DEF CheckRestores, Plainly!CheckRestores
  <2>1. a.writer.writeability # "none"
    BY <1>6, <1>7 DEF SameFile
  <2>2. a.writer.isOpen /\ a.writer.fd = a.disk.named
    <3>1. CASE a.disk.named # s.disk.named
      BY <1>4, <3>1 DEF Reached
    <3>2. CASE a.disk.named = s.disk.named
      <4>1. ~foreign /\ Known(s)
        BY <1>1, <1>2, <1>3, <3>2 DEF FileInv, was
      <4>2. CASE due
        BY <1>2, <1>4, <2>1, <4>1, <4>2
      <4>3. CASE ~due
        BY <1>1, <1>2, <1>4, <2>1, <4>1, <4>3 DEF FileInv, CheckRestores, Plainly!CheckRestores
      <4> QED BY <4>2, <4>3
    <3> QED BY <3>1, <3>2
  <2> QED BY <1>6, <1>7, <2>2 DEF SameFile
<1>15. fileEvent' \in Nat /\ sizes' \in Seq(Nat) /\ Len(sizes') = fileEvent'
  BY <1>2, <1>3 DEF n
<1> QED BY <1>2, <1>9, <1>10, <1>11, <1>13, <1>14, <1>15 DEF FileInv, is

\* The buffer is flushed, or given up for want of a file.
LEMMA FileFlushStep ==
  ASSUME FileInv, NEW writings \in Plainly!Writings, Plainly!FlushWriter(writings)
  PROVE  FileInv'
<1> DEFINE s == Plainly!Begun("opened", writings)
           t == Plainly!Flush(s)
           was == At(fileDisk, fileWriter)
           is == At(fileDisk', fileWriter')
<1>1. /\ s \in Calls /\ s.disk = fileDisk /\ s.writer = fileWriter
      /\ ~s.discarded
      /\ InOrderly(s) /\ OpenHasFile(s.writer) /\ NothingYet(s) /\ AllBefore(s, fileEvent + 1)
      /\ \A p : There(p, s) <=> There(p, was)
      /\ Known(s) <=> Known(was)
  <2>1. "opened" \in Plainly!Openings
    BY DEF Plainly!Openings
  <2> QED BY <2>1, BegunFacts
<1>2. /\ fileDisk' = t.disk /\ fileWriter' = t.writer
      /\ spoiled' = (spoiled \/ t.threw \/ t.discarded \/ "error" \in Plainly!ToSet(writings))
      /\ fileEvent' = fileEvent /\ sizes' = sizes /\ foreign' = foreign /\ checked' = checked
  BY DEF Plainly!FlushWriter, Plainly!Leave
<1>3. is.disk = t.disk /\ is.writer = t.writer
  BY <1>2 DEF At
<1>4. Flushed(s, t)
  BY <1>1, FlushFacts
<1> HIDE DEF s, t, was, is
<1>5. \A p : There(p, is) <=> There(p, t)
  BY <1>3 DEF There
<1>6. IsSound(is, fileEvent)
  <2>1. is.disk \in FileDisks /\ is.writer \in FileWriters
    BY <1>3, <1>4 DEF Flushed, Calls
  <2>2. InOrderly(is)
    BY <1>3, <1>4 DEF Flushed, InOrderly
  <2>3. OpenHasFile(is.writer)
    BY <1>1, <1>3, <1>4 DEF Flushed, OpenHasFile, SameFile
  <2>4. NothingYet(is) /\ AllBefore(is, fileEvent + 1)
    BY <1>1, <1>3, <1>4, <1>5 DEF Flushed, NothingYet, AllBefore, SameFile
  <2> QED BY <2>1, <2>2, <2>3, <2>4 DEF IsSound
<1>7. ASSUME ~spoiled' PROVE IsWhole(is, sizes)
  <2>1. IsWhole(was, sizes)
    BY <1>2, <1>7 DEF FileInv, was
  <2>2. \A p : There(p, is) <=> There(p, was)
    BY <1>1, <1>2, <1>4, <1>5, <1>7 DEF Flushed
  <2> QED BY <2>1, <2>2 DEF IsWhole
<1>8. ~foreign' => Known(is)
  <2>1. Known(was) => Known(is)
    BY <1>1, <1>3, <1>4 DEF Flushed, SameFile, Known
  <2> QED BY <1>2, <2>1 DEF FileInv, was
<1>9. CheckRestores'
  BY <1>1, <1>2, <1>4 DEF FileInv, CheckRestores, Plainly!CheckRestores, Flushed, SameFile
<1> QED BY <1>2, <1>6, <1>7, <1>8, <1>9 DEF FileInv, is

\* What others do leaves the writer alone and at most makes an empty file.
LEMMA FileChangeStep ==
  ASSUME FileInv, Plainly!RemoveFile \/ Plainly!MakeAnew \/ Plainly!ChangePermission
  PROVE  FileInv'
<1> DEFINE was == At(fileDisk, fileWriter)
           is == At(fileDisk', fileWriter')
<1>1. /\ fileWriter' = fileWriter /\ fileEvent' = fileEvent /\ sizes' = sizes
      /\ spoiled' = spoiled /\ checked' = FALSE /\ foreign' \in BOOLEAN
  BY DEF FileInv, Plainly!RemoveFile, Plainly!MakeAnew, Plainly!ChangePermission, Plainly!Change
<1>2. /\ is.disk = fileDisk' /\ was.disk = fileDisk /\ is.writer = fileWriter
      /\ was.writer = fileWriter
  BY <1>1 DEF At
<1> HIDE DEF was, is
<1>3. IsSound(was, fileEvent)
  BY DEF FileInv, was
<1> DEFINE fs == fileDisk.files
           gs == fileDisk'.files
           buffer == fileWriter.buffer
<1>4. /\ fs \in Seq(Seq(Pieces)) /\ fileDisk.named <= Len(fs) /\ fileDisk.named \in Nat
      /\ fileDisk.permitted \in BOOLEAN
      /\ Len(fs) \in Nat /\ AllTidy(fs, buffer) /\ fileWriter.fd <= Len(fs)
      /\ fileWriter \in FileWriters /\ fileWriter.fd \in Nat
  BY <1>2, <1>3 DEF IsSound, FileDisks, FileWriters, InOrderly, Linked
<1>5. /\ fileDisk' \in FileDisks /\ fileDisk'.named <= Len(gs) /\ fileWriter.fd <= Len(gs)
      /\ AllTidy(gs, buffer)
      /\ \A p : IsThere(p, gs, buffer) <=> IsThere(p, fs, buffer)
      /\ \/ fileDisk'.named = Plainly!NoFile \/ foreign'
         \/ fileDisk'.named = fileDisk.named /\ foreign' = foreign
  <2>1. CASE Plainly!RemoveFile
    <3>1. fileDisk' = [fileDisk EXCEPT !.named = Plainly!NoFile]
      BY <2>1 DEF Plainly!RemoveFile, Plainly!Change
    <3>2. /\ fileDisk' \in FileDisks /\ gs = fs /\ fileDisk'.named = Plainly!NoFile
          /\ Plainly!NoFile <= Len(fs)
      BY <1>2, <1>3, <1>4, <3>1 DEF IsSound, FileDisks, Plainly!NoFile
    <3> HIDE DEF fs, gs
    <3> QED BY <1>4, <3>2
  <2>2. CASE Plainly!MakeAnew
    <3> DEFINE more == Append(fs, <<>>)
               next == Len(fs) + 1
    <3>1. /\ more \in Seq(Seq(Pieces)) /\ Len(more) = next
          /\ AllTidy(more, buffer)
          /\ \A p : IsThere(p, more, buffer) <=> IsThere(p, fs, buffer)
      BY <1>4, TidyWhenMade
    <3>2. next \in Nat /\ next >= Len(fs)
      BY <1>4
    <3>3. fileDisk' = [files |-> more, named |-> next, permitted |-> TRUE] /\ foreign'
      BY <2>2 DEF Plainly!MakeAnew, Plainly!Change
    <3> HIDE DEF more, next
    <3>4. fileDisk' \in FileDisks /\ gs = more /\ fileDisk'.named = next
      BY <3>1, <3>2, <3>3 DEF FileDisks
    <3>5. next <= next /\ fileWriter.fd <= next
      BY <1>4, <3>2
    <3> HIDE DEF fs, gs
    <3> QED BY <3>1, <3>3, <3>4, <3>5
  <2>3. CASE Plainly!ChangePermission
    <3>1. fileDisk' = [fileDisk EXCEPT !.permitted = ~@] /\ foreign' = foreign
      BY <2>3 DEF Plainly!ChangePermission, Plainly!Change
    <3> DEFINE p == ~fileDisk.permitted
    <3>2. p \in BOOLEAN
      BY <1>4
    <3>3. fileDisk' = [fileDisk EXCEPT !.permitted = p]
      BY <3>1
    <3> HIDE DEF p
    <3>4. fileDisk' \in FileDisks /\ gs = fs /\ fileDisk'.named = fileDisk.named
      BY <1>2, <1>3, <3>2, <3>3 DEF IsSound, FileDisks
    <3> HIDE DEF fs, gs
    <3> QED BY <1>4, <3>1, <3>4
  <2> QED BY <2>1, <2>2, <2>3
<1> HIDE DEF fs, gs, buffer
<1>6. \A p : There(p, is) <=> There(p, was)
  BY <1>2, <1>5 DEF There, fs, gs, buffer
<1>7. InOrderly(is)
  BY <1>2, <1>5 DEF InOrderly, Linked, gs, buffer
<1>8. IsSound(is, fileEvent)
  BY <1>2, <1>3, <1>5, <1>6, <1>7 DEF IsSound, NothingYet, AllBefore
<1>9. IsWhole(was, sizes) => IsWhole(is, sizes)
  BY <1>6 DEF IsWhole
<1>10. ~foreign' => Known(is)
  BY <1>2, <1>5 DEF FileInv, Known, was
<1>11. CheckRestores'
  BY <1>1 DEF CheckRestores, Plainly!CheckRestores
<1> QED BY <1>1, <1>8, <1>9, <1>10, <1>11 DEF FileInv, was, is

\* The constructor has opened the file or has not, and nothing is logged yet.
LEMMA FileInitially == Plainly!Init => FileInv
<1> SUFFICES ASSUME Plainly!Init PROVE FileInv
  OBVIOUS
<1>1. PICK d \in Plainly!Disks, opening \in {"opened", "not_opened"} :
        LET s == Plainly!Open([disk |-> d, writer |-> Plainly!NewWriter, opening |-> opening])
        IN  fileDisk = s.disk /\ fileWriter = s.writer
  BY DEF Plainly!Init
<1>2. /\ fileEvent = 0 /\ sizes = <<>> /\ foreign = FALSE /\ checked = FALSE
  BY DEF Plainly!Init
<1> DEFINE w == Plainly!NewWriter
           s == [disk |-> d, writer |-> w, opening |-> opening]
           o == Plainly!Opened(s)
           v == [w EXCEPT !.fd = o.named, !.isOpen = TRUE, !.wasOpened = TRUE,
                          !.writeability = "writeable"]
           is == At(fileDisk, fileWriter)
<1>3. /\ w \in FileWriters /\ w.fd = 0 /\ w.buffer = <<>> /\ ~w.isOpen /\ ~w.wasOpened
      /\ w.writeability = "none"
  <2>1. <<>> \in Seq(Pieces)
    OBVIOUS
  <2> QED BY <2>1 DEF FileWriters, Plainly!NewWriter, Plainly!NoFile
<1>4. d \in FileDisks /\ Linked(d, w) /\ AllTidy(d.files, <<>>)
      /\ \A p : IsThere(p, d.files, <<>>) => p.event = 0
  <2> DEFINE old == [event |-> 0, piece |-> 1]
  <2>1. /\ old \in Pieces /\ <<old>> \in Seq(Pieces) /\ <<<<old>>>> \in Seq(Seq(Pieces))
        /\ Plainly!Old = <<old>> /\ old.event = 0
    BY DEF Pieces, Plainly!Old
  <2> HIDE DEF old
  <2>2. CASE d = [files |-> <<>>, named |-> Plainly!NoFile, permitted |-> TRUE]
    <3>1. d.files = <<>> /\ d.named = 0 /\ Len(d.files) = 0 /\ DOMAIN d.files = {}
      BY <2>2 DEF Plainly!NoFile
    <3>2. d \in FileDisks
      BY <2>2 DEF FileDisks, Plainly!NoFile
    <3>3. DOMAIN <<>> = {}
      OBVIOUS
    <3>4. AllTidy(d.files, <<>>) /\ \A p : ~IsThere(p, d.files, <<>>)
      BY <3>1, <3>3 DEF AllTidy, FilesTidy, Plainly!Follow, IsThere, IsIn
    <3> QED BY <1>3, <3>1, <3>2, <3>4 DEF Linked
  <2>3. CASE d \in [files : {<<Plainly!Old>>}, named : {1}, permitted : BOOLEAN]
    <3> DEFINE one == <<<<old>>>>
    <3>1. one \in Seq(Seq(Pieces)) /\ Len(one) = 1 /\ DOMAIN one = {1} /\ one[1] = <<old>>
      BY <2>1
    <3>2. /\ DOMAIN <<old>> = {1} /\ <<old>>[1] = old /\ DOMAIN <<>> = {}
          /\ Plainly!Old = <<old>>
      BY <2>1
    <3>3. <<Plainly!Old>> = one
      BY <3>2
    <3> HIDE DEF one
    <3>4. d.files = one /\ d.named = 1 /\ d \in FileDisks
      BY <2>3, <3>1, <3>3 DEF FileDisks
    <3>5. AllTidy(d.files, <<>>) /\ \A p : IsThere(p, d.files, <<>>) => p = old
      BY <3>1, <3>2, <3>4 DEF AllTidy, FilesTidy, Plainly!Follow, Precede, IsThere, IsIn
    <3>6. d.named <= Len(d.files) /\ w.fd <= Len(d.files)
      <4>1. Len(d.files) = 1
        BY <3>1, <3>4, Zenon
      <4>2. d.named = 1 /\ w.fd = 0
        BY <1>3, <3>4
      <4> QED BY <4>1, <4>2
    <3> QED BY <2>1, <3>4, <3>5, <3>6 DEF Linked
  <2> QED BY <2>2, <2>3 DEF Plainly!Disks
<1>5. /\ s.disk = d /\ s.writer = w /\ s.opening = opening
      /\ InOrderly(s) /\ \A p : There(p, s) => p.event = 0
  BY <1>3, <1>4 DEF InOrderly, There
<1>6. /\ o \in FileDisks /\ o.named # Plainly!NoFile
      /\ o.named <= Len(o.files) /\ AllTidy(o.files, <<>>)
      /\ \A p : IsThere(p, o.files, <<>>) => p.event = 0
  BY <1>3, <1>4, <1>5, FileOpenedFacts
<1>7. \/ fileDisk = d /\ fileWriter = [w EXCEPT !.isOpen = FALSE]
      \/ fileDisk = o /\ fileWriter = v
  BY <1>1 DEF Plainly!Open
<1> HIDE DEF w, s, o
<1>8. v \in FileWriters /\ v.fd = o.named /\ v.isOpen /\ v.wasOpened /\ v.buffer = <<>>
  BY <1>3, <1>6 DEF FileWriters, FileDisks
<1>9. is.disk = fileDisk /\ is.writer = fileWriter
  BY DEF At
<1> HIDE DEF v, is
<1>10. /\ IsSound(is, 0) /\ Known(is) /\ \A p : There(p, is) => p.event = 0
  <2>1. CASE fileDisk = d /\ fileWriter = [w EXCEPT !.isOpen = FALSE]
    <3>1. /\ fileWriter \in FileWriters /\ fileWriter.fd = 0 /\ fileWriter.buffer = <<>>
          /\ ~fileWriter.isOpen /\ ~fileWriter.wasOpened /\ fileWriter.writeability = "none"
      BY <1>3, <2>1, WithoutOpen
    <3>2. \A p : There(p, is) => p.event = 0
      BY <1>4, <1>9, <2>1, <3>1 DEF There
    <3>3. InOrderly(is)
      BY <1>3, <1>4, <1>9, <2>1, <3>1 DEF InOrderly, Linked
    <3>4. OpenHasFile(is.writer) /\ NothingYet(is) /\ AllBefore(is, 1) /\ Known(is)
      BY <1>9, <3>1, <3>2 DEF OpenHasFile, NothingYet, AllBefore, Known, Plainly!NoFile
    <3> QED BY <1>4, <1>9, <2>1, <3>1, <3>2, <3>3, <3>4 DEF IsSound
  <2>2. CASE fileDisk = o /\ fileWriter = v
    <3>1. \A p : There(p, is) => p.event = 0
      BY <1>6, <1>8, <1>9, <2>2 DEF There
    <3>2. InOrderly(is)
      BY <1>6, <1>8, <1>9, <2>2 DEF InOrderly, Linked
    <3>3. OpenHasFile(is.writer) /\ NothingYet(is) /\ AllBefore(is, 1) /\ Known(is)
      BY <1>6, <1>8, <1>9, <2>2, <3>1 DEF OpenHasFile, NothingYet, AllBefore, Known
    <3> QED BY <1>6, <1>8, <1>9, <2>2, <3>1, <3>2, <3>3 DEF IsSound
  <2> QED BY <1>7, <2>1, <2>2
<1>11. IsWhole(is, sizes)
  BY <1>10 DEF IsWhole
<1>12. CheckRestores
  BY <1>2 DEF CheckRestores, Plainly!CheckRestores
<1>13. sizes \in Seq(Nat) /\ Len(sizes) = fileEvent /\ fileEvent \in Nat /\ foreign \in BOOLEAN
  <2>1. <<>> \in Seq(Nat) /\ Len(<<>>) = 0
    OBVIOUS
  <2> QED BY <1>2, <2>1
<1> QED BY <1>2, <1>10, <1>11, <1>12, <1>13 DEF FileInv, is

\* The invariant of the file writer, whatever the rollers do.
LEMMA FileInvHolds == RollersSpec => []FileInv
<1> USE Assumptions DEF Assumptions
<1>1. RollersInit => FileInv
  BY FileInitially DEF RollersInit
<1>2. FileInv /\ [RollersNext]_<<roller, vars, sliding, time, plain>> => FileInv'
  <2> SUFFICES ASSUME FileInv, [RollersNext]_<<roller, vars, sliding, time, plain>>
               PROVE  FileInv'
    OBVIOUS
  <2>1. CASE \/ UNCHANGED plain
             \/ Plainly!TimePasses
    <3>1. /\ fileDisk' = fileDisk /\ fileWriter' = fileWriter /\ fileEvent' = fileEvent
          /\ sizes' = sizes /\ spoiled' = spoiled /\ foreign' = foreign /\ checked' = checked
      BY <2>1 DEF plain, Plainly!TimePasses
    <3> QED BY <3>1 DEF FileInv, CheckRestores, Plainly!CheckRestores
  <2>2. CASE \E size \in Sizes, opening \in Plainly!Openings, writings \in Plainly!Writings :
               Plainly!Write(size, opening, writings)
    BY <2>2, FileWriteStep
  <2>3. CASE \E writings \in Plainly!Writings : Plainly!FlushWriter(writings)
    BY <2>3, FileFlushStep
  <2>4. CASE Plainly!RemoveFile \/ Plainly!MakeAnew \/ Plainly!ChangePermission
    BY <2>4, FileChangeStep
  <2>5. Plainly!Next \/ UNCHANGED plain
    BY DEF RollersNext
  <2> QED BY <2>1, <2>2, <2>3, <2>4, <2>5 DEF Plainly!Next
<1> QED BY <1>1, <1>2, PTL DEF RollersSpec

\* What AllPieces collects.
LEMMA AllPiecesFacts == \A p : p \in Plainly!AllPieces
                                  <=> IsThere(p, fileDisk.files, fileWriter.buffer)
BY DEF Plainly!AllPieces, Plainly!ToSet, IsThere, IsIn

\* For any size of the buffer and of the events, any failures and any interventions of others:
\* the pieces in every file and in the buffer are in order, none of them is in two
\* places, and unless a write failed or a buffer was discarded no event is torn.
THEOREM FilesKeepTelling == RollersSpec => []FilesTellTheEvents
<1>1. FileInv => FilesTellTheEvents
  <2> SUFFICES ASSUME FileInv PROVE Plainly!FilesTellTheEvents
    BY DEF FilesTellTheEvents
  <2> DEFINE is == At(fileDisk, fileWriter)
             fs == fileDisk.files
             buffer == fileWriter.buffer
  <2>1. is.disk = fileDisk /\ is.writer = fileWriter
    BY DEF At
  <2>2. /\ fileDisk \in FileDisks /\ fileWriter \in FileWriters /\ AllTidy(fs, buffer)
        /\ fileWriter.fd <= Len(fs)
    BY <2>1 DEF FileInv, IsSound, InOrderly, Linked
  <2>3. /\ fs \in Seq(Seq(Pieces)) /\ buffer \in Seq(Pieces)
        /\ fileWriter.fd # Plainly!NoFile => fileWriter.fd \in DOMAIN fs
    BY <2>2 DEF FileDisks, FileWriters, Plainly!NoFile
  <2>4. Plainly!Follow(Plainly!Coming)
    <3>1. CASE fileWriter.fd = Plainly!NoFile
      BY <2>2, <3>1 DEF Plainly!Coming, AllTidy
    <3>2. CASE fileWriter.fd # Plainly!NoFile
      <4>1. /\ fs[fileWriter.fd] \in Seq(Pieces) /\ Plainly!Follow(fs[fileWriter.fd])
            /\ Precede(fs[fileWriter.fd], buffer) /\ Plainly!Follow(buffer)
        BY <2>2, <2>3, <3>2 DEF AllTidy, FilesTidy
      <4>2. Plainly!Follow(fs[fileWriter.fd] \o buffer)
        BY <2>3, <4>1, JoinedFollow
      <4> QED BY <3>2, <4>2 DEF Plainly!Coming
    <3> QED BY <3>1, <3>2
  <2>5. \A i \in DOMAIN fs : Plainly!Follow(fs[i])
    BY <2>2 DEF AllTidy, FilesTidy
  <2>6. ASSUME NEW i \in DOMAIN fs, NEW j \in DOMAIN fs, i # j
        PROVE  Plainly!ToSet(fs[i]) \cap Plainly!ToSet(fs[j]) = {}
    BY <2>2, <2>6 DEF AllTidy, FilesTidy, Plainly!ToSet
  <2>7. ASSUME ~spoiled, NEW p \in Plainly!AllPieces, p.event > 0, NEW k \in 1 .. sizes[p.event]
        PROVE  [event |-> p.event, piece |-> k] \in Plainly!AllPieces
    <3>1. There(p, is) /\ p.event # 0
      BY <2>1, <2>7, AllPiecesFacts DEF There
    <3>2. There([event |-> p.event, piece |-> k], is)
      BY <2>7, <3>1 DEF FileInv, IsWhole
    <3> QED BY <2>1, <3>2, AllPiecesFacts DEF There
  <2> QED BY <2>4, <2>5, <2>6, <2>7 DEF Plainly!FilesTellTheEvents
<1> QED BY <1>1, FileInvHolds, PTL

\* For the same, after an access check that could open what it tried to, events go to the
\* file that has the name, if no other process made it and the writer was open before.
THEOREM CheckKeepsRestoring == RollersSpec => []CheckRestores
<1>1. FileInv => CheckRestores
  BY DEF FileInv
<1> QED BY <1>1, FileInvHolds, PTL

-----------------------------------------------------------------------------
(* The time roller: the calendar.                                           *)

Units == {"day", "month"}

\* A period has a length.
LEMMA LengthFacts ==
  ASSUME NEW unit \in Units, NEW p \in Nat
  PROVE  Time!Length(unit, p) \in Nat \ {0}
<1> USE Assumptions DEF Assumptions, Time!CalendarAssumption
<1>1. CASE unit = "day"
  BY <1>1 DEF Time!Length
<1>2. CASE unit # "day"
  <2>1. Len(MonthLengths) \in Nat \ {0}
    OBVIOUS
  <2>2. p % Len(MonthLengths) \in 0 .. Len(MonthLengths) - 1
    BY <2>1
  <2>3. 1 + (p % Len(MonthLengths)) \in 1 .. Len(MonthLengths)
    BY <2>1, <2>2
  <2>4. MonthLengths[1 + (p % Len(MonthLengths))] \in Nat \ {0}
    BY <2>3
  <2> QED BY <1>2, <2>4 DEF Time!Length
<1> QED BY <1>1, <1>2

\* The recursive function of the beginnings exists: each is behind the one before.
LEMMA StartsFacts ==
  /\ \A unit \in Units : Time!Starts[0][unit] = 0
  /\ \A p \in 0 .. Horizon + 1, unit \in Units : Time!Starts[p][unit] \in Nat
  /\ \A p \in 1 .. Horizon + 1, unit \in Units :
       Time!Starts[p - 1][unit] < Time!Starts[p][unit]
<1> DEFINE N == Horizon + 1
           longer(p, x) == [unit \in Units |-> x[unit] + Time!Length(unit, p - 1)]
           none == [unit \in Units |-> 0]
           S == [p \in 0 .. N |-> [Units -> Nat]]
           onto == [p \in 1 .. N |-> [x \in [Units -> Nat] |-> longer(p, x)]]
           Is(f) == f = [p \in 0 .. Horizon + 1 |->
                           [unit \in {"day", "month"} |->
                              IF p = 0 THEN 0
                              ELSE f[p - 1][unit] + Time!Length(unit, p - 1)]]
           h == CHOOSE f : Is(f)
<1>1. Time!Starts = h
  BY Zenon DEF Time!Starts
<1>2. N \in Nat \ {0}
  BY Assumptions DEF Assumptions, Time!CalendarAssumption
<1>3. ASSUME NEW p \in 1 .. N, NEW x \in [Units -> Nat]
      PROVE  onto[p][x] = longer(p, x) /\ longer(p, x) \in [Units -> Nat]
  <2>1. p - 1 \in Nat
    BY <1>2
  <2>2. \A unit \in Units : x[unit] + Time!Length(unit, p - 1) \in Nat
    BY <2>1, LengthFacts
  <2> QED BY <2>2
<1> HIDE DEF onto
<1>4. PICK g : FoldsFrom(g, none, onto, N) /\ \A p \in 0 .. N : g[p] \in S[p]
  <2>1. none \in S[0]
    BY <1>2
  <2>2. \A p \in 1 .. N : \A x \in S[p - 1] : onto[p][x] \in S[p]
    <3>1. \A p \in 1 .. N : S[p - 1] = [Units -> Nat] /\ S[p] = [Units -> Nat]
      BY <1>2
    <3> HIDE DEF S, longer, N
    <3> QED BY <1>3, <3>1
  <2> HIDE DEF S, none, N
  <2> QED BY <1>2, <2>1, <2>2, FoldExists
<1>5. \A p \in 0 .. N : g[p] \in [Units -> Nat]
  BY <1>4
<1>6. Is(g)
  <2>1. g = [p \in 0 .. N |-> g[p]]
    BY <1>4 DEF FoldsFrom
  <2>2. ASSUME NEW p \in 0 .. N
        PROVE  g[p] = [unit \in Units |-> IF p = 0 THEN 0
                                          ELSE g[p - 1][unit] + Time!Length(unit, p - 1)]
    <3>1. g[p] = IF p = 0 THEN none ELSE onto[p][g[p - 1]]
      BY <1>4 DEF FoldsFrom
    <3>2. CASE p = 0
      BY <3>1, <3>2
    <3>3. CASE p # 0
      <4>1. p \in 1 .. N /\ p - 1 \in 0 .. N
        BY <1>2, <3>3
      <4>2. g[p] = longer(p, g[p - 1])
        BY <1>3, <1>5, <3>1, <3>3, <4>1
      <4> QED BY <3>3, <4>2
    <3> QED BY <3>2, <3>3
  <2> QED BY <2>1, <2>2 DEF Units
<1>7. Is(h)
  <2>1. \E f : Is(f)
    BY <1>6
  <2> HIDE DEF Is
  <2> QED BY <2>1, Zenon
<1> HIDE DEF h
<1>8. \A p \in 0 .. N : h[p] = [unit \in Units |-> IF p = 0 THEN 0
                                ELSE h[p - 1][unit] + Time!Length(unit, p - 1)]
  BY <1>7 DEF Units
<1>9. h[0] = none
  BY <1>2, <1>8
<1>10. \A p \in 1 .. N : h[p] = longer(p, h[p - 1])
  <2>1. \A p \in 1 .. N : p \in 0 .. N /\ p # 0
    BY <1>2
  <2> QED BY <1>8, <2>1
<1> HIDE DEF Is
<1>11. \A p \in 0 .. N : h[p] \in [Units -> Nat]
  <2> DEFINE P == {n \in Nat : n <= N => h[n] \in [Units -> Nat]}
  <2>1. 0 \in P
    BY <1>9
  <2>2. ASSUME NEW n \in Nat, n \in P PROVE n + 1 \in P
    <3> SUFFICES ASSUME n + 1 <= N PROVE h[n + 1] \in [Units -> Nat]
      OBVIOUS
    <3>1. n + 1 \in 1 .. N /\ (n + 1) - 1 = n /\ h[n] \in [Units -> Nat]
      BY <1>2, <2>2
    <3> HIDE DEF longer
    <3> QED BY <1>3, <1>10, <3>1
  <2> HIDE DEF P
  <2>3. \A n \in Nat : n \in P
    BY <2>1, <2>2, Induction
  <2> QED BY <1>2, <2>3 DEF P
<1>12. ASSUME NEW p \in 1 .. N, NEW unit \in Units PROVE h[p - 1][unit] < h[p][unit]
  <2>1. p - 1 \in 0 .. N /\ p - 1 \in Nat
    BY <1>2
  <2>2. h[p][unit] = h[p - 1][unit] + Time!Length(unit, p - 1)
    BY <1>10
  <2>3. Time!Length(unit, p - 1) \in Nat \ {0} /\ h[p - 1][unit] \in Nat
    BY <1>11, <2>1, LengthFacts
  <2> QED BY <2>2, <2>3
<1>13. \A p \in 0 .. N, unit \in Units : h[p][unit] \in Nat
  BY <1>11
<1>14. \A unit \in Units : h[0][unit] = 0
  BY <1>9
<1> QED BY <1>1, <1>12, <1>13, <1>14

Beginning(unit, p) == Time!Starts[p][unit]
InPeriod(unit, t) ==
  CHOOSE p \in 0 .. t : Beginning(unit, p) <= t /\ t < Beginning(unit, p + 1)

\* The names of the module, for a period that is not a variable.
LEMMA Translated ==
  /\ \A t : Time!PeriodOf(t) = InPeriod(period, t)
  /\ \A t : Time!NextPeriod(t) = Beginning(period, InPeriod(period, t) + 1)
  /\ Time!ActiveName = IF named THEN Time!Fixed ELSE Time!Plain(InPeriod(period, clock))
BY DEF Time!PeriodOf, Time!NextPeriod, Time!StartOf, Time!ActiveName, InPeriod, Beginning

\* The later a period is, the later it begins.
LEMMA BeginningsGrow ==
  ASSUME NEW unit \in Units, NEW p \in 0 .. Horizon + 1, NEW q \in p .. Horizon + 1
  PROVE  /\ Beginning(unit, p) \in Nat /\ Beginning(unit, q) \in Nat
         /\ Beginning(unit, p) <= Beginning(unit, q)
<1> DEFINE P == {n \in Nat : p + n <= Horizon + 1 => Beginning(unit, p) <= Beginning(unit, p + n)}
<1>1. Horizon \in Nat
  BY Assumptions DEF Assumptions, Time!CalendarAssumption
<1>2. \A k \in 0 .. Horizon + 1 : Beginning(unit, k) \in Nat
  BY StartsFacts DEF Beginning
<1>3. 0 \in P
  <2>1. p + 0 = p
    BY <1>1
  <2> QED BY <1>2, <2>1
<1>4. ASSUME NEW n \in Nat, n \in P PROVE n + 1 \in P
  <2> SUFFICES ASSUME p + (n + 1) <= Horizon + 1
               PROVE  Beginning(unit, p) <= Beginning(unit, p + (n + 1))
    OBVIOUS
  <2>1. p + (n + 1) \in 1 .. Horizon + 1 /\ (p + (n + 1)) - 1 = p + n /\ p + n \in 0 .. Horizon + 1
        /\ p + n <= Horizon + 1
    BY <1>1
  <2>2. Beginning(unit, p + n) < Beginning(unit, p + (n + 1))
    BY <2>1, StartsFacts DEF Beginning
  <2>3. Beginning(unit, p) <= Beginning(unit, p + n)
    BY <1>4, <2>1
  <2>4. /\ Beginning(unit, p) \in Nat /\ Beginning(unit, p + n) \in Nat
        /\ Beginning(unit, p + (n + 1)) \in Nat
    BY <1>2, <2>1
  <2> QED BY <2>2, <2>3, <2>4
<1> HIDE DEF P
<1>5. q - p \in P
  <2>1. q - p \in Nat
    BY <1>1
  <2> QED BY <1>3, <1>4, <2>1, Induction
<1>6. p + (q - p) = q /\ q <= Horizon + 1 /\ q \in 0 .. Horizon + 1
  BY <1>1
<1> QED BY <1>2, <1>5, <1>6 DEF P

\* Every time until the horizon is in a period.
LEMMA PeriodFacts ==
  ASSUME NEW unit \in Units, NEW t \in 0 .. Horizon
  PROVE  /\ InPeriod(unit, t) \in 0 .. t
         /\ Beginning(unit, InPeriod(unit, t)) <= t
         /\ t < Beginning(unit, InPeriod(unit, t) + 1)
<1> DEFINE Has(n, p) == Beginning(unit, p) <= n /\ n < Beginning(unit, p + 1)
           P == {n \in Nat : n <= Horizon => \E p \in 0 .. n : Has(n, p)}
<1>1. Horizon \in Nat
  BY Assumptions DEF Assumptions, Time!CalendarAssumption
<1>2. \A k \in 0 .. Horizon + 1 : Beginning(unit, k) \in Nat
  BY StartsFacts DEF Beginning
<1>3. \A k \in 0 .. Horizon : Beginning(unit, k) < Beginning(unit, k + 1)
  <2>1. \A k \in 0 .. Horizon : k + 1 \in 1 .. Horizon + 1 /\ (k + 1) - 1 = k
    BY <1>1
  <2> QED BY <2>1, StartsFacts DEF Beginning
<1>4. 0 \in P
  <2>1. Beginning(unit, 0) = 0
    BY StartsFacts DEF Beginning
  <2>2. 0 \in 0 .. Horizon /\ 0 + 1 = 1 /\ 0 \in 0 .. 0 /\ 1 \in 0 .. Horizon + 1
    BY <1>1
  <2>3. Beginning(unit, 1) \in Nat /\ 0 < Beginning(unit, 1)
    BY <1>2, <1>3, <2>1, <2>2
  <2>4. Has(0, 0)
    BY <2>1, <2>2, <2>3
  <2> QED BY <2>2, <2>4
<1>5. ASSUME NEW n \in Nat, n \in P PROVE n + 1 \in P
  <2> SUFFICES ASSUME n + 1 <= Horizon PROVE \E p \in 0 .. n + 1 : Has(n + 1, p)
    OBVIOUS
  <2>1. PICK p \in 0 .. n : Has(n, p)
    BY <1>1, <1>5
  <2>2. p \in 0 .. n + 1 /\ p + 1 \in 0 .. n + 1 /\ p + 1 \in 0 .. Horizon
        /\ p \in 0 .. Horizon + 1 /\ p + 1 \in 0 .. Horizon + 1 /\ (p + 1) + 1 \in 0 .. Horizon + 1
    BY <1>1
  <2>3. /\ Beginning(unit, p) \in Nat /\ Beginning(unit, p + 1) \in Nat
        /\ Beginning(unit, (p + 1) + 1) \in Nat
    BY <1>2, <2>2
  <2>4. Beginning(unit, p + 1) < Beginning(unit, (p + 1) + 1)
    BY <1>3, <2>2
  <2>5. CASE n + 1 < Beginning(unit, p + 1)
    <3>1. Has(n + 1, p)
      BY <2>1, <2>3, <2>5
    <3> QED BY <2>2, <3>1
  <2>6. CASE ~(n + 1 < Beginning(unit, p + 1))
    <3>1. Has(n + 1, p + 1)
      BY <2>1, <2>3, <2>4, <2>6
    <3> HIDE DEF Has
    <3> QED BY <2>2, <3>1
  <2> QED BY <2>5, <2>6
<1> HIDE DEF P
<1>6. t \in P
  <2>1. t \in Nat
    BY <1>1
  <2> QED BY <1>4, <1>5, <2>1, Induction
<1>7. \E p \in 0 .. t : Has(t, p)
  <2>1. t <= Horizon
    BY <1>1
  <2> QED BY <1>6, <2>1 DEF P
<1> QED BY <1>7 DEF InPeriod

\* A time is before the end of a period just if its own is none later.
LEMMA PeriodIsUpTo ==
  ASSUME NEW unit \in Units, NEW t \in 0 .. Horizon, NEW r \in 0 .. Horizon
  PROVE  /\ Beginning(unit, r + 1) \in Nat
         /\ t < Beginning(unit, r + 1) <=> InPeriod(unit, t) <= r
<1> DEFINE p == InPeriod(unit, t)
<1>1. p \in 0 .. t /\ Beginning(unit, p) <= t /\ t < Beginning(unit, p + 1)
  BY PeriodFacts
<1> HIDE DEF p
<1>2. /\ Horizon \in Nat /\ p \in 0 .. Horizon + 1 /\ p + 1 \in 0 .. Horizon + 1
      /\ r + 1 \in 0 .. Horizon + 1
  BY <1>1, Assumptions DEF Assumptions, Time!CalendarAssumption
<1>3. /\ Beginning(unit, p) \in Nat /\ Beginning(unit, p + 1) \in Nat
      /\ Beginning(unit, r + 1) \in Nat
  BY <1>2, StartsFacts DEF Beginning
<1>4. CASE p <= r
  <2>1. r + 1 \in p + 1 .. Horizon + 1
    BY <1>2, <1>4
  <2>2. Beginning(unit, p + 1) <= Beginning(unit, r + 1)
    BY <1>2, <2>1, BeginningsGrow
  <2>3. t < Beginning(unit, r + 1)
    BY <1>1, <1>2, <1>3, <2>2
  <2> QED BY <1>3, <1>4, <2>3 DEF p
<1>5. CASE ~(p <= r)
  <2>1. p \in r + 1 .. Horizon + 1
    BY <1>2, <1>5
  <2>2. Beginning(unit, r + 1) <= Beginning(unit, p)
    BY <1>2, <2>1, BeginningsGrow
  <2>3. ~(t < Beginning(unit, r + 1))
    BY <1>1, <1>2, <1>3, <2>2
  <2> QED BY <1>3, <1>5, <2>3 DEF p
<1> QED BY <1>4, <1>5

\* Periods follow one another.
LEMMA PeriodsFollow ==
  ASSUME NEW unit \in Units, NEW t \in 0 .. Horizon, NEW u \in t .. Horizon
  PROVE  InPeriod(unit, t) <= InPeriod(unit, u)
<1>1. Horizon \in Nat /\ u \in 0 .. Horizon /\ t <= u
  BY Assumptions DEF Assumptions, Time!CalendarAssumption
<1>2. InPeriod(unit, u) \in 0 .. Horizon /\ u < Beginning(unit, InPeriod(unit, u) + 1)
  BY <1>1, PeriodFacts
<1>3. Beginning(unit, InPeriod(unit, u) + 1) \in Nat
  BY <1>1, <1>2, PeriodIsUpTo
<1>4. t < Beginning(unit, InPeriod(unit, u) + 1)
  BY <1>1, <1>2, <1>3
<1> QED BY <1>2, <1>4, PeriodIsUpTo

\* The clock is in the same period until that of the next begins.
LEMMA PeriodLasts ==
  ASSUME NEW unit \in Units, NEW t \in 0 .. Horizon, t + 1 <= Horizon,
         t + 1 # Beginning(unit, InPeriod(unit, t) + 1)
  PROVE  InPeriod(unit, t + 1) = InPeriod(unit, t)
<1>1. Horizon \in Nat /\ t + 1 \in 0 .. Horizon /\ t + 1 \in t .. Horizon
  BY Assumptions DEF Assumptions, Time!CalendarAssumption
<1>2. InPeriod(unit, t) \in 0 .. Horizon /\ t < Beginning(unit, InPeriod(unit, t) + 1)
      /\ InPeriod(unit, t + 1) \in 0 .. t + 1
  BY <1>1, PeriodFacts
<1>3. Beginning(unit, InPeriod(unit, t) + 1) \in Nat
  BY <1>2, PeriodIsUpTo
<1>4. t + 1 < Beginning(unit, InPeriod(unit, t) + 1)
  BY <1>1, <1>2, <1>3
<1>5. InPeriod(unit, t + 1) <= InPeriod(unit, t)
  BY <1>1, <1>2, <1>4, PeriodIsUpTo
<1>6. InPeriod(unit, t) <= InPeriod(unit, t + 1)
  BY <1>1, PeriodsFollow
<1> QED BY <1>2, <1>5, <1>6

-----------------------------------------------------------------------------
(* The time roller: its files.                                              *)

\* There is a fixed file, or each is named by its date.
Styles == {"fixed", "dated"}

\* No event in a file is of a later period than this. A file that is renamed when a period
\* begins has the events of those before.
LatestIn(f, r, style) == IF f = Time!Fixed THEN r ELSE IF style = "fixed" THEN f.of - 1 ELSE f.of

\* r is the period that ends with the next roll.
IsDated(f, r, style) ==
  IF f = Time!Fixed THEN style = "fixed"
  ELSE /\ f.of \in 0 .. r
       /\ \/ f = Time!Plain(f.of)
          \/ f = Time!Gz(f.of) /\ (style = "fixed" \/ f.of < r)

\* A name is used for one file. An event that is in none was born before the limit.
InTime(fs, b, r, style, limit) ==
  /\ \A f \in DOMAIN fs : IsDated(f, r, style)
  /\ \A p : Time!Plain(p) \in DOMAIN fs => Time!Gz(p) \notin DOMAIN fs
  /\ \A f \in DOMAIN fs : \A e \in fs[f] : e \in DOMAIN b /\ b[e] <= LatestIn(f, r, style)
  /\ \A e \in DOMAIN b : b[e] < limit \/ \E f \in DOMAIN fs : e \in fs[f]

LEMMA NamesDiffer ==
  /\ \A p, q : Time!Plain(p) # Time!Gz(q)
  /\ \A p, q : Time!Plain(p) = Time!Plain(q) => p = q
  /\ \A p, q : Time!Gz(p) = Time!Gz(q) => p = q
  /\ \A p : Time!Gz(p) # Time!Fixed
  /\ \A p \in Nat : Time!Plain(p) # Time!Fixed
  /\ \A p : Time!Plain(p).of = p /\ Time!Gz(p).of = p
<1>1. \A p, q : Time!Plain(p) # Time!Gz(q)
  BY DEF Time!Plain, Time!Gz
<1>2. \A p, q : Time!Plain(p) = Time!Plain(q) => p = q
  BY DEF Time!Plain
<1>3. \A p, q : Time!Gz(p) = Time!Gz(q) => p = q
  BY DEF Time!Gz
<1>4. \A p : Time!Gz(p) # Time!Fixed
  BY DEF Time!Gz, Time!Fixed
<1>5. \A p \in Nat : Time!Plain(p) # Time!Fixed
  BY DEF Time!Plain, Time!Fixed
<1>6. \A p : Time!Plain(p).of = p /\ Time!Gz(p).of = p
  BY DEF Time!Plain, Time!Gz
<1> QED BY <1>1, <1>2, <1>3, <1>4, <1>5, <1>6

\* It may be later.
LEMMA StillInTime ==
  ASSUME NEW fs, NEW b \in Seq(Nat), NEW r \in Nat, NEW style \in Styles, NEW limit \in Int,
         InTime(fs, b, r, style, limit),
         NEW q \in Nat, r <= q, NEW further \in Int, limit <= further
  PROVE  InTime(fs, b, q, style, further)
<1>1. ASSUME NEW f \in DOMAIN fs
      PROVE  IsDated(f, q, style)
  <2>1. IsDated(f, r, style)
    BY DEF InTime
  <2> QED BY <2>1 DEF IsDated
<1>2. ASSUME NEW f \in DOMAIN fs, NEW e \in fs[f]
      PROVE  e \in DOMAIN b /\ b[e] <= LatestIn(f, q, style)
  <2>1. e \in DOMAIN b /\ b[e] <= LatestIn(f, r, style)
    BY DEF InTime
  <2>2. b[e] \in Nat
    BY <2>1
  <2> QED BY <2>1, <2>2 DEF LatestIn
<1>3. ASSUME NEW e \in DOMAIN b
      PROVE  b[e] < further \/ \E f \in DOMAIN fs : e \in fs[f]
  <2>1. b[e] < limit \/ \E f \in DOMAIN fs : e \in fs[f]
    BY DEF InTime
  <2>2. b[e] \in Nat
    OBVIOUS
  <2> QED BY <2>1, <2>2
<1>4. \A p : Time!Plain(p) \in DOMAIN fs => Time!Gz(p) \notin DOMAIN fs
  BY DEF InTime
<1> QED BY <1>1, <1>2, <1>3, <1>4 DEF InTime

\* Files may go that have nothing younger than the limit.
LEMMA WithoutInTime ==
  ASSUME NEW fs, NEW b \in Seq(Nat), NEW r \in Nat, NEW style \in Styles, NEW limit \in Int,
         InTime(fs, b, r, style, limit),
         NEW gone, \A f \in DOMAIN fs \cap gone : f # Time!Fixed /\ LatestIn(f, r, style) < limit
  PROVE  InTime(Time!Without(fs, gone), b, r, style, limit)
<1> DEFINE gs == Time!Without(fs, gone)
<1>1. DOMAIN gs = DOMAIN fs \ gone /\ \A f \in DOMAIN fs \ gone : gs[f] = fs[f]
  BY DEF Time!Without, Time!Restrict
<1> HIDE DEF gs
<1>2. ASSUME NEW e \in DOMAIN b, ~(b[e] < limit) PROVE \E f \in DOMAIN gs : e \in gs[f]
  <2>1. PICK f \in DOMAIN fs : e \in fs[f]
    BY <1>2 DEF InTime
  <2>2. b[e] <= LatestIn(f, r, style) /\ b[e] \in Nat /\ IsDated(f, r, style)
    BY <2>1 DEF InTime
  <2>3. f \notin gone
    <3> SUFFICES ASSUME f \in gone PROVE FALSE
      OBVIOUS
    <3>1. f # Time!Fixed /\ LatestIn(f, r, style) < limit
      OBVIOUS
    <3>2. LatestIn(f, r, style) \in Int
      BY <2>2, <3>1 DEF LatestIn, IsDated
    <3> QED BY <1>2, <2>2, <3>1, <3>2
  <2> QED BY <1>1, <2>1, <2>3
<1>3. /\ \A f \in DOMAIN gs : IsDated(f, r, style)
      /\ \A p : Time!Plain(p) \in DOMAIN gs => Time!Gz(p) \notin DOMAIN gs
      /\ \A f \in DOMAIN gs : \A e \in gs[f] : e \in DOMAIN b /\ b[e] <= LatestIn(f, r, style)
  BY <1>1 DEF InTime
<1>4. InTime(gs, b, r, style, limit)
  BY <1>2, <1>3 DEF InTime
<1> QED BY <1>4 DEF gs

\* What is opened is the fixed file, or one of this period.
ToOpen(r, style) == IF style = "fixed" THEN Time!Fixed ELSE Time!Plain(r)
LEMMA OpenedInTime ==
  ASSUME NEW fs, NEW b \in Seq(Nat), NEW r \in Nat, NEW style \in Styles, NEW limit \in Int,
         InTime(fs, b, r, style, limit)
  PROVE  LET f == ToOpen(r, style)
             gs == Time!Opened(fs, f)
         IN  f \in DOMAIN gs /\ InTime(gs, b, r, style, limit)
<1> DEFINE f == ToOpen(r, style)
           gs == Time!Opened(fs, f)
<1>1. /\ DOMAIN gs = DOMAIN fs \cup {f}
      /\ \A g \in DOMAIN fs : gs[g] = fs[g]
      /\ f \notin DOMAIN fs => gs[f] = {}
  BY DEF Time!Opened
<1>2. IsDated(f, r, style)
  BY NamesDiffer DEF ToOpen, IsDated
<1>3. style # "fixed" => Time!Gz(r) \notin DOMAIN fs
  <2> SUFFICES ASSUME style # "fixed", Time!Gz(r) \in DOMAIN fs PROVE FALSE
    OBVIOUS
  <2>1. IsDated(Time!Gz(r), r, style)
    BY DEF InTime
  <2> QED BY <2>1, NamesDiffer DEF IsDated
<1>4. \A p : Time!Gz(p) # f /\ (style = "fixed" => Time!Plain(p) # f \/ p \notin Nat)
  BY NamesDiffer DEF ToOpen
<1> HIDE DEF gs
<1>5. ASSUME NEW p, Time!Plain(p) \in DOMAIN gs PROVE Time!Gz(p) \notin DOMAIN gs
  <2> SUFFICES ASSUME Time!Gz(p) \in DOMAIN fs PROVE FALSE
    BY <1>1, <1>4
  <2>1. IsDated(Time!Gz(p), r, style)
    BY DEF InTime
  <2>2. p \in Nat
    BY <2>1, NamesDiffer DEF IsDated
  <2>3. CASE Time!Plain(p) \in DOMAIN fs
    BY <2>3 DEF InTime
  <2>4. CASE Time!Plain(p) = f
    <3>1. style # "fixed"
      BY <1>4, <2>2, <2>4
    <3>2. p = r
      BY <2>4, <3>1, NamesDiffer DEF ToOpen
    <3> QED BY <1>3, <3>1, <3>2
  <2> QED BY <1>1, <1>5, <2>3, <2>4
<1> HIDE DEF f
<1>6. \A g \in DOMAIN gs : IsDated(g, r, style)
  BY <1>1, <1>2 DEF InTime
<1>7. \A g \in DOMAIN gs : \A e \in gs[g] : e \in DOMAIN b /\ b[e] <= LatestIn(g, r, style)
  BY <1>1 DEF InTime
<1>8. \A e \in DOMAIN b : b[e] < limit \/ \E g \in DOMAIN gs : e \in gs[g]
  BY <1>1 DEF InTime
<1>9. f \in DOMAIN gs /\ InTime(gs, b, r, style, limit)
  BY <1>1, <1>5, <1>6, <1>7, <1>8 DEF InTime
<1> QED BY <1>9 DEF f, gs

\* An event that is written is of a period that has not ended.
LEMMA WrittenInTime ==
  ASSUME NEW fs, NEW b \in Seq(Nat), NEW r \in Nat, NEW style \in Styles, NEW limit \in Int,
         InTime(fs, b, r, style, limit), NEW p \in Nat, p <= r
  PROVE  LET f == ToOpen(r, style)
             c == Append(b, p)
         IN  InTime([Time!Opened(fs, f) EXCEPT ![f] = @ \cup {Len(c)}], c, r, style, limit)
<1> DEFINE f == ToOpen(r, style)
           c == Append(b, p)
           gs == Time!Opened(fs, f)
           hs == [gs EXCEPT ![f] = @ \cup {Len(c)}]
<1>1. f \in DOMAIN gs /\ InTime(gs, b, r, style, limit)
  BY OpenedInTime
<1>2. /\ c \in Seq(Nat) /\ DOMAIN c = DOMAIN b \cup {Len(c)} /\ c[Len(c)] = p
      /\ Len(c) \notin DOMAIN b
      /\ \A e \in DOMAIN b : c[e] = b[e]
  <2>1. c \in Seq(Nat) /\ Len(c) = Len(b) + 1 /\ c[Len(b) + 1] = p
    OBVIOUS
  <2>2. \A e \in 1 .. Len(b) : c[e] = b[e]
    OBVIOUS
  <2>3. DOMAIN b = 1 .. Len(b) /\ DOMAIN c = 1 .. Len(c) /\ Len(b) \in Nat
    BY <2>1
  <2> HIDE DEF c
  <2>4. 1 .. Len(b) + 1 = (1 .. Len(b)) \cup {Len(b) + 1} /\ Len(b) + 1 \notin 1 .. Len(b)
    BY <2>3
  <2> QED BY <2>1, <2>2, <2>3, <2>4
<1>3. \A e \in DOMAIN b : e \in DOMAIN c /\ c[e] = b[e]
  BY <1>2, Zenon
<1>4. p <= LatestIn(f, r, style)
  BY NamesDiffer DEF LatestIn, ToOpen
<1> HIDE DEF gs, c, f
<1>5. /\ DOMAIN hs = DOMAIN gs
      /\ hs[f] = gs[f] \cup {Len(c)}
      /\ \A g \in DOMAIN gs : g # f => hs[g] = gs[g]
  BY <1>1
<1> HIDE DEF hs
<1>6. ASSUME NEW g \in DOMAIN hs, NEW e \in hs[g]
      PROVE  e \in DOMAIN c /\ c[e] <= LatestIn(g, r, style)
  <2>1. CASE e \in gs[g]
    <3>1. e \in DOMAIN b /\ b[e] <= LatestIn(g, r, style)
      BY <1>1, <1>5, <2>1 DEF InTime
    <3>2. e \in DOMAIN c /\ c[e] = b[e]
      BY <1>3, <3>1, Zenon
    <3> QED BY <3>1, <3>2, Zenon
  <2>2. CASE g = f /\ e = Len(c)
    BY <1>2, <1>4, <2>2
  <2> QED BY <1>5, <1>6, <2>1, <2>2
<1>7. ASSUME NEW e \in DOMAIN c PROVE c[e] < limit \/ \E g \in DOMAIN hs : e \in hs[g]
  <2>1. CASE e \in DOMAIN b
    <3>1. b[e] < limit \/ \E g \in DOMAIN gs : e \in gs[g]
      BY <1>1, <2>1 DEF InTime
    <3>2. CASE b[e] < limit
      <4>1. c[e] = b[e]
        BY <1>3, <2>1, Zenon
      <4> QED BY <3>2, <4>1, Zenon
    <3>3. ASSUME NEW g \in DOMAIN gs, e \in gs[g] PROVE e \in hs[g] /\ g \in DOMAIN hs
      <4>1. CASE g = f
        BY <1>5, <3>3, <4>1
      <4>2. CASE g # f
        BY <1>5, <3>3, <4>2
      <4> QED BY <4>1, <4>2
    <3> QED BY <3>1, <3>2, <3>3
  <2>2. CASE e = Len(c)
    <3>1. f \in DOMAIN hs /\ e \in hs[f]
      BY <1>1, <1>5, <2>2, Zenon
    <3> QED BY <3>1, Zenon
  <2>3. e \in DOMAIN b \/ e = Len(c)
    BY <1>2, <1>7, Zenon
  <2> QED BY <2>1, <2>2, <2>3, Zenon
<1>8. /\ \A g \in DOMAIN hs : IsDated(g, r, style)
      /\ \A q : Time!Plain(q) \in DOMAIN hs => Time!Gz(q) \notin DOMAIN hs
  BY <1>1, <1>5 DEF InTime
<1>9. InTime(hs, c, r, style, limit)
  BY <1>6, <1>7, <1>8 DEF InTime
<1> QED BY <1>9 DEF f, c, gs, hs

\* A file gets a name that none has, and may have all that it has under that name.
LEMMA RenamedInTime ==
  ASSUME NEW fs, NEW b \in Seq(Nat), NEW r \in Nat, NEW style \in Styles, NEW limit \in Int,
         InTime(fs, b, r, style, limit),
         NEW from \in DOMAIN fs, NEW to, to \notin DOMAIN fs, to # Time!Fixed,
         IsDated(to, r, style),
         \A e \in fs[from] : b[e] <= LatestIn(to, r, style),
         \A p : to = Time!Plain(p) => Time!Gz(p) \notin DOMAIN fs \ {from},
         \A p : to = Time!Gz(p) => Time!Plain(p) \notin DOMAIN fs \ {from}
  PROVE  InTime(Time!Renamed(fs, from, to), b, r, style, limit)
<1> DEFINE gs == Time!Renamed(fs, from, to)
<1>1. /\ DOMAIN gs = (DOMAIN fs \ {from}) \cup {to}
      /\ gs[to] = fs[from]
      /\ \A f \in DOMAIN fs \ {from} : gs[f] = fs[f]
  BY DEF Time!Renamed
<1> HIDE DEF gs
<1>2. \A f \in DOMAIN gs : IsDated(f, r, style)
  BY <1>1 DEF InTime
<1>3. ASSUME NEW p, Time!Plain(p) \in DOMAIN gs, Time!Gz(p) \in DOMAIN gs PROVE FALSE
  <2>1. Time!Plain(p) # Time!Gz(p)
    BY NamesDiffer
  <2>2. CASE to = Time!Plain(p)
    BY <1>1, <1>3, <2>1, <2>2
  <2>3. CASE to = Time!Gz(p)
    BY <1>1, <1>3, <2>1, <2>3
  <2>4. CASE to # Time!Plain(p) /\ to # Time!Gz(p)
    BY <1>1, <1>3, <2>4 DEF InTime
  <2> QED BY <2>2, <2>3, <2>4
<1>4. ASSUME NEW f \in DOMAIN gs, NEW e \in gs[f]
      PROVE  e \in DOMAIN b /\ b[e] <= LatestIn(f, r, style)
  <2>1. CASE f = to
    BY <1>1, <1>4, <2>1 DEF InTime
  <2>2. CASE f # to
    BY <1>1, <1>4, <2>2 DEF InTime
  <2> QED BY <2>1, <2>2
<1>5. ASSUME NEW e \in DOMAIN b PROVE b[e] < limit \/ \E f \in DOMAIN gs : e \in gs[f]
  <2>1. CASE b[e] < limit
    BY <2>1
  <2>2. CASE \E f \in DOMAIN fs : e \in fs[f]
    BY <1>1, <2>2
  <2> QED BY <2>1, <2>2 DEF InTime
<1>6. InTime(gs, b, r, style, limit)
  BY <1>2, <1>3, <1>4, <1>5 DEF InTime
<1> QED BY <1>6 DEF gs

\* At the beginning of a period the fixed file gets the name of that period.
LEMMA RolledInTime ==
  ASSUME NEW fs, NEW b \in Seq(Nat), NEW r \in Nat, NEW style \in Styles, NEW limit \in Int,
         style = "fixed",
         InTime(fs, b, r, style, limit), NEW q \in Nat, r < q
  PROVE  LET gs == Time!Renamed(fs, Time!Fixed, Time!Plain(q))
         IN  InTime(gs, b, q, style, limit) /\ Time!Fixed \notin DOMAIN gs
<1> DEFINE to == Time!Plain(q)
<1>1. InTime(fs, b, q, style, limit)
  <2>1. r <= q /\ limit <= limit
    OBVIOUS
  <2> QED BY <2>1, StillInTime
<1>2. CASE Time!Fixed \notin DOMAIN fs
  BY <1>1, <1>2 DEF Time!Renamed
<1>3. CASE Time!Fixed \in DOMAIN fs
  <2>1. \A f \in DOMAIN fs : f # Time!Fixed => f.of \in 0 .. r
    BY DEF InTime, IsDated
  <2>2. to # Time!Fixed /\ to.of = q /\ to = Time!Plain(to.of)
    BY NamesDiffer
  <2>3. to \notin DOMAIN fs
    BY <2>1, <2>2
  <2>4. IsDated(to, q, style) /\ LatestIn(to, q, style) = q - 1
    BY <2>2 DEF IsDated, LatestIn
  <2>5. \A e \in fs[Time!Fixed] : b[e] <= LatestIn(to, q, style)
    <3> SUFFICES ASSUME NEW e \in fs[Time!Fixed] PROVE b[e] <= q - 1
      BY <2>4
    <3>1. e \in DOMAIN b /\ b[e] <= r
      BY <1>3 DEF InTime, LatestIn
    <3>2. b[e] \in Nat
      BY <3>1
    <3> QED BY <3>1, <3>2
  <2>6. \A p : to = Time!Plain(p) => Time!Gz(p) \notin DOMAIN fs \ {Time!Fixed}
    <3> SUFFICES ASSUME Time!Gz(q) \in DOMAIN fs PROVE FALSE
      BY NamesDiffer
    <3>1. q \in 0 .. r
      BY <2>1, NamesDiffer
    <3> QED BY <3>1
  <2>7. \A p : to = Time!Gz(p) => Time!Plain(p) \notin DOMAIN fs \ {Time!Fixed}
    BY NamesDiffer
  <2> HIDE DEF to
  <2>8. InTime(Time!Renamed(fs, Time!Fixed, to), b, q, style, limit)
    <3>1. IsDated(to, q, style) /\ to # Time!Fixed
      BY <2>2, <2>4
    <3> QED BY <1>1, <1>3, <2>3, <2>5, <2>6, <2>7, <3>1, RenamedInTime
  <2>9. DOMAIN Time!Renamed(fs, Time!Fixed, to) = (DOMAIN fs \ {Time!Fixed}) \cup {to}
    BY <1>3 DEF Time!Renamed
  <2> QED BY <2>2, <2>8, <2>9 DEF to
<1> QED BY <1>2, <1>3

\* A file that has been closed is compressed.
LEMMA CompressedInTime ==
  ASSUME NEW fs, NEW b \in Seq(Nat), NEW r \in Nat, NEW style \in Styles, NEW limit \in Int,
         InTime(fs, b, r, style, limit), Time!Fixed \notin DOMAIN fs,
         NEW p, style # "fixed" /\ Time!Plain(p) \in DOMAIN fs => p < r
  PROVE  InTime(Time!Renamed(fs, Time!Plain(p), Time!Gz(p)), b, r, style, limit)
<1> DEFINE from == Time!Plain(p)
           to == Time!Gz(p)
<1>1. CASE from \notin DOMAIN fs
  BY <1>1 DEF Time!Renamed
<1>2. CASE from \in DOMAIN fs
  <2>1. from # Time!Fixed /\ to # Time!Fixed /\ from.of = p /\ to.of = p
    BY <1>2, NamesDiffer
  <2>2. p \in 0 .. r
    BY <1>2, <2>1 DEF InTime, IsDated
  <2>3. IsDated(to, r, style)
    BY <1>2, <2>1, <2>2 DEF IsDated
  <2>4. to \notin DOMAIN fs
    BY <1>2 DEF InTime
  <2>5. LatestIn(to, r, style) = LatestIn(from, r, style)
    BY <2>1 DEF LatestIn
  <2>6. \A e \in fs[from] : b[e] <= LatestIn(to, r, style)
    BY <1>2, <2>5 DEF InTime
  <2>7. \A q : to # Time!Plain(q)
    BY NamesDiffer
  <2>8. \A q : to = Time!Gz(q) => Time!Plain(q) = from
    BY NamesDiffer
  <2> HIDE DEF from, to
  <2>9. InTime(Time!Renamed(fs, from, to), b, r, style, limit)
    BY <1>2, <2>1, <2>3, <2>4, <2>6, <2>7, <2>8, RenamedInTime
  <2> QED BY <2>9 DEF from, to
<1> QED BY <1>1, <1>2

-----------------------------------------------------------------------------
(* The time roller: its steps.                                              *)

StyleOf(hasName) == IF hasName THEN "fixed" ELSE "dated"
Limit(unit, t, over) == InPeriod(unit, t) - MaxHistory + (IF over THEN 1 ELSE 0)

TimeTypes == /\ period \in Units /\ named \in BOOLEAN
             /\ clock \in 0 .. Horizon /\ now \in 0 .. clock
             /\ lastClean \in (0 .. Horizon) \cup {-1}
             /\ born \in Seq(Nat)
             /\ failures \in Nat

\* What OnlyOldEventsAreLost asks for.
IsSmooth(hasName, failed, missed) == IF hasName THEN failed = 0 ELSE ~missed

\* The next roll is at the end of the period r, which is that of the clock or before it,
\* and so is the file that is written.
IsScheduled(r) ==
  /\ r \in 0 .. Horizon /\ nextRoll = Beginning(period, r + 1)
  /\ r <= InPeriod(period, clock)
  /\ timeStep \in {"remove", "rename"} => nextRoll <= now
  /\ timeStep \in {"clean", "open", "write"} => InPeriod(period, now) <= r
  /\ ~named /\ timeStep \in {"clean", "open", "start"} => InPeriod(period, clock) = r
  /\ ~named /\ timeStep = "rename" => InPeriod(period, clock) = InPeriod(period, now)
  /\ timeStep \notin {"clean", "open", "start"} => timeOpen = ToOpen(r, StyleOf(named))

IsOrderly(r) ==
  /\ IsScheduled(r)
  /\ InTime(timeFiles, born, r, StyleOf(named), Limit(period, clock, overflowed))

TimeInv == /\ TimeTypes
           /\ IsSmooth(named, failures, crossed) => \E r \in 0 .. Horizon : IsOrderly(r)

LEMMA PeriodOfClock ==
  ASSUME TimeTypes
  PROVE  /\ Horizon \in Nat /\ now \in 0 .. Horizon /\ now <= clock /\ clock \in now .. Horizon
         /\ InPeriod(period, clock) \in 0 .. Horizon /\ InPeriod(period, now) \in 0 .. Horizon
         /\ InPeriod(period, now) <= InPeriod(period, clock)
         /\ MaxHistory \in Nat
         /\ StyleOf(named) \in Styles
         /\ \A t \in 0 .. Horizon : \A over : Limit(period, t, over) \in Int
<1>1. Horizon \in Nat /\ MaxHistory \in Nat
  BY Assumptions DEF Assumptions, Time!CalendarAssumption, Time!HistoryAssumption
<1>2. period \in Units /\ clock \in 0 .. Horizon /\ now \in 0 .. clock
  BY DEF TimeTypes
<1>3. now \in 0 .. Horizon /\ now <= clock /\ clock \in now .. Horizon
  BY <1>1, <1>2
<1>4. \A t \in 0 .. Horizon : InPeriod(period, t) \in 0 .. Horizon
  <2> SUFFICES ASSUME NEW t \in 0 .. Horizon PROVE InPeriod(period, t) \in 0 .. Horizon
    OBVIOUS
  <2>1. InPeriod(period, t) \in 0 .. t
    BY <1>2, PeriodFacts
  <2> QED BY <1>1, <2>1
<1>5. InPeriod(period, now) <= InPeriod(period, clock)
  BY <1>2, <1>3, PeriodsFollow
<1>6. \A t \in 0 .. Horizon : \A over : Limit(period, t, over) \in Int
  <2> SUFFICES ASSUME NEW t \in 0 .. Horizon, NEW over PROVE Limit(period, t, over) \in Int
    OBVIOUS
  <2>1. InPeriod(period, t) \in 0 .. Horizon
    BY <1>4
  <2> QED BY <1>1, <2>1 DEF Limit
<1>7. StyleOf(named) \in Styles
  BY DEF StyleOf, Styles
<1> QED BY <1>1, <1>2, <1>3, <1>4, <1>5, <1>6, <1>7

LEMMA TimeTypesStep ==
  ASSUME TimeTypes, Time!Next
  PROVE  TimeTypes'
<1> USE DEF Time!settings
<1>1. InPeriod(period, now) \in Nat /\ Horizon \in Nat
  BY PeriodOfClock
<1>2. CASE Time!Tick
  BY <1>1, <1>2 DEF TimeTypes, Time!Tick
<1>3. CASE Time!Write
  BY <1>1, <1>3 DEF TimeTypes, Time!Write
<1>4. CASE Time!RemoveTarget
  BY <1>1, <1>4 DEF TimeTypes, Time!RemoveTarget
<1>5. CASE Time!RenameActive
  BY <1>5 DEF TimeTypes, Time!RenameActive
<1>6. CASE Time!CompressionFails
  BY <1>6 DEF TimeTypes, Time!CompressionFails
<1>7. CASE Time!Clean
  BY <1>1, <1>7 DEF TimeTypes, Time!Clean
<1>8. CASE Time!Open
  BY <1>8 DEF TimeTypes, Time!Open
<1>9. CASE Time!WriteEvent
  BY <1>1, <1>9, Translated DEF TimeTypes, Time!WriteEvent
<1>10. CASE Time!Restart
  BY <1>10 DEF TimeTypes, Time!Restart, Time!Never
<1>11. CASE Time!Start
  BY <1>11 DEF TimeTypes, Time!Start
<1> QED
  BY <1>2, <1>3, <1>4, <1>5, <1>6, <1>7, <1>8, <1>9, <1>10, <1>11 DEF Time!Next

\* What was old stays old.
LEMMA LimitGrows ==
  ASSUME NEW unit \in Units, NEW t \in 0 .. Horizon, NEW u \in t .. Horizon, NEW over, NEW further,
         over => further
  PROVE  Limit(unit, t, over) <= Limit(unit, u, further)
<1>1. /\ MaxHistory \in Nat /\ u \in 0 .. Horizon
  BY Assumptions DEF Assumptions, Time!CalendarAssumption, Time!HistoryAssumption
<1>2. InPeriod(unit, t) \in 0 .. t /\ InPeriod(unit, u) \in 0 .. u
  BY <1>1, PeriodFacts
<1>3. InPeriod(unit, t) <= InPeriod(unit, u)
  BY PeriodsFollow
<1> QED BY <1>1, <1>2, <1>3 DEF Limit

\* Files that stay as they are.
LEMMA OrderlyStays ==
  ASSUME TimeTypes, NEW r, IsOrderly(r), UNCHANGED <<period, named, timeFiles, born>>,
         NEW q \in 0 .. Horizon, r <= q, clock' \in clock .. Horizon, overflowed => overflowed'
  PROVE  InTime(timeFiles', born', q, StyleOf(named'), Limit(period', clock', overflowed'))
<1>1. r \in 0 .. Horizon /\ r \in Nat /\ q \in Nat /\ clock' \in 0 .. Horizon
  BY PeriodOfClock DEF IsOrderly, IsScheduled, TimeTypes
<1>2. Limit(period, clock, overflowed) <= Limit(period, clock', overflowed')
  BY LimitGrows DEF TimeTypes
<1>3. Limit(period, clock, overflowed) \in Int /\ Limit(period, clock', overflowed') \in Int
  BY <1>1, PeriodOfClock DEF TimeTypes
<1>4. InTime(timeFiles, born, q, StyleOf(named), Limit(period, clock', overflowed'))
  BY <1>1, <1>2, <1>3, PeriodOfClock, StillInTime DEF IsOrderly, TimeTypes
<1> QED BY <1>4

LEMMA TickKeepsOrder ==
  ASSUME TimeTypes, NEW r, IsOrderly(r), Time!Tick, IsSmooth(named, failures, crossed)'
  PROVE  IsOrderly(r)'
<1>1. /\ clock < Horizon /\ clock' = clock + 1
      /\ UNCHANGED <<period, named, timeFiles, timeOpen, nextRoll, timeStep, now, born, overflowed>>
  BY DEF Time!Tick, Time!settings
<1>2. /\ Horizon \in Nat /\ clock \in 0 .. Horizon /\ clock' \in clock .. Horizon
      /\ clock' \in 0 .. Horizon /\ clock + 1 <= Horizon /\ period \in Units
  BY <1>1, PeriodOfClock DEF TimeTypes
<1>3. /\ r \in 0 .. Horizon /\ InPeriod(period, clock) \in 0 .. clock
      /\ InPeriod(period, clock') \in 0 .. clock'
      /\ InPeriod(period, clock) <= InPeriod(period, clock')
  BY <1>2, PeriodFacts, PeriodsFollow DEF IsOrderly, IsScheduled
<1>4. ASSUME ~named, timeStep \in {"rename", "clean", "open", "start"}
      PROVE  InPeriod(period, clock') = InPeriod(period, clock)
  <2>1. clock' # Time!NextPeriod(clock)
    BY <1>1, <1>4 DEF Time!Tick, Time!HasRead, IsSmooth
  <2>2. clock + 1 # Beginning(period, InPeriod(period, clock) + 1)
    BY <1>1, <2>1, Translated
  <2>3. InPeriod(period, clock + 1) = InPeriod(period, clock)
    BY <1>2, <2>2, PeriodLasts
  <2> QED BY <1>1, <2>3
<1>5. r <= InPeriod(period, clock')
  BY <1>2, <1>3 DEF IsOrderly, IsScheduled
<1>6. IsScheduled(r)'
  BY <1>1, <1>4, <1>5 DEF IsOrderly, IsScheduled
<1>7. r <= r
  BY <1>3
<1>8. InTime(timeFiles', born', r, StyleOf(named'), Limit(period', clock', overflowed'))
  BY <1>1, <1>2, <1>3, <1>7, OrderlyStays
<1> QED BY <1>6, <1>8 DEF IsOrderly

LEMMA WriteKeepsOrder ==
  ASSUME TimeTypes, NEW r, IsOrderly(r), Time!Write
  PROVE  IsOrderly(r)'
<1>1. /\ timeStep = "idle" /\ now' = clock
      /\ timeStep' = IF clock >= nextRoll THEN "remove" ELSE "write"
      /\ UNCHANGED <<period, named, timeFiles, timeOpen, nextRoll, clock, born, overflowed>>
  BY DEF Time!Write, Time!settings
<1>2. /\ Horizon \in Nat /\ clock \in 0 .. Horizon /\ clock' \in clock .. Horizon
      /\ period \in Units
  BY <1>1, PeriodOfClock DEF TimeTypes
<1>3. r \in 0 .. Horizon /\ r <= r /\ nextRoll = Beginning(period, r + 1)
  BY DEF IsOrderly, IsScheduled
<1>4. /\ nextRoll \in Nat
      /\ clock < nextRoll <=> InPeriod(period, clock) <= r
  BY <1>2, <1>3, PeriodIsUpTo
<1>5. CASE clock >= nextRoll
  <2>1. nextRoll <= clock
    BY <1>2, <1>4, <1>5
  <2> QED BY <1>1, <1>2, <1>3, <1>5, <2>1, OrderlyStays DEF IsOrderly, IsScheduled
<1>6. CASE ~(clock >= nextRoll)
  <2>1. InPeriod(period, clock) <= r
    BY <1>2, <1>4, <1>6
  <2> QED BY <1>1, <1>2, <1>3, <1>6, <2>1, OrderlyStays DEF IsOrderly, IsScheduled
<1> QED BY <1>5, <1>6

\* The file that the roll is for is not there.
LEMMA RemoveTargetKeepsOrder ==
  ASSUME TimeTypes, NEW r, IsOrderly(r), Time!RemoveTarget
  PROVE  IsOrderly(r)'
<1> DEFINE p == InPeriod(period, clock)
           target == {Time!Plain(p)}
           style == StyleOf(named)
           limit == Limit(period, clock, overflowed)
<1>1. /\ timeStep = "remove" /\ timeStep' = "rename" /\ now' = clock
      /\ timeFiles' = Time!Without(timeFiles, target)
      /\ UNCHANGED <<period, named, timeOpen, nextRoll, clock, born, overflowed>>
  BY Translated DEF Time!RemoveTarget, Time!settings
<1>2. /\ Horizon \in Nat /\ clock \in 0 .. Horizon /\ now \in 0 .. Horizon /\ now <= clock
      /\ period \in Units /\ style \in Styles /\ limit \in Int /\ p \in 0 .. Horizon
      /\ born \in Seq(Nat)
  BY PeriodOfClock DEF TimeTypes
<1>3. /\ r \in 0 .. Horizon /\ nextRoll = Beginning(period, r + 1) /\ nextRoll <= now
      /\ InTime(timeFiles, born, r, style, limit)
  BY <1>1 DEF IsOrderly, IsScheduled
<1>4. /\ nextRoll \in Nat
      /\ clock < nextRoll <=> p <= r
  BY <1>2, <1>3, PeriodIsUpTo
<1>5. r < p /\ nextRoll <= clock
  BY <1>2, <1>3, <1>4
<1> HIDE DEF p, limit, style
<1>6. Time!Plain(p) \notin DOMAIN timeFiles
  <2> SUFFICES ASSUME Time!Plain(p) \in DOMAIN timeFiles PROVE FALSE
    OBVIOUS
  <2>1. IsDated(Time!Plain(p), r, style)
    BY <1>3 DEF InTime
  <2>2. Time!Plain(p) # Time!Fixed /\ Time!Plain(p).of = p
    BY <1>2, NamesDiffer
  <2>3. p \in 0 .. r
    BY <2>1, <2>2 DEF IsDated
  <2> QED BY <1>2, <1>3, <1>5, <2>3
<1>7. InTime(timeFiles', born, r, style, limit)
  <2>1. DOMAIN timeFiles \cap target = {}
    BY <1>6
  <2>2. r \in Nat
    BY <1>3
  <2> HIDE DEF target
  <2> QED BY <1>1, <1>2, <1>3, <2>1, <2>2, WithoutInTime
<1>8. IsScheduled(r)'
  BY <1>1, <1>5 DEF IsOrderly, IsScheduled
<1>9. style = StyleOf(named') /\ limit = Limit(period', clock', overflowed') /\ born' = born
  BY <1>1 DEF style, limit
<1> QED BY <1>7, <1>8, <1>9 DEF IsOrderly

\* The fixed file is renamed, and a file is compressed whose period is over; by then the
\* roll is for this period.
LEMMA RenameActiveKeepsOrder ==
  ASSUME TimeTypes, NEW r, IsOrderly(r), Time!RenameActive
  PROVE  IsOrderly(InPeriod(period, now))'
<1> DEFINE p == InPeriod(period, clock)
           q == InPeriod(period, now)
           style == StyleOf(named)
           limit == Limit(period, clock, overflowed)
           further == Limit(period, clock, overflowed')
           active == Time!ActiveName
           renamed == Time!Renamed(timeFiles, active, Time!Plain(q))
<1>1. /\ timeStep = "rename" /\ timeStep' = "clean"
      /\ timeFiles' = Time!Compressed(renamed)
      /\ nextRoll' = Beginning(period, q + 1)
      /\ UNCHANGED <<period, named, timeOpen, clock, now, born>>
      /\ overflowed => overflowed'
  BY Translated DEF Time!RenameActive, Time!settings
<1>2. /\ Horizon \in Nat /\ clock \in 0 .. Horizon /\ now \in 0 .. Horizon /\ now <= clock
      /\ period \in Units /\ style \in Styles /\ limit \in Int /\ further \in Int
      /\ p \in 0 .. Horizon /\ q \in 0 .. Horizon /\ q <= p /\ q \in Nat
      /\ born \in Seq(Nat)
  BY PeriodOfClock DEF TimeTypes
<1>3. limit <= further
  <2>1. clock \in clock .. Horizon
    BY <1>2
  <2> QED BY <1>1, <1>2, <2>1, LimitGrows
<1>4. /\ r \in 0 .. Horizon /\ r \in Nat /\ nextRoll = Beginning(period, r + 1) /\ nextRoll <= now
      /\ InTime(timeFiles, born, r, style, limit)
      /\ ~named => p = q
  BY <1>1 DEF IsOrderly, IsScheduled
<1>5. /\ nextRoll \in Nat
      /\ now < nextRoll <=> q <= r
  BY <1>2, <1>4, PeriodIsUpTo
<1>6. /\ style = IF named THEN "fixed" ELSE "dated"
      /\ active = IF named THEN Time!Fixed ELSE Time!Plain(p)
  BY Translated DEF StyleOf
<1> HIDE DEF p, q, limit, further, style, active
<1>7. r < q
  BY <1>2, <1>4, <1>5
<1>8. InTime(timeFiles, born, r, style, further)
  BY <1>2, <1>3, <1>4, StillInTime
<1>9. /\ InTime(renamed, born, q, style, further)
      /\ Time!Fixed \notin DOMAIN renamed
      /\ style # "fixed" => \A n : Time!Plain(n) \in DOMAIN renamed => n < q
  <2>1. CASE named
    <3>1. style = "fixed" /\ active = Time!Fixed
      BY <1>6, <2>1
    <3>2. LET gs == Time!Renamed(timeFiles, Time!Fixed, Time!Plain(q))
          IN  InTime(gs, born, q, style, further) /\ Time!Fixed \notin DOMAIN gs
      BY <1>2, <1>4, <1>7, <1>8, <3>1, RolledInTime
    <3> QED BY <3>1, <3>2
  <2>2. CASE ~named
    <3>1. style # "fixed" /\ active = Time!Plain(q)
      BY <1>4, <1>6, <2>2
    <3>2. Time!Fixed \notin DOMAIN timeFiles
          /\ \A n : Time!Plain(n) \in DOMAIN timeFiles => n \in 0 .. r
      BY <1>8, <3>1, NamesDiffer DEF InTime, IsDated
    <3>3. active \notin DOMAIN timeFiles
      <4> SUFFICES ASSUME active \in DOMAIN timeFiles PROVE FALSE
        OBVIOUS
      <4>1. q \in 0 .. r
        BY <3>1, <3>2
      <4> QED BY <1>2, <1>4, <1>7, <4>1
    <3>4. renamed = timeFiles
      BY <3>3 DEF Time!Renamed
    <3>5. \A n : Time!Plain(n) \in DOMAIN timeFiles => n < q
      <4> SUFFICES ASSUME NEW n, Time!Plain(n) \in DOMAIN timeFiles PROVE n < q
        OBVIOUS
      <4>1. n \in 0 .. r
        BY <3>2
      <4> QED BY <1>2, <1>4, <1>7, <4>1
    <3>6. r <= q /\ further <= further
      BY <1>2, <1>4, <1>7
    <3>7. InTime(timeFiles, born, q, style, further)
      BY <1>2, <1>4, <1>8, <3>6, StillInTime
    <3> QED BY <3>2, <3>4, <3>5, <3>7
  <2> QED BY <2>1, <2>2
<1> HIDE DEF renamed
<1>10. InTime(timeFiles', born, q, style, further)
  <2>1. PICK n : timeFiles' = renamed
                 \/ timeFiles' = Time!Renamed(renamed, Time!Plain(n), Time!Gz(n))
    BY <1>1 DEF Time!Compressed
  <2>2. InTime(Time!Renamed(renamed, Time!Plain(n), Time!Gz(n)), born, q, style, further)
    BY <1>2, <1>9, CompressedInTime
  <2> QED BY <1>9, <2>1, <2>2
<1>11. IsScheduled(q)'
  <2>1. q' = q /\ p' = p
    BY <1>1 DEF p, q
  <2> QED BY <1>1, <1>2, <1>4, <2>1 DEF IsScheduled, p, q
<1>12. style = StyleOf(named') /\ further = Limit(period', clock', overflowed') /\ born' = born
       /\ q' = q
  BY <1>1 DEF style, further, q
<1> QED BY <1>10, <1>11, <1>12 DEF IsOrderly, q

\* A file that cannot be compressed is left as it is, if it has not been renamed.
LEMMA CompressionFailsKeepsOrder ==
  ASSUME TimeTypes, NEW r, IsOrderly(r), Time!CompressionFails,
         IsSmooth(named, failures, crossed)'
  PROVE  IsOrderly(r)'
<1> DEFINE p == InPeriod(period, clock)
           q == InPeriod(period, now)
           style == StyleOf(named)
           limit == Limit(period, clock, overflowed)
<1>1. /\ timeStep = "rename" /\ timeStep' = "idle" /\ failures' = failures + 1
      /\ timeFiles' = Time!Renamed(timeFiles, Time!ActiveName, Time!Plain(q))
      /\ UNCHANGED <<period, named, timeOpen, nextRoll, clock, now, born, overflowed>>
  BY Translated DEF Time!CompressionFails, Time!settings
<1>2. ~named
  BY <1>1 DEF IsSmooth, TimeTypes
<1>3. /\ Horizon \in Nat /\ clock \in 0 .. Horizon /\ now \in 0 .. Horizon /\ now <= clock
      /\ period \in Units /\ style \in Styles /\ limit \in Int
      /\ p \in 0 .. Horizon /\ q \in 0 .. Horizon /\ born \in Seq(Nat)
  BY PeriodOfClock DEF TimeTypes
<1>4. /\ r \in 0 .. Horizon /\ nextRoll = Beginning(period, r + 1) /\ nextRoll <= now
      /\ InTime(timeFiles, born, r, style, limit) /\ p = q
  BY <1>1, <1>2 DEF IsOrderly, IsScheduled
<1>5. /\ nextRoll \in Nat
      /\ now < nextRoll <=> q <= r
  BY <1>3, <1>4, PeriodIsUpTo
<1>6. r < q
  BY <1>3, <1>4, <1>5
<1>7. Time!ActiveName = Time!Plain(q) /\ style # "fixed"
  BY <1>2, <1>4, Translated DEF StyleOf
<1> HIDE DEF p, q, limit, style
<1>8. Time!Plain(q) \notin DOMAIN timeFiles
  <2> SUFFICES ASSUME Time!Plain(q) \in DOMAIN timeFiles PROVE FALSE
    OBVIOUS
  <2>1. Time!Plain(q) # Time!Fixed /\ Time!Plain(q).of = q
    BY <1>3, NamesDiffer
  <2>2. q \in 0 .. r
    BY <1>4, <2>1 DEF InTime, IsDated
  <2> QED BY <1>3, <1>4, <1>6, <2>2
<1>9. timeFiles' = timeFiles
  BY <1>1, <1>7, <1>8 DEF Time!Renamed
<1>10. IsScheduled(r)'
  BY <1>1 DEF IsOrderly, IsScheduled
<1>11. /\ InTime(timeFiles, born, r, style, limit) /\ born' = born
       /\ style = StyleOf(named') /\ limit = Limit(period', clock', overflowed')
  BY <1>1, <1>4 DEF style, limit
<1> QED BY <1>9, <1>10, <1>11 DEF IsOrderly

\* What is cleaned is older than MaxHistory periods, whatever is looked for.
LEMMA CleanedIsOld ==
  ASSUME TimeTypes, NEW offset \in Int, offset <= Time!OldestOffset, NEW over,
         Time!Overflows(now, offset) => over
  PROVE  LET of == Time!Cleaned(offset).of
         IN  of \in Int /\ (IF named THEN of - 1 ELSE of) < Limit(period, clock, over)
<1> DEFINE q == InPeriod(period, now)
           p == InPeriod(period, clock)
           of == Time!Cleaned(offset).of
<1>1. q \in 0 .. Horizon /\ p \in 0 .. Horizon /\ q <= p /\ MaxHistory \in Nat /\ Horizon \in Nat
      /\ named \in BOOLEAN
  BY PeriodOfClock DEF TimeTypes
<1>2. of = q + offset + (IF Time!Overflows(now, offset) THEN 1 ELSE 0)
  BY Translated DEF Time!Cleaned, Time!PeriodRelative
<1>3. offset <= IF named THEN - MaxHistory ELSE - MaxHistory - 1
  BY DEF Time!OldestOffset
<1>4. Limit(period, clock, over) = p - MaxHistory + (IF over THEN 1 ELSE 0)
  BY DEF Limit
<1> HIDE DEF p, q, of
<1>5. of \in Int /\ of <= q + offset + (IF over THEN 1 ELSE 0)
  BY <1>1, <1>2
<1>6. CASE named
  <2>1. of - 1 < p - MaxHistory + (IF over THEN 1 ELSE 0)
    BY <1>1, <1>3, <1>5, <1>6
  <2> QED BY <1>4, <1>5, <1>6, <2>1 DEF of
<1>7. CASE ~named
  <2>1. of < p - MaxHistory + (IF over THEN 1 ELSE 0)
    BY <1>1, <1>3, <1>5, <1>7
  <2> QED BY <1>4, <1>5, <1>7, <2>1 DEF of
<1> QED BY <1>6, <1>7

LEMMA CleanKeepsOrder ==
  ASSUME TimeTypes, NEW r, IsOrderly(r), Time!Clean
  PROVE  IsOrderly(r)'
<1> DEFINE first == Time!OldestOffset - Time!PeriodsToClean + 1
           offsets == first .. Time!OldestOffset
           cleaned == {Time!Cleaned(o) : o \in offsets}
           gone == cleaned \ {Time!ActiveName}
           style == StyleOf(named)
           limit == Limit(period, clock, overflowed)
           further == Limit(period, clock, overflowed')
<1>1. /\ timeStep = "clean" /\ timeStep' = "open"
      /\ timeFiles' = Time!Without(timeFiles, gone)
      /\ UNCHANGED <<period, named, timeOpen, nextRoll, clock, now, born>>
      /\ overflowed => overflowed'
      /\ \A o \in offsets : Time!Overflows(now, o) => overflowed'
  BY DEF Time!Clean, Time!settings
<1>2. /\ Horizon \in Nat /\ clock \in 0 .. Horizon /\ clock \in clock .. Horizon
      /\ period \in Units /\ style \in Styles /\ limit \in Int /\ further \in Int
      /\ born \in Seq(Nat)
  BY PeriodOfClock DEF TimeTypes
<1>3. limit <= further
  BY <1>1, <1>2, LimitGrows
<1>4. r \in 0 .. Horizon /\ r \in Nat /\ r <= r /\ InTime(timeFiles, born, r, style, limit)
  BY <1>1 DEF IsOrderly, IsScheduled
<1>5. /\ Time!OldestOffset \in Int
      /\ first \in Int
  <2>1. /\ MaxHistory \in Nat /\ LookBack \in Nat /\ DayLength \in Nat \ {0}
        /\ lastClean \in (0 .. Horizon) \cup {-1} /\ now \in 0 .. Horizon
    BY PeriodOfClock, Assumptions
       DEF TimeTypes, Assumptions, Time!CalendarAssumption, Time!HistoryAssumption
  <2>2. Time!OldestOffset \in Int
    BY <2>1 DEF Time!OldestOffset
  <2>3. Time!PeriodsToClean \in Int
    <3>1. CASE lastClean = Time!Never
      BY <2>1, <3>1 DEF Time!PeriodsToClean
    <3>2. CASE lastClean # Time!Never
      <4>1. lastClean \in 0 .. Horizon
        BY <2>1, <3>2 DEF Time!Never
      <4>2. InPeriod(period, lastClean) \in 0 .. lastClean /\ InPeriod(period, now) \in 0 .. Horizon
        BY <1>2, <4>1, PeriodFacts, PeriodOfClock
      <4>3. InPeriod(period, now) - InPeriod(period, lastClean) \in Int
        BY <1>2, <4>1, <4>2
      <4>4. (now - lastClean) \div DayLength \in Int
        <5>1. now - lastClean \in Int
          BY <1>2, <2>1, <4>1
        <5> QED BY <2>1, <5>1
      <4>5. Time!Elapsed(lastClean, now) \in Int
        BY <4>3, <4>4, Translated DEF Time!Elapsed
      <4> QED BY <3>2, <4>5 DEF Time!PeriodsToClean
    <3> QED BY <3>1, <3>2
  <2> QED BY <2>2, <2>3
<1>6. ASSUME NEW f \in DOMAIN timeFiles \cap gone
      PROVE  f # Time!Fixed /\ LatestIn(f, r, style) < further
  <2>1. PICK o \in offsets : f = Time!Cleaned(o)
    OBVIOUS
  <2>2. o \in Int /\ o <= Time!OldestOffset
    BY <1>5
  <2>3. LET of == Time!Cleaned(o).of
        IN  of \in Int /\ (IF named THEN of - 1 ELSE of) < further
    BY <1>1, <2>2, CleanedIsOld
  <2>4. f # Time!Fixed
    <3>1. CASE named
      BY <3>1 DEF Time!ActiveName
    <3>2. CASE ~named
      BY <1>4, <3>2 DEF InTime, IsDated, StyleOf
    <3> QED BY <3>1, <3>2
  <2>5. LatestIn(f, r, style) = IF named THEN f.of - 1 ELSE f.of
    BY <2>4 DEF LatestIn, StyleOf
  <2> HIDE DEF further
  <2> QED BY <2>1, <2>3, <2>4, <2>5
<1>7. InTime(timeFiles', born, r, style, further)
  <2> HIDE DEF gone, style, limit, further
  <2>1. InTime(timeFiles, born, r, style, further)
    BY <1>2, <1>3, <1>4, StillInTime
  <2> QED BY <1>1, <1>2, <1>4, <1>6, <2>1, WithoutInTime
<1>8. IsScheduled(r)'
  BY <1>1 DEF IsOrderly, IsScheduled
<1>9. style = StyleOf(named') /\ further = Limit(period', clock', overflowed') /\ born' = born
  BY <1>1
<1> HIDE DEF style, further
<1> QED BY <1>7, <1>8, <1>9 DEF IsOrderly

\* The file of this period is opened, or the fixed one.
LEMMA ActiveOpened ==
  ASSUME TimeTypes, NEW r, IsOrderly(r), timeStep \in {"open", "start"}
  PROVE  /\ Time!ActiveName = ToOpen(r, StyleOf(named))
         /\ InTime(Time!Opened(timeFiles, Time!ActiveName), born, r, StyleOf(named),
                   Limit(period, clock, overflowed))
<1> DEFINE style == StyleOf(named)
           limit == Limit(period, clock, overflowed)
<1>1. Time!ActiveName = ToOpen(r, style)
  <2>1. CASE named
    BY <2>1, Translated DEF ToOpen, StyleOf
  <2>2. CASE ~named
    BY <2>2, Translated DEF ToOpen, StyleOf, IsOrderly, IsScheduled
  <2> QED BY <2>1, <2>2
<1>2. /\ style \in Styles /\ limit \in Int /\ born \in Seq(Nat) /\ r \in Nat
      /\ InTime(timeFiles, born, r, style, limit)
  BY PeriodOfClock DEF TimeTypes, IsOrderly, IsScheduled
<1> HIDE DEF style, limit
<1>3. InTime(Time!Opened(timeFiles, ToOpen(r, style)), born, r, style, limit)
  BY <1>2, OpenedInTime
<1> QED BY <1>1, <1>3 DEF style, limit

LEMMA OpenKeepsOrder ==
  ASSUME TimeTypes, NEW r, IsOrderly(r), Time!Open
  PROVE  IsOrderly(r)'
<1>1. /\ timeStep = "open" /\ timeStep' = "write" /\ timeOpen' = Time!ActiveName
      /\ timeFiles' = Time!Opened(timeFiles, Time!ActiveName)
      /\ UNCHANGED <<period, named, nextRoll, clock, now, born, overflowed>>
  BY DEF Time!Open, Time!settings
<1>2. timeOpen' = ToOpen(r, StyleOf(named))
  BY <1>1, ActiveOpened
<1>3. IsScheduled(r)'
  BY <1>1, <1>2 DEF IsOrderly, IsScheduled
<1>4. InTime(timeFiles', born, r, StyleOf(named), Limit(period, clock, overflowed))
  BY <1>1, ActiveOpened
<1> QED BY <1>1, <1>3, <1>4 DEF IsOrderly

LEMMA StartKeepsOrder ==
  ASSUME TimeTypes, NEW r, IsOrderly(r), Time!Start
  PROVE  IsOrderly(r)'
<1>1. /\ timeStep = "start" /\ timeStep' = "idle" /\ timeOpen' = Time!ActiveName
      /\ timeFiles' = Time!Opened(timeFiles, Time!ActiveName)
      /\ UNCHANGED <<period, named, nextRoll, clock, now, born, overflowed>>
  BY DEF Time!Start, Time!settings
<1>2. timeOpen' = ToOpen(r, StyleOf(named))
  BY <1>1, ActiveOpened
<1>3. IsScheduled(r)'
  BY <1>1, <1>2 DEF IsOrderly, IsScheduled
<1>4. InTime(timeFiles', born, r, StyleOf(named), Limit(period, clock, overflowed))
  BY <1>1, ActiveOpened
<1> QED BY <1>1, <1>3, <1>4 DEF IsOrderly

LEMMA WriteEventKeepsOrder ==
  ASSUME TimeTypes, NEW r, IsOrderly(r), Time!WriteEvent
  PROVE  IsOrderly(r)'
<1> DEFINE q == InPeriod(period, now)
           style == StyleOf(named)
           limit == Limit(period, clock, overflowed)
           f == ToOpen(r, style)
           c == Append(born, q)
<1>1. /\ timeStep = "write" /\ timeStep' = "idle"
      /\ born' = c
      /\ timeFiles' = [Time!Opened(timeFiles, timeOpen) EXCEPT ![timeOpen] = @ \cup {Len(born')}]
      /\ UNCHANGED <<period, named, timeOpen, nextRoll, clock, now, overflowed>>
  BY Translated DEF Time!WriteEvent, Time!settings
<1>2. /\ style \in Styles /\ limit \in Int /\ born \in Seq(Nat) /\ r \in Nat /\ q \in Nat
      /\ InTime(timeFiles, born, r, style, limit)
  BY PeriodOfClock DEF TimeTypes, IsOrderly, IsScheduled
<1>3. timeOpen = f /\ q <= r
  BY <1>1 DEF IsOrderly, IsScheduled
<1>4. IsScheduled(r)'
  BY <1>1 DEF IsOrderly, IsScheduled
<1>5. style = StyleOf(named') /\ limit = Limit(period', clock', overflowed')
  BY <1>1
<1> HIDE DEF style, limit, q
<1>6. InTime([Time!Opened(timeFiles, f) EXCEPT ![f] = @ \cup {Len(c)}], c, r, style, limit)
  BY <1>2, <1>3, WrittenInTime
<1>7. InTime(timeFiles', born', r, style, limit)
  BY <1>1, <1>3, <1>6
<1> QED BY <1>4, <1>5, <1>7 DEF IsOrderly

\* The next roll is that of the period in which the roller is made.
LEMMA RestartKeepsOrder ==
  ASSUME TimeTypes, NEW r, IsOrderly(r), Time!Restart
  PROVE  IsOrderly(InPeriod(period, clock))'
<1> DEFINE p == InPeriod(period, clock)
<1>1. /\ timeStep' = "start" /\ nextRoll' = Beginning(period, p + 1)
      /\ UNCHANGED <<period, named, timeFiles, timeOpen, clock, now, born, overflowed>>
  BY Translated DEF Time!Restart, Time!settings
<1>2. /\ p \in 0 .. Horizon /\ p <= p /\ r <= p /\ Horizon \in Nat
      /\ clock \in clock .. Horizon
  BY PeriodOfClock DEF TimeTypes, IsOrderly, IsScheduled
<1>3. p' = p
  BY <1>1
<1>4. IsScheduled(p)'
  BY <1>1, <1>2, <1>3 DEF IsScheduled
<1> HIDE DEF p
<1>5. InTime(timeFiles', born', p, StyleOf(named'), Limit(period', clock', overflowed'))
  BY <1>1, <1>2, OrderlyStays
<1> QED BY <1>3, <1>4, <1>5 DEF IsOrderly, p

LEMMA TimeInitially ==
  ASSUME Time!Init
  PROVE  TimeInv
<1> DEFINE r == InPeriod(period, clock)
<1>1. TimeTypes
  BY Assumptions
     DEF Time!Init, TimeTypes, Units, Time!Never, Assumptions, Time!CalendarAssumption
<1>2. /\ clock = 0 /\ now = 0 /\ timeOpen = Time!ActiveName
      /\ timeFiles = [f \in {timeOpen} |-> {}]
      /\ nextRoll = Beginning(period, r + 1) /\ timeStep = "idle" /\ born = <<>>
  BY Translated DEF Time!Init
<1>3. r \in 0 .. Horizon /\ r <= r
  BY <1>1, PeriodOfClock
<1>4. timeOpen = ToOpen(r, StyleOf(named))
  BY <1>2, Translated DEF ToOpen, StyleOf
<1> HIDE DEF r
<1>5. IsScheduled(r)
  BY <1>2, <1>3, <1>4 DEF IsScheduled, r
<1>6. DOMAIN timeFiles = {timeOpen} /\ timeFiles[timeOpen] = {} /\ DOMAIN born = {}
  BY <1>2
<1>7. IsDated(timeOpen, r, StyleOf(named))
  BY <1>3, <1>4, NamesDiffer DEF IsDated, ToOpen
<1>8. \A n : Time!Gz(n) # timeOpen
  BY <1>4, NamesDiffer DEF ToOpen
<1>9. InTime(timeFiles, born, r, StyleOf(named), Limit(period, clock, overflowed))
  BY <1>6, <1>7, <1>8 DEF InTime
<1> QED BY <1>1, <1>3, <1>5, <1>9 DEF TimeInv, IsOrderly

LEMMA TimeInvStep ==
  ASSUME TimeInv, Time!Next
  PROVE  TimeInv'
<1>1. TimeTypes /\ TimeTypes'
  BY TimeTypesStep DEF TimeInv
<1> SUFFICES ASSUME IsSmooth(named, failures, crossed)'
             PROVE  \E q \in 0 .. Horizon : IsOrderly(q)'
  BY <1>1 DEF TimeInv
<1>2. ASSUME NEW q, IsOrderly(q)' PROVE \E n \in 0 .. Horizon : IsOrderly(n)'
  <2>1. q \in 0 .. Horizon
    BY <1>2 DEF IsOrderly, IsScheduled
  <2> QED BY <1>2, <2>1
<1>3. IsSmooth(named, failures, crossed)
  <2>1. named' = named /\ (failures' = 0 => failures = 0) /\ (~crossed' => ~crossed)
    <3> USE DEF Time!settings
    <3>1. failures \in Nat
      BY <1>1 DEF TimeTypes
    <3>2. CASE Time!CompressionFails
      BY <3>1, <3>2 DEF Time!CompressionFails
    <3>3. CASE Time!Tick
      BY <3>3 DEF Time!Tick
    <3>4. CASE ~Time!CompressionFails /\ ~Time!Tick
      BY <3>4 DEF Time!Next, Time!Write, Time!RemoveTarget, Time!RenameActive, Time!Clean,
                  Time!Open, Time!WriteEvent, Time!Restart, Time!Start
    <3> QED BY <3>2, <3>3, <3>4
  <2> QED BY <2>1 DEF IsSmooth
<1>4. PICK r : IsOrderly(r)
  BY <1>3 DEF TimeInv
<1>5. CASE Time!Tick
  BY <1>1, <1>2, <1>4, <1>5, TickKeepsOrder
<1>6. CASE Time!Write
  BY <1>1, <1>2, <1>4, <1>6, WriteKeepsOrder
<1>7. CASE Time!RemoveTarget
  BY <1>1, <1>2, <1>4, <1>7, RemoveTargetKeepsOrder
<1>8. CASE Time!RenameActive
  BY <1>1, <1>2, <1>4, <1>8, RenameActiveKeepsOrder
<1>9. CASE Time!CompressionFails
  BY <1>1, <1>2, <1>4, <1>9, CompressionFailsKeepsOrder
<1>10. CASE Time!Clean
  BY <1>1, <1>2, <1>4, <1>10, CleanKeepsOrder
<1>11. CASE Time!Open
  BY <1>1, <1>2, <1>4, <1>11, OpenKeepsOrder
<1>12. CASE Time!WriteEvent
  BY <1>1, <1>2, <1>4, <1>12, WriteEventKeepsOrder
<1>13. CASE Time!Restart
  BY <1>1, <1>2, <1>4, <1>13, RestartKeepsOrder
<1>14. CASE Time!Start
  BY <1>1, <1>2, <1>4, <1>14, StartKeepsOrder
<1> QED BY <1>5, <1>6, <1>7, <1>8, <1>9, <1>10, <1>11, <1>12, <1>13, <1>14 DEF Time!Next

\* Whatever the calendar, the history and the compressor, and whenever the process dies,
\* the time roller loses only events that are older than the history: with a fixed name
\* unless a compression fails, and without one unless a period begins within a roll.
THEOREM OldEventsAreLostOnly == RollersSpec => []OnlyOldEventsAreLost
<1>1. RollersInit => TimeInv
  BY TimeInitially DEF RollersInit
<1>2. TimeInv /\ [RollersNext]_<<roller, vars, sliding, time, plain>> => TimeInv'
  <2> SUFFICES ASSUME TimeInv, [RollersNext]_<<roller, vars, sliding, time, plain>>
               PROVE  TimeInv'
    OBVIOUS
  <2>1. CASE UNCHANGED time
    BY <2>1 DEF TimeInv, TimeTypes, IsSmooth, IsOrderly, IsScheduled, time
  <2>2. CASE Time!Next
    BY <2>2, TimeInvStep
  <2> QED BY <2>1, <2>2 DEF RollersNext
<1>3. TimeInv => OnlyOldEventsAreLost
  <2> SUFFICES ASSUME TimeInv, IsSmooth(named, failures, crossed),
                      NEW e \in DOMAIN born, e \notin Time!Kept
               PROVE  born[e] < Time!PeriodOf(clock) - MaxHistory + (IF overflowed THEN 1 ELSE 0)
    BY DEF OnlyOldEventsAreLost, Time!OnlyOldEventsAreLost, IsSmooth
  <2>1. PICK r : InTime(timeFiles, born, r, StyleOf(named), Limit(period, clock, overflowed))
    BY DEF TimeInv, IsOrderly
  <2>2. \A f \in DOMAIN timeFiles : e \notin timeFiles[f]
    BY DEF Time!Kept, Time!Range
  <2> QED BY <2>1, <2>2, Translated DEF InTime, Limit
<1> QED BY <1>1, <1>2, <1>3, PTL DEF RollersSpec

-----------------------------------------------------------------------------
(* The time roller: what a cleaning leaves.                                 *)

\* The first period that a cleaning at the time t keeps.
KeptFrom(unit, t, hasName) == InPeriod(unit, t) - MaxHistory + (IF hasName THEN 1 ELSE 0)

\* The last cleaning kept f, or it is too old for the first to have looked for it.
IsReached(f, unit, last, hasName) ==
  /\ f = Time!Plain(f.of)
  /\ last # Time!Never => \/ f.of >= KeptFrom(unit, last, hasName)
                          \/ f.of < KeptFrom(unit, last, hasName) - LookBack
AreReached(fs, unit, last, hasName) ==
  \A f \in DOMAIN fs : f # Time!Fixed => IsReached(f, unit, last, hasName)

\* What MonthsAreCleaned asks for.
IsRegular(unit, from, over, missed) == unit = "month" /\ from = 0 /\ ~over /\ ~missed

\* Without a compressor nothing fails, and the last cleaning was in a period before the
\* next roll.
AreCleaned ==
  /\ failures = 0
  /\ AreReached(timeFiles, period, lastClean, named)
  /\ lastClean # Time!Never => lastClean < nextRoll
  /\ timeStep = "open" => lastClean = now

CleanInv ==
  /\ lastClean \in (0 .. now) \cup {-1}
  /\ IsRegular(period, timeCompressFrom, overflowed, crossed) => AreCleaned

LEMMA CleanTypes ==
  ASSUME TimeTypes, CleanInv
  PROVE  /\ LookBack \in Nat /\ MaxHistory \in Nat /\ Horizon \in Nat
         /\ lastClean # Time!Never =>
              /\ lastClean \in 0 .. Horizon /\ lastClean <= now
              /\ InPeriod(period, lastClean) \in 0 .. Horizon
              /\ InPeriod(period, lastClean) <= InPeriod(period, now)
              /\ KeptFrom(period, lastClean, named) \in Int
<1>1. LookBack \in Nat /\ MaxHistory \in Nat /\ Horizon \in Nat /\ now \in 0 .. Horizon
      /\ period \in Units
  BY PeriodOfClock, Assumptions DEF Assumptions, Time!HistoryAssumption, TimeTypes
<1>2. ASSUME lastClean # Time!Never
      PROVE  /\ lastClean \in 0 .. Horizon /\ lastClean <= now
             /\ now \in lastClean .. Horizon
  BY <1>1, <1>2 DEF CleanInv, Time!Never
<1>3. ASSUME lastClean # Time!Never
      PROVE  /\ InPeriod(period, lastClean) \in 0 .. Horizon
             /\ InPeriod(period, lastClean) <= InPeriod(period, now)
  <2>1. InPeriod(period, lastClean) \in 0 .. lastClean
    BY <1>1, <1>2, <1>3, PeriodFacts
  <2>2. InPeriod(period, lastClean) \in 0 .. Horizon
    BY <1>1, <1>2, <1>3, <2>1
  <2> QED BY <1>1, <1>2, <1>3, <2>2, PeriodsFollow
<1>4. ASSUME lastClean # Time!Never PROVE KeptFrom(period, lastClean, named) \in Int
  BY <1>1, <1>3, <1>4 DEF KeptFrom
<1> QED BY <1>1, <1>2, <1>3, <1>4

\* A file that is made after a cleaning is kept by it.
LEMMA NewIsReached ==
  ASSUME TimeTypes, CleanInv, NEW n \in Nat,
         lastClean # Time!Never =>
           InPeriod(period, lastClean) + (IF named THEN 1 ELSE 0) <= n
  PROVE  IsReached(Time!Plain(n), period, lastClean, named)
<1>1. Time!Plain(n) = Time!Plain(Time!Plain(n).of) /\ Time!Plain(n).of = n
  BY NamesDiffer
<1>2. ASSUME lastClean # Time!Never PROVE n >= KeptFrom(period, lastClean, named)
  <2> DEFINE k == InPeriod(period, lastClean)
  <2>1. k \in 0 .. Horizon /\ MaxHistory \in Nat /\ Horizon \in Nat
    BY <1>2, CleanTypes
  <2>2. KeptFrom(period, lastClean, named) = k - MaxHistory + (IF named THEN 1 ELSE 0)
    BY DEF KeptFrom
  <2> HIDE DEF k
  <2>3. k + (IF named THEN 1 ELSE 0) <= n
    BY <1>2 DEF k
  <2> QED BY <2>1, <2>2, <2>3
<1> QED BY <1>1, <1>2 DEF IsReached

\* Until the next roll, the period of the last cleaning is none after r.
LEMMA CleanedUpTo ==
  ASSUME TimeTypes, CleanInv, AreCleaned, NEW r, IsOrderly(r), lastClean # Time!Never
  PROVE  InPeriod(period, lastClean) <= r
<1>1. period \in Units /\ r \in 0 .. Horizon /\ nextRoll = Beginning(period, r + 1)
  BY DEF TimeTypes, IsOrderly, IsScheduled
<1>2. lastClean \in 0 .. Horizon /\ lastClean < nextRoll
  BY CleanTypes DEF AreCleaned
<1> QED BY <1>1, <1>2, PeriodIsUpTo

\* The file that is opened.
LEMMA OpenedIsReached ==
  ASSUME TimeTypes, CleanInv, AreCleaned, NEW r, IsOrderly(r)
  PROVE  AreReached(Time!Opened(timeFiles, ToOpen(r, StyleOf(named))), period, lastClean, named)
<1> DEFINE f == ToOpen(r, StyleOf(named))
<1>1. DOMAIN Time!Opened(timeFiles, f) = DOMAIN timeFiles \cup {f}
  BY DEF Time!Opened
<1>2. f # Time!Fixed => IsReached(f, period, lastClean, named)
  <2> SUFFICES ASSUME f # Time!Fixed PROVE IsReached(f, period, lastClean, named)
    OBVIOUS
  <2>1. f = Time!Plain(r) /\ ~named
    BY DEF ToOpen, StyleOf
  <2>2. r \in Nat
    BY PeriodOfClock DEF IsOrderly, IsScheduled
  <2>3. lastClean # Time!Never => InPeriod(period, lastClean) + (IF named THEN 1 ELSE 0) <= r
    <3> SUFFICES ASSUME lastClean # Time!Never
                 PROVE  InPeriod(period, lastClean) + (IF named THEN 1 ELSE 0) <= r
      OBVIOUS
    <3>1. InPeriod(period, lastClean) <= r /\ InPeriod(period, lastClean) \in 0 .. Horizon
      BY CleanedUpTo, CleanTypes
    <3> QED BY <2>1, <3>1
  <2>4. IsReached(Time!Plain(r), period, lastClean, named)
    BY <2>2, <2>3, NewIsReached
  <2> QED BY <2>1, <2>4
<1> HIDE DEF f
<1>3. AreReached(Time!Opened(timeFiles, f), period, lastClean, named)
  BY <1>1, <1>2 DEF AreReached, AreCleaned
<1> QED BY <1>3 DEF f

\* The file that is renamed.
LEMMA RenamedIsReached ==
  ASSUME TimeTypes, CleanInv, AreCleaned, NEW r, IsOrderly(r), timeCompressFrom = 0,
         Time!RenameActive
  PROVE  /\ AreReached(timeFiles', period, lastClean, named)
         /\ lastClean # Time!Never => lastClean < nextRoll'
<1> DEFINE q == InPeriod(period, now)
<1>1. /\ timeStep = "rename" /\ nextRoll' = Beginning(period, q + 1)
      /\ timeFiles' = Time!Renamed(timeFiles, Time!ActiveName, Time!Plain(q))
      /\ Time!ActiveName = IF named THEN Time!Fixed ELSE Time!Plain(InPeriod(period, clock))
  BY Translated DEF Time!RenameActive, Time!Compressed
<1>2. /\ period \in Units /\ now \in 0 .. Horizon /\ q \in 0 .. Horizon /\ q \in Nat
      /\ Horizon \in Nat
  BY PeriodOfClock DEF TimeTypes
<1>3. /\ r \in 0 .. Horizon /\ nextRoll = Beginning(period, r + 1) /\ nextRoll <= now
      /\ ~named => InPeriod(period, clock) = q
  BY <1>1 DEF IsOrderly, IsScheduled
<1>4. nextRoll \in Nat /\ (now < nextRoll <=> q <= r)
  BY <1>2, <1>3, PeriodIsUpTo
<1>5. now < nextRoll' /\ nextRoll' \in Nat
  BY <1>1, <1>2, PeriodFacts, PeriodIsUpTo
<1>6. lastClean # Time!Never => lastClean \in 0 .. Horizon /\ lastClean <= now
  BY CleanTypes
<1>7. lastClean # Time!Never => lastClean < nextRoll'
  BY <1>2, <1>5, <1>6
<1> HIDE DEF q
<1>8. DOMAIN timeFiles' \subseteq DOMAIN timeFiles \cup {Time!Plain(q)}
  BY <1>1 DEF Time!Renamed
<1>9. IsReached(Time!Plain(q), period, lastClean, named)
  <2>1. lastClean # Time!Never => InPeriod(period, lastClean) + (IF named THEN 1 ELSE 0) <= q
    <3> SUFFICES ASSUME lastClean # Time!Never
                 PROVE  InPeriod(period, lastClean) + (IF named THEN 1 ELSE 0) <= q
      OBVIOUS
    <3>1. InPeriod(period, lastClean) <= r /\ InPeriod(period, lastClean) \in 0 .. Horizon
      BY CleanedUpTo, CleanTypes
    <3>2. r < q
      BY <1>2, <1>3, <1>4
    <3> QED BY <1>2, <1>3, <3>1, <3>2
  <2> QED BY <1>2, <2>1, NewIsReached
<1>10. AreReached(timeFiles', period, lastClean, named)
  BY <1>8, <1>9 DEF AreReached, AreCleaned
<1> QED BY <1>7, <1>10

\* What a cleaning looks for, without a compressor.
LEMMA CleanedFile ==
  ASSUME TimeTypes, timeCompressFrom = 0, NEW offset \in Int, ~Time!Overflows(now, offset)
  PROVE  Time!Cleaned(offset) = Time!Plain(InPeriod(period, now) + offset)
<1>1. Time!PeriodRelative(now, offset) = InPeriod(period, now) + offset
  <2>1. InPeriod(period, now) \in 0 .. Horizon /\ Horizon \in Nat
    BY PeriodOfClock
  <2>2. Time!PeriodRelative(now, offset) = InPeriod(period, now) + offset + 0
    BY Translated DEF Time!PeriodRelative
  <2> QED BY <2>1, <2>2
<1>2. (timeCompressFrom > 0 /\ - offset >= timeCompressFrom) = FALSE
  OBVIOUS
<1> QED BY <1>1, <1>2, Zenon DEF Time!Cleaned, Time!Plain

\* What the cleaning leaves is kept by it.
LEMMA CleanIsReached ==
  ASSUME TimeTypes, CleanInv, AreCleaned, NEW r, IsOrderly(r), Time!Clean,
         period = "month", timeCompressFrom = 0, ~overflowed'
  PROVE  AreReached(timeFiles', period, now, named)
<1> DEFINE q == InPeriod(period, now)
           first == Time!OldestOffset - Time!PeriodsToClean + 1
           offsets == first .. Time!OldestOffset
           cleaned == {Time!Cleaned(o) : o \in offsets}
           k == KeptFrom(period, now, named)
<1>1. /\ timeStep = "clean"
      /\ timeFiles' = Time!Without(timeFiles, cleaned \ {Time!ActiveName})
      /\ \A o \in offsets : ~Time!Overflows(now, o)
  BY DEF Time!Clean
<1>2. DOMAIN timeFiles' = DOMAIN timeFiles \ (cleaned \ {Time!ActiveName})
  BY <1>1 DEF Time!Without, Time!Restrict
<1>3. /\ q \in 0 .. Horizon /\ Horizon \in Nat /\ MaxHistory \in Nat /\ LookBack \in Nat
      /\ named \in BOOLEAN
  BY PeriodOfClock, CleanTypes DEF TimeTypes
<1>4. k = q - MaxHistory + (IF named THEN 1 ELSE 0)
  BY DEF KeptFrom
<1>5. Time!OldestOffset = k - 1 - q
  <2>1. Time!OldestOffset = IF named THEN - MaxHistory ELSE - MaxHistory - 1
    BY DEF Time!OldestOffset
  <2> HIDE DEF k, q
  <2>2. CASE named
    BY <1>3, <1>4, <2>1, <2>2
  <2>3. CASE ~named
    BY <1>3, <1>4, <2>1, <2>3
  <2> QED BY <2>2, <2>3
<1> SUFFICES ASSUME NEW f \in DOMAIN timeFiles', f # Time!Fixed,
                    ~(f.of >= k), ~(f.of < k - LookBack)
             PROVE  FALSE
  BY <1>2 DEF AreReached, AreCleaned, IsReached
<1>6. f \in DOMAIN timeFiles
  BY <1>2
<1>7. /\ IsReached(f, period, lastClean, named)
      /\ f = Time!Plain(f.of)
  BY <1>6 DEF AreReached, AreCleaned, IsReached
<1>8. f.of \in 0 .. r /\ r \in 0 .. Horizon /\ q <= r
  BY <1>1, <1>6 DEF IsOrderly, IsScheduled, InTime, IsDated
<1>9. /\ f.of \in Int /\ k \in Int /\ f.of <= k - 1 /\ k - LookBack <= f.of
  <2> HIDE DEF k
  <2>1. k \in Int
    BY <1>3, <1>4
  <2>2. f.of \in Int
    BY <1>8
  <2> QED BY <1>3, <2>1, <2>2
<1> DEFINE o == f.of - q
<1>10. o \in offsets
  <2>1. /\ Time!PeriodsToClean \in Int
        /\ k - Time!PeriodsToClean <= f.of
    <3>1. CASE lastClean = Time!Never
      BY <1>3, <1>9, <3>1 DEF Time!PeriodsToClean
    <3>2. CASE lastClean # Time!Never
      <4> DEFINE l == InPeriod(period, lastClean)
                 m == KeptFrom(period, lastClean, named)
      <4>1. Time!PeriodsToClean = q - l
        BY <3>2, Translated DEF Time!PeriodsToClean, Time!Elapsed
      <4>2. l \in 0 .. Horizon /\ l <= q
        BY <3>2, CleanTypes
      <4>3. m = l - MaxHistory + (IF named THEN 1 ELSE 0)
        BY DEF KeptFrom
      <4>4. f.of >= m \/ f.of < m - LookBack
        BY <1>7, <3>2 DEF IsReached
      <4> HIDE DEF l, m, k, q
      <4>5. m \in Int /\ k - (q - l) = m /\ m <= k
        BY <1>3, <1>4, <4>2, <4>3
      <4>6. f.of >= m
        BY <1>3, <1>9, <4>4, <4>5
      <4> QED BY <1>3, <1>9, <4>1, <4>2, <4>5, <4>6
    <3> QED BY <3>1, <3>2
  <2> HIDE DEF k, q
  <2> QED BY <1>3, <1>5, <1>9, <2>1
<1>11. f \in cleaned
  <2>1. o \in Int
    BY <1>3, <1>9
  <2>2. Time!Cleaned(o) = Time!Plain(q + o)
    BY <1>1, <1>10, <2>1, CleanedFile
  <2>3. q + o = f.of
    BY <1>3, <1>9
  <2>4. f = Time!Cleaned(o)
    BY <1>7, <2>2, <2>3
  <2> QED BY <1>10, <2>4
<1>12. f # Time!ActiveName
  <2>1. CASE named
    BY <2>1 DEF Time!ActiveName
  <2>2. CASE ~named
    <3>1. Time!ActiveName = Time!Plain(r)
      BY <1>1, <2>2, Translated DEF IsOrderly, IsScheduled
    <3>2. f.of # r
      <4>1. k = q - MaxHistory + 0
        BY <1>4, <2>2
      <4> HIDE DEF k, q
      <4> QED BY <1>3, <1>8, <1>9, <4>1
    <3> QED BY <3>1, <3>2, NamesDiffer
  <2> QED BY <2>1, <2>2
<1> QED BY <1>2, <1>11, <1>12

LEMMA CleanInvStep ==
  ASSUME TimeInv, CleanInv, Time!Next
  PROVE  CleanInv'
<1> DEFINE regular == IsRegular(period, timeCompressFrom, overflowed, crossed)
<1> USE DEF Time!settings
<1>1. TimeTypes /\ now \in 0 .. clock /\ lastClean \in (0 .. now) \cup {-1}
      /\ clock \in 0 .. Horizon /\ Horizon \in Nat
  BY PeriodOfClock DEF TimeInv, TimeTypes, CleanInv
<1>2. lastClean' \in (0 .. now') \cup {-1}
  <2>1. CASE Time!Write \/ Time!RemoveTarget
    BY <1>1, <2>1 DEF Time!Write, Time!RemoveTarget
  <2>2. CASE Time!Clean \/ Time!Restart
    BY <1>1, <2>2 DEF Time!Clean, Time!Restart, Time!Never
  <2>3. CASE UNCHANGED <<now, lastClean>>
    BY <1>1, <2>3
  <2> QED BY <2>1, <2>2, <2>3 DEF Time!Next, Time!Tick, Time!RenameActive,
             Time!CompressionFails, Time!Open, Time!WriteEvent, Time!Start
<1> SUFFICES ASSUME IsRegular(period, timeCompressFrom, overflowed, crossed)'
             PROVE  AreCleaned'
  BY <1>2 DEF CleanInv
<1>3. /\ UNCHANGED <<period, named, timeCompressFrom>>
      /\ overflowed => overflowed'
      /\ crossed => crossed'
  <2>1. CASE Time!RenameActive
    BY <2>1 DEF Time!RenameActive
  <2>2. CASE Time!Clean
    BY <2>2 DEF Time!Clean
  <2>3. CASE Time!Tick
    BY <2>3 DEF Time!Tick
  <2>4. CASE ~Time!RenameActive /\ ~Time!Clean /\ ~Time!Tick
    BY <2>4 DEF Time!Next, Time!Write, Time!RemoveTarget, Time!CompressionFails,
                Time!Open, Time!WriteEvent, Time!Restart, Time!Start
  <2> QED BY <2>1, <2>2, <2>3, <2>4
<1>4. /\ period = "month" /\ timeCompressFrom = 0 /\ ~overflowed /\ ~overflowed' /\ ~crossed
  BY <1>3 DEF IsRegular
<1>5. AreCleaned
  BY <1>4 DEF CleanInv, IsRegular
<1>6. PICK r : IsOrderly(r)
  <2>1. IsSmooth(named, failures, crossed)
    BY <1>4, <1>5 DEF IsSmooth, AreCleaned
  <2> QED BY <2>1 DEF TimeInv
<1>7. CASE Time!Tick
  BY <1>5, <1>7 DEF Time!Tick, AreCleaned
<1>8. CASE Time!Write
  BY <1>5, <1>8 DEF Time!Write, AreCleaned
<1>9. CASE Time!RemoveTarget
  <2>1. DOMAIN timeFiles' \subseteq DOMAIN timeFiles
    BY <1>9 DEF Time!RemoveTarget, Time!Without, Time!Restrict
  <2>2. AreReached(timeFiles', period, lastClean, named)
    BY <1>5, <2>1 DEF AreCleaned, AreReached
  <2> QED BY <1>5, <1>9, <2>2 DEF Time!RemoveTarget, AreCleaned
<1>10. CASE Time!RenameActive
  <2>1. /\ AreReached(timeFiles', period, lastClean, named)
        /\ lastClean # Time!Never => lastClean < nextRoll'
    BY <1>1, <1>4, <1>5, <1>6, <1>10, RenamedIsReached
  <2> QED BY <1>5, <1>10, <2>1 DEF Time!RenameActive, AreCleaned
<1>11. ~Time!CompressionFails
  BY <1>4 DEF Time!CompressionFails
<1>12. CASE Time!Clean
  <2>1. AreReached(timeFiles', period, now, named)
    BY <1>1, <1>4, <1>5, <1>6, <1>12, CleanIsReached
  <2>2. /\ timeStep = "clean" /\ timeStep' = "open" /\ lastClean' = now
        /\ UNCHANGED <<period, named, nextRoll, now, failures>>
    BY <1>12 DEF Time!Clean
  <2>3. now < nextRoll
    <3>1. /\ period \in Units /\ r \in 0 .. Horizon /\ nextRoll = Beginning(period, r + 1)
          /\ InPeriod(period, now) <= r /\ now \in 0 .. Horizon
      BY <1>6, <2>2, <1>1, PeriodOfClock DEF IsOrderly, IsScheduled, TimeTypes
    <3> QED BY <3>1, PeriodIsUpTo
  <2> QED BY <1>5, <2>1, <2>2, <2>3 DEF AreCleaned
<1>13. CASE Time!Open \/ Time!Start
  <2>1. /\ timeStep \in {"open", "start"} /\ timeStep' # "open"
        /\ timeFiles' = Time!Opened(timeFiles, Time!ActiveName)
        /\ UNCHANGED <<lastClean, nextRoll, failures>>
    BY <1>13 DEF Time!Open, Time!Start
  <2>2. Time!ActiveName = ToOpen(r, StyleOf(named))
    BY <1>1, <1>6, <2>1, ActiveOpened
  <2>3. AreReached(timeFiles', period, lastClean, named)
    BY <1>1, <1>5, <1>6, <2>1, <2>2, OpenedIsReached
  <2> QED BY <1>3, <1>5, <2>1, <2>3 DEF AreCleaned
<1>14. CASE Time!WriteEvent
  <2>1. /\ timeStep = "write" /\ timeStep' = "idle"
        /\ timeFiles' = [Time!Opened(timeFiles, timeOpen) EXCEPT ![timeOpen] = @ \cup {Len(born')}]
        /\ UNCHANGED <<lastClean, nextRoll, failures>>
    BY <1>14 DEF Time!WriteEvent
  <2>2. timeOpen = ToOpen(r, StyleOf(named))
    BY <1>6, <2>1 DEF IsOrderly, IsScheduled
  <2>3. DOMAIN timeFiles' = DOMAIN Time!Opened(timeFiles, timeOpen)
    BY <2>1
  <2>4. AreReached(Time!Opened(timeFiles, timeOpen), period, lastClean, named)
    BY <1>1, <1>5, <1>6, <2>2, OpenedIsReached
  <2>5. AreReached(timeFiles', period, lastClean, named)
    BY <2>3, <2>4 DEF AreReached
  <2> QED BY <1>3, <1>5, <2>1, <2>5 DEF AreCleaned
<1>15. CASE Time!Restart
  BY <1>5, <1>15 DEF Time!Restart, AreCleaned, AreReached, IsReached
<1> QED BY <1>7, <1>8, <1>9, <1>10, <1>11, <1>12, <1>13, <1>14, <1>15 DEF Time!Next

\* By months and without a compressor, while no day overflows and no period begins within
\* a roll: every cleaning leaves the history and what was too old for the first to look
\* for, whatever the history, the months, and the times at which the process died.
THEOREM MonthsStayCleaned == RollersSpec => []MonthsAreCleaned
<1>1. RollersInit => TimeInv /\ CleanInv
  <2> SUFFICES ASSUME Time!Init PROVE TimeInv /\ CleanInv
    BY DEF RollersInit
  <2>1. TimeInv
    BY TimeInitially
  <2>2. /\ clock = 0 /\ now = 0 /\ lastClean = Time!Never /\ failures = 0
        /\ timeStep = "idle" /\ timeOpen = Time!ActiveName /\ DOMAIN timeFiles = {timeOpen}
    BY DEF Time!Init
  <2>3. lastClean \in (0 .. now) \cup {-1}
    BY <2>2 DEF Time!Never
  <2>4. timeOpen # Time!Fixed => IsReached(timeOpen, period, lastClean, named)
    BY <2>2, Translated, NamesDiffer DEF IsReached
  <2> QED BY <2>1, <2>2, <2>3, <2>4 DEF CleanInv, AreCleaned, AreReached
<1>2. TimeInv /\ CleanInv /\ [RollersNext]_<<roller, vars, sliding, time, plain>>
        => TimeInv' /\ CleanInv'
  <2> SUFFICES ASSUME TimeInv, CleanInv, [RollersNext]_<<roller, vars, sliding, time, plain>>
               PROVE  TimeInv' /\ CleanInv'
    OBVIOUS
  <2>1. CASE UNCHANGED time
    <3>1. TimeInv'
      BY <2>1 DEF TimeInv, TimeTypes, IsSmooth, IsOrderly, IsScheduled, time
    <3>2. CleanInv'
      BY <2>1 DEF CleanInv, AreCleaned, time
    <3> QED BY <3>1, <3>2
  <2>2. CASE Time!Next
    BY <2>2, TimeInvStep, CleanInvStep
  <2> QED BY <2>1, <2>2 DEF RollersNext
<1>3. TimeInv /\ CleanInv => MonthsAreCleaned
  <2> SUFFICES ASSUME TimeInv, CleanInv, period = "month", timeCompressFrom = 0, ~overflowed,
                      ~crossed, timeStep = "open", NEW f \in DOMAIN timeFiles, f # Time!Fixed
               PROVE  Time!IsHistory(f) \/ Time!IsForgotten(f)
    BY DEF MonthsAreCleaned, Time!MonthsAreCleaned
  <2>1. AreCleaned /\ lastClean = now
    BY DEF CleanInv, AreCleaned, IsRegular
  <2>2. lastClean # Time!Never
    BY <2>1, PeriodOfClock DEF TimeInv, Time!Never
  <2>3. \/ f.of >= KeptFrom(period, now, named)
        \/ f.of < KeptFrom(period, now, named) - LookBack
    BY <2>1, <2>2 DEF AreCleaned, AreReached, IsReached
  <2>4. Time!FirstKept = KeptFrom(period, now, named)
    BY Translated DEF Time!FirstKept, KeptFrom
  <2> QED BY <2>3, <2>4 DEF Time!IsHistory, Time!IsForgotten
<1> QED BY <1>1, <1>2, <1>3, PTL DEF RollersSpec
=============================================================================

----------------------------- MODULE FileWriter -----------------------------
(***************************************************************************)
(* file_writer with the buffer of file_descriptor_writer: events go piece  *)
(* by piece through the buffer to a descriptor, and every three seconds    *)
(* the writer looks whether its file is still there and may be written.    *)
(* Meanwhile others remove the file, make it anew and change its           *)
(* permissions.  Writing holds guard_, so each call is one action.         *)
(*                                                                         *)
(* A file stays what it is while a descriptor refers to it, whatever       *)
(* becomes of its name.  Bytes come in pieces, of which an event has some. *)
(***************************************************************************)
EXTENDS Integers, SequencesExt

CONSTANTS BufferSize,   \* how many pieces buf_ has room for
          Sizes,        \* how many an event may have
          EventBound,   \* no more events than this are written
          FaultBound,   \* no more openings and writings than this fail
          WorldBound    \* others change the file no more often than this

BufferAssumption == BufferSize \in Nat \ {0} /\ Sizes \subseteq Nat \ {0}

VARIABLES append,  \* is start_ APPEND?
          flushes, \* flush_
          disk,    \* the files there have been, the one that has the name, or NoFile,
                   \* and whether it may be written
          writer,  \* the state of the writer
          due,     \* is the time of next_access_check_ over?
          event,   \* how many events have been written
          sizes,   \* how many pieces each of them had
          spoiled, \* has a write failed, or the buffer been discarded?
          foreign, \* has another process made the file that has the name?
          checked, \* since a check, has nobody changed the file and nothing failed?
          faults, changes

made == <<append, flushes>>
vars == <<made, disk, writer, due, event, sizes, spoiled, foreign, checked, faults, changes>>

NoFile == 0
Old == <<[event |-> 0, piece |-> 1]>>

NewWriter == [fd |-> NoFile,          \* the file of fd_
              buffer |-> <<>>,        \* buf_, as far as num_
              isOpen |-> FALSE,       \* is_open_
              wasOpened |-> FALSE,    \* has_been_opened_
              writeability |-> "none"]

\* What a call works on: what its opening and its writings will come to is known.
Begun(opening, writings) ==
  [disk |-> disk, writer |-> writer, opening |-> opening, writings |-> writings,
   threw |-> FALSE, discarded |-> FALSE]

-----------------------------------------------------------------------------
(* file_descriptor_writer.                                                 *)

\* Mutant: what could not be written is not moved to the beginning of the buffer.
WriteBufferUnmoved(s, n) ==
  [s EXCEPT !.disk.files[s.writer.fd] = @ \o SubSeq(s.writer.buffer, 1, n),
            !.writer.buffer = SubSeq(@, 1, Len(@) - n)]
\* What could not be written waits in the buffer for the next time.
WriteBuffer(s, n) ==
  [s EXCEPT !.disk.files[s.writer.fd] = @ \o SubSeq(s.writer.buffer, 1, n),
            !.writer.buffer = SubSeq(@, n + 1, Len(@))]

\* flush: the buffer is written once, in part perhaps.
Flush(s) ==
  LET result == IF s.writings = <<>> THEN "all" ELSE Head(s.writings)
      t == [s EXCEPT !.writings = IF @ = <<>> THEN @ ELSE Tail(@)]
  IN  IF s.writer.fd = NoFile
      THEN [s EXCEPT !.writer.buffer = <<>>, !.discarded = s.writer.buffer # <<>>]
      ELSE CASE result = "error" -> [t EXCEPT !.threw = TRUE]
             [] result = "some" /\ Len(s.writer.buffer) > 1 -> WriteBuffer(t, 1)
             [] OTHER -> WriteBuffer(t, Len(s.writer.buffer))

IsFull(s) == Len(s.writer.buffer) = BufferSize

\* A piece that finds the buffer full, since a write failed, waits for it to be flushed.
WritePiece(s, piece) ==
  LET room == IF IsFull(s) THEN Flush(s) ELSE s
      t == [room EXCEPT !.writer.buffer = Append(@, piece)]
  IN  IF s.threw THEN s
      ELSE IF room.threw THEN room
      ELSE IF IsFull(t) THEN Flush(t) ELSE t

\* The pieces of the event n, each after the one before.
PutPieces(s, n, size) ==
  LET After[i \in 0 .. size] ==
        IF i = 0 THEN s ELSE WritePiece(After[i - 1], [event |-> n, piece |-> i])
  IN  After[size]

\* write_impl: an exception leaves in the buffer what is there of the event.
WritePieces(s, n, size) ==
  LET t == PutPieces(s, n, size)
  IN  IF ~t.threw /\ flushes /\ t.writer.buffer # <<>> THEN Flush(t) ELSE t

\* An exception of the flush is caught. What is left in the buffer stays there.
Close(s) ==
  LET t == IF s.writer.buffer # <<>> THEN Flush(s) ELSE s
  IN  IF s.writer.fd = NoFile THEN s
      ELSE [t EXCEPT !.writer.fd = NoFile, !.threw = s.threw]

-----------------------------------------------------------------------------
(* file_writer.                                                            *)

\* open_impl: the file is made, emptied if it is the first and not to be appended to.
Opened(s) == IF s.disk.named = NoFile
             THEN [s.disk EXCEPT !.files = Append(@, <<>>), !.named = Len(s.disk.files) + 1,
                                 !.permitted = TRUE]
             ELSE IF append \/ s.writer.wasOpened THEN s.disk
             ELSE [s.disk EXCEPT !.files[s.disk.named] = <<>>]

\* open: if a directory cannot be made is_open_ stays as it is. A descriptor that the
\* writer has is not closed.
Open(s) ==
  CASE s.opening = "no_directory" /\ s.disk.named = NoFile -> s
    [] s.opening = "not_opened" \/ (s.disk.named # NoFile /\ ~s.disk.permitted) ->
         [s EXCEPT !.writer.isOpen = FALSE]
    [] OTHER ->
         LET d == Opened(s)
         IN  [s EXCEPT !.disk = d,
                       !.writer = [@ EXCEPT !.fd = d.named, !.isOpen = TRUE,
                                            !.wasOpened = TRUE, !.writeability = "writeable"]]

Shut(s) == [Close(s) EXCEPT !.writer.isOpen = FALSE]

\* Nothing is done for a writer that has never been open.
CheckForbidden(s) ==
  IF s.writer.writeability = "none" THEN s
  ELSE [(IF s.writer.writeability = "non_writeable" THEN s ELSE Shut(s))
          EXCEPT !.writer.writeability = "non_writeable"]

CheckMissing(s) ==
  LET t == Open(s)
  IN  IF t.writer.isOpen THEN t ELSE [t EXCEPT !.writer.writeability = "non_existent"]

\* Mutant: a file that has been forbidden and is not any more stays closed.
CheckWriteableOnceMissing(s) ==
  LET t == Open(Shut(s))
  IN  IF s.writer.writeability # "non_existent" THEN s
      ELSE IF t.writer.isOpen THEN t
      ELSE [t EXCEPT !.writer.writeability = "non_writeable"]
\* As far as the writer knows, the file is the one that it has open.
CheckWriteable(s) ==
  LET t == Open(Shut(s))
  IN  IF s.writer.writeability \in {"none", "writeable"} THEN s
      ELSE IF t.writer.isOpen THEN t
      ELSE [t EXCEPT !.writer.writeability = "non_writeable"]

EnsureAccess(s) == CASE s.disk.named = NoFile -> CheckMissing(s)
                     [] s.disk.named # NoFile /\ ~s.disk.permitted -> CheckForbidden(s)
                     [] OTHER -> CheckWriteable(s)

-----------------------------------------------------------------------------
(* The calls, and what others do meanwhile.                                *)

Disks == {[files |-> <<>>, named |-> NoFile, permitted |-> TRUE]}
           \cup [files : {<<Old>>}, named : {1}, permitted : BOOLEAN]

\* The constructor opens the file.
Init == /\ append \in BOOLEAN /\ flushes \in BOOLEAN
        /\ \E d \in Disks, opening \in {"opened", "not_opened"} :
             LET s == Open([disk |-> d, writer |-> NewWriter, opening |-> opening])
             IN  disk = s.disk /\ writer = s.writer
        /\ due = FALSE
        /\ event = 0 /\ sizes = <<>> /\ spoiled = FALSE /\ foreign = FALSE
        /\ checked = FALSE /\ faults = 0 /\ changes = 0

Failures(opening, writings) ==
  (IF opening = "opened" THEN 0 ELSE 1)
    + Len(SelectSeq(writings, LAMBDA result : result # "all"))

Leave(s, opening, writings) ==
  /\ s.writings = <<>>
  /\ disk' = s.disk /\ writer' = s.writer
  /\ spoiled' = (spoiled \/ s.threw \/ s.discarded \/ "error" \in ToSet(writings))
  /\ faults' = faults + Failures(opening, writings) /\ faults' <= FaultBound

\* write_impl, with the check when it is due.
Write(size, opening, writings) ==
  /\ event < EventBound
  /\ event' = event + 1 /\ sizes' = Append(sizes, size)
  /\ LET s == Begun(opening, writings)
         a == IF due THEN EnsureAccess(s) ELSE s
     IN  /\ Leave(IF a.writer.isOpen THEN WritePieces(a, event', size) ELSE a,
                  opening, writings)
         /\ foreign' = (foreign /\ a.disk.named = disk.named)
         /\ checked' = IF due THEN opening = "opened" /\ a.disk.permitted ELSE checked
  /\ due' = FALSE
  /\ UNCHANGED <<made, changes>>

FlushWriter(writings) ==
  /\ Leave(Flush(Begun("opened", writings)), "opened", writings)
  /\ UNCHANGED <<made, due, event, sizes, foreign, checked, changes>>

TimePasses == /\ ~due /\ due' = TRUE
              /\ UNCHANGED <<made, disk, writer, event, sizes, spoiled, foreign, checked,
                             faults, changes>>

Change(d) == /\ changes < WorldBound /\ changes' = changes + 1
             /\ disk' = d
             /\ checked' = FALSE
             /\ UNCHANGED <<made, writer, due, event, sizes, spoiled, faults>>

RemoveFile == /\ disk.named # NoFile
              /\ Change([disk EXCEPT !.named = NoFile])
              /\ foreign' = FALSE

MakeAnew == /\ disk.named = NoFile
            /\ Change([files |-> Append(disk.files, <<>>), named |-> Len(disk.files) + 1,
                       permitted |-> TRUE])
            /\ foreign' = TRUE

ChangePermission == /\ disk.named # NoFile
                    /\ Change([disk EXCEPT !.permitted = ~@])
                    /\ UNCHANGED foreign

Openings == {"opened", "not_opened", "no_directory"}
Writings == {<<>>} \cup [1 .. 1 -> {"some", "error"}] \cup {<<"all", "some">>, <<"all", "error">>}

Next == \/ \E size \in Sizes, opening \in Openings, writings \in Writings :
             Write(size, opening, writings)
        \/ \E writings \in Writings : FlushWriter(writings)
        \/ TimePasses
        \/ RemoveFile \/ MakeAnew \/ ChangePermission

Spec == Init /\ [][Next]_vars

-----------------------------------------------------------------------------
(* Properties.                                                             *)

Before(p, q) == p.event < q.event \/ (p.event = q.event /\ p.piece < q.piece)
Follow(pieces) == \A i, j \in DOMAIN pieces : i < j => Before(pieces[i], pieces[j])

\* What the descriptor's file will have when the buffer is written.
Coming == IF writer.fd = NoFile THEN writer.buffer
          ELSE disk.files[writer.fd] \o writer.buffer
AllPieces == ToSet(writer.buffer) \cup UNION {ToSet(file) : file \in ToSet(disk.files)}

\* Whatever fails, and whoever removes the file, the pieces in every file are in the order
\* in which they were logged, none of them twice. Unless a write failed or a buffer was
\* discarded, of each event there is all or nothing, if perhaps in two files.
FilesTellTheEvents ==
  /\ \A i \in DOMAIN disk.files : Follow(disk.files[i])
  /\ Follow(Coming)
  /\ \A i, j \in DOMAIN disk.files : i # j => ToSet(disk.files[i]) \cap ToSet(disk.files[j]) = {}
  /\ ~spoiled => \A p \in AllPieces : p.event > 0 =>
       \A k \in 1 .. sizes[p.event] : [event |-> p.event, piece |-> k] \in AllPieces

\* After a check that could open what it tried to, until something else happens to the
\* file, events go to the file that has the name; but for a file that another process
\* made between two checks, and for a writer that was never open, whose file was there.
CheckRestores ==
  checked /\ ~foreign /\ writer.writeability # "none" =>
    writer.isOpen /\ writer.fd = disk.named
=============================================================================

--------------------------- MODULE BatchingWriter ---------------------------
(***************************************************************************)
(* What write_impl of a network writer does with an event.  A message      *)
(* queue writer collects events in a blob until there are coalesce_max_ of *)
(* them, an e-mail writer until an event triggers a mail, the others send  *)
(* each event.  The brokers, servers and mail hosts are external: a        *)
(* sending succeeds or throws.                                             *)
(*                                                                         *)
(* A writer is a record, so that a filter can write to it several times    *)
(* in one evaluation.                                                      *)
(***************************************************************************)
EXTENDS Integers, Sequences

CONSTANTS BufferCapacity,  \* buffer_size of the e-mail writer
          TriggerLevel     \* level_ of its level_threshold_email_trigger

BufferAssumption == BufferCapacity \in Nat \ {0} /\ TriggerLevel \in Int

\* luck is how many of the next sendings succeed before one throws.
NewWriter(kind, max) ==
  [kind |-> kind,      \* "queue", "email" or "direct"
   max |-> max,        \* coalesce_max_
   count |-> 0,        \* number_coalesced_
   held |-> <<>>,      \* what the serializer, or the buffer, has collected
   sent |-> <<>>,      \* the events of everything sent
   luck |-> 0,
   threw |-> FALSE]

\* Collected events leave the writer before they are sent.
Send(w) == IF w.luck > 0
           THEN [w EXCEPT !.sent = @ \o w.held, !.held = <<>>, !.luck = @ - 1]
           ELSE [w EXCEPT !.held = <<>>, !.threw = TRUE]

\* Mutant: the count goes on after a blob is sent.
FlushUncounted(w) == Send(w)
\* message_queue_writer::flush: an exception leaves number_coalesced_ as it is.
Flush(w) == LET s == Send(w) IN IF s.threw THEN s ELSE [s EXCEPT !.count = 0]

Collect(w, e) == [w EXCEPT !.held = Append(@, e), !.count = @ + 1]

WriteToQueue(w, e) ==
  LET c == Collect(w, e) IN IF c.count = c.max THEN Flush(c) ELSE c

\* fixed_size_queue::push drops the oldest events when there is no room, and a mail has
\* all that the queue holds.
Buffer(w, e) ==
  [w EXCEPT !.held = Append(IF Len(@) >= BufferCapacity THEN Tail(@) ELSE @, e)]

WriteMail(w, e) ==
  IF e.level >= TriggerLevel THEN Send(Buffer(w, e)) ELSE Buffer(w, e)

WriteImpl(w, e) == CASE w.kind = "queue"  -> WriteToQueue(w, e)
                     [] w.kind = "email"  -> WriteMail(w, e)
                     [] w.kind = "direct" -> Send([w EXCEPT !.held = <<e>>])
=============================================================================

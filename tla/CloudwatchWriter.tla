-------------------------- MODULE CloudwatchWriter --------------------------
(***************************************************************************)
(* cloudwatch_writer: events are collected and put to a stream of the      *)
(* service in batches, each with the sequence token that the last answer   *)
(* gave.  The writer's own guard_ covers only the taking and the adding of *)
(* events: another thread that calls flush comes between everything else   *)
(* that write_impl, which holds the guard of the class writer, does.       *)
(*                                                                         *)
(* The service is external: it takes a request with the token it gave last *)
(* and with no more than MaxWireSize bytes.  Two accesses to one variable  *)
(* that no lock covers come in some order.                                 *)
(***************************************************************************)
EXTENDS Integers, SequencesExt

CONSTANTS BatchSize,    \* batch_size_
          MaxWireSize,  \* MAX_WIRE_SIZE
          Sizes,        \* what get_wire_size may return
          EventBound,   \* no more events than this are written
          FaultBound    \* no more requests or answers than this get lost

ASSUME SizeAssumption == /\ BatchSize \in Nat \ {0}
                         /\ MaxWireSize \in Nat
                         /\ Sizes \subseteq 1 .. MaxWireSize

\* The thread that writes events, and one that flushes.
Threads == {"writing", "flushing"}

VARIABLES events,   \* events_
          wireSize, \* wire_size_
          token,    \* next_token_
          holder,   \* the thread that has guard_, or "none"
          at,       \* where each thread is
          request,  \* the request of each thread
          adding,   \* ile of write_impl, and the wire_size_ that += has read
          sizes,    \* of all events written: an event is its index here
          service,  \* the token that the service expects, and its stream
          failed,   \* the events of requests that failed, and of the calls they ended
          raced,    \* has an event been added between the taking and the resetting?
          faults    \* how many requests or answers got lost

batch == <<events, wireSize, token, holder>>
threads == <<at, request, adding>>
vars == <<batch, threads, sizes, service, failed, raced, faults>>

NoRequest == [token |-> 0, events |-> <<>>]

Init == /\ events = <<>> /\ wireSize = 0 /\ token = 0 /\ holder = "none"
        /\ at = [t \in Threads |-> "idle"]
        /\ request = [t \in Threads |-> NoRequest]
        /\ adding = [event |-> 0, read |-> 0]
        /\ sizes = <<>>
        /\ service = [token |-> 0, stream |-> <<>>]
        /\ failed = {}
        /\ raced = FALSE
        /\ faults = 0

Goes(t, from, to) == at[t] = from /\ at' = [at EXCEPT ![t] = to]

SizeOf(es) ==
  LET Sum[n \in 0 .. Len(es)] == IF n = 0 THEN 0 ELSE Sum[n - 1] + sizes[es[n]]
  IN  Sum[Len(es)]

-----------------------------------------------------------------------------
(* cloudwatch_writer::write_impl.                                          *)

\* Mutant: the size of the new event is left out.
WriteUnmeasured(size) ==
  /\ Len(sizes) < EventBound
  /\ Goes("writing", "idle",
          IF Len(events) = BatchSize \/ wireSize > MaxWireSize THEN "test" ELSE "add")
  /\ sizes' = Append(sizes, size)
  /\ adding' = [adding EXCEPT !.event = Len(sizes) + 1]
  /\ UNCHANGED <<batch, request, service, failed, raced, faults>>
Write(size) ==
  /\ Len(sizes) < EventBound
  /\ Goes("writing", "idle",
          IF Len(events) = BatchSize \/ wireSize + size > MaxWireSize THEN "test" ELSE "add")
  /\ sizes' = Append(sizes, size)
  /\ adding' = [adding EXCEPT !.event = Len(sizes) + 1]
  /\ UNCHANGED <<batch, request, service, failed, raced, faults>>

Add ==
  /\ Goes("writing", "add", "count")
  /\ holder = "none" /\ holder' = "writing"
  /\ events' = Append(events, adding.event)
  /\ adding' = [adding EXCEPT !.read = wireSize]
  /\ raced' = (raced \/ at["flushing"] = "reset")
  /\ UNCHANGED <<wireSize, token, request, sizes, service, failed, faults>>

Count ==
  /\ Goes("writing", "count", "idle")
  /\ holder' = "none"
  /\ wireSize' = adding.read + sizes[adding.event]
  /\ UNCHANGED <<events, token, request, adding, sizes, service, failed, raced, faults>>

-----------------------------------------------------------------------------
(* cloudwatch_writer::flush, called by write_impl or by anyone.            *)

\* write_impl goes on with the event in its hands.
Back(t) == IF t = "writing" THEN "add" ELSE "idle"

CallFlush ==
  /\ Goes("flushing", "idle", "test")
  /\ UNCHANGED <<batch, request, adding, sizes, service, failed, raced, faults>>

Test(t) ==
  /\ Goes(t, "test", IF events = <<>> THEN Back(t) ELSE "token")
  /\ UNCHANGED <<batch, request, adding, sizes, service, failed, raced, faults>>

ReadToken(t) ==
  /\ Goes(t, "token", "take")
  /\ request' = [request EXCEPT ![t].token = token]
  /\ UNCHANGED <<batch, adding, sizes, service, failed, raced, faults>>

Take(t) ==
  /\ Goes(t, "take", "reset")
  /\ holder = "none"
  /\ request' = [request EXCEPT ![t].events = events]
  /\ events' = <<>>
  /\ UNCHANGED <<wireSize, token, holder, adding, sizes, service, failed, raced, faults>>

\* Mutant: the events, too, are cleared only here.
ResetAll(t) ==
  /\ Goes(t, "reset", "put")
  /\ wireSize' = 0 /\ events' = <<>>
  /\ UNCHANGED <<token, holder, request, adding, sizes, service, failed, raced, faults>>
\* Mutant: the token is read only now, with the events taken.
ResetReadingToken(t) ==
  /\ Goes(t, "reset", "put")
  /\ wireSize' = 0
  /\ request' = [request EXCEPT ![t].token = token]
  /\ UNCHANGED <<events, token, holder, adding, sizes, service, failed, raced, faults>>
Reset(t) ==
  /\ Goes(t, "reset", "put")
  /\ wireSize' = 0
  /\ UNCHANGED <<events, token, holder, request, adding, sizes, service, failed, raced, faults>>

IsAccepted(t) == /\ request[t].events # <<>>
                 /\ request[t].token = service.token
                 /\ SizeOf(request[t].events) <= MaxWireSize

\* PutLogEvents, as far as the service.
Put(t) ==
  /\ Goes(t, "put", IF IsAccepted(t) THEN "answer" ELSE "error")
  /\ service' = IF IsAccepted(t)
                THEN [token |-> service.token + 1,
                      stream |-> service.stream \o request[t].events]
                ELSE service
  /\ UNCHANGED <<batch, request, adding, sizes, failed, raced, faults>>

PutIsLost(t) ==
  /\ faults < FaultBound
  /\ Goes(t, "put", "error")
  /\ faults' = faults + 1
  /\ UNCHANGED <<batch, request, adding, sizes, service, failed, raced>>

\* Nobody but this thread can have been answered since the service took its request.
Answer(t) ==
  /\ Goes(t, "answer", Back(t))
  /\ token' = request[t].token + 1
  /\ request' = [request EXCEPT ![t] = NoRequest]
  /\ UNCHANGED <<events, wireSize, holder, adding, sizes, service, failed, raced, faults>>

AnswerIsLost(t) ==
  /\ faults < FaultBound
  /\ Goes(t, "answer", "error")
  /\ faults' = faults + 1
  /\ UNCHANGED <<batch, request, adding, sizes, service, failed, raced>>

\* The exception takes the events of the request with it, and that in hand.
Fail(t) ==
  /\ Goes(t, "error", "idle")
  /\ failed' = failed \cup ToSet(request[t].events)
                      \cup (IF t = "writing" THEN {adding.event} ELSE {})
  /\ request' = [request EXCEPT ![t] = NoRequest]
  /\ UNCHANGED <<batch, adding, sizes, service, raced, faults>>

Next == \/ \E size \in Sizes : Write(size)
        \/ Add \/ Count \/ CallFlush
        \/ \E t \in Threads : \/ Test(t) \/ ReadToken(t) \/ Take(t) \/ Reset(t)
                              \/ Put(t) \/ PutIsLost(t)
                              \/ Answer(t) \/ AnswerIsLost(t) \/ Fail(t)

Spec == Init /\ [][Next]_vars

-----------------------------------------------------------------------------
(* Properties.                                                             *)

Arrived == ToSet(service.stream)

\* Whatever gets lost, and however two flushes meet, the events in the stream are in the
\* order in which they were written, and none is there twice: the token, which is read
\* before the events are taken, admits no batch after a later one.
ArrivesInOrder ==
  \A i, j \in DOMAIN service.stream : i < j => service.stream[i] < service.stream[j]

\* An event that was written is in one place: in the batch, in one request, in hand, in
\* the stream, or gone with a call that threw. Only when an answer got lost may one that
\* went with an exception be in the stream too.
EachEventHasOnePlace ==
  LET places == << ToSet(events), Arrived, failed \ (IF faults = 0 THEN {} ELSE Arrived),
                   IF at["writing"] \in {"idle", "count"} THEN {} ELSE {adding.event} >>
                \o [i \in 1 .. 2 |->
                      LET t == <<"writing", "flushing">>[i]
                      IN  IF at[t] \in {"answer", "error"} THEN ToSet(request[t].events) \ Arrived
                                                          ELSE ToSet(request[t].events)]
  IN  /\ UNION ToSet(places) = DOMAIN sizes
      /\ \A i, j \in DOMAIN places : i # j => places[i] \cap places[j] = {}

\* No request is larger than the service allows, unless an event has been added while
\* another thread's flush was about to reset the size: then the batch is larger than
\* wire_size_ says until the next flush.
RequestsFit == ~raced => \A t \in Threads : SizeOf(request[t].events) <= MaxWireSize
=============================================================================

---------------------------- MODULE AsyncWriter -----------------------------
(***************************************************************************)
(* The asynchronous writer of async_writer.cpp: threads that log push      *)
(* events to the event cache, a worker thread pops them and hands them to  *)
(* the slow writer, and the thread that destroys the writer raises stop_   *)
(* and joins the worker.  The cache is used through what it promises,      *)
(* module LossyQueue, which module EventCache implements.                  *)
(*                                                                         *)
(* The logger that owns the writer calls write and destroys it under the   *)
(* same mutex, so nothing is pushed once the destructor runs.              *)
(***************************************************************************)
EXTENDS AsyncWriterConstants

VARIABLES
  queue, tail, taken,  \* the cache, as in LossyQueue
  flushOnDestruct,     \* flush_on_destruct_
  stop,                \* stop_
  worker,              \* where thread_main is; "absent" when there is no writer_
  destructor,          \* "before", "joining" or "returned"
  forwarded,           \* the last event given to writer_->write
  emptyAt              \* the length of the stream when a pop last found nothing

cacheVars == <<queue, tail, taken>>
vars == <<cacheVars, flushOnDestruct, stop, worker, destructor, forwarded, emptyAt>>

Cache == INSTANCE LossyQueue

WorkerPlaces == {"popping", "with event", "writing", "empty handed", "exited", "absent"}

\* The types of the variables, and a pop that succeeded has handed out an event.
TypeOK == /\ Cache!TypeOK
          /\ flushOnDestruct \in BOOLEAN
          /\ stop \in BOOLEAN
          /\ worker \in WorkerPlaces
          /\ worker \in {"with event", "writing"} => taken \in Cache!Event
          /\ destructor \in {"before", "joining", "returned"}
          /\ forwarded \in Cache!Event \cup {Cache!NoEvent}
          /\ emptyAt \in Nat

Init == /\ Cache!Init
        /\ flushOnDestruct \in BOOLEAN
        /\ stop = FALSE
        /\ worker \in {"popping", "absent"}
        /\ destructor = "before"
        /\ forwarded = Cache!NoEvent
        /\ emptyAt = 0

\* write_impl
Write(s) ==
  /\ destructor = "before"
  /\ tail + s <= StreamBound
  /\ Cache!Put(s) \/ Cache!PutForgetting(s)
  /\ UNCHANGED <<flushOnDestruct, stop, worker, destructor, forwarded, emptyAt>>

-----------------------------------------------------------------------------
(* thread_main.  stop_ is read after pop has returned and released the     *)
(* guard of the cache, so a step of another thread can come between.       *)

PopEvent ==
  /\ worker = "popping"
  /\ Cache!Take
  /\ worker' = "with event"
  /\ UNCHANGED <<flushOnDestruct, stop, destructor, forwarded, emptyAt>>

PopTimesOut ==
  /\ worker = "popping"
  /\ queue = {}
  /\ worker' = "empty handed"
  /\ emptyAt' = tail
  /\ UNCHANGED <<cacheVars, flushOnDestruct, stop, destructor, forwarded>>

\* Mutant: stop_ alone ends the loop.
LeavesPendingOnStop == stop
LeavesPending == stop /\ ~flushOnDestruct

Decide ==
  /\ worker = "with event"
  /\ worker' = IF LeavesPending THEN "exited" ELSE "writing"
  /\ UNCHANGED <<cacheVars, flushOnDestruct, stop, destructor, forwarded, emptyAt>>

\* writer_->write returns: it catches the exceptions of the slow writer.
Forward ==
  /\ worker = "writing"
  /\ forwarded' = taken
  /\ worker' = "popping"
  /\ UNCHANGED <<cacheVars, flushOnDestruct, stop, destructor, emptyAt>>

\* Mutants: the loop ignores stop_, or ends with the first wait that times out.
NeverLeavesEmptyHanded == FALSE
AlwaysLeavesEmptyHanded == TRUE
LeavesEmptyHanded == stop

ContinueEmptyHanded ==
  /\ worker = "empty handed"
  /\ worker' = IF LeavesEmptyHanded THEN "exited" ELSE "popping"
  /\ UNCHANGED <<cacheVars, flushOnDestruct, stop, destructor, forwarded, emptyAt>>

Worker == PopEvent \/ PopTimesOut \/ Decide \/ Forward \/ ContinueEmptyHanded

-----------------------------------------------------------------------------
(* ~async_writer                                                           *)

RaiseStop ==
  /\ destructor = "before"
  /\ stop' = (worker # "absent")
  /\ destructor' = "joining"
  /\ UNCHANGED <<cacheVars, flushOnDestruct, worker, forwarded, emptyAt>>

Join ==
  /\ destructor = "joining"
  /\ worker \in {"exited", "absent"}
  /\ destructor' = "returned"
  /\ UNCHANGED <<cacheVars, flushOnDestruct, stop, worker, forwarded, emptyAt>>

Next == \/ \E s \in Sizes : Write(s)
        \/ Worker
        \/ RaiseStop
        \/ Join

\* The threads run: the worker is never descheduled for good, the slow writer
\* returns, and the wait of 250ms ends.  Nobody has to write or to destroy.
Spec == Init /\ [][Next]_vars /\ WF_vars(Worker) /\ WF_vars(Join)

-----------------------------------------------------------------------------
(* Properties.                                                             *)

\* flush_on_destruct as its documentation puts it: when the writer has been
\* destroyed, every pending event was handed to the slow writer.
FlushOnDestruct ==
  destructor = "returned" /\ flushOnDestruct /\ worker # "absent"
    => queue = {} /\ forwarded = taken

\* What the code does ensure: the events left behind by a flushing destructor are
\* those pushed after the worker last found the cache empty.
OnlyLatecomersAreLost ==
  worker = "exited" /\ flushOnDestruct =>
    /\ forwarded = taken
    /\ \A e \in queue : e.at >= emptyAt

\* Destroying the writer ends, however many events are pending.
DestructorReturns == destructor = "joining" ~> destructor = "returned"

\* While the writer lives, no event stays in the cache for good.
EventsLeaveTheCache ==
  \A n \in 0 .. StreamBound :
    worker # "absent" /\ (\E e \in queue : e.at = n)
      ~> destructor # "before" \/ ~\E e \in queue : e.at = n
=============================================================================

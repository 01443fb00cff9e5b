----------------------------- MODULE LoggerLocks ----------------------------
(***************************************************************************)
(* Who waits for whom: the mutexes taken by the calls on a logger, by its  *)
(* writers and by the worker of an asynchronous writer, and the destructor *)
(* of that writer, which waits for the worker while the caller holds       *)
(* whatever it holds.                                                      *)
(*                                                                         *)
(* There is one logger below the root, with one writer; the root has one   *)
(* synchronous writer.  A call is the sequence of the steps still to do:   *)
(* to lock or unlock a mutex, or to do something under those it holds.     *)
(***************************************************************************)
EXTENDS Integers, Sequences, FiniteSets

CONSTANTS Threads,       \* the threads of the application
          Operations,    \* what they call, from AllOperations, when the writer of the
                         \* logger is an async_writer, and when it is not
          CallBound      \* how many calls a thread makes

AllOperations == {"get", "log", "release", "remove_writer", "remove_unused"}

ASSUME OperationsAssumption == Operations \in [BOOLEAN -> SUBSET AllOperations]
ASSUME ThreadsAssumption == Threads \cap {"worker", "nobody"} = {} /\ CallBound \in Nat

\* guard_ of the logger, its writer, the cache, the writer behind the worker, the
\* root and its writer, and loggers_guard_.
Mutexes == {"logger", "writer", "cache", "inner", "root", "root_writer", "loggers"}
Nobody == "nobody"
AllThreads == Threads \cup {"worker"}

VARIABLES
  asynchronous, \* is the writer of the logger an async_writer?
  owner,        \* the thread that holds each mutex
  script,       \* what each thread still has to do of its call
  calls,        \* how many calls each thread has made
  handles,      \* the threads with a shared_ptr to the logger
  writer,       \* the logger's writer: "present", "stopping" or "gone"
  pending,      \* the number of events in the cache
  flushes,      \* flush_on_destruct_
  worker,       \* is the worker "running" or "exited"?
  initialized,  \* is_initialized_
  unconfigured  \* the thread whose first get found no configuration it could load

made == <<asynchronous, flushes>>
first == <<initialized, unconfigured>>
vars == <<made, first, owner, script, calls, handles, writer, pending, worker>>

Lock(m) == [does |-> "lock", on |-> m]
Unlock(m) == [does |-> "unlock", on |-> m]
Do(what) == [does |-> what, on |-> Nobody]

-----------------------------------------------------------------------------
(* The calls.                                                              *)

GetScript == <<Lock("loggers"), Do("initialize"), Do("find"), Unlock("loggers")>>

\* Mutant: the effective level is computed before the logger's guard is taken.
PermitsInverted ==
  <<Lock("loggers"), Lock("logger"), Unlock("logger"), Unlock("loggers")>>
Permits == <<Lock("logger"), Lock("loggers"), Unlock("loggers"), Unlock("logger")>>

WriteScript ==
  <<Lock("logger"), Do("write"), Unlock("logger"),
    Lock("root"), Lock("root_writer"), Unlock("root_writer"), Unlock("root")>>

Log == Permits \o WriteScript

\* Mutant: the list of writers is changed without the guard.
RemoveWriterUnguarded == <<Do("destroy_writer")>>
RemoveWriter == <<Lock("logger"), Do("destroy_writer"), Unlock("logger")>>

RemoveUnused == <<Lock("loggers"), Do("sweep"), Unlock("loggers")>>

ScriptOf(op) == CASE op = "get" -> GetScript
                  [] op = "log" -> Log
                  [] op = "release" -> <<Do("release")>>
                  [] op = "remove_writer" -> RemoveWriter
                  [] op = "remove_unused" -> RemoveUnused

\* The worker: pop deserializes under the guard of the cache, and looks up the
\* logger of the event.
Pop == <<Lock("cache"), Do("wait")>>
TakeEvent == <<Lock("loggers"), Do("find"), Unlock("loggers"), Unlock("cache"), Do("decide")>>
Forward == <<Lock("inner"), Unlock("inner"), Do("release")>>
TimeOut == <<Unlock("cache"), Do("decide_empty")>>

Init == /\ owner = [m \in Mutexes |-> Nobody]
        /\ script = [t \in AllThreads |-> <<>>]
        /\ calls = [t \in Threads |-> 0]
        /\ handles = {}
        /\ writer = "present"
        /\ pending = 0
        /\ flushes \in BOOLEAN
        /\ asynchronous \in BOOLEAN
        /\ worker = IF asynchronous THEN "running" ELSE "exited"
        /\ initialized = FALSE
        /\ unconfigured = Nobody

-----------------------------------------------------------------------------
(* Steps.                                                                  *)

AtStep(t, does) == script[t] # <<>> /\ Head(script[t]).does = does
Continue(t, more) == script' = [script EXCEPT ![t] = more \o Tail(@)]

\* A thread calls a method of the logger only while it has a pointer to it.
Call(t, op) ==
  /\ script[t] = <<>> /\ calls[t] < CallBound /\ op \in Operations[asynchronous]
  /\ op \in {"log", "release", "remove_writer"} => t \in handles
  /\ script' = [script EXCEPT ![t] = ScriptOf(op)]
  /\ calls' = [calls EXCEPT ![t] = @ + 1]
  /\ UNCHANGED <<made, owner, handles, writer, pending, worker, first>>

\* A std::mutex is not recursive: a thread that locks one it holds waits for itself.
Acquire(t) ==
  /\ AtStep(t, "lock")
  /\ LET m == Head(script[t]).on
     IN  /\ owner[m] = Nobody
         /\ owner' = [owner EXCEPT ![m] = t]
  /\ Continue(t, <<>>)
  /\ UNCHANGED <<made, calls, handles, writer, pending, worker, first>>

ReleaseMutex(t) ==
  /\ AtStep(t, "unlock")
  /\ owner' = [owner EXCEPT ![Head(script[t]).on] = Nobody]
  /\ Continue(t, <<>>)
  /\ UNCHANGED <<made, calls, handles, writer, pending, worker, first>>

\* The first get configures the loggers with loggers_guard_ locked.  When the file or
\* the fallback is there but cannot be read, perform, or configure_from_text before it,
\* calls remove_unused_loggers, which locks that guard.
Perform(t) ==
  \/ Continue(t, <<>>) /\ UNCHANGED unconfigured
  \/ Continue(t, RemoveUnused) /\ unconfigured' = t

Initialize(t) ==
  /\ AtStep(t, "initialize")
  /\ initialized' = TRUE
  /\ IF initialized THEN Continue(t, <<>>) /\ UNCHANGED unconfigured ELSE Perform(t)
  /\ UNCHANGED <<made, owner, calls, handles, writer, pending, worker>>

Find(t) ==
  /\ AtStep(t, "find")
  /\ handles' = handles \cup {t}
  /\ Continue(t, <<>>)
  /\ UNCHANGED <<made, owner, calls, writer, pending, worker, first>>

DropHandle(t) ==
  /\ AtStep(t, "release")
  /\ handles' = handles \ {t}
  /\ Continue(t, <<>>)
  /\ UNCHANGED <<made, owner, calls, writer, pending, worker, first>>

Write(t) ==
  /\ AtStep(t, "write")
  /\ Continue(t, IF writer = "gone" THEN <<>>
                 ELSE IF asynchronous
                 THEN <<Lock("writer"), Lock("cache"), Do("push"),
                        Unlock("cache"), Unlock("writer")>>
                 ELSE <<Lock("writer"), Unlock("writer")>>)
  /\ UNCHANGED <<made, owner, calls, handles, writer, pending, worker, first>>

Push(t) ==
  /\ AtStep(t, "push")
  /\ pending' = pending + 1
  /\ Continue(t, <<>>)
  /\ UNCHANGED <<made, owner, calls, handles, writer, worker, first>>

\* Mutant: stop_ is not raised.
StoppingLate == "present"
Stopping == "stopping"

\* ~async_writer raises stop_ and joins.
Destroy(t) ==
  IF writer = "present"
  THEN /\ writer' = IF asynchronous THEN Stopping ELSE "gone"
       /\ Continue(t, IF asynchronous THEN <<Do("join")>> ELSE <<>>)
  ELSE UNCHANGED writer /\ Continue(t, <<>>)

DestroyWriter(t) ==
  /\ AtStep(t, "destroy_writer")
  /\ Destroy(t)
  /\ UNCHANGED <<made, owner, calls, handles, pending, worker, first>>

\* A logger to which only the map of all loggers refers is destroyed, and its writer
\* with it.  The next get makes another one, without a writer.  Before the first get
\* the map is empty.
Sweep(t) ==
  /\ AtStep(t, "sweep")
  /\ IF initialized /\ handles = {} THEN Destroy(t) ELSE UNCHANGED writer /\ Continue(t, <<>>)
  /\ UNCHANGED <<made, owner, calls, handles, pending, worker, first>>

Join(t) ==
  /\ AtStep(t, "join")
  /\ worker = "exited"
  /\ writer' = "gone"
  /\ Continue(t, <<>>)
  /\ UNCHANGED <<made, owner, calls, handles, pending, worker, first>>

-----------------------------------------------------------------------------
(* The worker's own steps.                                                 *)

StartPop ==
  /\ script["worker"] = <<>> /\ worker = "running"
  /\ script' = [script EXCEPT !["worker"] = Pop]
  /\ UNCHANGED <<made, owner, calls, handles, writer, pending, worker, first>>

Wait ==
  /\ AtStep("worker", "wait")
  /\ pending' = IF pending > 0 THEN pending - 1 ELSE 0
  /\ Continue("worker", IF pending > 0 THEN TakeEvent ELSE TimeOut)
  /\ UNCHANGED <<made, owner, calls, handles, writer, worker, first>>

Decide ==
  /\ AtStep("worker", "decide")
  /\ IF writer = "stopping" /\ ~flushes
     THEN worker' = "exited" /\ Continue("worker", <<Do("release")>>)
     ELSE UNCHANGED worker /\ Continue("worker", Forward)
  /\ UNCHANGED <<made, owner, calls, handles, writer, pending, first>>

DecideEmpty ==
  /\ AtStep("worker", "decide_empty")
  /\ worker' = IF writer = "stopping" THEN "exited" ELSE worker
  /\ Continue("worker", <<>>)
  /\ UNCHANGED <<made, owner, calls, handles, writer, pending, first>>

Step(t) == \/ Acquire(t) \/ ReleaseMutex(t) \/ Initialize(t) \/ Find(t) \/ DropHandle(t)
           \/ Write(t) \/ Push(t) \/ DestroyWriter(t) \/ Sweep(t) \/ Join(t)

WorkerStep == StartPop \/ Wait \/ Decide \/ DecideEmpty

Next == \/ \E t \in Threads, op \in AllOperations : Call(t, op)
        \/ \E t \in AllThreads : Step(t)
        \/ WorkerStep

AcquireCache(t) == AtStep(t, "lock") /\ Head(script[t]).on = "cache" /\ Acquire(t)

\* Threads run.  Nothing is asked of a mutex but that one that stays free is taken: the
\* calls that contend for it are bounded.  Only the guard of the cache is locked for ever
\* again, by an idle worker; each time it is unlocked for as long as the worker waits for
\* an event, in which a thread that waits for it takes it.  Nobody has to call.
Spec == /\ Init /\ [][Next]_vars
        /\ \A t \in AllThreads : WF_vars(Step(t))
        /\ \A t \in Threads : SF_vars(AcquireCache(t))
        /\ WF_vars(WorkerStep)

-----------------------------------------------------------------------------
(* Properties.                                                             *)

\* Thread t cannot go on before thread u does.
WaitsFor(t, u) ==
  \/ AtStep(t, "lock") /\ owner[Head(script[t]).on] = u
  \/ AtStep(t, "join") /\ worker = "running" /\ u = "worker"

Circle(S) == S # {} /\ \A t \in S : \E u \in S : WaitsFor(t, u)

\* Threads wait for each other in a circle, or one for itself, only on account of a first
\* get that cannot configure the loggers: without one nobody ever does, and every circle
\* contains the thread that made it.
NoDeadlock == \A S \in SUBSET AllThreads : Circle(S) => unconfigured \in S

\* A writer that is still being written to is never taken apart: while a thread is in
\* it, no destructor runs.
WriterOutlivesCalls ==
  owner["writer"] # Nobody => writer = "present"

\* Every call returns, unless the first get cannot configure the loggers.
CallsReturn ==
  \A t \in Threads : script[t] # <<>> ~> script[t] = <<>> \/ unconfigured # Nobody

\* The first get returns, with the default configuration when no other can be loaded.
FirstGetReturns ==
  \A t \in Threads : AtStep(t, "initialize") ~> script[t] = <<>>

\* remove_unused_loggers can be called periodically, so it returns.
RemoveUnusedReturns ==
  \A t \in Threads : AtStep(t, "sweep") ~> script[t] = <<>>
=============================================================================

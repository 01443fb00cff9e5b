# Chucho: a verification development

Chucho is a C++ logging library: an application asks for hierarchically named
*loggers*, a logger passes *events* through the *filters* of its *writers*, and the
writers put formatted events in files, on sockets, in queues of network services,
and so on. Loggers are shared by every thread, some writers own threads, and the
configuration can be replaced while the program runs. This directory holds TLA+
modules that model the parts where that is hard, the TLC configurations that check
them on small instances, and theorems about them checked by TLAPS.

Every definition carries the name of what it models, and `PROJECT.json` maps it to
its lines. Sizes are small, but nothing else about an instance is special. A
definition under a comment `\* Mutant:` is *not* part of the model: it is the
mistaken form of the definition below it, kept because substituting it makes the
property it was written for fail, which shows that the property watches that line.

## 1. Inventory

| component | state | operations | what is hard | what makes it correct |
|---|---|---|---|---|
| **event cache** `event_cache.cpp` | one memory chunk with a read and a write position, files numbered by a sequence, an open file, sizes and statistics, a progress callback; `guard_` | `push`, `pop`, `cull`, `stop` | switching between memory and files in both directions, culling the chunk or the file in use, a disk that fails, accounting | a first-in first-out queue that loses only its oldest events and only when full; the sizes count what is stored; nothing throws on a disk that works |
| **asynchronous writer** `async_writer.cpp` | event cache, worker thread, `stop_`, `flush_on_destruct_` | `write_impl`, the worker's loop, the destructor | `stop_` against a push and a pop that timed out; the join | the destructor returns; with the flush option nothing is lost |
| **logger registry and hierarchy** `logger.cpp` | the map of all loggers, parent pointers, levels, `loggers_guard_` and a guard in each logger | `get`, `remove_unused_loggers`, `permits`, `write`, `reset`, levels, writers | reference counts as "in use"; two kinds of mutex and threads joined under them | one logger per name while it is used; every chain of parents ends in the root; no operation blocks for good |
| **writers and filters** `writer.cpp`, `*_filter.cpp` | writers' filters, `guard_`; counts and caches of some filters | `write`, `permits`, filters with state | a filter that writes to its own writer; exceptions between two assignments | the first DENY or ACCEPT decides; the notices of duplicates add up; a released cache keeps its order |
| **status manager** `status_manager.cpp` | 150 first and 150 last statuses, level, observers, two mutexes | `add`, `remove`, `clear`, `get_all`, `get_level` | eviction against the level; observers called outside the first mutex | what is kept are the first and the last statuses; the level hides none of these; an observer hears of every status |
| **file writers** `file_descriptor_writer*`, `file_writer*` | descriptor, write buffer, last use, `is_open_` | `write_impl`, `flush`, `ensure_access`, `open`, `close` | a file removed or unwritable while open; a lost buffer | the bytes of events reach the file in order |
| **rolling files** `rolling_file_writer*`, `*_roller*`, `size_file_roll_trigger*`, `*_file_compressor*` | active file, numbered files, compressed files, the next time of rolling | `roll`, `is_triggered`, cleaning | renaming chains, partial failures, a crash between two renames, months and years | no rolled file is lost below the maximum index; the history has at most that many files |
| **batching network writers** `message_queue_writer*`, `cloudwatch*`, `email*`, `kafka*`, `zeromq*`, `database*` ... | a batch and its limits; the sequence token of CloudWatch | `write_impl`, `flush` | batch limits, a failed sending, a flush from another thread, a lost answer | every event is sent once, in order, or fails with an exception; requests have their size |
| **configuration** `configuration.cpp`, `config*.cpp` | style, file, fallback, whether set | first use, `set`, `reconfigure` | half-applied configurations, calls back into loggers under `loggers_guard_` | a failed configuration leaves a usable one |
| **configuration factories and mementos** `*_factory.cpp`, `*_memento.cpp` | keys seen so far | `handle`, `create_configurable` | little | not modelled (section 6) |
| **finalization** `garbage_cleaner.cpp`, `finalize.cpp` | a stack of cleaners, one for each static object made so far | `add`, the cleaner's destructor, `finalize` | the order of destruction follows that of first use; the last writers are destroyed in the middle of it | nothing is used after it is destroyed; `finalize` ends |
| **logging stream** `log_ostream`, `logger_macros` | a line buffer, a level | `endm`, insertions | little | one event per `endm` |
| others: diagnostic context, levels, formatters and serializers, platform services, system log writers, C interface, vendored libraries | | | | not modelled (section 6) |

How they interact. A macro or stream asks `logger::permits` (its own `guard_`, then
`loggers_guard_` for the level inherited from the parents) and builds an event;
`logger::write` holds the logger's `guard_` while each of its writers, under the
writer's `guard_`, runs the filters and `write_impl`. For an asynchronous writer
`write_impl` pushes to the event cache (its `guard_`) and a worker thread pops,
*deserialises* (which calls `logger::get` and so takes `loggers_guard_`) and calls
`write` of the slow writer. Errors inside a writer are caught and go to the status
manager. Configuration runs inside the first `logger::get`, with `loggers_guard_`
held. Loggers, writers and threads end with the last reference to them, under
whichever lock is held just then.

## 2. Plan

1. *Event cache and asynchronous writer*: the most intricate state and the only data
   that other threads consume later. Abstract specification: a lossy queue.
   **Done**, with the inductive invariant of the cache proved.
2. *Logger registry* (names, parents, reference counts) and *the locks* (which thread
   waits for which mutex or join). **Done**; the forwarding of events to the writers
   of ancestors is left.
3. *Status manager*: **done**, its safety properties proved. *Writers and filters*:
   **done**, but for filters added and removed at run time.
4. *Rolling files*: the numbered roller with the compressors and crashes between
   renames, the sliding roller, the time roller and its calendar, and the *file
   writers* with their buffer and access checks. **Done**; the interval trigger and
   the on-start trigger are left.
5. *Batching writers*: the message queue and the e-mail writers, and CloudWatch with
   a second thread. **Done**.
6. *Configuration* and *finalization*: **done**, but for variables and for setters
   called between two configurations. Left: the removal of the cache's directory by
   `event_cache::stop`.

Every safety property that holds of a model with constants is proved as well as checked
(section 5).

## 3. Modules

| module | models | extends or instantiates |
|---|---|---|
| `LossyQueue` | what a cache promises, without chunks or files | |
| `EventCache` | `event_cache.cpp` | `LossyQueue`, as an abstract specification |
| `EventCacheProofs` | theorems about `EventCache` | `EventCache` |
| `AsyncWriterConstants` | the sizes the writer is given, with their assumptions | |
| `AsyncWriter` | `async_writer.cpp` | `AsyncWriterConstants`; `LossyQueue`, as its cache |
| `AsyncWriterProofs` | theorems about `AsyncWriter` | `AsyncWriter` |
| `LoggerRegistry` | `logger.cpp`: names, parents, reference counts, levels | |
| `LoggerRegistryProofs` | theorems about `LoggerRegistry` | `LoggerRegistry` |
| `LoggerLocks` | the mutexes and the join that the calls on loggers, writers, the first configuration and the worker go through | |
| `LoggerLocksProofs` | theorems about `LoggerLocks` | `LoggerLocks` |
| `BatchingWriter` | `write_impl` and `flush` of the message queue, e-mail and direct network writers, as operators | |
| `FilteredWriter` | `writer::write` and the four filters | `BatchingWriter` |
| `CloudwatchWriter` | `cloudwatch_writer.cpp` with a second thread and the service | |
| `WriterProofs` | theorems about `CloudwatchWriter` and `FilteredWriter` | `MCWriters` |
| `StatusManager` | `status_manager.cpp` | |
| `StatusManagerProofs` | theorems about `StatusManager` | `StatusManager` |
| `FileWriter` | `file_writer.cpp` with the buffer of `file_descriptor_writer.cpp` | |
| `NumberedRoller` | `numbered_file_roller.cpp`, with the writer, the trigger and the compressor it works with | |
| `SlidingRoller` | `sliding_numbered_file_roller.cpp` | |
| `TimeRoller` | `time_file_roller.cpp`, roller and trigger | |
| `RollerProofs` | theorems about `NumberedRoller`, `SlidingRoller`, `FileWriter` and `TimeRoller` | `MCRollers` |
| `ConfigurationConstants` | the names, texts and elements of texts there are, with their assumption | |
| `Configuration` | `configuration.cpp` and what the configurators make of a text | `ConfigurationConstants` |
| `ConfigurationProofs` | theorems about `Configuration` | `Configuration` |
| `Finalization` | `finalize.cpp`, `garbage_cleaner.cpp` and the statics they destroy | |
| `MCAsyncWriter`, `MCLoggerLocks`, `MCConfiguration` | instances for TLC | the module they are named after |
| `ConfigurationTexts` | the texts that the instances of `Configuration` read | `ConfigurationConstants` |
| `MCEventCache` | instances for TLC | `EventCache`, and instantiates `Configuration` |
| `MCLoggerRegistry` | instances for TLC | `LoggerRegistry`, and instantiates `Finalization` |
| `MCLocksAndWriter` | instances for TLC | `MCLoggerLocks`, and instantiates `AsyncWriter` |
| `MCWriters` | instances for TLC | `CloudwatchWriter`, and instantiates `FilteredWriter` |
| `MCRollers` | instances for TLC | `NumberedRoller`, and instantiates `SlidingRoller`, `TimeRoller` and `FileWriter` |
| `MCStatusManager` | instances for TLC | `StatusManager`, and instantiates `EventCache` |

The last six hold several components that do not touch each other: which of them a
behaviour is about is chosen in its initial state, and the others stay as they are.
The constants of `AsyncWriter` and `Configuration` are in modules of their own, which the
MC modules extend, so that TLC evaluates their assumptions where the component itself
is instantiated. The rollers and writers that are instantiated state their assumptions on
the constants as definitions, which the MC module assumes.

**EventCache.** `push`, `pop` and `cull` hold `guard_` throughout, so each path
through them is one action. An event is the offset, in the stream of all bytes pushed,
at which it starts, and its size: this names it uniquely and lets "in order" and "a
byte lost" be said with numbers. The memory chunk and each file are functions from
offsets to events: the zeroed bytes that end a chunk are the offsets outside the
domain. `write_pos_ == nullptr` is `NoPos`. `write_file_` is absent, open or failed;
the failed stream's `tellp()` is -1 as in the library, so the addition that wraps in
`size_t` gives `tellp + s = s - 1`. `push` is `PushToMemory`, `PushToFile`,
`PushToNewFile`, each ending in `Settle`, which is what all three do afterwards:
count, `cull` if the cache is full, report. `pop` is `PopFromMemory`,
`PopFromFile` (load the oldest file, resume writing in memory if it is the file
being written), `PopFails` (`find_oldest_file` throws) and `PopTimesOut`. A disk that
refuses to make the directory or to open a file (`PushFindsNoDirectory`,
`PushFailsToOpen`, `PushToFailedFile`) is a second specification, `SpecFaultyDisk`. In it,
too, writes to an open file, reads and removals succeed.

**LossyQueue** has no sizes of chunks and no files: `Put`, `PutForgetting` (a push
that brings the cache to its capacity may forget a non-empty oldest part of it, never
the event pushed) and `Take` (the oldest). `EventCache` implements it with the
refinement mapping `queue <- Stored`, the events still readable in the chunk and the
files, `tail <- written`, `taken` itself.

**AsyncWriter** uses the cache through that promise: its actions on the cache *are*
`LossyQueue`'s. The worker's program counter follows `thread_main`: `popping`, then
`with event`/`writing` or `empty handed`, with the reads of `stop_` in steps of
their own because no lock covers them. `worker = "absent"` is the writer made without
a slow writer. `Write` is possible only before destruction: the logger owning the
writer calls both under the same mutex.

**LoggerRegistry.** `loggers_guard_` is held throughout `get`,
`get_existing_loggers`, `remove_unused_loggers` and the search for the effective
level, so each is one action. A name is the sequence of the parts between its dots,
so that the ancestors that the constructor joins from `split(name)` are computed, the
dropping of empty parts included. Loggers are objects at addresses, which
are used again after a logger is destroyed; `registry` is `all_loggers_`. `UseCount`
is `use_count()`: the map, the children and the application, which counts once
however many pointers it has, because the code compares the count with 1 and 2 for
pointers that the map or a child holds. `Get` makes the missing ancestors too, and
`Adopted` is the part of the constructor that gives a parent to loggers found without
one: it never changes anything, which `EffectiveLevelIsKept` depends on.
`ReleaseTo` destroys whatever nothing refers to any more. Writers are left out here.

**LoggerLocks.** Each thread has a script: the mutexes that its call has still to
lock and unlock, and what it does under them. The scripts are translated from `get`,
`permits` and `write` (`Log`), `remove_writer` (and `clear_writers` and `reset`,
which lock and destroy alike), `remove_unused_loggers` and the worker's loop with
`event_cache::pop`, `unserialize` and the slow writer. A `std::mutex` that a thread
already has makes it wait for itself. The first `get` goes through `Initialize`, which runs
`configuration::perform` under `loggers_guard_`: it ends well, or the configuration is there
and cannot be read, and the thread goes on with the script of `remove_unused_loggers`,
whose first step is to lock what it has. `unconfigured` names that thread. Destroying an asynchronous writer is raising
`stop_` and then a join under whatever mutexes the caller holds. `handles` decides
when `remove_unused_loggers` destroys the logger: the worker has a handle, too, while
it has an event of that logger.

**StatusManager.** `add(status)` is two actions, `Record` under `cache_guard_` and
`Notify` under `observer_guard_`, with everything else possible in between. A
status is its level and its place among all recorded. `recorded`, `told` and `left`
(the observers that were removed and not added since) are history, for the properties
alone.

**NumberedRoller.** `rolling_file_writer::write_impl` is `Write` (the trigger, and
`close`), the steps of `roll` and of `compress`, `Open` and `WriteEvent`
(`file_writer::write_impl` with `ensure_access`; `isDue` says whether its three seconds
have passed). Every call on the file system is a step, so that `Restart`, a crash
and a new process that appends, can come between any two. `step` and `index` are where
the program is. A file is a set of events of one size; names are a number and whether
the compressor's extension is there. Failures are a refused rename (its result
is not looked at), an open that fails, a compression that throws and a close of the
compressed file that fails unseen. The compressors remove their source before a
local object's destructor closes the result: `DropPlain` comes before `Finish`, and
`upTo` is how much has reached the file before. The writer flushes each event, as
`rolling_file_writer` does unless told otherwise, and nobody else touches its files.
The compressor may begin anywhere, `compressFrom`, or nowhere.

**SlidingRoller** has the same writer in less detail: a write that triggers, and with
it the roll, is one action, because nothing is renamed. What can go wrong is a
compression that throws (`RollFails`: the number has grown and the oldest file is gone by
then, the event is lost and the file that was written stays closed) and a restart, which begins at the least number again and appends.

**TimeRoller.** Time is counted in a few units for each day or month; `StartOf` is the
calendar. The code reads the clock separately for the trigger, for the roll, and for
each name it computes, so `Tick` may come between any two of these steps. The names
computed by `resolve_file_name` are the period the name is of and whether the
compressor's extension is there. `PeriodRelative` has the overflow of `mktime`: the
31st of the month before is the first days of this one when that month is shorter.
`Elapsed` counts months by their names and days by whole days, as `periods_elapsed`
does. `crossed` and `overflowed` are history: they say whether one of these two things
has happened, for the properties that hold only without it.

**FileWriter.** An event is some pieces of bytes. `writer` is the whole state of the
writer, so that the calls of `write_impl` (`ensure_access`, `open`, `write_buffer`,
`flush`) are operators on it and a call is one action, as it is under `guard_`. The
file system is a sequence of files that never ends, the one of them that has the name,
and whether it may be written. Others remove, make and forbid it. A call that fails is
one of the choices; a write may write a part of the buffer first. The file that a
descriptor refers to survives its name. Pieces with event 0 are what a file had
before.

**BatchingWriter** and **FilteredWriter.** A filter may write to its own writer while it
evaluates an event, some events and not others if a sending throws. So a writer is a
record, an evaluation is a sequence of operators on the states of the filters and the
writer, and `luck` is how many sendings go well before one throws. Messages are
members of a small set, and the notice of the duplicate filter carries the count its
text has. The cache of the releasing filter is an unbounded queue: `EventCache`
models the rest of it.

**CloudwatchWriter.** The guard inside the writer covers only the taking and the
adding of events. So between the steps of `flush` (read the token, take the batch, reset
the size, send, note the token) and of `write_impl` (measure, flush if full, add,
count) the steps of another thread that calls `flush` may come. The service accepts a
request whose token is the one it gave last; a request or its answer may be lost.

**Configuration.** A text is a sequence of loggers, each with what it sets in order,
where "bad" stands for anything the factories refuse. The state passed through a
configuration, with `threw` and `over` for an exception and for a mapping that ends
early, is a record, and the four formats are operators on it. First use, `set` and
`reconfigure` are actions, the search of the environment's file, the named file, the
fallback and the default included. `roots` has every root logger there has been,
because `set` before the first use makes one that the first use replaces. `stuck` is
the thread that waits for a mutex it holds.

**Finalization.** A static object is made at its first use and pushes its cleaner;
`made` is the stack, from the bottom. What a writer uses when it is destroyed is
`Destroying`; its static object is `Making`. The registry's static is made before the
level and the status that its first logger needs, so most statics are destroyed before
it, and with it the root and what is left of the loggers: hence `remove_unused_loggers`
at the beginning of `finalize`. That is one pass over the use counts as they are
before anything is removed. There is one logger besides the root, with up to two children that
nobody holds: one child does not hide it from that pass, two do (`IsUnused`), and then it
stays, with its writer, until the registry goes.

## 4. Runs

| run | question | result |
|---|---|---|
| `event_cache_and_configuration` | on a disk that works, are the layout of the cache, its accounting, its thresholds and its promise kept, and is its size bounded when chunks fill up one by one? After any configurations, do the registered loggers have what the last one says, nothing of earlier ones, and none half of it? | yes, as far as the properties say |
| `logger_registry` | is there one logger for each name in use, does every chain of parents end in the root, do making and removing loggers leave levels alone, and does removal forget all that is unused? Does `finalize` use what is gone? | yes; not for the writers that `NothingGoneIsUsed` names |
| `locks_and_writer` | with both kinds of writer, but for `remove_unused_loggers` with an asynchronous one, and unless a first `get` cannot configure the loggers: is there a circle of waiting, is a writer destroyed while it is written to, does every call return? Does the destruction of an asynchronous writer end, do events move, what does a flushing destructor leave? | no, no, yes; it ends, they move, only events pushed after the last empty pop |
| `status_manager` | are the first and the last statuses kept in order, does the level hide none of them, and is an observer told of every status until it is removed? What survives a disk that makes and opens no files? | yes, as far as the properties say; the order of what is read |
| `rollers` | the numbered roller, with crashes and failed calls: is the history in order, and does a writer get back to its file? While nothing fails: are only the oldest events lost? The sliding and the time roller: are the newest kept, and how many files? The file writer: do the files tell the events, and does the access check restore? | yes, as far as the properties say |
| `writers` | does the output tell what was logged, do cached events come out in order, are blobs bounded? With two threads flushing to CloudWatch: do events arrive in order, each in one place, in requests of their size? | yes, as far as the properties say |
| `async_writer_flush` | does a flushing destructor leave nothing? | no |
| `locks_remove_unused` | with an asynchronous writer, does `remove_unused_loggers` return? | no |
| `locks_first_get` | does the first `get` return? | no |
| `status_level` | does the level tell whether an error has occurred? | no |
| `sliding_max_count` | while nothing fails, does the sliding roller keep to its maximum of files? | no |
| `configuration_root_level` | does the root always have a level? | no |

"As far as the properties say": each names, in its comment, the conditions under which
the code keeps its promise, and each condition is needed: without it TLC finds the
behaviour that section 6 tells.

*Bounds.* The cache: chunks of 11 bytes, events of 2 or 11 and a maximum of 16. A chunk takes
five small events, with one byte left over, or one that fills it exactly. Chunks of 2, 11
and 2 bytes stay below the maximum, and each event of 11 that is pushed then removes the
oldest chunk, small or not, until three full ones hold 33, more than twice the maximum: the
case in which one cull for each push is not enough. Culls hit the memory, a closed file and
states with the open file. The stream has at most 56 bytes (`StreamBound`, a guard
of the pushes), more than three maximums, and more than the 54 of `SizeIsBounded`, so that
a cache that culls too seldom gets there: one that culls only when it becomes full, and
not while it stays so, breaks the bound in this run. The progress callback is set and
removed while the cache is empty or full (`CallbackBound`). `LengthWord` is 1 so that an
event can end close to the end of a chunk, as with 4 in chunks of many bytes. The
faulty disk needs less: chunks of 4, events of 2 to 4, a maximum of 9 and a stream of 16.
The asynchronous writer: events of 1 or 2 in
a capacity of 4 and a stream of 7. The registry: a chain of three names under
the root and a sibling with an empty part, so that a logger has a parent, a
grandparent and ancestors shared with another; six addresses, one more than the
names, so that a second logger of a name can be made while the first lives; symmetric
addresses (no liveness is checked there). The locks: two threads of three
calls and the worker; seven mutexes, so that every pair of calls can meet. The
statuses: a head of one and a tail of two of four statuses, so that the tail overflows
and is cleared in any state, and two observers. Finalization has no more bound than its two children: a third would
only do what the second does, hide the logger above it.

The writers: four events of three levels and two messages, each kind of writer with
chains of one or two filters, and two sendings that throw (`SendFaultBound`): a row that is
ended, a cache that is released and a row behind it; blobs of two events, a mail of
three. CloudWatch: five events of one or two bytes, batches of two events and three
bytes, so that either limit is met first, and one request or answer lost.

The numbered roller: three numbers, compressed from the first, the second or not at
all, and files of two events; 13 events fill them and roll twice more; three crashes
or failures, since a stale file needs one to arise, one to disturb the roll that finds
it and one after that. The sliding roller: three files of two events, 18 events, which
remove the oldest file five times over; compression from each number; one failure and
one restart. The time roller: days of two units, months of three and two by turns, so
that a day may be missing, eight units and four events, a history of one period, and a
first cleaning of three. The file writer: a buffer of two pieces and events of one or
three, so that one passes it by; three events, two failing calls and three
interventions.

Configurations: ten texts of the four formats, well formed and with an error in the
first, the second or the last place, two loggers and the root, files and fallbacks
absent, good and bad, and three configurations, since a first use, one that fails and
one after it are what the properties are about; two for `configuration_root_level`. With
the style OFF the first `get` reads neither environment nor fallback, so these have one value
each. `sliding_max_count` needs neither failures nor restarts, so there are none.

*Fairness.* `AsyncWriter` assumes weak fairness of the worker and of `Join`: a
thread that can run does, the slow writer's `write` returns (it catches the
exceptions of `write_impl`) and the 250 ms wait of `pop` ends. No fairness is
assumed of those who log or destroy. `LoggerLocks` assumes weak fairness of each thread's
steps and of the worker's own, and nothing of who calls: a mutex that stays free is
taken. The calls are bounded, so those that contend for a mutex end. Only the guard of the
cache is locked for ever, by an idle worker in its loop: for a thread that waits for
that mutex alone strong fairness is assumed (`AcquireCache`). `std::mutex` promises no such
thing; what speaks for it is that the worker leaves the guard unlocked for the 250 ms that
`pop` waits, each time it locks it. `StatusManager` assumes weak fairness of `Notify`:
the observers return.

`CHECK_DEADLOCK FALSE` is in every configuration. After the destructor of
an asynchronous writer nothing is left to do; the calls of `LoggerLocks` are bounded by
`CallBound` (there `NoDeadlock` says that no threads wait in a circle, and
`CallsReturn` that every call ends); nobody has to write after the last event of the
rollers and the writers, or to push when the stream has its length and the cache is empty; a
first `get` that is stuck ends everything in `Configuration`, where the operations are bounded;
and nothing happens after `finalize`.

## 5. What is proved

Each theorem below holds for every value of the constants that satisfies the named
assumptions of its module, so for any number of threads, events, files, names or
faults. TLC checked each invariant on an instance before it was proved, and the runs of
section 4 check every property named here on theirs: those of `Configuration` and
`AsyncWriter`, and `TakenInOrder`, under the names that the MC modules give them.

| module | theorem | property |
|---|---|---|
| `EventCacheProofs` | `ChunksStayTiled`, `SizeStaysStored`, `NothingEverThrows`, `OpenFileStaysKept` | `ChunksAreTiled`, `SizeIsStored`, `NothingThrows`, `OpenFileIsKept` |
| | `SizeStaysBounded` | `SizeIsBounded` |
| | `ThresholdsStayReported` | `ThresholdsAreReported`, an action property |
| | `CacheIsLossyQueue` | `ImplementsLossyQueue`, the refinement |
| | `TakenStayInOrder` | `TakenInOrder`, with a disk that refuses to make the directory or open files |
| | `TypeCorrect`, `MemoryWritesStayYoungest`, `FilesStayCounted` | checked by no run |
| `AsyncWriterProofs` | `LatecomersOnly`, `TypeCorrect` | `OnlyLatecomersAreLost`, types |
| `LoggerRegistryProofs` | `HeldStayRegistered`, `ChainsStayWhole`, `RemovalCompletes` | `HeldIsRegistered`, `ChainsEndInRoot`, `RemovalIsComplete` |
| | `EffectiveLevelStays` | `EffectiveLevelIsKept`, an action property |
| `LoggerLocksProofs` | `NobodyWaitsInACircle`, `WriterIsKept` | `NoDeadlock`, `WriterOutlivesCalls` |
| `WriterProofs` | `OutputStaysTelling`, `CachedStayInOrder`, `BlobsStayBounded` | `OutputTellsTheLog`, `CachedComeOutInOrder`, `BlobIsBounded` |
| | `StreamStaysInOrder`, `EventsStayInOnePlace`, `RequestsStayInSize` | `ArrivesInOrder`, `EachEventHasOnePlace`, `RequestsFit` |
| `StatusManagerProofs` | `FirstAndLastStayKept`, `LevelAlwaysCoversTheEnds`, `TypeCorrect` | `FirstAndLastAreKept`, `LevelCoversTheEnds`, types |
| `RollerProofs` | `DescriptorComesBack`, `HistoryStaysInOrder`, `OldestAreRemovedOnly`, `TypeCorrect` | `LostDescriptorComesBack`, `HistoryInOrder`, `OnlyOldestAreRemoved`, types |
| | `NewestStayKept`, `FilesStayBounded` | `NewestAreKept`, `FilesAreBounded`, of the sliding roller |
| | `FilesKeepTelling`, `CheckKeepsRestoring` | `FilesTellTheEvents`, `CheckRestores`, of the file writer |
| | `OldEventsAreLostOnly`, `MonthsStayCleaned` | `OnlyOldEventsAreLost`, `MonthsAreCleaned`, of the time roller |
| `ConfigurationProofs` | `OldWritersStayGone`, `ConfigurationStaysReplaced`, `LoggersStayWhole` | `OldWritersAreGone`, `ConfigurationReplaces`, `LoggersAreMadeWhole` |

**The event cache.** The assumptions are the constructor's check
`chunk_size < max_size`, and events that fit a chunk. None of the invariants is
inductive alone. The invariant `IInv` is a conjunction of

* `Layout`: the chunk and every file are *segments*, that is, tiled sequences of
  events whose place in the stream is a known base plus their offset, and these
  bases follow one another: the chunk's unread part, the files in the order of their
  numbers, and the end of the stream;
* `WriteMode`: either writing is in memory, there is no file and none is open, or
  it is not, and then the open file, if any, is the youngest;
* `Counted`: sizes of the segments add up to `currentSize` because each segment's
  base is the end of the one before, so no sum over a set is needed;
* `Others`: types of the remaining variables.

The argument has one lemma for each thing an operation does to a segment (append an
event, drop the first, discard it), one for the oldest file, and then one step per
action. That the bases follow one another is what makes everything else follow: a
load or a cull removes the first segment, a push lengthens or adds the last.
`NothingThrows` needs it most: `cull` and `pop` throw if bytes are counted and
neither the chunk nor a file has them.

The refinement follows the same lemmas: what is unread (`Stored`) is the union of what
the segments hold, so that each of them says which events an operation adds, forgets
or takes, and the layout says that these are the youngest or the oldest.
`ThresholdsAreReported` follows from `report_progress` and from what each operation does
to the size before: one that reports notes the size, and one that does not has moved
it in one direction only and past no threshold.

`SizeIsBounded` said at first that the cache holds less than twice its maximum. The
proof did not go through, and with chunks of 11 and a maximum of 16 there is a counterexample,
the one that the bounds of the run are chosen for (section 4). What culling
keeps is the *number* of chunks (`BoundInv`: any two neighbouring files hold more than
`ChunkSize`, and the chunks are too few for that to reach twice the maximum), from
which `2 * (MaxSize + ChunkSize)` follows, the last file and what is left in memory
counting for a chunk each.

`TakenInOrder` is about a disk that refuses to make the directory or to open a file, and
otherwise works. `OrderInv` has two cases: either no file has failed
to open, and `IInv` holds; or one has, and then the stream swallows whatever is pushed
(`Swallowing`), so that what is stored is still a layout, of the stream up to then. With
writes cut short or reads that fail the bytes would not be events any more; with a file
that is read and cannot be removed, which throws in the middle of `pop`, events could come
twice.

**The asynchronous writer.** `OnlyLatecomersAreLost` speaks of a worker that has left, and
follows from what holds before: between the pop that finds nothing and the reading of `stop_`,
everything in the cache was pushed after that pop, and only a worker that has an
event in its hands leaves one behind.

**The registry.** `IInv` says what can be referred to and by what. `ParentsInv`: the
root alone has no parent, and any other logger has as parent a live logger of
the name that the constructor computes, whether or not the map still knows it.
`UnregisteredInv`: what the map has forgotten has exactly one child, hence a count of 1.
The code erases parents by their *name*, which a second logger may have by then: that
its count of 2 never comes from a forgotten parent is what keeps that second logger,
and whoever holds it, registered. Names are
sequences, and a parent has fewer parts than its child; so `Chain` and
`EffectiveLevel`, which are recursive functions, exist and are what they should be, by
induction over the depth. Erasing keeps every object on a chain of something referred
to, hence every chain whole. `EffectiveLevelIsKept` then says that an operation that
sets no level changes neither level nor parent of any logger on the chain of a held one.

**The locks.** The mutexes a thread holds are those its script unlocks before it locks
them again (`Held`): so ownership need not be tracked through the steps but is read off
what is left to do. All scripts lock in the order of `Rank`, which is proved of each
script and kept by its tails. The join of the destructor has a place in that order:
whoever joins holds only the guard of the logger (`JoinInv`), and the worker waits only for
mutexes that come later. So along a chain of waiting threads the rank rises
(`WaitsForHigher`), and no circle closes. The thread whose first `get` found a configuration that
cannot be read breaks the order, by locking what it holds; the others wait by rank as before, so
every circle contains that thread, which is what `NoDeadlock` says. That it does not return
is the run `locks_first_get`.
`NobodyWaitsInACircle` has the hypothesis `NoSweepJoins`: no call of
`remove_unused_loggers` with an asynchronous writer, which the run `locks_and_writer` satisfies
too. Without it the statement is false, which is the run `locks_remove_unused`.

**The filters.** The chain may be any sequence of the four filters, and the thresholds,
the levels and the size of a blob any numbers. A filter changes its writer only by
writing to it, so a set of writers that no write leaves (`Closed`) is left by no chain:
`PermittedIn` shows this once, by induction over the filters and over the cache that one
of them releases. `BlobsStayBounded` is the case of the writers that send what is
full (`FullIsSent`). For `CachedComeOutInOrder` a place in the chain matters: what the
event on its way may be is decided by whether a cache has let it pass, and until it is
written the output followed by the cache is in order (`OrderedSoFar`). A `level_filter`
that accepts events before the cache sees them puts them ahead of what is held back, so the
property is about the others; with the thresholds TLC is given no `level_filter` did
that, and the proof showed that the condition has to be stated. For `OutputTellsTheLog` the
reading of the output is a recursive function, of which the proof needs what one more
event adds (`ExpandedOfAppend`, `TextsOfAppend`): a notice repeats the last word as often
as the row that ends was counted.

**CloudWatch.** A token is the number of requests accepted when it was read, so
`TokenInv` can say which requests may still be accepted: those with the service's own,
whose events are then younger than all in the stream, since the token is read before
the events are taken. For `EachEventHasOnePlace`, `NoneIsMissing` and `NoneIsTwice`
follow each event from the hand to the batch, a request, the stream or an exception.
For `RequestsFit` the sum over a batch is a recursive function, of which `Append` and
the empty batch are all that is needed; `wireSize` differs from the sum between
two steps of either thread, and `SizeInv` says when and by what.

**The status manager.** `FirstAndLastAreKept` says what each cache is, as a function of
what has been recorded since the last clear, and is inductive as it stands with the
types and `count <= Len(recorded)`. The proof goes over to the lengths and elements of
the caches (`KeptByElement`), has one case for a status that goes to the head, one for a
tail with room and one for a tail that drops its oldest, and comes back by the equality
of sequences. That the level is the worst of the kept statuses follows from what `adjust_level`
computes (`AdjustedFacts`), whatever the caches were before. `LevelCoversTheEnds` speaks of
what was reported, not of the caches: it needs both, that the first and the last are kept and
that the level is theirs (`KeptGivesLevel`).

**The numbered roller.** A writer without a descriptor is helped only by the trigger,
which looks at the size of the active file, or by the access check, which looks whether
it exists: neither looks at the descriptor. The invariant says that throughout a roll
the active file is either still too full or gone (`Recoverable`), that the file is
closed while rolling and that there is an event in hand. `HistoryInOrder` compares
files of different numbers and leaves out what two of them share; neither survives a
step, because a crash may leave the plain and the compressed file of one number, with a part of
the events in both. So every file has a place of its own, the compressed file of
a number behind the plain one, what the compressor has in memory has the place of the
file it goes to, and of two files all that is in the younger and not in the older
is younger than all of the older (`History`). A plain file can stand beside a
compressed one only at the number where compression begins (`ProperNames`), so that moving a file
passes no other. `OnlyOldestAreRemoved` speaks of the files between two events; in the
middle of a roll one number has no file and another may have two. The invariant
(`Undisturbed`) sees the files as a row of slots, the active file first, with a gap
that a roll moves from the greatest number down: the slots are full from the first on, but for
the gap, greater slots are older, and an event that is in no slot is older than all
that are and means that no slot but the gap is empty (`IsRow`). The row
lemmas say what each kind of step does to any such row (`RemovedFromRow`, `MovedInRow`,
`WrittenToRow`, `OpenedInRow`); the steps only have to show which one they are.
Compression changes names and leaves the row as it is.

**The sliding roller.** Its files are never renamed but by the compressor, so for the
order it is enough that no number is greater than that of the file that is written
(`Ordered`), which a failed compression keeps and a restart does not. That only the
oldest events are lost needs that the files are filled evenly: as long as nothing
fails, every event of the file `n` is among the first `Before(n + 1)`, whatever that
file is called by then, the one that is written has just those from `Before(current)`
on (`Even`), and it is full exactly when the trigger says so (`Fullness`, by the size
of an interval). The roll itself is three facts about names (`RolledFacts`): no event
gets into a file of another number, and the only files that can go are the one behind
the window and a compressed one where compression is due, which cannot exist yet.
For `FilesAreBounded` the files are counted by the names under which a roll will look for
them (`Window`): all but a few have one of these (`SlidingBounded`). A restart moves
the window away from at most `MaxCount` of them, a failed compression from one, and a roll
moves the window by one and removes or compresses just what would be left out. With
compression at the oldest number, or at that of the open file, which only a compressor
made without a factory can have, one more is left out each time; the proof showed that
the second has to be excepted as well.

**The file writer.** Everything in the buffer is younger than everything in any file
(`AllTidy`, with an order of the pieces in each), so it does not matter into which
file the buffer goes, in how many parts or when: a write that is done in part, a flush
to a file that was removed, or to the one that was opened instead, all append younger
pieces to some file. Before the first opening there are only the pieces that files had
before the program (`NothingYet`), so the opening that empties its file loses no event.
`Flushed`, `Accessed` and `Added` follow one call through its steps as the code takes
them, with what threw and what was discarded. The pieces of an event are put in by a
loop over the free part of the buffer (`PutPieces`), a recursive function, so that the
proof can go by induction over the pieces that are left. `CheckRestores` is not
inductive alone: it needs that a writer that takes its file for writeable has the file
of that name open, unless another process made it (`Known`).

**The time roller.** The calendar may have months of any lengths, over and over, as long
as none is empty (`CalendarAssumption`): then the beginnings of the periods grow, so
every time is in exactly one period and a later time in no earlier one (`PeriodFacts`).
What a roll does depends on up to three readings of the clock, and the proof relates
them by one period `r`, the one that the next roll ends: it is that of the clock or
before it, in each step by as much as the step leaves open, and no file is younger
(`IsScheduled`). The files are then told by their names alone: an event in a file is not
younger than the name says, or in the file of a fixed name not younger than `r`; no
period has both a plain and a compressed file; and every event is in some file unless it
is older than the limit (`InTime`). So the file that a roll removes to rename to its name is
not there, compression replaces nothing, and a cleaning removes only what is old. A
tick of the clock moves only the limit. `MonthsAreCleaned` needs in addition that the
last cleaning left no file between those it keeps and those that are out of its reach,
and was before the next roll, so that the months that have elapsed since are just those
that have become too old (`CleanInv`). The proof showed what small bounds had
hidden: the first cleaning after a start looks back over a fixed number of periods, and
files that are older than that stay for good (`IsForgotten`).

**The configuration.** The only assumption is that texts are made of loggers that can be
named (`DocumentAssumption`); they may be of any length, with errors anywhere. Every
configuration replays a text from an empty registry: `set` and `reconfigure` have just
reset every registered logger, and the first use finds none, unless `set` came before
it (`SetEarly`). So the proof is about the replay. The loggers are seen through
`WritersAt` alone, which has no writers for a logger that is not registered: then making
a logger or removing one changes nothing (`GetImplFacts`), and `create_configurable`
appends to one logger (`CreateFacts`). `LoggerFacts` says of an element in each format
whether it is made whole, not at all or, in YAML, in part, and `ConfigureFacts` adds
the elements up by induction: without an error the replay gives each logger just what
`Given` collects from the text, and in the other formats what `Given` collects from
the elements that were made. The invariant has what the last text left of the registry
(`LatestOK`) and, without which it is not inductive, that what is held is registered
unless a get is stuck, and that a registry without a root has no loggers (`RegistryOK`):
otherwise the first root could be that of a registry which somebody has filled.

*Induction.* The library's induction theorems take an operator and cannot be used here.
For a fixed recursive function the same is had from the well-foundedness of
the finite sets: `Induction` in the modules that need it is about a set of numbers,
not a predicate.

*Only model-checked*: everything under fairness, which is out of the prover's reach
(`DestructorReturns`, `CallsReturn` and the like), and finalization
(`NothingGoneIsUsed`): its module has no constants, so that what TLC goes through is all
there is, and a proof would need induction over the sequences that it filters.

## 6. Findings, and what is not modelled

Six runs end in a violation; `PROJECT.json` has the quotations.

* `async_writer_flush`: pop times out, an event is pushed, the destructor raises
  `stop_`, the worker reads it and leaves: the event is lost.
* `locks_remove_unused`: the destructor of an asynchronous writer waits, under
  `loggers_guard_`, for a worker that needs it to deserialise an event.
* `locks_first_get`: the first `get` runs `configuration::perform` under `loggers_guard_`; a
  configuration that cannot be read makes it call `remove_unused_loggers`, which locks
  it again (`configuration.cpp:264`, `:360`, `:372`). The default is never reached.
* `status_level`: an error that is neither among the first 150 statuses nor among the last
  no longer counts in the level (`status_manager.cpp:111`).
* `sliding_max_count`: when compression begins at the oldest file, that file is looked for
  under its compressed name just before it is compressed, so that it is not removed.
* `configuration_root_level`: `set` and `reconfigure` reset the root's level, and a
  text that gives it none leaves it without one.

What else the models show, and the conditions of the properties stand for:

* *Event cache.* After a file could not be opened, `write_file_` is a stream that
  swallows bytes (`event_cache.cpp:190`); they are counted, and a later `pop` finds no
  file and throws in a thread that catches nothing. The maximum size is exceeded,
  to twice that and more, because one chunk is culled per push, and a chunk of small
  events may be smaller than the event pushed (`SizeIsBounded`).
* *Loggers.* A parent that one child alone refers to is forgotten by
  `remove_unused_loggers` while the child is in use (`logger.cpp:291`). A later `get`
  makes a second logger of that name, and what is set there the child does not inherit. A
  later configuration does not reset the first, because it resets what is registered
  (`configuration.cpp:404`, `:435`): the child's events still reach the first one's old
  writers (`logger.cpp:353`). `OldWritersAreGone` is therefore about registered loggers, and in
  the model of the configuration all loggers are children of the root.
* *Batching.* The count of coalesced events is compared for equality with its limit
  (`message_queue_writer.cpp:71`): after a blob that could not be sent it is past the
  limit, and nothing is sent until somebody flushes. The model has that failure;
  `BlobIsBounded` holds only until it comes, and says nothing of what follows. A full Kafka
  queue is waited for on a return value that the library does not give
  (`kafka_writer.cpp:69`). In CloudWatch `wire_size_` is reset without the guard under
  which it is counted, so an event added meanwhile is not measured: again the model has
  it (`raced`), and `RequestsFit` is about the behaviours without it.
* *Rolling.* The failures of a numbered roll lose more than the oldest file, which
  `OnlyOldestAreRemoved` therefore claims only while nothing fails. A crash, or a failed
  compression, leaves an uncompressed file at a number where the compressed one is
  looked for: a later roll writes over it. A crash between the removal of the source
  and the closing of the compressed file loses a rolled file whole. The sliding roller
  keeps more than its maximum of files also after a restart, a failed compression, or with a
  compressor whose minimum index is zero, which the factories turn into one: what is
  left of the maximum then is `FilesAreBounded`. A restart begins at the least number while files with greater ones exist
  (`NewestAreKept`). The time roller removes its target before it renames to it, so that
  the roll after a failed compression loses the file of the one before
  (`OnlyOldEventsAreLost`). By days,
  `periods_elapsed` counts whole days from the time of the last cleaning
  (`time_file_roller.cpp:434`): a cleaning a little less than a day after another
  cleans nothing, which is why `MonthsAreCleaned` speaks of months.
* *Files.* A writer whose first `open` found a file it may not write does not open it
  when it may be written, because the check compares with a state that was never set
  (`file_writer.cpp:72`). A file
  that another process replaced between two checks is not noticed
  (`CheckRestores`). Opening again after a removal does not close the old descriptor
  (`file_writer.cpp:87`).
* *Configuration.* `set` before the first `get` makes a root that the
  first `get` replaces, and its loggers keep the old one (`SetEarly`). When the file
  named by the environment fails, the one named by `set_file_name` is not tried. An
  error in JSON ends the configuration; in YAML it ends the mapping it is in, and what
  follows in it is dropped (`LoggersAreMadeWhole` is about the other formats).
* *Finalization.* The root's writers, and those of a released logger with two released
  children, are destroyed after most statics: an asynchronous
  one reports to a status manager that is gone unless that was used before the first
  logger, one over curl cleans up after `curl_global_cleanup`, and the context of
  ZeroMQ waits for a socket that is closed only after it (`NothingGoneIsUsed`).

Not modelled:

* of the event cache: an event larger than a chunk (`SizeAssumption`), the wrap of the
  32-bit sequence number after 2^32 files, `stop`; of a disk that fails, writes cut short, reads
  that fail, and a file that cannot be removed once it is read, where `pop` throws in the middle;
* of loggers: the forwarding to ancestors' writers, and the reads of `level_` and
  `writes_to_ancestors_` without a guard. `configuration::set` and `reconfigure` call
  `logger::get_impl` without `loggers_guard_`, a data race that the models of the
  registry leave out;
* of writers: filters added and removed while events are written; an application
  that calls `flush` of a message queue writer during a `write` of another thread
  (`writer::flush` takes no lock, and the writer's own state has none); the thread that
  polls Kafka;
* of files: Windows, the interval and the on-start trigger;
* of configuration: variables in texts, and setters called between two
  configurations; factories and mementos, which are one pattern repeated (keyed
  setters, then a constructor);
* of finalization: statics that no destructor uses;
* formatters and serializers are pure conversions, the diagnostic context belongs to a
  thread, platform services, system log writers and the C interface are thin wrappers,
  and libyaml and cJSON are other projects' code.

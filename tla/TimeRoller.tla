----------------------------- MODULE TimeRoller -----------------------------
(***************************************************************************)
(* A rolling_file_writer with a time_file_roller, which is its trigger     *)
(* too.  The clock is read anew at each step of a roll.  A file is named   *)
(* by the period that its name is computed from; a writer may also have an *)
(* active file of a fixed name, which a roll renames.                      *)
(*                                                                         *)
(* Time is counted in units of which a period, a day or a month, has a     *)
(* few; periods are numbered.                                              *)
(***************************************************************************)
EXTENDS Integers, Sequences, Functions

CONSTANTS MaxHistory,    \* max_history_
          CompressFroms, \* what get_min_index() may be; 0 is no compressor
          DayLength,     \* the units of a day
          MonthLengths,  \* the units of the months, over and over
          LookBack,      \* the periods searched by the first cleaning
          Horizon,       \* the clock stops here
          EventBound,    \* no more events than this are written
          FailureBound,  \* no more compressions than this fail
          RestartBound   \* no more restarts than this happen

HistoryAssumption == MaxHistory \in Nat /\ LookBack \in Nat
CalendarAssumption == /\ Horizon \in Nat /\ DayLength \in Nat \ {0}
                      /\ MonthLengths \in Seq(Nat \ {0}) /\ MonthLengths # <<>>

VARIABLES period,       \* period_: "day" or "month"
          named,        \* is there an initial file name?
          compressFrom, \* get_min_index() of the compressor
          clock,
          files,        \* the events in each file that exists
          open,         \* the file that is written
          nextRoll,     \* next_roll_
          lastClean,    \* last_clean_, or Never
          step,         \* what the writer does next
          now,          \* now of roll, and the time of the trigger before it
          born,         \* the period in which each event was passed to the writer
          crossed,      \* has a period begun between two readings of the clock?
          overflowed,   \* was a day looked for in a month that does not have it?
          failures, restarts

settings == <<period, named, compressFrom>>
vars == <<settings, clock, files, open, nextRoll, lastClean, step, now, born, crossed,
          overflowed, failures, restarts>>

Never == -1

-----------------------------------------------------------------------------
(* The calendar.                                                           *)

Length(unit, p) == IF unit = "day" THEN DayLength
                   ELSE MonthLengths[1 + (p % Len(MonthLengths))]
Starts[p \in 0 .. Horizon + 1] ==
  [unit \in {"day", "month"} |->
     IF p = 0 THEN 0 ELSE Starts[p - 1][unit] + Length(unit, p - 1)]
StartOf(p) == Starts[p][period]
PeriodOf(t) == CHOOSE p \in 0 .. t : StartOf(p) <= t /\ t < StartOf(p + 1)
NextPeriod(t) == StartOf(PeriodOf(t) + 1)

\* The period of a time offset periods away from t. The month may not have that day,
\* which then is one of the next month.
Overflows(t, offset) ==
  t - StartOf(PeriodOf(t)) >= Length(period, PeriodOf(t) + offset)
PeriodRelative(t, offset) == PeriodOf(t) + offset + (IF Overflows(t, offset) THEN 1 ELSE 0)

\* periods_elapsed: months are counted by their names, days by their seconds.
Elapsed(first, last) == IF period = "month" THEN PeriodOf(last) - PeriodOf(first)
                        ELSE (last - first) \div DayLength

-----------------------------------------------------------------------------
(* Files.                                                                  *)

Plain(p) == [of |-> p, compressed |-> FALSE]
Gz(p) == [of |-> p, compressed |-> TRUE]
Fixed == [of |-> -1000, compressed |-> FALSE]

\* get_active_file_name.
ActiveName == IF named THEN Fixed ELSE Plain(PeriodOf(clock))

Opened(fs, f) == IF f \in DOMAIN fs THEN fs
                 ELSE [g \in DOMAIN fs \cup {f} |-> IF g = f THEN {} ELSE fs[g]]
Without(fs, gone) == Restrict(fs, DOMAIN fs \ gone)
Renamed(fs, from, to) ==
  IF from \in DOMAIN fs
  THEN [f \in (DOMAIN fs \ {from}) \cup {to} |-> IF f = to THEN fs[from] ELSE fs[f]]
  ELSE fs

Init == /\ period \in {"day", "month"} /\ named \in BOOLEAN
        /\ compressFrom \in CompressFroms
        /\ clock = 0 /\ now = 0
        /\ open = ActiveName /\ files = [f \in {open} |-> {}]
        /\ nextRoll = NextPeriod(clock) /\ lastClean = Never
        /\ step = "idle"
        /\ born = <<>>
        /\ crossed = FALSE /\ overflowed = FALSE
        /\ failures = 0 /\ restarts = 0

\* Has the clock been read for the names of this roll, or for the next one?
HasRead == step \in {"rename", "clean", "open", "start"}

Tick == /\ clock < Horizon /\ clock' = clock + 1
        /\ crossed' = (crossed \/ (HasRead /\ ~named /\ clock' = NextPeriod(clock)))
        /\ UNCHANGED <<settings, files, open, nextRoll, lastClean, step, now, born,
                       overflowed, failures, restarts>>

-----------------------------------------------------------------------------
(* rolling_file_writer::write_impl and time_file_roller::roll.             *)

Write ==
  /\ step = "idle" /\ Len(born) < EventBound
  /\ now' = clock
  /\ step' = IF clock >= nextRoll THEN "remove" ELSE "write"
  /\ UNCHANGED <<settings, clock, files, open, nextRoll, lastClean, born, crossed,
                 overflowed, failures, restarts>>

\* The target has the name of the period that has begun.
RemoveTarget ==
  /\ step = "remove" /\ step' = "rename"
  /\ now' = clock
  /\ files' = Without(files, {Plain(PeriodOf(clock))})
  /\ UNCHANGED <<settings, clock, open, nextRoll, lastClean, born, crossed, overflowed,
                 failures, restarts>>

CompressOffset == IF named THEN 1 - compressFrom ELSE - compressFrom

\* A file to be compressed whose name has been used for a compressed one replaces it.
Compressed(fs) == LET p == PeriodRelative(now, CompressOffset)
                  IN  IF compressFrom > 0 THEN Renamed(fs, Plain(p), Gz(p)) ELSE fs

\* Mutant: the next roll is computed from the one before.
RenameActiveLate ==
  /\ step = "rename" /\ step' = "clean"
  /\ files' = Compressed(Renamed(files, ActiveName, Plain(PeriodOf(now))))
  /\ nextRoll' = NextPeriod(nextRoll)
  /\ overflowed' = (overflowed \/ (compressFrom > 0 /\ Overflows(now, CompressOffset)))
  /\ UNCHANGED <<settings, clock, open, lastClean, now, born, crossed, failures, restarts>>
RenameActive ==
  /\ step = "rename" /\ step' = "clean"
  /\ files' = Compressed(Renamed(files, ActiveName, Plain(PeriodOf(now))))
  /\ nextRoll' = NextPeriod(now)
  /\ overflowed' = (overflowed \/ (compressFrom > 0 /\ Overflows(now, CompressOffset)))
  /\ UNCHANGED <<settings, clock, open, lastClean, now, born, crossed, failures, restarts>>

\* The exception leaves roll before the next one is computed, and the event is lost. The
\* next event rolls again, and removes its target first.
CompressionFails ==
  /\ step = "rename" /\ step' = "idle"
  /\ failures < FailureBound /\ failures' = failures + 1
  /\ compressFrom > 0
  /\ files' = Renamed(files, ActiveName, Plain(PeriodOf(now)))
  /\ Plain(PeriodRelative(now, CompressOffset)) \in DOMAIN files'
  /\ UNCHANGED <<settings, clock, open, nextRoll, lastClean, now, born, crossed,
                 overflowed, restarts>>

\* cleaner::clean.
\* Mutant: each cleaning is for one period.
PeriodsToCleanOne == IF lastClean = Never THEN LookBack ELSE 1
PeriodsToClean == IF lastClean = Never THEN LookBack ELSE Elapsed(lastClean, now)
OldestOffset == IF named THEN - MaxHistory ELSE - MaxHistory - 1
Cleaned(offset) ==
  [of |-> PeriodRelative(now, offset),
   compressed |-> compressFrom > 0 /\ - offset >= compressFrom]

Clean ==
  /\ step = "clean" /\ step' = "open"
  /\ LET offsets == (OldestOffset - PeriodsToClean + 1) .. OldestOffset
     IN  /\ files' = Without(files, {Cleaned(o) : o \in offsets} \ {ActiveName})
         /\ overflowed' = (overflowed \/ \E o \in offsets : Overflows(now, o))
  /\ lastClean' = now
  /\ UNCHANGED <<settings, clock, open, nextRoll, now, born, crossed, failures, restarts>>

Open ==
  /\ step = "open" /\ step' = "write"
  /\ open' = ActiveName
  /\ files' = Opened(files, ActiveName)
  /\ UNCHANGED <<settings, clock, nextRoll, lastClean, now, born, crossed, overflowed,
                 failures, restarts>>

WriteEvent ==
  /\ step = "write" /\ step' = "idle"
  /\ born' = Append(born, PeriodOf(now))
  /\ files' = [Opened(files, open) EXCEPT ![open] = @ \cup {Len(born')}]
  /\ UNCHANGED <<settings, clock, open, nextRoll, lastClean, now, crossed, overflowed,
                 failures, restarts>>

\* The process dies, and is started again: the roller is made before the file is opened.
Restart ==
  /\ restarts < RestartBound
  /\ step' = "start"
  /\ nextRoll' = NextPeriod(clock) /\ lastClean' = Never
  /\ restarts' = restarts + 1
  /\ UNCHANGED <<settings, clock, files, open, now, born, crossed, overflowed, failures>>

Start ==
  /\ step = "start" /\ step' = "idle"
  /\ open' = ActiveName
  /\ files' = Opened(files, ActiveName)
  /\ UNCHANGED <<settings, clock, nextRoll, lastClean, now, born, crossed, overflowed,
                 failures, restarts>>

Next == \/ Tick \/ Write \/ RemoveTarget \/ RenameActive \/ CompressionFails
        \/ Clean \/ Open \/ WriteEvent
        \/ Restart \/ Start

Spec == Init /\ [][Next]_vars

-----------------------------------------------------------------------------
(* Properties.                                                             *)

Kept == UNION Range(files)

\* Whenever the process dies, an event is lost only when MaxHistory periods have passed
\* since its own; one fewer if the day of a month overflowed into the next. This holds of
\* a writer with a fixed name unless a compression failed, whose file the next roll
\* removes, and of another unless a period begins between two readings of the clock.
OnlyOldEventsAreLost ==
  (IF named THEN failures = 0 ELSE ~crossed) =>
    \A e \in DOMAIN born \ Kept :
      born[e] < PeriodOf(clock) - MaxHistory + (IF overflowed THEN 1 ELSE 0)

\* A cleaning leaves behind files of the last MaxHistory periods, and those that are
\* too old for the first cleaning after a start to look for them.
FirstKept == PeriodOf(now) - MaxHistory + (IF named THEN 1 ELSE 0)
IsHistory(f) == f.of >= FirstKept
IsForgotten(f) == f.of < FirstKept - LookBack

\* By months, unless a day overflowed, and without a compressor, under whose extension a
\* file may be looked for that does not have it: a cleaning leaves no other file.
MonthsAreCleaned ==
  period = "month" /\ compressFrom = 0 /\ ~overflowed /\ ~crossed /\ step = "open" =>
    \A f \in DOMAIN files \ {Fixed} : IsHistory(f) \/ IsForgotten(f)
=============================================================================

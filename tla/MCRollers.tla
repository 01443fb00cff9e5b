----------------------------- MODULE MCRollers ------------------------------
(* Instances of NumberedRoller, SlidingRoller and TimeRoller, and of         *)
(* FileWriter, for TLC. A behaviour is one of a writer with one of the       *)
(* rollers or with none: which, is chosen at the beginning.                  *)
EXTENDS NumberedRoller

CONSTANTS MaxCount, SlidingCompressFroms, SlidingEventBound, FailureBound, RestartBound,
          MaxHistory, TimeCompressFroms, DayLength, MonthLengths, LookBack, Horizon,
          TimeEventBound, BufferSize, Sizes, FileEventBound, FileFaultBound, WorldBound

VARIABLES roller, compressed, slidingFiles, current, open, slidingEvent, slidingFailures,
          slidingRestarts,
          period, named, timeCompressFrom, clock, timeFiles, timeOpen, nextRoll, lastClean,
          timeStep, now, born, crossed, overflowed, failures, restarts,
          append, flushes, fileDisk, fileWriter, due, fileEvent, sizes, spoiled, foreign,
          checked, fileFaults, changes

sliding == <<compressed, slidingFiles, current, open, slidingEvent, slidingFailures,
             slidingRestarts>>
time == <<period, named, timeCompressFrom, clock, timeFiles, timeOpen, nextRoll, lastClean,
          timeStep, now, born, crossed, overflowed, failures, restarts>>
plain == <<append, flushes, fileDisk, fileWriter, due, fileEvent, sizes, spoiled, foreign,
           checked, fileFaults, changes>>

Sliding == INSTANCE SlidingRoller
             WITH CompressFroms <- SlidingCompressFroms, EventBound <- SlidingEventBound,
                  compressFrom <- compressed, files <- slidingFiles, event <- slidingEvent,
                  failures <- slidingFailures, restarts <- slidingRestarts

Time == INSTANCE TimeRoller
          WITH CompressFroms <- TimeCompressFroms, EventBound <- TimeEventBound,
               compressFrom <- timeCompressFrom, files <- timeFiles, open <- timeOpen,
               step <- timeStep

Plainly == INSTANCE FileWriter
             WITH EventBound <- FileEventBound, FaultBound <- FileFaultBound,
                  disk <- fileDisk, writer <- fileWriter, event <- fileEvent,
                  faults <- fileFaults

ASSUME Assumptions == /\ Sliding!CountAssumption
                      /\ Time!HistoryAssumption /\ Time!CalendarAssumption
                      /\ Plainly!BufferAssumption

\* The numbered roller: all files are compressed, those from the second on, or none.
AllSecondNone == {1, 2, 4}
LongAndShort == <<3, 2>>

\* Those that are not chosen stay in one initial state.
RollersInit ==
  /\ Init /\ Sliding!Init /\ Time!Init /\ Plainly!Init
  /\ roller \in {"numbered", "sliding", "time", "none"}
  /\ roller # "numbered" => compressFrom = 1
  /\ roller # "sliding" => compressed = 1
  /\ roller # "time" => period = "day" /\ named /\ timeCompressFrom = 0
  /\ roller # "none" => /\ append /\ flushes /\ fileWriter.isOpen
                      /\ fileDisk.files = <<Plainly!Old>>

RollersNext ==
  \/ roller = "numbered" /\ Next /\ UNCHANGED <<roller, sliding, time, plain>>
  \/ roller = "sliding" /\ Sliding!Next /\ UNCHANGED <<roller, vars, time, plain>>
  \/ roller = "time" /\ Time!Next /\ UNCHANGED <<roller, vars, sliding, plain>>
  \/ roller = "none" /\ Plainly!Next /\ UNCHANGED <<roller, vars, sliding, time>>

RollersSpec == RollersInit /\ [][RollersNext]_<<roller, vars, sliding, time, plain>>

\* The properties of the other three, where they are stated.
NewestAreKept == Sliding!NewestAreKept
FilesAreBounded == Sliding!FilesAreBounded
OnlyOldEventsAreLost == Time!OnlyOldEventsAreLost
MonthsAreCleaned == Time!MonthsAreCleaned
FilesTellTheEvents == Plainly!FilesTellTheEvents
CheckRestores == Plainly!CheckRestores
=============================================================================

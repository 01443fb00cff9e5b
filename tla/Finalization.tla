---------------------------- MODULE Finalization ----------------------------
(***************************************************************************)
(* finalize and the garbage_cleaner.  The static objects of the library    *)
(* are made when they are first used and destroyed by finalize, the last   *)
(* made first.  The loggers that the application has not released, and     *)
(* the root, are destroyed with the static object that has them, which is  *)
(* made before most others: by then their writers may need what is gone.   *)
(* So is a released logger that remove_unused_loggers still finds counted. *)
(***************************************************************************)
EXTENDS SequencesExt

VARIABLES made,     \* the static objects in the order of their making
          gone,     \* those that have been destroyed
          writers,  \* what writer the root and another logger have
          held,     \* does the application have the other logger?
          known,    \* does all_loggers_ have it?
          children, \* how many released loggers have it for a parent
          phase,    \* "running", "cleaning" when finalize has been called
          dangling, \* what was used although it was gone
          waiting   \* does finalize wait for what never comes?

vars == <<made, gone, writers, held, known, children, phase, dangling, waiting>>

Statics == {"loggers", "levels", "status", "curl", "zeromq"}

\* A "reporting" writer reports a status when it is destroyed: an asynchronous one always,
\* one that cannot flush its events, too. "pending" is an asynchronous one with events.
Kinds == {"quiet", "reporting", "pending", "curl", "zeromq"}

Making(kind) == IF kind \in Statics THEN <<kind>> ELSE <<>>
Destroying(kind) == CASE kind = "reporting" -> {"status"}
                      [] kind = "pending"   -> {"status", "loggers", "levels"}
                      [] OTHER              -> ToSet(Making(kind))

Init == /\ made = <<>> /\ gone = {}
        /\ writers = [lgr \in {"root", "other"} |-> "quiet"]
        /\ held = FALSE /\ known = FALSE /\ children = 0
        /\ phase = "running"
        /\ dangling = {} /\ waiting = FALSE

IsMade(s) == s \in ToSet(made)
Use(statics) == made' = made \o SelectSeq(statics, LAMBDA s : ~IsMade(s))

ReportStatus ==
  /\ phase = "running" /\ Use(<<"status">>)
  /\ UNCHANGED <<gone, writers, held, known, children, phase, dangling, waiting>>

\* The first get makes the registry, then the root with its level, and is reported on.
Get ==
  /\ phase = "running" /\ Use(<<"loggers", "levels", "status">>)
  /\ held' = TRUE /\ known' = TRUE
  /\ UNCHANGED <<gone, writers, children, phase, dangling, waiting>>

\* A get of a logger below the other one, which is made for it, and its release.
GetChild ==
  /\ phase = "running" /\ children < 2
  /\ Use(<<"loggers", "levels", "status">>)
  /\ known' = TRUE /\ children' = children + 1
  /\ UNCHANGED <<gone, writers, held, phase, dangling, waiting>>

Release ==
  /\ phase = "running" /\ held' = FALSE
  /\ UNCHANGED <<made, gone, writers, known, children, phase, dangling, waiting>>

SetWriter(lgr, kind) ==
  /\ phase = "running" /\ IF lgr = "root" THEN IsMade("loggers") ELSE held
  /\ Use(Making(kind))
  /\ writers' = [writers EXCEPT ![lgr] = kind]
  /\ UNCHANGED <<gone, held, known, children, phase, dangling, waiting>>

\* Mutant: finalize leaves unused loggers to the cleaner.
RemoveUnusedNone == /\ Use(<<"loggers", "status">>)
                    /\ UNCHANGED <<known, waiting>>
\* One pass over the counts as they are before any logger goes. A child that nobody else
\* has is alone; the other logger is alone, or one child is all that has it besides
\* all_loggers_. Two children hide it, although both of them are removed.
IsUnused == ~held /\ children < 2

\* What was removed is reported, be it nothing. The worker of a writer with events waits
\* for the mutex that is locked meanwhile.
RemoveUnused ==
  /\ Use(<<"loggers", "status">>)
  /\ waiting' = (known /\ IsUnused /\ writers["other"] = "pending")
  /\ known' = (known /\ ~IsUnused)

Finalize ==
  /\ phase = "running" /\ phase' = "cleaning"
  /\ RemoveUnused
  /\ UNCHANGED <<gone, writers, held, children, dangling>>

\* The writers that are destroyed with the static object s.
Destroyed(s) == IF s # "loggers" THEN {}
                ELSE {writers[lgr] : lgr \in {"root"} \cup (IF known /\ ~held THEN {"other"} ELSE {})}

HasSocket == \/ writers["root"] = "zeromq"
             \/ known /\ writers["other"] = "zeromq"

\* ~garbage_cleaner: what has not been made yet is made now, which locks guard_ again.  The
\* context of ZeroMQ waits for the sockets of its writers to be closed.
Clean ==
  /\ phase = "cleaning" /\ ~waiting
  /\ LET living == SelectSeq(made, LAMBDA s : s \notin gone)
         needed(s) == UNION {Destroying(kind) : kind \in Destroyed(s)}
     IN  /\ living # <<>>
         /\ gone' = gone \cup {Last(living)}
         /\ dangling' = dangling \cup (needed(Last(living)) \cap gone')
         /\ waiting' = \/ needed(Last(living)) \ ToSet(made) # {}
                       \/ Last(living) = "zeromq" /\ HasSocket
  /\ UNCHANGED <<made, writers, held, known, children, phase>>

Next == \/ ReportStatus \/ Get \/ GetChild \/ Release
        \/ \E lgr \in {"root", "other"}, kind \in Kinds : SetWriter(lgr, kind)
        \/ Finalize \/ Clean

Spec == Init /\ [][Next]_vars

-----------------------------------------------------------------------------
(* Properties.                                                             *)

IsBefore(s, t) == IsMade(s) /\ IsMade(t) =>
  \E i, j \in DOMAIN made : i < j /\ made[i] = s /\ made[j] = t

\* The writers that may be destroyed with the registry. One that reports a status may if
\* the status manager was made before it.
MayGoLast == {"quiet"} \cup IF IsBefore("status", "loggers") THEN {"reporting"} ELSE {}

\* finalize uses nothing that it has destroyed, and ends, whatever writers a logger has
\* that it removes, but for an asynchronous one with events. The writers of the root, and
\* of a released logger that two children hide from the removal, must do without curl,
\* ZeroMQ and events to write, and may report a status only if the status manager was
\* used before the first logger was made. A logger that is still held must not have a
\* socket of ZeroMQ.
NothingGoneIsUsed ==
  /\ writers["root"] \in MayGoLast
  /\ CASE held     -> writers["other"] # "zeromq"
       [] IsUnused -> writers["other"] # "pending"
       [] OTHER    -> writers["other"] \in MayGoLast
  => dangling = {} /\ ~waiting
=============================================================================

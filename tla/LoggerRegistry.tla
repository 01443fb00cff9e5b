--------------------------- MODULE LoggerRegistry ---------------------------
(***************************************************************************)
(* The hierarchy of loggers of logger.cpp: the map of all loggers by name, *)
(* the pointer from each logger to its parent, and the levels inherited    *)
(* along these pointers.  A logger lives as long as the map, a child or    *)
(* the application refers to it, and the number of these references is     *)
(* what remove_unused_loggers goes by.                                     *)
(*                                                                         *)
(* get, get_existing_loggers, remove_unused_loggers and the search for the *)
(* effective level hold loggers_guard_ throughout, so each is one action.  *)
(* A name is the sequence of what stands between its dots; the name of the *)
(* root is <<"">>.                                                         *)
(***************************************************************************)
EXTENDS Integers, FiniteSets, Functions, SequencesExt

CONSTANTS Names,     \* the names that are asked for
          Objects,   \* the addresses at which loggers can be
          Levels,    \* the levels that are set
          NoLogger,  \* the null pointer to a logger
          NoLevel    \* the null pointer to a level

\* What stands between two dots in a row, and the name of the root.
Empty == ""
Root == <<Empty>>

\* What the constructor makes of split(name): the ancestors of a name, which are
\* found by joining again its parts but the last, without the empty ones.
AncestorParts(name) ==
  LET Parts[k \in 0 .. Len(name) - 1] ==
        IF k = 0 THEN <<>>
        ELSE IF name[k] = Empty THEN Parts[k - 1] ELSE Append(Parts[k - 1], name[k])
  IN  Parts[Len(name) - 1]
Ancestors(name) ==
  {SubSeq(AncestorParts(name), 1, k) : k \in 1 .. Len(AncestorParts(name))}
ParentName(name) == IF AncestorParts(name) = <<>> THEN Root ELSE AncestorParts(name)

ASSUME NamesAssumption == \A n \in Names : n \in Seq(STRING) /\ n # <<>>
ASSUME NullAssumption == NoLogger \notin Objects /\ NoLevel \notin Levels
ASSUME InfoAssumption == {"INFO", "OFF"} \cap Levels = {}

VARIABLES registry,     \* all_loggers_
          loggers,      \* the loggers that are alive: name_, parent_ and level_
          held,         \* the loggers to which the application has a shared_ptr
          initialized   \* is_initialized_

vars == <<registry, loggers, held, initialized>>

Init == /\ registry = [n \in {} |-> NoLogger]
        /\ loggers = [x \in {} |-> NoLogger]
        /\ held = {}
        /\ initialized = FALSE

-----------------------------------------------------------------------------
(* References.                                                             *)

Children(x) == {y \in DOMAIN loggers : loggers[y].parent = x}

\* use_count().  The application counts once, however many pointers it has: a
\* comparison below is of a count that has something else than the application in it.
UseCount(x) == Cardinality({n \in DOMAIN registry : registry[n] = x})
               + Cardinality(Children(x))
               + (IF x \in held THEN 1 ELSE 0)

\* A logger with its parent, the parent of that one, and so on.
Chain(ls) ==
  LET c[x \in DOMAIN ls] ==
        {x} \cup (IF ls[x].parent = NoLogger THEN {} ELSE c[ls[x].parent])
  IN  c

\* When references go away, the loggers to which none leads any more are destroyed.
Referenced(reg, hld) == UNION {Chain(loggers)[x] : x \in Range(reg) \cup hld}
ReleaseTo(reg, hld) ==
  /\ registry' = reg
  /\ held' = hld
  /\ loggers' = Restrict(loggers, Referenced(reg, hld))

-----------------------------------------------------------------------------
(* get, with get_impl and the constructor.                                 *)

\* Mutant: an ancestor that has a parent is given to the one of that name.
AdoptsAlways(x) == TRUE
Adopts(x) == loggers[x].parent = NoLogger

Made(name, reg) ==
  [name |-> name,
   parent |-> IF name = Root THEN NoLogger ELSE reg[ParentName(name)],
   level |-> IF name = Root /\ ~initialized THEN "INFO" ELSE NoLevel]

Adopted(x, name, reg) ==
  IF Adopts(x) /\ \E n \in Ancestors(name) \cap DOMAIN registry : registry[n] = x
  THEN [loggers[x] EXCEPT !.parent = reg[ParentName(loggers[x].name)]]
  ELSE loggers[x]

\* A logger that is found is returned.  To make one, its ancestors are looked for and
\* those not found are made too, each where no logger is alive.
Get(name) ==
  LET makes == name \notin DOMAIN registry
      missing == ({Root} \cup (IF makes THEN Ancestors(name) \cup {name} ELSE {}))
                   \ DOMAIN registry
      free == Objects \ DOMAIN loggers
  IN  /\ \E at \in [missing -> free] :
           /\ IsInjective(at)
           /\ LET reg == [n \in DOMAIN registry \cup missing |->
                            IF n \in missing THEN at[n] ELSE registry[n]]
              IN  /\ registry' = reg
                  /\ loggers' = [x \in DOMAIN loggers \cup Range(at) |->
                       IF x \in Range(at)
                       THEN Made(CHOOSE n \in missing : at[n] = x, reg)
                       ELSE IF makes THEN Adopted(x, name, reg) ELSE loggers[x]]
                  /\ held' = held \cup {reg[name]}
      /\ initialized' = TRUE

GetExistingLoggers ==
  /\ held' = held \cup Range(registry)
  /\ UNCHANGED <<registry, loggers, initialized>>

\* The application lets its last pointer to a logger go.
Release(x) ==
  /\ x \in held
  /\ ReleaseTo(registry, held \ {x})
  /\ UNCHANGED initialized

-----------------------------------------------------------------------------
(* remove_unused_loggers: all_loggers_ is scanned before anything is       *)
(* erased, so the counts are those from before the call.                   *)

HasParent(x) == loggers[x].parent # NoLogger
\* Mutant: the root is like any other.
NeverErasedNone(x) == FALSE
NeverErased(x) == ~HasParent(x)

\* Mutant: a logger used by the application alone is taken for unused.
AloneWithHandle(x) == UseCount(x) \in {1, 2} /\ Children(x) = {}
\* Mutant: only parents are erased.
AloneNever(x) == FALSE
Alone(x) == UseCount(x) = 1

HasOneChild(x) == UseCount(x) = 2

ToErase ==
  {n \in DOMAIN registry : ~NeverErased(registry[n]) /\ Alone(registry[n])}
  \cup
  {loggers[loggers[x].parent].name :
     x \in {y \in Range(registry) :
              /\ HasParent(y)
              /\ HasOneChild(loggers[y].parent)
              /\ ~NeverErased(loggers[y].parent)}}

RemoveUnusedLoggers ==
  /\ ReleaseTo(Restrict(registry, DOMAIN registry \ ToErase), held)
  /\ UNCHANGED initialized

-----------------------------------------------------------------------------
(* Levels, which only the holder of a logger can set.                      *)

SetLevel(x, lvl) ==
  /\ x \in held
  /\ loggers' = [loggers EXCEPT ![x].level = lvl]
  /\ UNCHANGED <<registry, held, initialized>>

\* reset also empties the writers, which this module leaves out.
Reset(x) == SetLevel(x, NoLevel)

\* get_effective_level, for all loggers of ls.
EffectiveLevel(ls) ==
  LET e[x \in DOMAIN ls] ==
        IF ls[x].level # NoLevel THEN ls[x].level
        ELSE IF ls[x].parent = NoLogger THEN "OFF"
        ELSE e[ls[x].parent]
  IN  e

Next == \/ \E n \in Names : Get(n)
        \/ GetExistingLoggers
        \/ RemoveUnusedLoggers
        \/ \E x \in Objects : \/ Release(x)
                              \/ \E lvl \in Levels : SetLevel(x, lvl)
                              \/ Reset(x)

Spec == Init /\ [][Next]_vars

-----------------------------------------------------------------------------
(* Properties.                                                             *)

\* As long as the application uses a logger, get returns the same one for its name:
\* remove_unused_loggers never makes a second.
HeldIsRegistered ==
  \A x \in held : loggers[x].name \in DOMAIN registry /\ registry[loggers[x].name] = x

\* Every logger inherits from the one root there is, so no event is lost because a
\* hierarchy was cut off.
ChainsEndInRoot ==
  \A x \in DOMAIN loggers : /\ Root \in DOMAIN registry
                            /\ registry[Root] \in Chain(loggers)[x]

\* Making and removing loggers never changes the level at which a logger in use logs.
EffectiveLevelIsKept ==
  [][(\A x \in DOMAIN loggers \cap DOMAIN loggers' : loggers'[x].level = loggers[x].level)
     => \A x \in held \cap held' : EffectiveLevel(loggers')[x] = EffectiveLevel(loggers)[x]]_vars

\* Removal is complete after enough calls: when one would remove nothing, every
\* logger but the root is in use or is an ancestor of one in use.
RemovalIsComplete ==
  ToErase = {} => \A n \in DOMAIN registry \ {Root} :
                    \E x \in held : registry[n] \in Chain(loggers)[x]
=============================================================================

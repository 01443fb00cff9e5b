---------------------------- MODULE StatusManager ---------------------------
(***************************************************************************)
(* The status manager of status_manager.cpp.  Any part of the library, in  *)
(* any thread, reports its warnings and errors to it.  It keeps the first  *)
(* statuses in a head cache and the last ones in a tail cache, under       *)
(* cache_guard_, and then calls the observers, under observer_guard_: the  *)
(* two are separate steps of the reporting thread.                         *)
(*                                                                         *)
(* A status is its level and the place it has among all those recorded.    *)
(***************************************************************************)
EXTENDS Integers, Sequences, FiniteSetsExt, Functions

CONSTANTS Threads,        \* the threads that report
          Observers,      \* the observers that the application may add
          Default,        \* the observer that prints warnings and errors
          HeadMax,        \* HEAD_CACHE_MAX
          TailMax,        \* TAIL_CACHE_MAX
          RecordBound     \* no more statuses than this are reported

ASSUME CachesAssumption == HeadMax \in Nat /\ TailMax \in Nat
ASSUME BoundAssumption == RecordBound \in Nat
ASSUME DefaultAssumption == Default \notin Observers

INFO == 0
WARNING == 1
ERROR == 2
Levels == INFO .. ERROR

Status == [at : 0 .. RecordBound, level : Levels]
NoStatus == [at |-> 0, level |-> INFO]

VARIABLES head,       \* head_cache_
          tail,       \* tail_cache_
          count,      \* count_
          level,      \* level_
          observers,  \* observers_
          reporting,  \* what each thread has recorded and not yet told the observers
          recorded,   \* the levels of all the statuses ever recorded
          told,       \* the statuses that each of Observers was told of
          left        \* those that were removed and not added since

caches == <<head, tail, count, level, recorded>>
vars == <<caches, observers, reporting, told, left>>

AllObservers == Observers \cup {Default}

Init == /\ head = <<>> /\ tail = <<>>
        /\ count = 0
        /\ level = INFO
        /\ observers = {Default}
        /\ reporting = [t \in Threads |-> NoStatus]
        /\ recorded = <<>>
        /\ told = [o \in Observers |-> {}]
        /\ left = {}

\* Mutant: the head is not looked at.
AdjustedToTail(hd, tl) == Max({INFO} \cup {s.level : s \in Range(tl)})
Adjusted(hd, tl) == Max({INFO} \cup {s.level : s \in Range(hd) \cup Range(tl)})

\* Mutant: the tail stops at its maximum instead of dropping its oldest.
DropNewest(tl) == IF Len(tl) > TailMax THEN SubSeq(tl, 1, TailMax) ELSE tl
DropOldest(tl) == IF Len(tl) > TailMax THEN Tail(tl) ELSE tl

\* add(status), under cache_guard_.
Record(t, lvl) ==
  /\ reporting[t] = NoStatus /\ Len(recorded) < RecordBound
  /\ LET st == [at |-> Len(recorded) + 1, level |-> lvl]
     IN  /\ IF Len(head) < HeadMax
            THEN head' = Append(head, st) /\ UNCHANGED tail
            ELSE tail' = DropOldest(Append(tail, st)) /\ UNCHANGED head
         /\ reporting' = [reporting EXCEPT ![t] = st]
  /\ count' = count + 1
  /\ level' = Adjusted(head', tail')
  /\ recorded' = Append(recorded, lvl)
  /\ UNCHANGED <<observers, told, left>>

\* add(status), under observer_guard_.
Notify(t) ==
  /\ reporting[t] # NoStatus
  /\ told' = [o \in Observers |->
                IF o \in observers THEN told[o] \cup {reporting[t].at} ELSE told[o]]
  /\ reporting' = [reporting EXCEPT ![t] = NoStatus]
  /\ UNCHANGED <<caches, observers, left>>

\* Mutant: every new observer replaces the only one there is.
ReplacesAny == Cardinality(observers) = 1
Replaces == observers = {Default}

\* add(observer): the first that is added takes the place of the default one.
AddObserver(o) ==
  /\ observers' = (IF Replaces THEN {} ELSE observers) \cup {o}
  /\ left' = left \ {o}
  /\ UNCHANGED <<caches, reporting, told>>

RemoveObserver(o) ==
  /\ observers' = observers \ {o}
  /\ left' = left \cup {o}
  /\ UNCHANGED <<caches, reporting, told>>

Clear ==
  /\ count' = 0
  /\ head' = <<>> /\ tail' = <<>>
  /\ level' = INFO
  /\ UNCHANGED <<observers, reporting, recorded, told, left>>

Next == \/ \E t \in Threads, lvl \in Levels : Record(t, lvl)
        \/ \E t \in Threads : Notify(t)
        \/ \E o \in Observers : AddObserver(o)
        \/ \E o \in Observers : RemoveObserver(o)
        \/ Clear

\* A thread that has recorded a status goes on.  Nobody has to report, add or remove.
Spec == Init /\ [][Next]_vars /\ \A t \in Threads : WF_vars(Notify(t))

-----------------------------------------------------------------------------
(* Properties.                                                             *)

TypeOK == /\ head \in Seq(Status) /\ Len(head) <= HeadMax
          /\ tail \in Seq(Status) /\ Len(tail) <= TailMax
          /\ count \in Nat
          /\ level \in Levels
          /\ observers \subseteq AllObservers
          /\ reporting \in [Threads -> Status]
          /\ recorded \in Seq(Levels) /\ Len(recorded) <= RecordBound
          /\ told \in [Observers -> SUBSET (0 .. RecordBound)]
          /\ left \subseteq Observers

\* The numbers of a range of statuses in the order they were recorded.
Recorded(from, to) ==
  [i \in 1 .. (IF to < from THEN 0 ELSE to - from + 1) |->
     [at |-> from + i - 1, level |-> recorded[from + i - 1]]]

\* Of the statuses since the last clear, the first HeadMax and the last TailMax are
\* kept, each once and in order, however many there were.
FirstAndLastAreKept ==
  LET base == Len(recorded) - count
      cut == base + (IF count < HeadMax THEN count ELSE HeadMax)
      rest == Len(recorded) - cut
  IN  /\ head = Recorded(base + 1, cut)
      /\ tail = Recorded(Len(recorded) - (IF rest < TailMax THEN rest ELSE TailMax) + 1,
                         Len(recorded))

\* The places of the statuses since the last clear, and of those of them that are among
\* the first HeadMax or the last TailMax.
SinceClear == Len(recorded) - count + 1 .. Len(recorded)
AtTheEnds == {i \in SinceClear : \/ i <= Len(recorded) - count + HeadMax
                                 \/ i > Len(recorded) - TailMax}

\* get_level hides no warning or error that is among the first statuses or the last, and
\* never tells of one that has not been reported since the last clear. Of those between
\* the first and the last it says nothing: see LevelTellsTheWorst.
LevelCoversTheEnds ==
  /\ \A i \in AtTheEnds : recorded[i] <= level
  /\ level # INFO => \E i \in SinceClear : recorded[i] = level

\* What status_manager.hpp promises: get_level tells whether any warnings or errors have
\* occurred. Once a status leaves the tail the level forgets it.
LevelTellsTheWorst == \A i \in SinceClear : recorded[i] <= level

\* An observer is told of each status that is reported while it is registered, unless
\* the application removes it: none is lost between the two mutexes, or because another
\* observer came.
ObserverIsTold ==
  \A t \in Threads, o \in Observers, n \in 1 .. RecordBound :
    (reporting[t].at = n /\ o \in observers) ~>
      (n \in told[o] \/ o \in left)
=============================================================================

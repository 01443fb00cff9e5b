------------------------- MODULE AsyncWriterProofs --------------------------
(***************************************************************************)
(* What module AsyncWriter checks of a small cache, proved for every       *)
(* capacity and every set of sizes.                                        *)
(*                                                                         *)
(* OnlyLatecomersAreLost speaks of a worker that has left.  It follows     *)
(* from what holds while the worker is still deciding: between a pop that  *)
(* found nothing and the reading of stop_, every event in the cache was    *)
(* pushed after that pop, and an event is only unforwarded while the       *)
(* worker has it in its hands.                                             *)
(***************************************************************************)
EXTENDS AsyncWriter, TLAPS

USE DEF Cache!Event, Cache!NoEvent

\* What a push leaves in the cache: events of before, and the one pushed.
LEMMA PushedEvents ==
  ASSUME TypeOK, NEW s \in Sizes, Write(s)
  PROVE  /\ queue' \subseteq queue \cup {[at |-> tail, size |-> s]}
         /\ tail' = tail + s
         /\ tail' \in Nat /\ tail <= tail'
         /\ taken' = taken
<1>1. \/ queue' = queue \cup {[at |-> tail, size |-> s]}
      \/ \E forgotten \in SUBSET queue :
           queue' = (queue \ forgotten) \cup {[at |-> tail, size |-> s]}
  BY DEF Write, Cache!Put, Cache!PutForgetting
<1>2. tail' = tail + s /\ taken' = taken
  BY DEF Write, Cache!Put, Cache!PutForgetting
<1>3. tail \in Nat /\ s \in Nat
  BY SizesAssumption DEF TypeOK, Cache!TypeOK
<1>4. tail' \in Nat /\ tail <= tail'
  BY <1>2, <1>3
<1> QED BY <1>1, <1>2, <1>4

\* The variables keep their types.
LEMMA TypeStep == TypeOK /\ [Next]_vars => TypeOK'
<1> SUFFICES ASSUME TypeOK, [Next]_vars PROVE TypeOK'
  OBVIOUS
<1> USE DEF TypeOK, Cache!TypeOK, WorkerPlaces
<1>1. ASSUME NEW s \in Sizes, Write(s) PROVE TypeOK'
  <2>1. [at |-> tail, size |-> s] \in Cache!Event
    OBVIOUS
  <2>2. /\ queue' \subseteq Cache!Event /\ tail' \in Nat
        /\ taken' = taken
    BY <1>1, <2>1, PushedEvents
  <2> QED BY <1>1, <2>2 DEF Write
<1>2. CASE PopEvent
  BY <1>2 DEF PopEvent, Cache!Take, Cache!Oldest
<1>3. CASE PopTimesOut
  BY <1>3 DEF PopTimesOut, cacheVars
<1>4. CASE Decide
  BY <1>4 DEF Decide, cacheVars
<1>5. CASE Forward
  BY <1>5 DEF Forward, cacheVars
<1>6. CASE ContinueEmptyHanded
  BY <1>6 DEF ContinueEmptyHanded, cacheVars
<1>7. CASE RaiseStop
  BY <1>7 DEF RaiseStop, cacheVars
<1>8. CASE Join
  BY <1>8 DEF Join, cacheVars
<1>9. CASE UNCHANGED vars
  BY <1>9 DEF vars, cacheVars
<1> QED BY <1>1, <1>2, <1>3, <1>4, <1>5, <1>6, <1>7, <1>8, <1>9 DEF Next, Worker

\* The types of the variables of async_writer.cpp hold in every behaviour.
THEOREM TypeCorrect == Spec => []TypeOK
<1>1. ASSUME Init PROVE TypeOK
  <2>1. Cache!TypeOK /\ forwarded \in Cache!Event \cup {Cache!NoEvent}
    BY <1>1 DEF Init, Cache!Init, Cache!TypeOK
  <2>2. /\ worker \in WorkerPlaces
        /\ worker \notin {"with event", "writing"}
    BY <1>1 DEF Init, WorkerPlaces
  <2> QED BY <1>1, <2>1, <2>2 DEF Init, TypeOK
<1> QED BY <1>1, TypeStep, PTL DEF Spec

-----------------------------------------------------------------------------

\* Where the worker has nothing in its hands that it still has to forward.
IsEven == worker \in {"popping", "empty handed"}
\* Where it is known that the last pop found nothing.
IsEmptyHanded == worker = "empty handed" \/ (worker = "exited" /\ flushOnDestruct)

IInv == /\ emptyAt <= tail
        /\ IsEven \/ IsEmptyHanded => forwarded = taken
        /\ IsEmptyHanded => \A e \in queue : e.at >= emptyAt

\* The invariant holds at first, and no step breaks it.
LEMMA IInvStep == TypeOK /\ IInv /\ [Next]_vars => IInv'
<1> SUFFICES ASSUME TypeOK, IInv, [Next]_vars PROVE IInv'
  OBVIOUS
<1> USE DEF IInv, IsEven, IsEmptyHanded
<1>0. tail \in Nat /\ emptyAt \in Nat
  BY DEF TypeOK, Cache!TypeOK
<1>1. ASSUME NEW s \in Sizes, Write(s) PROVE IInv'
  <2>0. queue' \subseteq queue \cup {[at |-> tail, size |-> s]}
    BY <1>1, PushedEvents
  <2>1. tail' \in Nat /\ tail <= tail' /\ taken' = taken
    BY <1>1, PushedEvents
  <2>2. /\ flushOnDestruct' = flushOnDestruct /\ worker' = worker
        /\ forwarded' = forwarded /\ emptyAt' = emptyAt
    BY <1>1 DEF Write
  <2>3. emptyAt' <= tail'
    <3>1. emptyAt <= tail
      OBVIOUS
    <3>2. tail \in Nat /\ emptyAt \in Nat /\ tail' \in Nat /\ tail <= tail'
      BY <1>0, <2>1
    <3>3. emptyAt <= tail'
      BY ONLY <3>1, <3>2
    <3> QED BY <2>2, <3>3
  <2>4. ASSUME IsEmptyHanded', NEW e \in queue' PROVE e.at >= emptyAt'
    <3>1. CASE e \in queue
      BY <2>2, <2>4, <3>1
    <3>2. CASE e = [at |-> tail, size |-> s]
      BY <1>0, <2>2, <3>2
    <3> QED BY <2>0, <3>1, <3>2
  <2> QED BY <2>1, <2>2, <2>3, <2>4
<1>2. CASE PopEvent
  BY <1>0, <1>2 DEF PopEvent, Cache!Take
<1>3. CASE PopTimesOut
  <2>1. /\ queue = {} /\ queue' = queue /\ tail' = tail /\ taken' = taken
        /\ forwarded' = forwarded /\ emptyAt' = tail /\ worker = "popping"
    BY <1>3 DEF PopTimesOut, cacheVars
  <2> QED BY <1>0, <2>1
<1>4. CASE Decide
  BY <1>0, <1>4 DEF Decide, LeavesPending, cacheVars
<1>5. CASE Forward
  BY <1>0, <1>5 DEF Forward, cacheVars
<1>6. CASE ContinueEmptyHanded
  BY <1>0, <1>6 DEF ContinueEmptyHanded, cacheVars
<1>7. CASE RaiseStop
  BY <1>0, <1>7 DEF RaiseStop, cacheVars
<1>8. CASE Join
  BY <1>0, <1>8 DEF Join, cacheVars
<1>9. CASE UNCHANGED vars
  BY <1>0, <1>9 DEF vars, cacheVars
<1> QED BY <1>1, <1>2, <1>3, <1>4, <1>5, <1>6, <1>7, <1>8, <1>9 DEF Next, Worker

\* A flushing destructor leaves behind only events that were pushed after the worker
\* last found the cache empty, and everything taken before was forwarded.
THEOREM LatecomersOnly == Spec => []OnlyLatecomersAreLost
<1>1. Init => IInv
  BY DEF Init, IInv, IsEven, IsEmptyHanded, Cache!Init
<1>2. IInv => OnlyLatecomersAreLost
  BY DEF IInv, IsEmptyHanded, OnlyLatecomersAreLost
<1> QED BY <1>1, <1>2, IInvStep, TypeCorrect, PTL DEF Spec
=============================================================================

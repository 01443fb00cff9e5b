----------------------------- MODULE LossyQueue -----------------------------
(***************************************************************************)
(* What an event cache promises its owner, with no chunks and no files: a  *)
(* first-in first-out queue of events that loses nothing while it holds    *)
(* less than Capacity bytes, and that, when an event brings it to Capacity *)
(* or beyond, forgets some of its oldest events and never the new one.     *)
(*                                                                         *)
(* An event is identified by the place of its first byte in the stream of  *)
(* all the bytes ever put, so two events are never confused and the order  *)
(* of the queue is the order of these places.                              *)
(***************************************************************************)
EXTENDS Integers

CONSTANTS Sizes,     \* the sizes, in bytes, that a serialized event can have
          Capacity   \* the number of bytes at which events are forgotten

VARIABLES queue,   \* the set of events held
          tail,    \* the number of bytes ever put
          taken    \* the event the last Take handed out, NoEvent before the first

vars == <<queue, tail, taken>>

Event == [at : Nat, size : Sizes]
NoEvent == [at |-> -1, size |-> 0]

Oldest(e, events) == e \in events /\ \A f \in events : e.at <= f.at

\* Would s more bytes bring the queue to its capacity?  The bytes held are those
\* from the oldest event held to the end of the stream.
Fills(s) == \E e \in queue : tail - e.at + s >= Capacity

TypeOK == /\ queue \subseteq Event
          /\ tail \in Nat
          /\ taken \in Event \cup {NoEvent}

Init == queue = {} /\ tail = 0 /\ taken = NoEvent

Put(s) ==
  /\ ~Fills(s)
  /\ queue' = queue \cup {[at |-> tail, size |-> s]}
  /\ tail' = tail + s
  /\ UNCHANGED taken

\* Putting an event that makes the queue reach Capacity forgets its oldest part.
PutForgetting(s) ==
  /\ Fills(s)
  /\ \E forgotten \in SUBSET queue :
       /\ forgotten # {}
       /\ \A e \in forgotten, f \in queue \ forgotten : e.at < f.at
       /\ queue' = (queue \ forgotten) \cup {[at |-> tail, size |-> s]}
  /\ tail' = tail + s
  /\ UNCHANGED taken

Take ==
  /\ \E e \in queue : /\ Oldest(e, queue)
                      /\ queue' = queue \ {e}
                      /\ taken' = e
  /\ UNCHANGED tail

Next == \/ \E s \in Sizes : Put(s) \/ PutForgetting(s)
        \/ Take

Spec == Init /\ [][Next]_vars
=============================================================================

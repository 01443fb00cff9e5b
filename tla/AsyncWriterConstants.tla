------------------------ MODULE AsyncWriterConstants ------------------------
(* What the asynchronous writer and its cache are given.                     *)
EXTENDS Integers

CONSTANTS Sizes,        \* the sizes of serialized events
          Capacity,     \* the size at which the cache culls its oldest events
          StreamBound   \* no push takes the stream beyond this many bytes

ASSUME SizesAssumption == Sizes \subseteq Nat \ {0}
ASSUME CapacityAssumption == Capacity \in Nat \ {0}
ASSUME BoundAssumption == StreamBound \in Nat
=============================================================================

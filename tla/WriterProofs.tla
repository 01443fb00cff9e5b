---------------------------- MODULE WriterProofs ----------------------------
(***************************************************************************)
(* What modules CloudwatchWriter and FilteredWriter promise.               *)
(*                                                                         *)
(* For the first, any limits of a batch, any sizes of the events and any   *)
(* number of lost requests and answers, with one thread that writes and    *)
(* one that flushes.                                                       *)
(*                                                                         *)
(* Of two requests with one token only one is accepted, and a request that *)
(* still can be is younger than all in the stream (TokenInv, OrderInv).    *)
(* NoneIsMissing, NoneIsTwice and SentInv say where an event may be at     *)
(* each step of write_impl and flush.  wireSize is the weight of the batch *)
(* unless a thread is about to reset it or has an event still to count     *)
(* (SizeInv).                                                              *)
(*                                                                         *)
(* For the second, any filters of those four in any order, any thresholds, *)
(* levels and messages, any size of the blobs, and an exception at any     *)
(* write.  A filter can do no more to a writer than write to it, so what   *)
(* every write preserves of a writer survives every chain (Closed).  That  *)
(* bounds the blobs (BlobInv).  The order of what is cached also needs     *)
(* what each filter has left to the next (OrderedSoFar, CacheOrderInv),    *)
(* and what the output tells needs how one more event changes the reading  *)
(* of it (Telling, TellInv).                                               *)
(***************************************************************************)
EXTENDS MCWriters, FiniteSetTheorems, WellFoundedInduction, TLAPS

Places == {"idle", "add", "count", "test", "token", "take", "reset", "put", "answer", "error"}

TypeInv ==
  /\ events \in Seq(Nat)
  /\ wireSize \in Nat
  /\ token \in Nat
  /\ holder \in {"writing", "none"}
  /\ at \in [Threads -> Places]
  /\ at["flushing"] \notin {"add", "count"}
  /\ (at["writing"] = "count") <=> (holder = "writing")
  /\ request \in [Threads -> [token : Nat, events : Seq(Nat)]]
  /\ adding \in [event : Nat, read : Nat]
  /\ sizes \in Seq(Sizes)
  /\ at["writing"] # "idle" => adding.event = Len(sizes) /\ Len(sizes) # 0
  /\ service \in [token : Nat, stream : Seq(Nat)]
  /\ faults \in Nat

\* The events in the batch, and those of a request.
InBatch == ToSet(events)
InRequest(t) == ToSet(request[t].events)

\* How many events have left the hands of write_impl: all but the one it may still hold.
HandedOn == IF at["writing"] \in {"idle", "count"} THEN Len(sizes) ELSE Len(sizes) - 1

Precedes(S, T) == \A x \in S, y \in T : x < y
Increasing(s) == \A i, j \in DOMAIN s : i < j => s[i] < s[j]

Taken(t) == at[t] \in {"reset", "put", "answer", "error"}

TokenInv ==
  /\ token <= service.token
  /\ \A t \in Threads :
       /\ request[t].token <= service.token
       /\ at[t] = "answer" => request[t].token < service.token
       /\ ~Taken(t) => request[t].events = <<>>
       /\ at[t] \in {"reset", "put"} /\ request[t].token = service.token
            => Precedes(Arrived, InRequest(t))

OrderInv ==
  /\ Increasing(service.stream)
  /\ Increasing(events)
  /\ \A t \in Threads : Increasing(request[t].events)
  /\ Precedes(Arrived, InBatch)
  /\ \A t \in Threads : Precedes(InRequest(t), InBatch)

NoneIsMissing ==
  InBatch \cup Arrived \cup failed \cup InRequest("writing") \cup InRequest("flushing")
    = 1 .. HandedOn

NoneIsTwice ==
  /\ InBatch \cap failed = {}
  /\ \A t \in Threads : InRequest(t) \cap failed = {}
  /\ InRequest("writing") \cap InRequest("flushing") = {}

SentInv ==
  /\ faults = 0 => Arrived \cap failed = {}
  /\ \A t \in Threads :
       /\ at[t] \notin {"answer", "error"} => InRequest(t) \cap Arrived = {}
       /\ at[t] = "answer" => InRequest(t) \subseteq Arrived
       /\ at[t] = "error" /\ faults = 0 => InRequest(t) \cap Arrived = {}

IInv == TypeInv /\ TokenInv /\ OrderInv /\ NoneIsMissing /\ NoneIsTwice /\ SentInv

-----------------------------------------------------------------------------
LEMMA ToSetEmpty == ToSet(<<>>) = {}
BY DEF ToSet

LEMMA ToSetAppend ==
  ASSUME NEW s \in Seq(Nat), NEW x \in Nat
  PROVE  ToSet(Append(s, x)) = ToSet(s) \cup {x}
<1> DEFINE a == Append(s, x)
<1>1. /\ Len(a) = Len(s) + 1 /\ Len(s) \in Nat /\ a[Len(s) + 1] = x
      /\ \A i \in 1 .. Len(s) : a[i] = s[i]
  OBVIOUS
<1>2. DOMAIN a = 1 .. Len(s) + 1 /\ DOMAIN s = 1 .. Len(s)
  OBVIOUS
<1> HIDE DEF a
<1>3. ASSUME NEW y
      PROVE  (\E i \in DOMAIN a : y = a[i]) <=> (\E i \in DOMAIN s : y = s[i]) \/ y = x
  <2>1. ASSUME NEW i \in DOMAIN a, y = a[i]
        PROVE  (\E j \in DOMAIN s : y = s[j]) \/ y = x
    BY <2>1, <1>1, <1>2
  <2>2. ASSUME NEW i \in DOMAIN s, y = s[i]
        PROVE  \E j \in DOMAIN a : y = a[j]
    BY <2>2, <1>1, <1>2
  <2>3. ASSUME y = x PROVE \E j \in DOMAIN a : y = a[j]
    BY <2>3, <1>1, <1>2
  <2> QED BY <2>1, <2>2, <2>3
<1>4. \A y : y \in ToSet(a) <=> y \in ToSet(s) \cup {x}
  BY <1>3 DEF ToSet
<1> QED BY <1>4 DEF a

LEMMA ToSetConcat ==
  ASSUME NEW s \in Seq(Nat), NEW t \in Seq(Nat)
  PROVE  ToSet(s \o t) = ToSet(s) \cup ToSet(t)
<1> DEFINE c == s \o t
<1>1. /\ Len(s) \in Nat /\ Len(t) \in Nat
      /\ DOMAIN c = 1 .. Len(s) + Len(t) /\ DOMAIN s = 1 .. Len(s) /\ DOMAIN t = 1 .. Len(t)
  OBVIOUS
<1>2. /\ \A i \in 1 .. Len(s) : c[i] = s[i]
      /\ \A i \in 1 .. Len(t) : c[Len(s) + i] = t[i]
  OBVIOUS
<1> HIDE DEF c
<1>3. ASSUME NEW i \in DOMAIN c
      PROVE  c[i] \in ToSet(s) \cup ToSet(t)
  <2>1. CASE i <= Len(s)
    BY <2>1, <1>1, <1>2 DEF ToSet
  <2>2. CASE i > Len(s)
    <3>1. i - Len(s) \in 1 .. Len(t) /\ Len(s) + (i - Len(s)) = i
      BY <2>2, <1>1
    <3>2. c[i] = t[i - Len(s)]
      BY <3>1, <1>2
    <3> QED BY <3>1, <3>2, <1>1 DEF ToSet
  <2> QED BY <2>1, <2>2, <1>1
<1>4. ASSUME NEW i \in DOMAIN s
      PROVE  s[i] \in ToSet(c)
  BY <1>1, <1>2 DEF ToSet
<1>5. ASSUME NEW i \in DOMAIN t
      PROVE  t[i] \in ToSet(c)
  <2>1. Len(s) + i \in DOMAIN c /\ c[Len(s) + i] = t[i]
    BY <1>1, <1>2
  <2> QED BY <2>1 DEF ToSet
<1>6. \A y : y \in ToSet(c) => y \in ToSet(s) \cup ToSet(t)
  BY <1>3 DEF ToSet
<1>7. \A y : y \in ToSet(s) \cup ToSet(t) => y \in ToSet(c)
  <2>1. \A y \in ToSet(s) : \E i \in DOMAIN s : y = s[i]
    BY DEF ToSet
  <2>2. \A y \in ToSet(t) : \E i \in DOMAIN t : y = t[i]
    BY DEF ToSet
  <2> QED BY <2>1, <2>2, <1>4, <1>5
<1> QED BY <1>6, <1>7 DEF c

LEMMA AppendIncreases ==
  ASSUME NEW s \in Seq(Nat), NEW x \in Nat, Increasing(s), Precedes(ToSet(s), {x})
  PROVE  Increasing(Append(s, x))
<1> DEFINE a == Append(s, x)
<1>1. /\ Len(s) \in Nat /\ a[Len(s) + 1] = x
      /\ \A i \in 1 .. Len(s) : a[i] = s[i]
      /\ DOMAIN a = 1 .. Len(s) + 1 /\ DOMAIN s = 1 .. Len(s)
  OBVIOUS
<1> HIDE DEF a
<1>2. \A i \in DOMAIN s : s[i] < x
  BY DEF Precedes, ToSet
<1>3. \A i, j \in DOMAIN s : i < j => s[i] < s[j]
  BY DEF Increasing
<1>4. ASSUME NEW i \in DOMAIN a, NEW j \in DOMAIN a, i < j
      PROVE  a[i] < a[j]
  <2>1. CASE j = Len(s) + 1
    BY <2>1, <1>4, <1>1, <1>2
  <2>2. CASE j # Len(s) + 1
    BY <2>2, <1>4, <1>1, <1>3
  <2> QED BY <2>1, <2>2
<1> QED BY <1>4 DEF Increasing, a

LEMMA ConcatIncreases ==
  ASSUME NEW s \in Seq(Nat), NEW t \in Seq(Nat), Increasing(s), Increasing(t),
         Precedes(ToSet(s), ToSet(t))
  PROVE  Increasing(s \o t)
<1> DEFINE c == s \o t
<1>1. /\ Len(s) \in Nat /\ Len(t) \in Nat
      /\ DOMAIN c = 1 .. Len(s) + Len(t) /\ DOMAIN s = 1 .. Len(s) /\ DOMAIN t = 1 .. Len(t)
  OBVIOUS
<1>2. /\ \A i \in 1 .. Len(s) : c[i] = s[i]
      /\ \A i \in 1 .. Len(t) : c[Len(s) + i] = t[i]
  OBVIOUS
<1> HIDE DEF c
<1>3. \A i \in DOMAIN s, j \in DOMAIN t : s[i] < t[j]
  BY DEF Precedes, ToSet
<1>4. /\ \A i, j \in DOMAIN s : i < j => s[i] < s[j]
      /\ \A i, j \in DOMAIN t : i < j => t[i] < t[j]
  BY DEF Increasing
<1>5. ASSUME NEW i \in DOMAIN c, i > Len(s)
      PROVE  i - Len(s) \in DOMAIN t /\ c[i] = t[i - Len(s)]
  <2>1. i - Len(s) \in 1 .. Len(t) /\ Len(s) + (i - Len(s)) = i
    BY <1>5, <1>1
  <2> QED BY <2>1, <1>1, <1>2
<1>6. ASSUME NEW i \in DOMAIN c, NEW j \in DOMAIN c, i < j
      PROVE  c[i] < c[j]
  <2>1. CASE j <= Len(s)
    <3>1. i \in 1 .. Len(s) /\ j \in 1 .. Len(s)
      BY <2>1, <1>6, <1>1
    <3>2. c[i] = s[i] /\ c[j] = s[j]
      BY <3>1, <1>2
    <3>3. s[i] < s[j]
      BY <3>1, <1>1, <1>4, <1>6
    <3> QED BY <3>2, <3>3
  <2>2. CASE j > Len(s) /\ i <= Len(s)
    BY <2>2, <1>1, <1>2, <1>3, <1>5
  <2>3. CASE i > Len(s)
    <3>1. j > Len(s) /\ i - Len(s) < j - Len(s)
      BY <2>3, <1>6, <1>1
    <3> QED BY <2>3, <3>1, <1>4, <1>5
  <2> QED BY <2>1, <2>2, <2>3, <1>1
<1> QED BY <1>6 DEF Increasing, c

-----------------------------------------------------------------------------
LEMMA TypeHolds ==
  ASSUME Init
  PROVE  TypeInv
BY SizeAssumption DEF Init, TypeInv, Threads, Places, NoRequest

LEMMA Moved ==
  ASSUME TypeInv, NEW t \in Threads, NEW from, NEW to \in Places, Goes(t, from, to)
  PROVE  /\ at' \in [Threads -> Places]
         /\ at[t] = from /\ at'[t] = to
         /\ \A u \in Threads : u # t => at'[u] = at[u]
BY DEF TypeInv, Goes

LEMMA TypeKept ==
  ASSUME TypeInv, [Next]_vars
  PROVE  TypeInv'
<1> USE SizeAssumption DEF TypeInv, Threads, Places, batch, Goes, Back, NoRequest
<1>0. Sizes \subseteq Nat
  OBVIOUS
<1>1. ASSUME NEW size \in Sizes, Write(size) PROVE TypeInv'
  <2>1. sizes' \in Seq(Sizes) /\ Len(sizes') = Len(sizes) + 1 /\ Len(sizes) \in Nat
    BY <1>1 DEF Write
  <2>2. adding' \in [event : Nat, read : Nat] /\ adding'.event = Len(sizes')
    <3>1. PICK n \in Nat : n = Len(sizes')
      BY <2>1
    <3>2. adding' = [adding EXCEPT !.event = n] /\ adding \in [event : Nat, read : Nat]
      BY <1>1, <2>1, <3>1 DEF Write
    <3> HIDE DEF TypeInv
    <3>3. adding' \in [event : Nat, read : Nat] /\ adding'.event = n
      BY <3>2
    <3> QED BY <3>1, <3>3
  <2>3. UNCHANGED <<events, wireSize, token, holder, request, service, faults>>
    BY <1>1 DEF Write
  <2>4. /\ at["writing"] = "idle" /\ at'["writing"] \in {"test", "add"}
        /\ at'["flushing"] = at["flushing"] /\ at' \in [Threads -> Places]
    BY <1>1 DEF Write
  <2> QED BY <2>1, <2>2, <2>3, <2>4
<1>2. CASE Add
  <2>1. events' \in Seq(Nat)
    BY <1>2 DEF Add
  <2>2. adding' \in [event : Nat, read : Nat] /\ adding'.event = adding.event
    BY <1>2 DEF Add
  <2>3. UNCHANGED <<wireSize, token, request, sizes, service, faults>>
    BY <1>2 DEF Add
  <2>4. /\ at["writing"] = "add" /\ at'["writing"] = "count" /\ holder' = "writing"
        /\ at'["flushing"] = at["flushing"] /\ at' \in [Threads -> Places]
    BY <1>2 DEF Add
  <2> QED BY <2>1, <2>2, <2>3, <2>4
<1>3. CASE Count
  <2>1. adding.event = Len(sizes) /\ Len(sizes) # 0 /\ sizes \in Seq(Sizes)
    BY <1>3 DEF Count
  <2>2. sizes[adding.event] \in Nat
    <3> HIDE DEF TypeInv
    <3>1. sizes[Len(sizes)] \in Sizes
      BY <2>1
    <3>2. sizes[adding.event] = sizes[Len(sizes)]
      BY <2>1, Zenon
    <3> QED BY <1>0, <3>1, <3>2
  <2>3. wireSize' \in Nat
    BY <1>3, <2>2 DEF Count
  <2>4. UNCHANGED <<events, token, request, adding, sizes, service, faults>>
    BY <1>3 DEF Count
  <2>5. /\ at["writing"] = "count" /\ at'["writing"] = "idle" /\ holder' = "none"
        /\ at'["flushing"] = at["flushing"] /\ at' \in [Threads -> Places]
    BY <1>3 DEF Count
  <2> QED BY <2>3, <2>4, <2>5
<1>4. CASE CallFlush
  BY <1>4 DEF CallFlush
<1>5. ASSUME NEW t \in Threads, Test(t) PROVE TypeInv'
  BY <1>5 DEF Test
<1>6. ASSUME NEW t \in Threads, ReadToken(t) PROVE TypeInv'
  BY <1>6 DEF ReadToken
<1>7. ASSUME NEW t \in Threads, Take(t) PROVE TypeInv'
  <2>1. request' \in [Threads -> [token : Nat, events : Seq(Nat)]]
    BY <1>7 DEF Take
  <2>2. UNCHANGED <<wireSize, token, holder, adding, sizes, service, faults>> /\ events' = <<>>
    BY <1>7 DEF Take
  <2>3. /\ at[t] = "take" /\ at'[t] = "reset" /\ at' \in [Threads -> Places]
        /\ \A u \in Threads : u # t => at'[u] = at[u]
    BY <1>7 DEF Take
  <2>4. /\ at'["flushing"] \notin {"add", "count"}
        /\ (at'["writing"] = "count") <=> (holder' = "writing")
        /\ at'["writing"] # "idle" => adding.event = Len(sizes) /\ Len(sizes) # 0
    BY <2>2, <2>3
  <2> QED BY <2>1, <2>2, <2>3, <2>4
<1>8. ASSUME NEW t \in Threads, Reset(t) PROVE TypeInv'
  BY <1>8 DEF Reset
<1>9. ASSUME NEW t \in Threads, Put(t) PROVE TypeInv'
  BY <1>9 DEF Put
<1>10. ASSUME NEW t \in Threads, PutIsLost(t) PROVE TypeInv'
  BY <1>10 DEF PutIsLost
<1>11. ASSUME NEW t \in Threads, Answer(t) PROVE TypeInv'
  BY <1>11 DEF Answer
<1>12. ASSUME NEW t \in Threads, AnswerIsLost(t) PROVE TypeInv'
  BY <1>12 DEF AnswerIsLost
<1>13. ASSUME NEW t \in Threads, Fail(t) PROVE TypeInv'
  BY <1>13 DEF Fail
<1>14. CASE UNCHANGED vars
  BY <1>14 DEF vars, batch, threads
<1> QED BY <1>1, <1>2, <1>3, <1>4, <1>5, <1>6, <1>7, <1>8, <1>9, <1>10, <1>11, <1>12,
          <1>13, <1>14 DEF Next

-----------------------------------------------------------------------------
\* What a step makes of the sets of events.
LEMMA SameSets ==
  /\ UNCHANGED events => UNCHANGED InBatch
  /\ UNCHANGED service => UNCHANGED Arrived
  /\ UNCHANGED request => \A t \in Threads : InRequest(t)' = InRequest(t)
BY DEF InBatch, Arrived, InRequest

LEMMA SameHands ==
  ASSUME UNCHANGED sizes,
         (at["writing"] \in {"idle", "count"}) <=> (at'["writing"] \in {"idle", "count"})
  PROVE  UNCHANGED HandedOn
BY DEF HandedOn

\* A step that goes on with a flush and leaves the tokens and the events alone.
LEMMA TokenQuiet ==
  ASSUME TokenInv, UNCHANGED <<token, request, service>>,
         \A t \in Threads : /\ at'[t] = "answer" => at[t] = "answer"
                            /\ at'[t] \in {"reset", "put"} => at[t] \in {"reset", "put"}
                            /\ Taken(t) => Taken(t)'
  PROVE  TokenInv'
<1>1. UNCHANGED Arrived /\ \A t \in Threads : InRequest(t)' = InRequest(t)
  BY SameSets
<1>2. token' <= service'.token
  BY DEF TokenInv
<1>3. ASSUME NEW t \in Threads
      PROVE  /\ request'[t].token <= service'.token
             /\ at'[t] = "answer" => request'[t].token < service'.token
             /\ ~Taken(t)' => request'[t].events = <<>>
             /\ at'[t] \in {"reset", "put"} /\ request'[t].token = service'.token
                  => Precedes(Arrived', InRequest(t)')
  BY <1>1 DEF TokenInv
<1> QED BY <1>2, <1>3 DEF TokenInv

LEMMA TokenKept ==
  ASSUME TypeInv, TokenInv, OrderInv, [Next]_vars
  PROVE  TokenInv'
<1>1. ASSUME NEW size \in Sizes, Write(size) PROVE TokenInv'
  <2>1. UNCHANGED <<token, request, service>>
    BY <1>1 DEF Write, batch
  <2>2. /\ at["writing"] = "idle" /\ at'["writing"] \in {"test", "add"}
        /\ \A u \in Threads : u # "writing" => at'[u] = at[u]
    BY <1>1 DEF Write, Goes, TypeInv, Threads
  <2> QED BY <2>1, <2>2, TokenQuiet DEF Taken
<1>2. CASE Add
  <2>1. UNCHANGED <<token, request, service>>
    BY <1>2 DEF Add
  <2>2. /\ at["writing"] = "add" /\ at'["writing"] = "count"
        /\ \A u \in Threads : u # "writing" => at'[u] = at[u]
    BY <1>2 DEF Add, Goes, TypeInv, Threads
  <2> QED BY <2>1, <2>2, TokenQuiet DEF Taken
<1>3. CASE Count
  <2>1. UNCHANGED <<token, request, service>>
    BY <1>3 DEF Count
  <2>2. /\ at["writing"] = "count" /\ at'["writing"] = "idle"
        /\ \A u \in Threads : u # "writing" => at'[u] = at[u]
    BY <1>3 DEF Count, Goes, TypeInv, Threads
  <2> QED BY <2>1, <2>2, TokenQuiet DEF Taken
<1>4. CASE CallFlush
  <2>1. UNCHANGED <<token, request, service>>
    BY <1>4 DEF CallFlush, batch
  <2>2. /\ at["flushing"] = "idle" /\ at'["flushing"] = "test"
        /\ \A u \in Threads : u # "flushing" => at'[u] = at[u]
    BY <1>4 DEF CallFlush, Goes, TypeInv, Threads
  <2> QED BY <2>1, <2>2, TokenQuiet DEF Taken
<1>5. ASSUME NEW t \in Threads, Test(t) PROVE TokenInv'
  <2>1. UNCHANGED <<token, request, service>>
    BY <1>5 DEF Test, batch
  <2>2. /\ at[t] = "test" /\ at'[t] \in {"add", "idle", "token"}
        /\ \A u \in Threads : u # t => at'[u] = at[u]
    BY <1>5 DEF Test, Back, Goes, TypeInv
  <2> QED BY <2>1, <2>2, TokenQuiet DEF Taken
<1>6. ASSUME NEW t \in Threads, ReadToken(t) PROVE TokenInv'
  <2>1. /\ at[t] = "token" /\ at'[t] = "take"
        /\ \A u \in Threads : u # t => at'[u] = at[u]
    BY <1>6 DEF ReadToken, Goes, TypeInv
  <2>2. /\ UNCHANGED <<token, service>> /\ UNCHANGED Arrived
        /\ request'[t].token = token /\ request'[t].events = request[t].events
        /\ \A u \in Threads : u # t => request'[u] = request[u]
    BY <1>6 DEF ReadToken, batch, TypeInv, Arrived
  <2>3. \A u \in Threads : InRequest(u)' = InRequest(u)
    BY <2>2 DEF InRequest
  <2>4. ASSUME NEW u \in Threads
        PROVE  /\ request'[u].token <= service'.token
               /\ at'[u] = "answer" => request'[u].token < service'.token
               /\ ~Taken(u)' => request'[u].events = <<>>
               /\ at'[u] \in {"reset", "put"} /\ request'[u].token = service'.token
                    => Precedes(Arrived', InRequest(u)')
    BY <2>1, <2>2, <2>3 DEF TokenInv, Taken
  <2> QED BY <2>2, <2>4 DEF TokenInv
<1>7. ASSUME NEW t \in Threads, Take(t) PROVE TokenInv'
  <2>1. /\ at[t] = "take" /\ at'[t] = "reset"
        /\ \A u \in Threads : u # t => at'[u] = at[u]
    BY <1>7 DEF Take, Goes, TypeInv
  <2>2. /\ UNCHANGED <<token, service>> /\ UNCHANGED Arrived
        /\ request'[t].token = request[t].token /\ request'[t].events = events
        /\ \A u \in Threads : u # t => request'[u] = request[u]
    BY <1>7 DEF Take, TypeInv, Arrived
  <2>3. /\ \A u \in Threads : u # t => InRequest(u)' = InRequest(u)
        /\ InRequest(t)' = InBatch
    BY <2>2 DEF InRequest, InBatch
  <2>4. ASSUME NEW u \in Threads
        PROVE  /\ request'[u].token <= service'.token
               /\ at'[u] = "answer" => request'[u].token < service'.token
               /\ ~Taken(u)' => request'[u].events = <<>>
               /\ at'[u] \in {"reset", "put"} /\ request'[u].token = service'.token
                    => Precedes(Arrived', InRequest(u)')
    <3>1. CASE u = t
      BY <3>1, <2>1, <2>2, <2>3 DEF TokenInv, OrderInv, Taken
    <3>2. CASE u # t
      BY <3>2, <2>1, <2>2, <2>3 DEF TokenInv, Taken
    <3> QED BY <3>1, <3>2
  <2> QED BY <2>2, <2>4 DEF TokenInv
<1>8. ASSUME NEW t \in Threads, Reset(t) PROVE TokenInv'
  <2>1. UNCHANGED <<token, request, service>>
    BY <1>8 DEF Reset
  <2>2. /\ at[t] = "reset" /\ at'[t] = "put"
        /\ \A u \in Threads : u # t => at'[u] = at[u]
    BY <1>8 DEF Reset, Goes, TypeInv
  <2> QED BY <2>1, <2>2, TokenQuiet DEF Taken
<1>9. ASSUME NEW t \in Threads, Put(t) PROVE TokenInv'
  <2>1. CASE ~IsAccepted(t)
    <3>1. UNCHANGED <<token, request, service>>
      BY <1>9, <2>1 DEF Put, batch
    <3>2. /\ at[t] = "put" /\ at'[t] = "error"
          /\ \A u \in Threads : u # t => at'[u] = at[u]
      BY <1>9, <2>1 DEF Put, Goes, TypeInv
    <3> QED BY <3>1, <3>2, TokenQuiet DEF Taken
  <2>2. CASE IsAccepted(t)
    <3>1. /\ at[t] = "put" /\ at'[t] = "answer"
          /\ \A u \in Threads : u # t => at'[u] = at[u]
      BY <1>9, <2>2 DEF Put, Goes, TypeInv
    <3>2. /\ UNCHANGED <<token, request>>
          /\ service.token \in Nat /\ service'.token = service.token + 1
          /\ token \in Nat /\ \A u \in Threads : request[u].token \in Nat
      BY <1>9, <2>2 DEF Put, batch, TypeInv
    <3>3. ASSUME NEW u \in Threads
          PROVE  /\ request'[u].token < service'.token
                 /\ ~Taken(u)' => request'[u].events = <<>>
      BY <3>1, <3>2 DEF TokenInv, Taken
    <3>4. token' <= service'.token
      BY <3>2 DEF TokenInv
    <3>5. \A u \in Threads : request'[u].token <= service'.token
                             /\ request'[u].token # service'.token
      BY <3>2, <3>3
    <3> QED BY <3>3, <3>4, <3>5 DEF TokenInv
  <2> QED BY <2>1, <2>2
<1>10. ASSUME NEW t \in Threads, PutIsLost(t) PROVE TokenInv'
  <2>1. UNCHANGED <<token, request, service>>
    BY <1>10 DEF PutIsLost, batch
  <2>2. /\ at[t] = "put" /\ at'[t] = "error"
        /\ \A u \in Threads : u # t => at'[u] = at[u]
    BY <1>10 DEF PutIsLost, Goes, TypeInv
  <2> QED BY <2>1, <2>2, TokenQuiet DEF Taken
<1>11. ASSUME NEW t \in Threads, NEW to \in {"add", "idle"},
              at'[t] = to, \A u \in Threads : u # t => at'[u] = at[u],
              request' = [request EXCEPT ![t] = NoRequest], UNCHANGED service,
              token' <= service'.token
       PROVE  TokenInv'
  <2>1. /\ request'[t].token = 0 /\ request'[t].events = <<>> /\ service.token >= 0
        /\ \A u \in Threads : u # t => request'[u] = request[u]
    BY <1>11 DEF NoRequest, TypeInv
  <2>2. UNCHANGED Arrived /\ \A u \in Threads : u # t => InRequest(u)' = InRequest(u)
    BY <1>11, <2>1 DEF InRequest, Arrived
  <2>3. ASSUME NEW u \in Threads
        PROVE  /\ request'[u].token <= service'.token
               /\ at'[u] = "answer" => request'[u].token < service'.token
               /\ ~Taken(u)' => request'[u].events = <<>>
               /\ at'[u] \in {"reset", "put"} /\ request'[u].token = service'.token
                    => Precedes(Arrived', InRequest(u)')
    <3>1. CASE u = t
      BY <3>1, <1>11, <2>1 DEF Taken
    <3>2. CASE u # t
      BY <3>2, <1>11, <2>1, <2>2 DEF TokenInv, Taken
    <3> QED BY <3>1, <3>2
  <2> QED BY <1>11, <2>3 DEF TokenInv
<1>12. ASSUME NEW t \in Threads, Answer(t) PROVE TokenInv'
  <2>1. /\ at[t] = "answer" /\ at'[t] \in {"add", "idle"}
        /\ \A u \in Threads : u # t => at'[u] = at[u]
    BY <1>12 DEF Answer, Back, Goes, TypeInv, Threads
  <2>2. /\ request' = [request EXCEPT ![t] = NoRequest] /\ UNCHANGED service
        /\ token' = request[t].token + 1
        /\ request[t].token \in Nat /\ service.token \in Nat
    BY <1>12 DEF Answer, TypeInv
  <2>3. token' <= service'.token
    BY <2>1, <2>2 DEF TokenInv
  <2> QED BY <2>1, <2>2, <2>3, <1>11
<1>13. ASSUME NEW t \in Threads, AnswerIsLost(t) PROVE TokenInv'
  <2>1. UNCHANGED <<token, request, service>>
    BY <1>13 DEF AnswerIsLost, batch
  <2>2. /\ at[t] = "answer" /\ at'[t] = "error"
        /\ \A u \in Threads : u # t => at'[u] = at[u]
    BY <1>13 DEF AnswerIsLost, Goes, TypeInv
  <2> QED BY <2>1, <2>2, TokenQuiet DEF Taken
<1>14. ASSUME NEW t \in Threads, Fail(t) PROVE TokenInv'
  <2>1. /\ at'[t] = "idle"
        /\ \A u \in Threads : u # t => at'[u] = at[u]
    BY <1>14 DEF Fail, Goes, TypeInv
  <2>2. request' = [request EXCEPT ![t] = NoRequest] /\ UNCHANGED <<service, token>>
    BY <1>14 DEF Fail, batch
  <2> QED BY <2>1, <2>2, <1>11 DEF TokenInv
<1>15. CASE UNCHANGED vars
  BY <1>15, TokenQuiet DEF vars, batch, threads, Taken
<1> QED BY <1>1, <1>2, <1>3, <1>4, <1>5, <1>6, <1>7, <1>8, <1>9, <1>10, <1>12, <1>13,
          <1>14, <1>15 DEF Next

-----------------------------------------------------------------------------
\* The event in hand is the one after those handed on.
LEMMA HandFacts ==
  ASSUME TypeInv
  PROVE  /\ HandedOn \in Nat
         /\ at["writing"] \notin {"idle", "count"} => adding.event = HandedOn + 1
BY DEF TypeInv, HandedOn

LEMMA AddFacts ==
  ASSUME TypeInv, Add
  PROVE  /\ UNCHANGED <<request, service, failed, faults>>
         /\ events' = Append(events, HandedOn + 1)
         /\ InBatch' = InBatch \cup {HandedOn + 1}
         /\ HandedOn' = HandedOn + 1 /\ HandedOn \in Nat
         /\ at["writing"] = "add" /\ at'["writing"] = "count"
         /\ \A u \in Threads : u # "writing" => at'[u] = at[u]
<1>1. /\ at["writing"] = "add" /\ at'["writing"] = "count"
      /\ \A u \in Threads : u # "writing" => at'[u] = at[u]
  BY DEF Add, Goes, TypeInv, Threads
<1>2. adding.event = HandedOn + 1 /\ HandedOn \in Nat
  BY <1>1, HandFacts
<1>3. events' = Append(events, HandedOn + 1) /\ events \in Seq(Nat)
  BY <1>2 DEF Add, TypeInv
<1>4. InBatch' = InBatch \cup {HandedOn + 1}
  BY <1>2, <1>3, ToSetAppend DEF InBatch
<1>5. HandedOn' = HandedOn + 1
  BY <1>1 DEF HandedOn, Add, TypeInv
<1>6. UNCHANGED <<request, service, failed, faults>>
  BY DEF Add
<1> QED BY <1>1, <1>2, <1>3, <1>4, <1>5, <1>6

LEMMA TakeFacts ==
  ASSUME TypeInv, NEW t \in Threads, Take(t)
  PROVE  /\ UNCHANGED <<service, failed, faults, HandedOn>>
         /\ events' = <<>> /\ InBatch' = {}
         /\ request'[t].events = events /\ InRequest(t)' = InBatch
         /\ \A u \in Threads : u # t => request'[u] = request[u] /\ InRequest(u)' = InRequest(u)
         /\ at[t] = "take" /\ at'[t] = "reset"
         /\ \A u \in Threads : u # t => at'[u] = at[u]
<1>1. /\ at[t] = "take" /\ at'[t] = "reset"
      /\ \A u \in Threads : u # t => at'[u] = at[u]
  BY DEF Take, Goes, TypeInv
<1>2. /\ UNCHANGED <<service, failed, faults, sizes>> /\ events' = <<>>
      /\ request'[t].events = events
      /\ \A u \in Threads : u # t => request'[u] = request[u]
  BY DEF Take, TypeInv
<1>3. UNCHANGED HandedOn
  BY <1>1, <1>2, SameHands DEF Threads
<1>4. /\ InBatch' = {} /\ InRequest(t)' = InBatch
      /\ \A u \in Threads : u # t => InRequest(u)' = InRequest(u)
  BY <1>2, ToSetEmpty DEF InBatch, InRequest
<1> QED BY <1>1, <1>2, <1>3, <1>4

\* A request that the service takes.
LEMMA AcceptFacts ==
  ASSUME TypeInv, NEW t \in Threads, Put(t), IsAccepted(t)
  PROVE  /\ UNCHANGED <<events, request, failed, faults, HandedOn>>
         /\ service'.stream = service.stream \o request[t].events
         /\ request[t].token = service.token
         /\ Arrived' = Arrived \cup InRequest(t)
         /\ at[t] = "put" /\ at'[t] = "answer"
         /\ \A u \in Threads : u # t => at'[u] = at[u]
<1>1. /\ at[t] = "put" /\ at'[t] = "answer"
      /\ \A u \in Threads : u # t => at'[u] = at[u]
  BY DEF Put, Goes, TypeInv
<1>2. /\ UNCHANGED <<events, request, failed, faults, sizes>>
      /\ service'.stream = service.stream \o request[t].events
      /\ request[t].token = service.token
  BY DEF Put, batch, IsAccepted, TypeInv
<1>3. UNCHANGED HandedOn
  BY <1>1, <1>2, SameHands DEF Threads
<1>4. service.stream \in Seq(Nat) /\ request[t].events \in Seq(Nat)
  BY DEF TypeInv
<1>5. Arrived' = Arrived \cup InRequest(t)
  BY <1>2, <1>4, ToSetConcat DEF Arrived, InRequest
<1> QED BY <1>1, <1>2, <1>3, <1>5

LEMMA AnswerFacts ==
  ASSUME TypeInv, NEW t \in Threads, Answer(t)
  PROVE  /\ UNCHANGED <<events, service, failed, faults, HandedOn>>
         /\ request'[t].events = <<>> /\ InRequest(t)' = {}
         /\ \A u \in Threads : u # t => request'[u] = request[u] /\ InRequest(u)' = InRequest(u)
         /\ at[t] = "answer" /\ at'[t] \in {"add", "idle"}
         /\ \A u \in Threads : u # t => at'[u] = at[u]
<1>1. /\ at[t] = "answer" /\ at'[t] = Back(t)
      /\ \A u \in Threads : u # t => at'[u] = at[u]
  BY DEF Answer, Goes, TypeInv, Back
<1>2. /\ UNCHANGED <<events, service, failed, faults, sizes>>
      /\ request'[t].events = <<>>
      /\ \A u \in Threads : u # t => request'[u] = request[u]
  BY DEF Answer, TypeInv, NoRequest
<1>3. UNCHANGED HandedOn
  BY <1>1, <1>2, SameHands DEF Threads, Back
<1>4. /\ InRequest(t)' = {} /\ \A u \in Threads : u # t => InRequest(u)' = InRequest(u)
  BY <1>2, ToSetEmpty DEF InRequest
<1> QED BY <1>1, <1>2, <1>3, <1>4 DEF Back

LEMMA FailFacts ==
  ASSUME TypeInv, NEW t \in Threads, Fail(t)
  PROVE  /\ UNCHANGED <<events, service, faults>>
         /\ request'[t].events = <<>> /\ InRequest(t)' = {}
         /\ \A u \in Threads : u # t => request'[u] = request[u] /\ InRequest(u)' = InRequest(u)
         /\ at[t] = "error" /\ at'[t] = "idle"
         /\ \A u \in Threads : u # t => at'[u] = at[u]
         /\ failed' = failed \cup InRequest(t) \cup (IF t = "writing" THEN {HandedOn + 1} ELSE {})
         /\ HandedOn' = IF t = "writing" THEN HandedOn + 1 ELSE HandedOn
<1>1. /\ at[t] = "error" /\ at'[t] = "idle"
      /\ \A u \in Threads : u # t => at'[u] = at[u]
  BY DEF Fail, Goes, TypeInv
<1>2. /\ UNCHANGED <<events, service, faults, sizes, adding>>
      /\ request'[t].events = <<>>
      /\ \A u \in Threads : u # t => request'[u] = request[u]
  BY DEF Fail, batch, TypeInv, NoRequest
<1>3. /\ InRequest(t)' = {} /\ \A u \in Threads : u # t => InRequest(u)' = InRequest(u)
  BY <1>2, ToSetEmpty DEF InRequest
<1>4. failed' = failed \cup InRequest(t) \cup (IF t = "writing" THEN {HandedOn + 1} ELSE {})
  BY <1>1, HandFacts DEF Fail, InRequest
<1>5. HandedOn' = IF t = "writing" THEN HandedOn + 1 ELSE HandedOn
  <2>1. CASE t = "writing"
    BY <2>1, <1>1, <1>2 DEF HandedOn, TypeInv
  <2>2. CASE t # "writing"
    BY <2>2, <1>1, <1>2, SameHands DEF Threads
  <2> QED BY <2>1, <2>2
<1> QED BY <1>1, <1>2, <1>3, <1>4, <1>5

\* All other steps leave the events where they are.
Quiet ==
  /\ UNCHANGED <<events, service, failed, HandedOn>> /\ faults <= faults'
  /\ \A u \in Threads : request'[u].events = request[u].events
  /\ \A u \in Threads :
       /\ at'[u] = "answer" => at[u] = "answer"
       /\ at'[u] = "error" => at[u] = "put" \/ at[u] = "error" \/ faults' # 0
       /\ at'[u] \notin {"answer", "error"} => at[u] \notin {"answer", "error"}

LEMMA OthersAreQuiet ==
  ASSUME TypeInv, [Next]_vars
  PROVE  \/ Quiet \/ Add
         \/ \E t \in Threads : Take(t) \/ (Put(t) /\ IsAccepted(t)) \/ Answer(t) \/ Fail(t)
<1> USE DEF Quiet, Goes, batch
<1>1. ASSUME NEW size \in Sizes, Write(size) PROVE Quiet
  <2>1. /\ UNCHANGED <<events, service, failed, faults, request>> /\ faults \in Nat
        /\ sizes' = Append(sizes, size) /\ sizes \in Seq(Sizes)
    BY <1>1 DEF Write, TypeInv
  <2>2. /\ at["writing"] = "idle" /\ at'["writing"] \in {"test", "add"}
        /\ \A u \in Threads : u # "writing" => at'[u] = at[u]
    BY <1>1 DEF Write, TypeInv, Threads
  <2>3. UNCHANGED HandedOn
    BY <2>1, <2>2 DEF HandedOn
  <2> QED BY <2>1, <2>2, <2>3
<1>2. CASE Count
  <2>1. UNCHANGED <<events, service, failed, faults, request, sizes>> /\ faults \in Nat
    BY <1>2 DEF Count, TypeInv
  <2>2. /\ at["writing"] = "count" /\ at'["writing"] = "idle"
        /\ \A u \in Threads : u # "writing" => at'[u] = at[u]
    BY <1>2 DEF Count, TypeInv, Threads
  <2> QED BY <2>1, <2>2, SameHands
<1>3. CASE CallFlush
  <2>1. UNCHANGED <<events, service, failed, faults, request, sizes>> /\ faults \in Nat
    BY <1>3 DEF CallFlush, TypeInv
  <2>2. /\ at["flushing"] = "idle" /\ at'["flushing"] = "test"
        /\ \A u \in Threads : u # "flushing" => at'[u] = at[u]
    BY <1>3 DEF CallFlush, TypeInv, Threads
  <2> QED BY <2>1, <2>2, SameHands DEF Threads
<1>4. ASSUME NEW t \in Threads, Test(t) PROVE Quiet
  <2>1. UNCHANGED <<events, service, failed, faults, request, sizes>> /\ faults \in Nat
    BY <1>4 DEF Test, TypeInv
  <2>2. /\ at[t] = "test" /\ at'[t] \in {Back(t), "token"}
        /\ \A u \in Threads : u # t => at'[u] = at[u]
    BY <1>4 DEF Test, TypeInv
  <2>3. UNCHANGED HandedOn
    BY <2>1, <2>2, SameHands DEF Back, Threads
  <2> QED BY <2>1, <2>2, <2>3 DEF Back
<1>5. ASSUME NEW t \in Threads, ReadToken(t) PROVE Quiet
  <2>1. /\ UNCHANGED <<events, service, failed, faults, sizes>> /\ faults \in Nat
        /\ \A u \in Threads : request'[u].events = request[u].events
    BY <1>5 DEF ReadToken, TypeInv
  <2>2. /\ at[t] = "token" /\ at'[t] = "take"
        /\ \A u \in Threads : u # t => at'[u] = at[u]
    BY <1>5 DEF ReadToken, TypeInv
  <2>3. UNCHANGED HandedOn
    BY <2>1, <2>2, SameHands DEF Threads
  <2> QED BY <2>1, <2>2, <2>3
<1>6. ASSUME NEW t \in Threads, Reset(t) PROVE Quiet
  <2>1. UNCHANGED <<events, service, failed, faults, request, sizes>> /\ faults \in Nat
    BY <1>6 DEF Reset, TypeInv
  <2>2. /\ at[t] = "reset" /\ at'[t] = "put"
        /\ \A u \in Threads : u # t => at'[u] = at[u]
    BY <1>6 DEF Reset, TypeInv
  <2>3. UNCHANGED HandedOn
    BY <2>1, <2>2, SameHands DEF Threads
  <2> QED BY <2>1, <2>2, <2>3
<1>7. ASSUME NEW t \in Threads, Put(t), ~IsAccepted(t) PROVE Quiet
  <2>1. UNCHANGED <<events, service, failed, faults, request, sizes>> /\ faults \in Nat
    BY <1>7 DEF Put, TypeInv
  <2>2. /\ at[t] = "put" /\ at'[t] = "error"
        /\ \A u \in Threads : u # t => at'[u] = at[u]
    BY <1>7 DEF Put, TypeInv
  <2>3. UNCHANGED HandedOn
    BY <2>1, <2>2, SameHands DEF Threads
  <2> QED BY <2>1, <2>2, <2>3
<1>8. ASSUME NEW t \in Threads, PutIsLost(t) \/ AnswerIsLost(t) PROVE Quiet
  <2>1. /\ UNCHANGED <<events, service, failed, request, sizes>>
        /\ faults \in Nat /\ faults' = faults + 1
    BY <1>8 DEF PutIsLost, AnswerIsLost, TypeInv
  <2>2. /\ at[t] \in {"put", "answer"} /\ at'[t] = "error"
        /\ \A u \in Threads : u # t => at'[u] = at[u]
    BY <1>8 DEF PutIsLost, AnswerIsLost, TypeInv
  <2>3. UNCHANGED HandedOn
    BY <2>1, <2>2, SameHands DEF Threads
  <2>4. faults <= faults' /\ faults' # 0
    BY <2>1
  <2> QED BY <2>1, <2>2, <2>3, <2>4
<1>9. CASE UNCHANGED vars
  <2>1. UNCHANGED <<events, service, failed, request, sizes, at, faults>> /\ faults \in Nat
    BY <1>9 DEF vars, threads, TypeInv
  <2> QED BY <2>1, SameHands
<1> QED BY <1>1, <1>2, <1>3, <1>4, <1>5, <1>6, <1>7, <1>8, <1>9 DEF Next

LEMMA QuietSets ==
  ASSUME Quiet
  PROVE  /\ UNCHANGED <<InBatch, Arrived>>
         /\ \A u \in Threads : InRequest(u)' = InRequest(u)
BY DEF Quiet, InBatch, Arrived, InRequest

\* No event that was handed on is older than the one in hand.
LEMMA Handed ==
  ASSUME NoneIsMissing, HandedOn \in Nat
  PROVE  /\ Precedes(InBatch, {HandedOn + 1})
         /\ Precedes(Arrived, {HandedOn + 1})
         /\ \A t \in Threads : Precedes(InRequest(t), {HandedOn + 1})
         /\ InBatch \subseteq Nat /\ Arrived \subseteq Nat
         /\ \A t \in Threads : InRequest(t) \subseteq Nat
<1>1. /\ InBatch \subseteq 1 .. HandedOn /\ Arrived \subseteq 1 .. HandedOn
      /\ InRequest("writing") \subseteq 1 .. HandedOn
      /\ InRequest("flushing") \subseteq 1 .. HandedOn
  BY DEF NoneIsMissing
<1>2. \A t \in Threads : InRequest(t) \subseteq 1 .. HandedOn
  BY <1>1 DEF Threads
<1> QED BY <1>1, <1>2 DEF Precedes

LEMMA OrderKept ==
  ASSUME TypeInv, TokenInv, OrderInv, NoneIsMissing, [Next]_vars
  PROVE  OrderInv'
<1>1. CASE Quiet
  BY <1>1, QuietSets DEF OrderInv, Quiet
<1>2. CASE Add
  <2>1. Precedes(InBatch, {HandedOn + 1}) /\ Precedes(Arrived, {HandedOn + 1})
        /\ \A t \in Threads : Precedes(InRequest(t), {HandedOn + 1})
    BY HandFacts, Handed
  <2>2. Increasing(events')
    <3>1. events \in Seq(Nat) /\ Increasing(events) /\ HandedOn + 1 \in Nat
      BY <1>2, AddFacts DEF OrderInv, TypeInv
    <3>2. Precedes(ToSet(events), {HandedOn + 1})
      BY <2>1 DEF InBatch
    <3>3. Increasing(Append(events, HandedOn + 1))
      BY <3>1, <3>2, AppendIncreases
    <3> QED BY <1>2, <3>3, AddFacts
  <2>3. UNCHANGED Arrived /\ \A t \in Threads : InRequest(t)' = InRequest(t)
    BY <1>2, AddFacts, SameSets
  <2>4. Precedes(Arrived', InBatch') /\ \A t \in Threads : Precedes(InRequest(t)', InBatch')
    BY <1>2, <2>1, <2>3, AddFacts DEF OrderInv, Precedes
  <2>5. Increasing(service'.stream) /\ \A t \in Threads : Increasing(request'[t].events)
    BY <1>2, AddFacts DEF OrderInv
  <2> QED BY <2>2, <2>4, <2>5 DEF OrderInv
<1>3. ASSUME NEW t \in Threads, Take(t) PROVE OrderInv'
  <2>1. InBatch' = {} /\ UNCHANGED Arrived
    BY <1>3, TakeFacts, SameSets
  <2>2. Precedes(Arrived', InBatch') /\ \A u \in Threads : Precedes(InRequest(u)', InBatch')
    BY <2>1 DEF Precedes
  <2>3. Increasing(service'.stream)
    BY <1>3, TakeFacts DEF OrderInv
  <2>4. Increasing(events')
    BY <1>3, TakeFacts DEF Increasing
  <2>5. \A u \in Threads : Increasing(request'[u].events)
    BY <1>3, TakeFacts DEF OrderInv
  <2> QED BY <2>2, <2>3, <2>4, <2>5 DEF OrderInv
<1>4. ASSUME NEW t \in Threads, Put(t), IsAccepted(t) PROVE OrderInv'
  <2>1. Precedes(Arrived, InRequest(t))
    BY <1>4, AcceptFacts DEF TokenInv
  <2>2. service.stream \in Seq(Nat) /\ request[t].events \in Seq(Nat)
    BY DEF TypeInv
  <2>3. Increasing(service'.stream)
    BY <1>4, <2>1, <2>2, AcceptFacts, ConcatIncreases DEF OrderInv, Arrived, InRequest
  <2>4. UNCHANGED InBatch /\ \A u \in Threads : InRequest(u)' = InRequest(u)
    BY <1>4, AcceptFacts, SameSets
  <2>5. Precedes(Arrived', InBatch') /\ \A u \in Threads : Precedes(InRequest(u)', InBatch')
    BY <1>4, <2>4, AcceptFacts DEF OrderInv, Precedes
  <2>6. Increasing(events') /\ \A u \in Threads : Increasing(request'[u].events)
    BY <1>4, AcceptFacts DEF OrderInv
  <2> QED BY <2>3, <2>5, <2>6 DEF OrderInv
<1>5. ASSUME NEW t \in Threads, Answer(t) \/ Fail(t) PROVE OrderInv'
  <2>1. /\ UNCHANGED <<events, service>> /\ request'[t].events = <<>> /\ InRequest(t)' = {}
        /\ \A u \in Threads : u # t => request'[u] = request[u] /\ InRequest(u)' = InRequest(u)
    BY <1>5, AnswerFacts, FailFacts
  <2>2. UNCHANGED <<InBatch, Arrived>>
    BY <2>1, SameSets
  <2>3. Precedes(Arrived', InBatch') /\ Increasing(service'.stream) /\ Increasing(events')
    BY <2>1, <2>2 DEF OrderInv
  <2>4. ASSUME NEW u \in Threads
        PROVE  Increasing(request'[u].events) /\ Precedes(InRequest(u)', InBatch')
    <3>1. CASE u = t
      BY <3>1, <2>1 DEF Increasing, Precedes
    <3>2. CASE u # t
      BY <3>2, <2>1, <2>2 DEF OrderInv
    <3> QED BY <3>1, <3>2
  <2> QED BY <2>3, <2>4 DEF OrderInv
<1> QED BY <1>1, <1>2, <1>3, <1>4, <1>5, OthersAreQuiet

LEMMA MissingKept ==
  ASSUME TypeInv, TokenInv, NoneIsMissing, SentInv, [Next]_vars
  PROVE  NoneIsMissing'
<1>1. CASE Quiet
  BY <1>1, QuietSets DEF NoneIsMissing, Quiet, Threads
<1>2. CASE Add
  <2>1. UNCHANGED <<Arrived, failed>> /\ \A t \in Threads : InRequest(t)' = InRequest(t)
    BY <1>2, AddFacts, SameSets
  <2>2. InBatch' = InBatch \cup {HandedOn + 1} /\ HandedOn' = HandedOn + 1 /\ HandedOn \in Nat
    BY <1>2, AddFacts
  <2>3. 1 .. HandedOn + 1 = (1 .. HandedOn) \cup {HandedOn + 1}
    BY <2>2
  <2> QED BY <2>1, <2>2, <2>3 DEF NoneIsMissing, Threads
<1>3. ASSUME NEW t \in Threads, Take(t) PROVE NoneIsMissing'
  <2>1. /\ UNCHANGED <<Arrived, failed, HandedOn>> /\ InBatch' = {} /\ InRequest(t)' = InBatch
        /\ \A u \in Threads : u # t => InRequest(u)' = InRequest(u)
    BY <1>3, TakeFacts, SameSets
  <2>2. InRequest(t) = {}
    <3>1. request[t].events = <<>>
      BY <1>3, TakeFacts DEF TokenInv, Taken
    <3> QED BY <3>1, ToSetEmpty DEF InRequest
  <2>3. CASE t = "writing"
    BY <2>1, <2>2, <2>3 DEF NoneIsMissing, Threads
  <2>4. CASE t = "flushing"
    BY <2>1, <2>2, <2>4 DEF NoneIsMissing, Threads
  <2> QED BY <2>3, <2>4 DEF Threads
<1>4. ASSUME NEW t \in Threads, Put(t), IsAccepted(t) PROVE NoneIsMissing'
  <2>1. /\ UNCHANGED <<InBatch, failed, HandedOn>>
        /\ \A u \in Threads : InRequest(u)' = InRequest(u)
        /\ Arrived' = Arrived \cup InRequest(t)
    BY <1>4, AcceptFacts, SameSets
  <2> QED BY <2>1 DEF NoneIsMissing, Threads
<1>5. ASSUME NEW t \in Threads, Answer(t) PROVE NoneIsMissing'
  <2>1. /\ UNCHANGED <<InBatch, Arrived, failed, HandedOn>> /\ InRequest(t)' = {}
        /\ \A u \in Threads : u # t => InRequest(u)' = InRequest(u)
    BY <1>5, AnswerFacts, SameSets
  <2>2. InRequest(t) \subseteq Arrived
    BY <1>5, AnswerFacts DEF SentInv
  <2>3. CASE t = "writing"
    BY <2>1, <2>2, <2>3 DEF NoneIsMissing, Threads
  <2>4. CASE t = "flushing"
    BY <2>1, <2>2, <2>4 DEF NoneIsMissing, Threads
  <2> QED BY <2>3, <2>4 DEF Threads
<1>6. ASSUME NEW t \in Threads, Fail(t) PROVE NoneIsMissing'
  <2>1. /\ UNCHANGED <<InBatch, Arrived>> /\ InRequest(t)' = {}
        /\ \A u \in Threads : u # t => InRequest(u)' = InRequest(u)
    BY <1>6, FailFacts, SameSets
  <2>2. HandedOn \in Nat /\ 1 .. HandedOn + 1 = (1 .. HandedOn) \cup {HandedOn + 1}
    BY HandFacts
  <2>3. CASE t = "writing"
    BY <1>6, <2>1, <2>2, <2>3, FailFacts DEF NoneIsMissing, Threads
  <2>4. CASE t = "flushing"
    BY <1>6, <2>1, <2>4, FailFacts DEF NoneIsMissing, Threads
  <2> QED BY <2>3, <2>4 DEF Threads
<1> QED BY <1>1, <1>2, <1>3, <1>4, <1>5, <1>6, OthersAreQuiet

LEMMA PrecedingIsApart ==
  ASSUME NEW S, NEW T, T \subseteq Nat, Precedes(S, T)
  PROVE  S \cap T = {}
<1>1. ASSUME NEW x \in S, x \in T PROVE FALSE
  <2>1. x < x /\ x \in Nat
    BY <1>1 DEF Precedes
  <2> QED BY <2>1
<1> QED BY <1>1

LEMMA TwiceKept ==
  ASSUME TypeInv, TokenInv, OrderInv, NoneIsMissing, NoneIsTwice, [Next]_vars
  PROVE  NoneIsTwice'
<1>1. CASE Quiet
  BY <1>1, QuietSets DEF NoneIsTwice, Quiet, Threads
<1>2. CASE Add
  <2>1. UNCHANGED failed /\ \A t \in Threads : InRequest(t)' = InRequest(t)
    BY <1>2, AddFacts, SameSets
  <2>2. InBatch' = InBatch \cup {HandedOn + 1} /\ HandedOn \in Nat
    BY <1>2, AddFacts
  <2>3. HandedOn + 1 \notin failed
    BY <2>2 DEF NoneIsMissing
  <2> QED BY <2>1, <2>2, <2>3 DEF NoneIsTwice, Threads
<1>3. ASSUME NEW t \in Threads, Take(t) PROVE NoneIsTwice'
  <2>1. /\ UNCHANGED failed /\ InBatch' = {} /\ InRequest(t)' = InBatch
        /\ \A u \in Threads : u # t => InRequest(u)' = InRequest(u)
    BY <1>3, TakeFacts
  <2>2. \A u \in Threads : InRequest(u) \cap InBatch = {}
    BY HandFacts, Handed, PrecedingIsApart DEF OrderInv
  <2>3. \A u \in Threads : InRequest(u)' \cap failed' = {}
    BY <2>1 DEF NoneIsTwice
  <2>4. InRequest("writing")' \cap InRequest("flushing")' = {}
    <3>1. CASE t = "writing"
      BY <2>1, <2>2, <3>1 DEF Threads
    <3>2. CASE t = "flushing"
      BY <2>1, <2>2, <3>2 DEF Threads
    <3> QED BY <3>1, <3>2 DEF Threads
  <2> QED BY <2>1, <2>3, <2>4 DEF NoneIsTwice
<1>4. ASSUME NEW t \in Threads, Put(t), IsAccepted(t) PROVE NoneIsTwice'
  <2>1. UNCHANGED <<InBatch, failed>> /\ \A u \in Threads : InRequest(u)' = InRequest(u)
    BY <1>4, AcceptFacts, SameSets
  <2> QED BY <2>1 DEF NoneIsTwice, Threads
<1>5. ASSUME NEW t \in Threads, Answer(t) PROVE NoneIsTwice'
  <2>1. /\ UNCHANGED <<InBatch, failed>> /\ InRequest(t)' = {}
        /\ \A u \in Threads : u # t => InRequest(u)' = InRequest(u)
    BY <1>5, AnswerFacts, SameSets
  <2> QED BY <2>1 DEF NoneIsTwice, Threads
<1>6. ASSUME NEW t \in Threads, Fail(t) PROVE NoneIsTwice'
  <2>1. /\ UNCHANGED InBatch /\ InRequest(t)' = {}
        /\ \A u \in Threads : u # t => InRequest(u)' = InRequest(u)
    BY <1>6, FailFacts, SameSets
  <2>2. failed' \subseteq failed \cup InRequest(t) \cup {HandedOn + 1}
    BY <1>6, FailFacts
  <2>3. /\ HandedOn + 1 \notin InBatch /\ \A u \in Threads : HandedOn + 1 \notin InRequest(u)
    BY HandFacts, Handed DEF Precedes
  <2>4. InBatch \cap InRequest(t) = {}
    BY <1>6, HandFacts, Handed, PrecedingIsApart DEF OrderInv
  <2>5. \A u \in Threads : u # t => InRequest(u) \cap InRequest(t) = {}
    BY <1>6 DEF NoneIsTwice, Threads
  <2>6. InBatch' \cap failed' = {}
    BY <2>1, <2>2, <2>3, <2>4 DEF NoneIsTwice
  <2>7. ASSUME NEW u \in Threads PROVE InRequest(u)' \cap failed' = {}
    BY <2>1, <2>2, <2>3, <2>5 DEF NoneIsTwice
  <2>8. InRequest("writing")' \cap InRequest("flushing")' = {}
    BY <2>1 DEF NoneIsTwice, Threads
  <2> QED BY <2>6, <2>7, <2>8 DEF NoneIsTwice
<1> QED BY <1>1, <1>2, <1>3, <1>4, <1>5, <1>6, OthersAreQuiet

LEMMA SentKept ==
  ASSUME TypeInv, TokenInv, OrderInv, NoneIsMissing, NoneIsTwice, SentInv, [Next]_vars
  PROVE  SentInv'
<1>1. CASE Quiet
  <2>1. UNCHANGED <<Arrived, failed>> /\ \A u \in Threads : InRequest(u)' = InRequest(u)
    BY <1>1, QuietSets DEF Quiet
  <2>2. faults' = 0 => faults = 0
    <3>1. faults \in Nat /\ faults <= faults'
      BY <1>1 DEF Quiet, TypeInv
    <3> QED BY <3>1
  <2>3. ASSUME NEW u \in Threads
        PROVE  /\ at'[u] = "answer" => at[u] = "answer"
               /\ at'[u] = "error" /\ faults' = 0 => at[u] \in {"put", "error"}
               /\ at'[u] \notin {"answer", "error"} => at[u] \notin {"answer", "error"}
    BY <1>1 DEF Quiet
  <2>4. ASSUME NEW u \in Threads
        PROVE  /\ at'[u] \notin {"answer", "error"} => InRequest(u)' \cap Arrived' = {}
               /\ at'[u] = "answer" => InRequest(u)' \subseteq Arrived'
               /\ at'[u] = "error" /\ faults' = 0 => InRequest(u)' \cap Arrived' = {}
    BY <2>1, <2>2, <2>3 DEF SentInv
  <2>5. faults' = 0 => Arrived' \cap failed' = {}
    BY <2>1, <2>2 DEF SentInv
  <2> QED BY <2>4, <2>5 DEF SentInv
<1>2. CASE Add
  <2>1. UNCHANGED <<Arrived, failed, faults>> /\ \A t \in Threads : InRequest(t)' = InRequest(t)
    BY <1>2, AddFacts, SameSets
  <2>2. /\ at["writing"] = "add" /\ at'["writing"] = "count"
        /\ \A u \in Threads : u # "writing" => at'[u] = at[u]
    BY <1>2, AddFacts
  <2> QED BY <2>1, <2>2 DEF SentInv
<1>3. ASSUME NEW t \in Threads, Take(t) PROVE SentInv'
  <2>1. /\ UNCHANGED <<Arrived, failed, faults>> /\ InRequest(t)' = InBatch
        /\ \A u \in Threads : u # t => InRequest(u)' = InRequest(u)
    BY <1>3, TakeFacts, SameSets
  <2>2. at'[t] = "reset" /\ \A u \in Threads : u # t => at'[u] = at[u]
    BY <1>3, TakeFacts
  <2>3. InBatch \cap Arrived = {}
    BY HandFacts, Handed, PrecedingIsApart DEF OrderInv
  <2> QED BY <2>1, <2>2, <2>3 DEF SentInv
<1>4. ASSUME NEW t \in Threads, Put(t), IsAccepted(t) PROVE SentInv'
  <2>1. /\ UNCHANGED <<failed, faults>> /\ \A u \in Threads : InRequest(u)' = InRequest(u)
        /\ Arrived' = Arrived \cup InRequest(t)
    BY <1>4, AcceptFacts, SameSets
  <2>2. at'[t] = "answer" /\ \A u \in Threads : u # t => at'[u] = at[u]
    BY <1>4, AcceptFacts
  <2>3. \A u \in Threads : u # t => InRequest(u) \cap InRequest(t) = {}
    BY <1>4 DEF NoneIsTwice, Threads
  <2>4. InRequest(t) \cap failed = {}
    BY <1>4 DEF NoneIsTwice
  <2> QED BY <2>1, <2>2, <2>3, <2>4 DEF SentInv
<1>5. ASSUME NEW t \in Threads, Answer(t) PROVE SentInv'
  <2>1. /\ UNCHANGED <<Arrived, failed, faults>> /\ InRequest(t)' = {}
        /\ \A u \in Threads : u # t => InRequest(u)' = InRequest(u) /\ at'[u] = at[u]
    BY <1>5, AnswerFacts, SameSets
  <2> QED BY <2>1 DEF SentInv
<1>6. ASSUME NEW t \in Threads, Fail(t) PROVE SentInv'
  <2>1. /\ UNCHANGED <<Arrived, faults>> /\ InRequest(t)' = {} /\ at[t] = "error"
        /\ \A u \in Threads : u # t => InRequest(u)' = InRequest(u) /\ at'[u] = at[u]
    BY <1>6, FailFacts, SameSets
  <2>2. failed' \subseteq failed \cup InRequest(t) \cup {HandedOn + 1}
    BY <1>6, FailFacts
  <2>3. HandedOn + 1 \notin Arrived
    BY HandFacts, Handed DEF Precedes
  <2>4. faults' = 0 => Arrived' \cap failed' = {}
    BY <1>6, <2>1, <2>2, <2>3 DEF SentInv
  <2> QED BY <2>1, <2>4 DEF SentInv
<1> QED BY <1>1, <1>2, <1>3, <1>4, <1>5, <1>6, OthersAreQuiet

-----------------------------------------------------------------------------
LEMMA IInvHolds ==
  ASSUME Init
  PROVE  IInv
<1>1. /\ events = <<>> /\ service.stream = <<>> /\ service.token = 0 /\ token = 0
      /\ \A t \in Threads : request[t].events = <<>> /\ request[t].token = 0
      /\ \A t \in Threads : at[t] = "idle"
      /\ sizes = <<>> /\ failed = {}
  BY DEF Init, NoRequest
<1>2. /\ InBatch = {} /\ Arrived = {} /\ \A t \in Threads : InRequest(t) = {}
  BY <1>1, ToSetEmpty DEF InBatch, Arrived, InRequest
<1>3. HandedOn = 0
  BY <1>1 DEF HandedOn, Threads
<1>4. TokenInv
  BY <1>1 DEF TokenInv, Taken
<1>5. OrderInv
  BY <1>1, <1>2 DEF OrderInv, Increasing, Precedes
<1>6. NoneIsMissing
  BY <1>1, <1>2, <1>3 DEF NoneIsMissing, Threads
<1>7. NoneIsTwice /\ SentInv
  BY <1>1, <1>2 DEF NoneIsTwice, SentInv, Threads
<1> QED BY <1>4, <1>5, <1>6, <1>7, TypeHolds DEF IInv

LEMMA IInvKept ==
  ASSUME IInv, [Next]_vars
  PROVE  IInv'
BY TypeKept, TokenKept, OrderKept, MissingKept, TwiceKept, SentKept DEF IInv

\* The batches, the requests and the stream of the service hold every event that was
\* written, in order and with no token ahead of the service's, whatever gets lost.
THEOREM Invariance == Spec => []IInv
BY IInvHolds, IInvKept, PTL DEF Spec

\* Whatever gets lost, and however two flushes meet, the stream of the service has the
\* events in the order in which they were written, and none twice.
THEOREM StreamStaysInOrder == Spec => []ArrivesInOrder
<1>1. IInv => ArrivesInOrder
  BY DEF IInv, OrderInv, Increasing, ArrivesInOrder
<1> QED BY <1>1, Invariance, PTL

-----------------------------------------------------------------------------
LEMMA IsSequence ==
  ASSUME NEW S, NEW n \in Nat, NEW f \in [1 .. n -> S]
  PROVE  f \in Seq(S) /\ Len(f) = n
OBVIOUS

LEMMA ConcatByElement ==
  ASSUME NEW S, NEW q \in Seq(S), NEW r \in Seq(S)
  PROVE  /\ DOMAIN (q \o r) = 1 .. Len(q) + Len(r)
         /\ \A i \in 1 .. Len(q) : (q \o r)[i] = q[i]
         /\ \A i \in 1 .. Len(r) : (q \o r)[Len(q) + i] = r[i]
OBVIOUS

\* Six sets in a sequence: their union, and that they are disjoint.
LEMMA SixApart ==
  ASSUME NEW p, DOMAIN p = 1 .. 6,
         NEW a, NEW b, NEW c, NEW d, NEW e, NEW f,
         p[1] = a, p[2] = b, p[3] = c, p[4] = d, p[5] = e, p[6] = f,
         a \cap (b \cup c \cup d \cup e \cup f) = {}, b \cap (c \cup d \cup e \cup f) = {},
         c \cap (d \cup e \cup f) = {}, d \cap (e \cup f) = {}, e \cap f = {}
  PROVE  /\ UNION ToSet(p) = a \cup b \cup c \cup d \cup e \cup f
         /\ \A i, j \in DOMAIN p : i # j => p[i] \cap p[j] = {}
<1>1. ToSet(p) = {a, b, c, d, e, f}
  <2>1. \A i \in 1 .. 6 : i = 1 \/ i = 2 \/ i = 3 \/ i = 4 \/ i = 5 \/ i = 6
    OBVIOUS
  <2>2. ToSet(p) \subseteq {a, b, c, d, e, f}
    BY <2>1 DEF ToSet
  <2>3. {1, 2, 3, 4, 5, 6} \subseteq DOMAIN p
    OBVIOUS
  <2>4. {a, b, c, d, e, f} \subseteq ToSet(p)
    BY <2>3 DEF ToSet
  <2> QED BY <2>2, <2>4
<1>2. ASSUME NEW i \in 1 .. 6, NEW j \in 1 .. 6, i < j
      PROVE  p[i] \cap p[j] = {}
  <2>1. CASE i = 1
    <3>1. j = 2 \/ j = 3 \/ j = 4 \/ j = 5 \/ j = 6
      BY <1>2, <2>1
    <3> QED BY <2>1, <3>1
  <2>2. CASE i = 2
    <3>1. j = 3 \/ j = 4 \/ j = 5 \/ j = 6
      BY <1>2, <2>2
    <3> QED BY <2>2, <3>1
  <2>3. CASE i = 3
    <3>1. j = 4 \/ j = 5 \/ j = 6
      BY <1>2, <2>3
    <3> QED BY <2>3, <3>1
  <2>4. CASE i = 4
    <3>1. j = 5 \/ j = 6
      BY <1>2, <2>4
    <3> QED BY <2>4, <3>1
  <2>5. CASE i = 5
    <3>1. j = 6
      BY <1>2, <2>5
    <3> QED BY <2>5, <3>1
  <2>6. i = 1 \/ i = 2 \/ i = 3 \/ i = 4 \/ i = 5
    BY <1>2
  <2> QED BY <2>1, <2>2, <2>3, <2>4, <2>5, <2>6
<1>3. ASSUME NEW i \in DOMAIN p, NEW j \in DOMAIN p, i # j
      PROVE  p[i] \cap p[j] = {}
  <2>1. i < j \/ j < i
    BY <1>3
  <2>2. p[i] \cap p[j] = p[j] \cap p[i]
    OBVIOUS
  <2> QED BY <1>2, <2>1, <2>2
<1> QED BY <1>1, <1>3

LEMMA OnePlace ==
  ASSUME IInv
  PROVE  EachEventHasOnePlace
<1> DEFINE gone == failed \ (IF faults = 0 THEN {} ELSE Arrived)
           inHand == IF at["writing"] \in {"idle", "count"} THEN {} ELSE {adding.event}
           Left(t) == IF at[t] \in {"answer", "error"} THEN InRequest(t) \ Arrived
                                                       ELSE InRequest(t)
           r == [i \in 1 .. 2 |-> LET t == <<"writing", "flushing">>[i]
                                  IN  IF at[t] \in {"answer", "error"}
                                      THEN ToSet(request[t].events) \ Arrived
                                      ELSE ToSet(request[t].events)]
           p == <<InBatch, Arrived, gone, inHand>> \o r
<1>1. /\ HandedOn \in Nat
      /\ inHand = IF at["writing"] \in {"idle", "count"} THEN {} ELSE {HandedOn + 1}
      /\ DOMAIN sizes = IF at["writing"] \in {"idle", "count"} THEN 1 .. HandedOn
                                                               ELSE 1 .. HandedOn + 1
  <2>1. TypeInv
    BY DEF IInv
  <2>2. /\ HandedOn \in Nat
        /\ at["writing"] \notin {"idle", "count"} => adding.event = HandedOn + 1
    BY <2>1, HandFacts
  <2>3. DOMAIN sizes = 1 .. Len(sizes) /\ Len(sizes) \in Nat
    BY <2>1 DEF TypeInv
  <2>4. Len(sizes) = IF at["writing"] \in {"idle", "count"} THEN HandedOn ELSE HandedOn + 1
    <3> DEFINE n == Len(sizes)
    <3>1. HandedOn = IF at["writing"] \in {"idle", "count"} THEN n ELSE n - 1
      BY DEF HandedOn
    <3> HIDE DEF n
    <3>2. n \in Nat
      BY <2>3 DEF n
    <3>3. n = IF at["writing"] \in {"idle", "count"} THEN HandedOn ELSE HandedOn + 1
      BY <3>1, <3>2
    <3> QED BY <3>3 DEF n
  <2> QED BY <2>2, <2>3, <2>4
<1>2. InBatch \cup Arrived \cup failed \cup InRequest("writing") \cup InRequest("flushing")
        = 1 .. HandedOn
  BY DEF IInv, NoneIsMissing
<1>3. InBatch \cap Arrived = {} /\ \A t \in Threads : InBatch \cap InRequest(t) = {}
  BY <1>1, Handed, PrecedingIsApart DEF IInv, OrderInv
<1>4. /\ InBatch \cap failed = {}
      /\ \A t \in Threads : InRequest(t) \cap failed = {}
      /\ InRequest("writing") \cap InRequest("flushing") = {}
  BY DEF IInv, NoneIsTwice
<1>5. \A t \in Threads : Left(t) = InRequest(t) \ Arrived
  BY DEF IInv, SentInv
<1>6. gone = failed \ Arrived
  BY DEF IInv, SentInv
<1> DEFINE a == InBatch
           f1 == Left("writing")
           f2 == Left("flushing")
<1>7. /\ r \in Seq(SUBSET (1 .. HandedOn)) /\ Len(r) = 2 /\ r[1] = f1 /\ r[2] = f2
  <2>1. r[1] = f1 /\ r[2] = f2
    BY DEF InRequest
  <2>2. f1 \in SUBSET (1 .. HandedOn) /\ f2 \in SUBSET (1 .. HandedOn)
    BY <1>2, <1>5 DEF Threads
  <2>3. r \in [1 .. 2 -> SUBSET (1 .. HandedOn)]
    <3>1. \A i \in 1 .. 2 : i = 1 \/ i = 2
      OBVIOUS
    <3>2. \A i \in 1 .. 2 : r[i] \in SUBSET (1 .. HandedOn)
      <4> HIDE DEF r, f1, f2
      <4> QED BY <2>1, <2>2, <3>1
    <3> QED BY <3>2
  <2>4. r \in Seq(SUBSET (1 .. HandedOn)) /\ Len(r) = 2
    <3> DEFINE S == SUBSET (1 .. HandedOn)
    <3>1. r \in [1 .. 2 -> S]
      BY <2>3
    <3> HIDE DEF r, S
    <3>2. r \in Seq(S) /\ Len(r) = 2
      BY <3>1, IsSequence
    <3> QED BY <3>2 DEF S
  <2> HIDE DEF r, f1, f2
  <2> QED BY <2>1, <2>4
<1>8. DOMAIN sizes = a \cup Arrived \cup gone \cup inHand \cup f1 \cup f2
  <2>1. 1 .. HandedOn + 1 = (1 .. HandedOn) \cup {HandedOn + 1}
    BY <1>1
  <2>2. f1 = InRequest("writing") \ Arrived /\ f2 = InRequest("flushing") \ Arrived
    BY <1>5 DEF Threads
  <2> HIDE DEF gone, inHand, f1, f2
  <2> QED BY <1>1, <1>2, <1>6, <2>1, <2>2
<1>9. /\ InBatch \cap (Arrived \cup gone \cup inHand \cup f1 \cup f2) = {}
      /\ Arrived \cap (gone \cup inHand \cup f1 \cup f2) = {}
      /\ gone \cap (inHand \cup f1 \cup f2) = {}
      /\ inHand \cap (f1 \cup f2) = {}
      /\ f1 \cap f2 = {}
  <2>1. inHand \cap (1 .. HandedOn) = {}
    BY <1>1
  <2>2. f1 = InRequest("writing") \ Arrived /\ f2 = InRequest("flushing") \ Arrived
    BY <1>5 DEF Threads
  <2>3. "writing" \in Threads /\ "flushing" \in Threads
    BY DEF Threads
  <2> HIDE DEF gone, inHand, f1, f2
  <2> QED BY <1>2, <1>3, <1>4, <1>6, <2>1, <2>2, <2>3
<1>10. /\ UNION ToSet(p) = DOMAIN sizes
       /\ \A i, j \in DOMAIN p : i # j => p[i] \cap p[j] = {}
  <2> DEFINE S == SUBSET (1 .. HandedOn + 1)
  <2>1. r \in Seq(S) /\ {InBatch, Arrived, gone, inHand} \subseteq S
    <3>1. SUBSET (1 .. HandedOn) \subseteq S
      BY <1>1
    <3>2. {InBatch, Arrived, gone, inHand} \subseteq S
      BY <1>1, <1>2, <1>6
    <3>3. r \in Seq(S)
      <4> HIDE DEF S, r
      <4> QED BY <1>7, <3>1
    <3> QED BY <3>2, <3>3
  <2> DEFINE q == <<InBatch, Arrived, gone, inHand>>
  <2> HIDE DEF gone, inHand, f1, f2, r, S
  <2>2. /\ q \in Seq(S) /\ Len(q) = 4
        /\ q[1] = InBatch /\ q[2] = Arrived /\ q[3] = gone /\ q[4] = inHand
    BY <2>1
  <2>3. p = q \o r
    OBVIOUS
  <2> HIDE DEF p, q
  <2>4. q \in Seq(S) /\ r \in Seq(S)
    BY <2>1, <2>2
  <2>5. /\ DOMAIN p = 1 .. Len(q) + Len(r)
        /\ \A i \in 1 .. Len(q) : p[i] = q[i]
        /\ \A i \in 1 .. Len(r) : p[Len(q) + i] = r[i]
    BY <2>3, <2>4, ConcatByElement
  <2>6. /\ DOMAIN p = 1 .. 6 /\ p[1] = q[1] /\ p[2] = q[2] /\ p[3] = q[3] /\ p[4] = q[4]
        /\ p[4 + 1] = r[1] /\ p[4 + 2] = r[2]
    BY <1>7, <2>2, <2>5
  <2>7. /\ p[1] = InBatch /\ p[2] = Arrived /\ p[3] = gone /\ p[4] = inHand
        /\ p[5] = f1 /\ p[6] = f2
    BY <1>7, <2>2, <2>6
  <2> QED BY <1>8, <1>9, <2>6, <2>7, SixApart
<1> HIDE DEF r
<1> QED BY <1>10 DEF EachEventHasOnePlace, InBatch, r

\* Every event that was written is in one place: none is forgotten when two flushes or a
\* flush and a write meet, and only a lost answer leaves one both failed and arrived.
THEOREM EventsStayInOnePlace == Spec => []EachEventHasOnePlace
BY OnePlace, Invariance, PTL

-----------------------------------------------------------------------------
(* The size of a batch.                                                    *)

\* Induction over the numbers, from the well-foundedness of the finite sets: a least
\* number outside P would be the successor of one inside.
LEMMA Induction ==
  ASSUME NEW P, 0 \in P, \A n \in Nat : n \in P => n + 1 \in P
  PROVE  \A n \in Nat : n \in P
<1> SUFFICES ASSUME NEW n \in Nat, n \notin P PROVE FALSE
  OBVIOUS
<1> DEFINE Missing == {k \in 0 .. n : k \notin P}
           Below == {0 .. k : k \in Missing}
<1>1. IsWellFoundedOn(StrictSubsetOrdering(0 .. n), SUBSET (0 .. n))
  <2>1. IsFiniteSet(0 .. n)
    BY FS_Interval
  <2>2. FiniteSubsetsOf(0 .. n) = SUBSET (0 .. n)
    BY <2>1, FS_FiniteSubsetsOfFinite
  <2> QED BY <2>2, FS_StrictSubsetOrderingWellFounded
<1>2. Below \subseteq SUBSET (0 .. n) /\ Below # {}
  OBVIOUS
<1>3. PICK least \in Below : \A s \in Below : <<s, least>> \notin StrictSubsetOrdering(0 .. n)
  BY <1>1, <1>2, WFMin
<1>4. PICK k \in Missing : least = 0 .. k
  OBVIOUS
<1>5. k # 0 /\ k - 1 \in Missing
  BY <1>4
<1>6. <<0 .. k - 1, 0 .. k>> \in StrictSubsetOrdering(0 .. n)
  BY <1>5 DEF StrictSubsetOrdering
<1> QED
  BY <1>3, <1>4, <1>5, <1>6

\* The function that SizeOf defines by recursion, for sizes w.
IsSum(f, w, es, n) ==
  f = [i \in 0 .. n |-> IF i = 0 THEN 0 ELSE f[i - 1] + w[es[i]]]

\* The first n events es have sizes in w; they have the same in v and w.
Measured(w, es, n) == \A i \in 1 .. n : w[es[i]] \in Nat
AllMeasured(w, es, n) == n \in Nat /\ Len(es) = n /\ Measured(w, es, n)
SameSizes(v, es, w, fs, n) == \A i \in 1 .. n : v[es[i]] = w[fs[i]]

\* There is one, so that CHOOSE finds it.
LEMMA SumExists ==
  ASSUME NEW w, NEW es, NEW N \in Nat, Measured(w, es, N)
  PROVE  \E f \in [0 .. N -> Nat] : IsSum(f, w, es, N)
<1> DEFINE P == {n \in Nat : n <= N => \E f \in [0 .. n -> Nat] : IsSum(f, w, es, n)}
<1>1. 0 \in P
  <2> DEFINE f == [i \in 0 .. 0 |-> 0]
  <2> f \in [0 .. 0 -> Nat] /\ IsSum(f, w, es, 0)
    BY DEF IsSum
  <2> QED OBVIOUS
<1>2. ASSUME NEW n \in Nat, n \in P PROVE n + 1 \in P
  <2> SUFFICES ASSUME n + 1 <= N PROVE \E f \in [0 .. n + 1 -> Nat] : IsSum(f, w, es, n + 1)
    OBVIOUS
  <2> PICK f \in [0 .. n -> Nat] : IsSum(f, w, es, n)
    BY <1>2
  <2> DEFINE g == [i \in 0 .. n + 1 |-> IF i <= n THEN f[i] ELSE f[n] + w[es[n + 1]]]
  <2>1. g \in [0 .. n + 1 -> Nat]
    <3>1. w[es[n + 1]] \in Nat
      BY DEF Measured
    <3> QED BY <3>1
  <2>2. ASSUME NEW i \in 0 .. n + 1 PROVE g[i] = IF i = 0 THEN 0 ELSE g[i - 1] + w[es[i]]
    BY DEF IsSum
  <2>3. IsSum(g, w, es, n + 1)
    BY <2>2 DEF IsSum
  <2> QED BY <2>1, <2>3
<1> HIDE DEF P
<1>3. N \in P
  BY <1>1, <1>2, Induction
<1> QED BY <1>3 DEF P

\* What it gives is determined by the sizes of the events up to there.
LEMMA SumsAgree ==
  ASSUME NEW v, NEW w, NEW es, NEW fs, NEW f, NEW g, NEW N, NEW M,
         N \in Nat, M \in Nat, N <= M, IsSum(f, v, es, N), IsSum(g, w, fs, M),
         SameSizes(v, es, w, fs, N)
  PROVE  f[N] = g[N]
<1> DEFINE P == {n \in Nat : n <= N => f[n] = g[n]}
<1>1. 0 \in P
  BY DEF IsSum
<1>2. ASSUME NEW n \in Nat, n \in P PROVE n + 1 \in P
  BY <1>2 DEF IsSum, SameSizes
<1> HIDE DEF P
<1>3. N \in P
  BY <1>1, <1>2, Induction
<1> QED BY <1>3 DEF P

Total(w, es) ==
  LET Sum[n \in 0 .. Len(es)] == IF n = 0 THEN 0 ELSE Sum[n - 1] + w[es[n]]
  IN  Sum[Len(es)]

LEMMA TotalIsSum ==
  ASSUME NEW w, NEW es, NEW n, AllMeasured(w, es, n)
  PROVE  \E f \in [0 .. n -> Nat] : IsSum(f, w, es, n) /\ Total(w, es) = f[n]
<1> DEFINE h == CHOOSE f : f = [i \in 0 .. n |-> IF i = 0 THEN 0 ELSE f[i - 1] + w[es[i]]]
<1>0. n \in Nat /\ Len(es) = n /\ Measured(w, es, n)
  BY DEF AllMeasured
<1>1. PICK g \in [0 .. n -> Nat] : IsSum(g, w, es, n)
  BY <1>0, SumExists
<1>2. IsSum(h, w, es, n)
  BY <1>1 DEF IsSum
<1>3. Total(w, es) = h[n]
  BY <1>0, Zenon DEF Total
<1> HIDE DEF h
<1>4. h[n] = g[n]
  <2>1. n \in Nat /\ n <= n /\ SameSizes(w, es, w, es, n)
    BY <1>0 DEF SameSizes
  <2> QED BY <1>1, <1>2, <2>1, SumsAgree
<1> QED BY <1>1, <1>3, <1>4

LEMMA TotalOfNone ==
  ASSUME NEW w
  PROVE  Total(w, <<>>) = 0
<1>1. PICK f \in [0 .. 0 -> Nat] : IsSum(f, w, <<>>, 0) /\ Total(w, <<>>) = f[0]
  <2>1. AllMeasured(w, <<>>, 0)
    BY DEF AllMeasured, Measured
  <2> QED BY <2>1, TotalIsSum
<1> QED BY <1>1 DEF IsSum

LEMMA TotalIsNatural ==
  ASSUME NEW w, NEW es, NEW n, AllMeasured(w, es, n)
  PROVE  Total(w, es) \in Nat
<1>0. n \in Nat
  BY DEF AllMeasured
<1>1. PICK f \in [0 .. n -> Nat] : Total(w, es) = f[n]
  BY TotalIsSum
<1> QED BY <1>0, <1>1

\* Sizes that grow leave the total of what was there alone.
LEMMA TotalsAgree ==
  ASSUME NEW v, NEW w, NEW es, NEW n, AllMeasured(w, es, n), SameSizes(v, es, w, es, n)
  PROVE  Total(v, es) = Total(w, es)
<1>1. PICK f \in [0 .. n -> Nat] : IsSum(f, w, es, n) /\ Total(w, es) = f[n]
  BY TotalIsSum
<1>2. PICK g \in [0 .. n -> Nat] : IsSum(g, v, es, n) /\ Total(v, es) = g[n]
  <2>1. AllMeasured(v, es, n)
    BY DEF AllMeasured, Measured, SameSizes
  <2> QED BY <2>1, TotalIsSum
<1>3. g[n] = f[n]
  <2>1. n \in Nat /\ n <= n
    BY DEF AllMeasured
  <2>2. IsSum(g, v, es, n) /\ IsSum(f, w, es, n)
    BY <1>1, <1>2
  <2> QED BY <2>1, <2>2, SumsAgree
<1> QED BY <1>1, <1>2, <1>3

Follows(m, n) == n \in Nat /\ m = n + 1

LEMMA SumExtends ==
  ASSUME NEW w, NEW es, NEW fs, NEW f, NEW g, NEW n, NEW m, Follows(m, n),
         IsSum(f, w, es, n), IsSum(g, w, fs, m), SameSizes(w, es, w, fs, n)
  PROVE  g[m] = f[n] + w[fs[m]]
<1>1. f[n] = g[n]
  <2>1. n \in Nat /\ m \in Nat /\ n <= m
    BY DEF Follows
  <2> QED BY <2>1, SumsAgree
<1>2. m \in 0 .. m /\ m # 0 /\ m - 1 = n
  BY DEF Follows
<1>3. \A i \in 0 .. m : g[i] = IF i = 0 THEN 0 ELSE g[i - 1] + w[fs[i]]
  BY DEF IsSum
<1> QED BY <1>1, <1>2, <1>3

LEMMA AppendByElement ==
  ASSUME NEW S, NEW s \in Seq(S), NEW x \in S
  PROVE  /\ Len(Append(s, x)) = Len(s) + 1 /\ Append(s, x)[Len(s) + 1] = x
         /\ \A i \in 1 .. Len(s) : Append(s, x)[i] = s[i]
OBVIOUS

LEMMA TotalOfAppend ==
  ASSUME NEW w, NEW es \in Seq(Nat), NEW x \in Nat, NEW n, AllMeasured(w, es, n), w[x] \in Nat
  PROVE  Total(w, Append(es, x)) = Total(w, es) + w[x]
<1> DEFINE a == Append(es, x)
<1>1. Len(a) = n + 1 /\ a[n + 1] = x /\ \A i \in 1 .. n : a[i] = es[i]
  BY AppendByElement DEF AllMeasured
<1>0. n \in Nat /\ Measured(w, es, n)
  BY DEF AllMeasured
<1> HIDE DEF a
<1>2. Measured(w, a, n + 1)
  <2> SUFFICES ASSUME NEW i \in 1 .. n + 1 PROVE w[a[i]] \in Nat
    BY DEF Measured
  <2>1. CASE i = n + 1
    BY <1>1, <2>1
  <2>2. CASE i # n + 1
    <3>1. i \in 1 .. n
      BY <1>0, <2>2
    <3> QED BY <1>0, <1>1, <3>1 DEF Measured
  <2> QED BY <2>1, <2>2
<1>3. PICK f : IsSum(f, w, es, n) /\ Total(w, es) = f[n]
  BY TotalIsSum
<1>4. PICK m \in Nat : m = n + 1
  BY <1>0
<1>5. PICK g : IsSum(g, w, a, m) /\ Total(w, a) = g[m]
  <2>1. AllMeasured(w, a, m)
    BY <1>0, <1>1, <1>2, <1>4 DEF AllMeasured
  <2> QED BY <2>1, TotalIsSum
<1>6. SameSizes(w, es, w, a, n)
  BY <1>1 DEF SameSizes
<1>7. g[m] = f[n] + w[a[m]]
  <2>1. Follows(m, n)
    BY <1>0, <1>4 DEF Follows
  <2>2. IsSum(f, w, es, n) /\ IsSum(g, w, a, m)
    BY <1>3, <1>5
  <2> QED BY <1>6, <2>1, <2>2, SumExtends
<1> QED BY <1>1, <1>3, <1>4, <1>5, <1>7 DEF a

-----------------------------------------------------------------------------
(* The requests fit.                                                       *)

\* What the batch, a request and the event in hand measure.
Weight == Total(sizes, events)
RequestWeight(t) == Total(sizes, request[t].events)
HandWeight == sizes[adding.event]

Resetting == \E t \in Threads : at[t] = "reset"

\* wire_size_ is the size of the batch, but while the writer counts an event it has added
\* and while a flush has yet to reset it; an event that is added in between ends that.
SizeInv ==
  /\ at["writing"] \in {"reset", "put", "answer"} => Weight = 0
  /\ ~raced =>
       /\ Weight <= MaxWireSize
       /\ \A t \in Threads : RequestWeight(t) <= MaxWireSize
       /\ Resetting => Weight = 0 /\ at["writing"] # "count"
       /\ ~Resetting /\ at["writing"] # "count" => wireSize = Weight
       /\ at["writing"] = "count" => adding.read + HandWeight = Weight
       /\ at["writing"] = "add" /\ ~Resetting => Weight + HandWeight <= MaxWireSize

LEMMA EventsMeasured ==
  ASSUME TypeInv, NEW es \in Seq(Nat), ToSet(es) \subseteq 1 .. Len(sizes)
  PROVE  AllMeasured(sizes, es, Len(es))
<1>0. Sizes \subseteq Nat
  BY SizeAssumption
<1>1. ASSUME NEW i \in 1 .. Len(es) PROVE sizes[es[i]] \in Nat
  <2>1. es[i] \in 1 .. Len(sizes)
    BY DEF ToSet
  <2>2. sizes[es[i]] \in Sizes
    BY <2>1 DEF TypeInv
  <2> QED BY <1>0, <2>2
<1> QED BY <1>1 DEF AllMeasured, Measured

LEMMA AllEventsMeasured ==
  ASSUME IInv
  PROVE  /\ AllMeasured(sizes, events, Len(events))
         /\ \A t \in Threads : AllMeasured(sizes, request[t].events, Len(request[t].events))
<1>1. HandedOn \in Nat /\ HandedOn <= Len(sizes) /\ Len(sizes) \in Nat
  BY DEF IInv, TypeInv, HandedOn
<1>2. /\ InBatch \subseteq 1 .. HandedOn
      /\ \A t \in Threads : InRequest(t) \subseteq 1 .. HandedOn
  BY DEF IInv, NoneIsMissing, Threads
<1>3. 1 .. HandedOn \subseteq 1 .. Len(sizes)
  BY <1>1
<1>4. events \in Seq(Nat) /\ ToSet(events) \subseteq 1 .. Len(sizes)
  BY <1>2, <1>3 DEF IInv, TypeInv, InBatch
<1>5. \A t \in Threads : /\ request[t].events \in Seq(Nat)
                         /\ ToSet(request[t].events) \subseteq 1 .. Len(sizes)
  BY <1>2, <1>3 DEF IInv, TypeInv, InRequest
<1> QED BY <1>4, <1>5, EventsMeasured DEF IInv

LEMMA WeightFacts ==
  ASSUME IInv
  PROVE  /\ Weight \in Nat
         /\ \A t \in Threads : RequestWeight(t) \in Nat
         /\ at["writing"] # "idle" => HandWeight \in 1 .. MaxWireSize
         /\ events = <<>> => Weight = 0
<1>1. Weight \in Nat /\ \A t \in Threads : RequestWeight(t) \in Nat
  BY AllEventsMeasured, TotalIsNatural DEF Weight, RequestWeight
<1>2. at["writing"] # "idle" => HandWeight \in 1 .. MaxWireSize
  <2> SUFFICES ASSUME at["writing"] # "idle" PROVE HandWeight \in Sizes
    BY SizeAssumption
  <2>1. sizes \in Seq(Sizes) /\ adding.event \in 1 .. Len(sizes)
    BY DEF IInv, TypeInv
  <2> QED BY <2>1 DEF HandWeight
<1>3. events = <<>> => Weight = 0
  BY TotalOfNone DEF Weight
<1> QED BY <1>1, <1>2, <1>3

\* What the steps do to the weights.
LEMMA SameWeights ==
  ASSUME UNCHANGED sizes
  PROVE  /\ UNCHANGED events => UNCHANGED Weight
         /\ \A t \in Threads : request'[t].events = request[t].events
                                 => RequestWeight(t)' = RequestWeight(t)
         /\ UNCHANGED adding.event => UNCHANGED HandWeight
BY DEF Weight, RequestWeight, HandWeight

LEMMA WriteWeighs ==
  ASSUME IInv, NEW size \in Sizes, Write(size)
  PROVE  /\ UNCHANGED Weight /\ HandWeight' = size
         /\ \A t \in Threads : RequestWeight(t)' = RequestWeight(t)
<1>1. /\ UNCHANGED <<events, request>>
      /\ adding'.event = Len(sizes) + 1 /\ sizes' = Append(sizes, size) /\ sizes \in Seq(Sizes)
  BY DEF Write, batch, IInv, TypeInv
<1>2. /\ sizes'[Len(sizes) + 1] = size
      /\ \A i \in 1 .. Len(sizes) : sizes'[i] = sizes[i]
  BY <1>1, AppendByElement
<1>3. HandWeight' = size
  BY <1>1, <1>2 DEF HandWeight
<1>4. ASSUME NEW es, NEW n, AllMeasured(sizes, es, n), ToSet(es) \subseteq 1 .. Len(sizes),
             DOMAIN es = 1 .. n
      PROVE  Total(sizes', es) = Total(sizes, es)
  <2>1. SameSizes(sizes', es, sizes, es, n)
    BY <1>2, <1>4 DEF SameSizes, ToSet
  <2> QED BY <1>4, <2>1, TotalsAgree
<1>5. HandedOn \in Nat /\ HandedOn <= Len(sizes) /\ Len(sizes) \in Nat
  BY DEF IInv, TypeInv, HandedOn
<1>6. /\ InBatch \subseteq 1 .. HandedOn
      /\ \A t \in Threads : InRequest(t) \subseteq 1 .. HandedOn
  BY DEF IInv, NoneIsMissing, Threads
<1>7. 1 .. HandedOn \subseteq 1 .. Len(sizes)
  BY <1>5
<1>8. /\ DOMAIN events = 1 .. Len(events)
      /\ \A t \in Threads : DOMAIN request[t].events = 1 .. Len(request[t].events)
  BY DEF IInv, TypeInv
<1>9. UNCHANGED Weight
  BY <1>1, <1>4, <1>6, <1>7, <1>8, AllEventsMeasured DEF Weight, InBatch
<1>10. \A t \in Threads : RequestWeight(t)' = RequestWeight(t)
  BY <1>1, <1>4, <1>6, <1>7, <1>8, AllEventsMeasured DEF RequestWeight, InRequest
<1> QED BY <1>3, <1>9, <1>10

LEMMA AddWeighs ==
  ASSUME IInv, Add
  PROVE  /\ Weight' = Weight + HandWeight /\ UNCHANGED HandWeight
         /\ \A t \in Threads : RequestWeight(t)' = RequestWeight(t)
<1>1. /\ UNCHANGED <<sizes, request>> /\ adding'.event = adding.event
      /\ events' = Append(events, adding.event) /\ at["writing"] = "add"
      /\ events \in Seq(Nat) /\ adding.event \in Nat
  BY DEF Add, Goes, IInv, TypeInv
<1>2. HandWeight \in Nat
  <2>1. HandWeight \in 1 .. MaxWireSize
    BY <1>1, WeightFacts
  <2> QED BY <2>1, SizeAssumption
<1>3. Weight' = Weight + HandWeight
  <2>1. Total(sizes, Append(events, adding.event)) = Total(sizes, events) + sizes[adding.event]
    BY <1>1, <1>2, AllEventsMeasured, TotalOfAppend DEF HandWeight
  <2> QED BY <1>1, <2>1 DEF Weight, HandWeight
<1> QED BY <1>1, <1>3, SameWeights

LEMMA TakeWeighs ==
  ASSUME IInv, NEW t \in Threads, Take(t)
  PROVE  /\ Weight' = 0 /\ UNCHANGED HandWeight
         /\ RequestWeight(t)' = Weight
         /\ \A u \in Threads : u # t => RequestWeight(u)' = RequestWeight(u)
<1>1. /\ UNCHANGED <<sizes, adding>> /\ events' = <<>> /\ request'[t].events = events
      /\ \A u \in Threads : u # t => request'[u] = request[u]
  BY TakeFacts DEF Take, IInv
<1>2. Weight' = 0
  BY <1>1, TotalOfNone DEF Weight
<1>3. RequestWeight(t)' = Weight
  BY <1>1 DEF RequestWeight, Weight
<1> QED BY <1>1, <1>2, <1>3, SameWeights

\* A request that is done with weighs nothing.
LEMMA DoneWeighs ==
  ASSUME IInv, NEW t \in Threads, Answer(t) \/ Fail(t)
  PROVE  /\ UNCHANGED <<Weight, HandWeight>>
         /\ RequestWeight(t)' = 0
         /\ \A u \in Threads : u # t => RequestWeight(u)' = RequestWeight(u)
<1>1. /\ UNCHANGED <<sizes, adding, events>> /\ request'[t].events = <<>>
      /\ \A u \in Threads : u # t => request'[u] = request[u]
  BY AnswerFacts, FailFacts DEF Answer, Fail, IInv, batch
<1>2. RequestWeight(t)' = 0
  BY <1>1, TotalOfNone DEF RequestWeight
<1> QED BY <1>1, <1>2, SameWeights

\* A step of a flush that neither takes events nor resets the size.
LEMMA SizeQuiet ==
  ASSUME IInv, SizeInv, NEW t \in Threads, NEW to \in Places,
         UNCHANGED <<wireSize, adding, raced, Weight, HandWeight>>,
         at[t] \notin {"reset", "add", "count"}, to \notin {"reset", "count"},
         at'[t] = to, \A u \in Threads : u # t => at'[u] = at[u],
         \A u \in Threads : RequestWeight(u)' \in {RequestWeight(u), 0},
         to = "add" => at[t] # "idle" /\ Weight = 0,
         t = "writing" /\ to \in {"put", "answer"} => at[t] \in {"put", "answer"}
  PROVE  SizeInv'
<1>1. Resetting' = Resetting
  <2>1. ASSUME Resetting PROVE Resetting'
    BY <2>1 DEF Resetting
  <2>2. ASSUME Resetting' PROVE Resetting
    BY <2>2 DEF Resetting
  <2>3. Resetting \in BOOLEAN
    BY DEF Resetting
  <2> QED BY <2>1, <2>2, <2>3 DEF Resetting
<1>2. (at'["writing"] = "count") <=> (at["writing"] = "count")
  BY DEF Threads
<1>3. at'["writing"] \in {"reset", "put", "answer"} => Weight' = 0
  BY DEF SizeInv, Threads
<1>4. MaxWireSize \in Nat
  BY SizeAssumption
<1>5. ASSUME ~raced
      PROVE  /\ Weight' <= MaxWireSize
             /\ \A u \in Threads : RequestWeight(u)' <= MaxWireSize
             /\ Resetting' => Weight' = 0 /\ at'["writing"] # "count"
             /\ ~Resetting' /\ at'["writing"] # "count" => wireSize' = Weight'
             /\ at'["writing"] = "count" => adding'.read + HandWeight' = Weight'
  BY <1>1, <1>2, <1>4, <1>5 DEF SizeInv
<1>6. ASSUME ~raced, at'["writing"] = "add", ~Resetting'
      PROVE  Weight' + HandWeight' <= MaxWireSize
  <2>1. CASE t = "writing"
    <3>1. Weight = 0 /\ HandWeight \in 1 .. MaxWireSize
      BY <1>6, <2>1, WeightFacts
    <3> QED BY <1>4, <3>1
  <2>2. CASE t # "writing"
    BY <1>1, <1>6, <2>2 DEF SizeInv, Threads
  <2> QED BY <2>1, <2>2
<1> QED BY <1>3, <1>5, <1>6 DEF SizeInv

LEMMA SizeKept ==
  ASSUME IInv, SizeInv, [Next]_vars
  PROVE  SizeInv'
<1>0. TypeInv /\ MaxWireSize \in Nat /\ wireSize \in Nat
  BY SizeAssumption DEF IInv, TypeInv
<1>1. ASSUME NEW size \in Sizes, Write(size) PROVE SizeInv'
  <2>1. /\ UNCHANGED <<wireSize, raced>> /\ adding'.read = adding.read
        /\ wireSize + size > MaxWireSize => at'["writing"] = "test"
        /\ at["writing"] = "idle" /\ at'["writing"] \in {"test", "add"}
        /\ \A u \in Threads : u # "writing" => at'[u] = at[u]
    BY <1>0, <1>1 DEF Write, Goes, batch, TypeInv, Threads
  <2>2. /\ UNCHANGED Weight /\ HandWeight' = size
        /\ \A t \in Threads : RequestWeight(t)' = RequestWeight(t)
    BY <1>1, WriteWeighs
  <2>3. Resetting' <=> Resetting
    BY <2>1 DEF Resetting
  <2>4. size \in Nat
    BY SizeAssumption
  <2>5. ASSUME ~raced, at'["writing"] = "add", ~Resetting'
        PROVE  Weight' + HandWeight' <= MaxWireSize
    BY <1>0, <2>1, <2>2, <2>3, <2>4, <2>5 DEF SizeInv
  <2> QED BY <2>1, <2>2, <2>3, <2>5 DEF SizeInv
<1>2. CASE Add
  <2>1. /\ UNCHANGED wireSize /\ adding'.read = wireSize
        /\ raced' = (raced \/ at["flushing"] = "reset")
        /\ at["writing"] = "add" /\ at'["writing"] = "count"
        /\ \A u \in Threads : u # "writing" => at'[u] = at[u]
    BY <1>0, <1>2 DEF Add, Goes, TypeInv, Threads
  <2>2. /\ Weight' = Weight + HandWeight /\ UNCHANGED HandWeight
        /\ \A t \in Threads : RequestWeight(t)' = RequestWeight(t)
    BY <1>2, AddWeighs
  <2>3. ASSUME ~raced' PROVE ~raced /\ ~Resetting /\ ~Resetting'
    BY <2>1, <2>3 DEF Resetting, Threads
  <2> QED BY <2>1, <2>2, <2>3 DEF SizeInv
<1>3. CASE Count
  <2>1. /\ UNCHANGED <<raced, sizes, events, adding, request>>
        /\ wireSize' = adding.read + HandWeight
        /\ at["writing"] = "count" /\ at'["writing"] = "idle"
        /\ \A u \in Threads : u # "writing" => at'[u] = at[u]
    BY <1>0, <1>3 DEF Count, Goes, TypeInv, Threads, HandWeight
  <2>2. UNCHANGED <<Weight, HandWeight>> /\ \A t \in Threads : RequestWeight(t)' = RequestWeight(t)
    BY <2>1, SameWeights
  <2>3. Resetting' <=> Resetting
    BY <2>1 DEF Resetting
  <2> QED BY <2>1, <2>2, <2>3 DEF SizeInv
<1>4. CASE CallFlush
  <2>1. /\ UNCHANGED <<wireSize, adding, raced, sizes, events, request>>
        /\ at["flushing"] = "idle" /\ at'["flushing"] = "test"
        /\ \A u \in Threads : u # "flushing" => at'[u] = at[u]
    BY <1>0, <1>4 DEF CallFlush, Goes, batch, TypeInv, Threads
  <2>2. "flushing" \in Threads /\ "test" \in Places
    BY DEF Threads, Places
  <2> QED BY <2>1, <2>2, SameWeights, SizeQuiet
<1>5. ASSUME NEW t \in Threads, Test(t) PROVE SizeInv'
  <2>1. /\ UNCHANGED <<wireSize, adding, raced, sizes, events, request>>
        /\ at[t] = "test" /\ at'[t] \in {"add", "idle", "token"}
        /\ at'[t] = "add" => events = <<>>
        /\ \A u \in Threads : u # t => at'[u] = at[u]
    BY <1>0, <1>5 DEF Test, Goes, Back, batch, TypeInv, Threads
  <2>2. {"add", "idle", "token"} \subseteq Places
    BY DEF Places
  <2> QED BY <2>1, <2>2, SameWeights, WeightFacts, SizeQuiet
<1>6. ASSUME NEW t \in Threads, ReadToken(t) PROVE SizeInv'
  <2>1. /\ UNCHANGED <<wireSize, adding, raced, sizes, events>>
        /\ \A u \in Threads : request'[u].events = request[u].events
        /\ at[t] = "token" /\ at'[t] = "take"
        /\ \A u \in Threads : u # t => at'[u] = at[u]
    BY <1>0, <1>6 DEF ReadToken, Goes, batch, TypeInv, Threads
  <2>2. "take" \in Places
    BY DEF Places
  <2> QED BY <2>1, <2>2, SameWeights, SizeQuiet
<1>7. ASSUME NEW t \in Threads, Take(t) PROVE SizeInv'
  <2>1. /\ UNCHANGED <<wireSize, adding, raced>>
        /\ at'[t] = "reset" /\ at["writing"] # "count" /\ at[t] = "take"
        /\ \A u \in Threads : u # t => at'[u] = at[u]
    BY <1>0, <1>7, TakeFacts DEF Take, TypeInv
  <2>2. /\ Weight' = 0 /\ UNCHANGED HandWeight
        /\ RequestWeight(t)' = Weight
        /\ \A u \in Threads : u # t => RequestWeight(u)' = RequestWeight(u)
    BY <1>7, TakeWeighs
  <2>3. Resetting' /\ at'["writing"] # "count"
    BY <2>1 DEF Resetting, Threads
  <2>4. ASSUME ~raced, NEW u \in Threads PROVE RequestWeight(u)' <= MaxWireSize
    BY <2>2, <2>4 DEF SizeInv
  <2> QED BY <1>0, <2>1, <2>2, <2>3, <2>4 DEF SizeInv
<1>8. ASSUME NEW t \in Threads, Reset(t) PROVE SizeInv'
  <2>1. /\ UNCHANGED <<adding, raced, sizes, events, request>> /\ wireSize' = 0
        /\ at[t] = "reset" /\ at'[t] = "put"
        /\ \A u \in Threads : u # t => at'[u] = at[u]
    BY <1>0, <1>8 DEF Reset, Goes, TypeInv
  <2>2. UNCHANGED <<Weight, HandWeight>> /\ \A u \in Threads : RequestWeight(u)' = RequestWeight(u)
    BY <2>1, SameWeights
  <2>3. Resetting
    BY <2>1 DEF Resetting
  <2>4. ASSUME ~raced PROVE Weight = 0 /\ at'["writing"] # "count"
    BY <2>1, <2>3, <2>4 DEF SizeInv, Threads
  <2>5. ASSUME at'["writing"] \in {"reset", "put", "answer"} PROVE Weight = 0
    <3>1. at["writing"] \in {"reset", "put", "answer"}
      BY <2>1, <2>5 DEF Threads
    <3> QED BY <3>1 DEF SizeInv
  <2>6. ASSUME ~raced, at'["writing"] = "add" PROVE Weight' + HandWeight' <= MaxWireSize
    <3>1. at["writing"] # "idle"
      BY <2>1, <2>6 DEF Threads
    <3>2. Weight = 0 /\ HandWeight \in 1 .. MaxWireSize
      BY <2>4, <2>6, <3>1, WeightFacts
    <3> QED BY <1>0, <2>2, <3>2
  <2> QED BY <1>0, <2>1, <2>2, <2>4, <2>5, <2>6 DEF SizeInv
<1>9. ASSUME NEW t \in Threads, Put(t) \/ PutIsLost(t) \/ AnswerIsLost(t) PROVE SizeInv'
  <2>1. /\ UNCHANGED <<wireSize, adding, raced, sizes, events, request>>
        /\ at[t] \in {"put", "answer"} /\ at'[t] \in {"answer", "error"}
        /\ \A u \in Threads : u # t => at'[u] = at[u]
    BY <1>0, <1>9 DEF Put, PutIsLost, AnswerIsLost, Goes, batch, TypeInv
  <2>2. {"answer", "error"} \subseteq Places
    BY DEF Places
  <2> QED BY <2>1, <2>2, SameWeights, SizeQuiet
<1>10. ASSUME NEW t \in Threads, Answer(t) \/ Fail(t) PROVE SizeInv'
  <2>1. /\ UNCHANGED <<wireSize, adding, raced>>
        /\ at[t] \in {"answer", "error"} /\ at'[t] \in {"add", "idle"}
        /\ at'[t] = "add" => t = "writing" /\ at[t] = "answer"
        /\ \A u \in Threads : u # t => at'[u] = at[u]
    BY <1>0, <1>10 DEF Answer, Fail, Goes, Back, batch, TypeInv
  <2>2. /\ UNCHANGED <<Weight, HandWeight>>
        /\ \A u \in Threads : RequestWeight(u)' \in {RequestWeight(u), 0}
    BY <1>10, DoneWeighs
  <2>3. {"add", "idle"} \subseteq Places
    BY DEF Places
  <2>4. at'[t] = "add" => Weight = 0
    BY <2>1 DEF SizeInv
  <2> QED BY <2>1, <2>2, <2>3, <2>4, SizeQuiet
<1>11. CASE UNCHANGED vars
  <2>1. UNCHANGED <<wireSize, adding, raced, sizes, events, request, at>>
    BY <1>11 DEF vars, batch, threads
  <2>2. /\ UNCHANGED <<Weight, HandWeight>>
        /\ \A u \in Threads : RequestWeight(u)' = RequestWeight(u)
    BY <2>1, SameWeights
  <2> QED BY <2>1, <2>2 DEF SizeInv, Resetting
<1> QED BY <1>1, <1>2, <1>3, <1>4, <1>5, <1>6, <1>7, <1>8, <1>9, <1>10, <1>11 DEF Next

LEMMA SizeHolds ==
  ASSUME Init
  PROVE  SizeInv
<1>1. Weight = 0 /\ \A t \in Threads : RequestWeight(t) = 0
  BY TotalOfNone DEF Init, Weight, RequestWeight, NoRequest
<1>2. wireSize = 0 /\ \A t \in Threads : at[t] = "idle"
  BY DEF Init
<1> QED BY <1>1, <1>2, SizeAssumption DEF SizeInv, Resetting, Threads

\* No request is larger than the service takes, for any batch size, limit and sizes of
\* events, as long as no event is added between another flush's taking and resetting.
THEOREM RequestsStayInSize == Spec => []RequestsFit
<1> DEFINE Inv == IInv /\ SizeInv
<1>1. Init => Inv
  BY IInvHolds, SizeHolds
<1>2. Inv /\ [Next]_vars => Inv'
  BY IInvKept, SizeKept
<1>3. Inv => RequestsFit
  <2>1. \A t \in Threads : SizeOf(request[t].events) = RequestWeight(t)
    BY Zenon DEF SizeOf, RequestWeight, Total
  <2> QED BY <2>1 DEF SizeInv, RequestsFit
<1> QED BY <1>1, <1>2, <1>3, PTL DEF Spec

-----------------------------------------------------------------------------
(* What filters do to the writer, and in which order it comes out.         *)

\* What begins with start and makes each value from the one before.
FoldsFrom(f, start, step, N) == f = [k \in 0 .. N |-> IF k = 0 THEN start ELSE step[k][f[k - 1]]]

LEMMA FoldExists ==
  ASSUME NEW S, NEW N \in Nat, NEW start, NEW step,
         start \in S[0], \A k \in 1 .. N : \A x \in S[k - 1] : step[k][x] \in S[k]
  PROVE  \E f : FoldsFrom(f, start, step, N) /\ \A k \in 0 .. N : f[k] \in S[k]
<1> DEFINE Good(f, n) == FoldsFrom(f, start, step, n) /\ \A k \in 0 .. n : f[k] \in S[k]
           P == {n \in Nat : n <= N => \E f : Good(f, n)}
<1>1. 0 \in P
  <2> DEFINE f == [k \in 0 .. 0 |-> start]
  <2>1. f = [k \in 0 .. 0 |-> IF k = 0 THEN start ELSE step[k][f[k - 1]]]
    OBVIOUS
  <2>2. Good(f, 0)
    BY <2>1 DEF FoldsFrom
  <2> QED BY <2>2
<1>2. ASSUME NEW n \in Nat, n \in P PROVE n + 1 \in P
  <2> SUFFICES ASSUME n + 1 <= N PROVE \E f : Good(f, n + 1)
    OBVIOUS
  <2> PICK f : Good(f, n)
    BY <1>2
  <2> DEFINE g == [k \in 0 .. n + 1 |-> IF k <= n THEN f[k] ELSE step[n + 1][f[n]]]
  <2>1. f[0] = start /\ \A k \in 1 .. n : f[k] = step[k][f[k - 1]]
    BY DEF FoldsFrom
  <2>2. ASSUME NEW k \in 0 .. n + 1 PROVE g[k] = IF k = 0 THEN start ELSE step[k][g[k - 1]]
    <3>1. CASE k = 0
      BY <2>1, <3>1
    <3>2. CASE k \in 1 .. n
      <4>1. g[k] = f[k] /\ g[k - 1] = f[k - 1]
        BY <3>2
      <4> QED BY <2>1, <3>2, <4>1
    <3>3. CASE k = n + 1
      <4>1. g[k] = step[n + 1][f[n]] /\ g[n] = f[n] /\ k - 1 = n
        BY <3>3
      <4> QED BY <3>3, <4>1
    <3> QED BY <3>1, <3>2, <3>3
  <2>3. ASSUME NEW k \in 0 .. n + 1 PROVE g[k] \in S[k]
    <3>1. CASE k <= n
      BY <3>1
    <3>2. CASE k = n + 1
      <4>1. g[k] = step[n + 1][f[n]] /\ f[n] \in S[n] /\ n + 1 \in 1 .. N
        BY <3>2
      <4> QED BY <3>2, <4>1
    <3> QED BY <3>1, <3>2
  <2>4. g = [k \in 0 .. n + 1 |-> IF k = 0 THEN start ELSE step[k][g[k - 1]]]
    BY <2>2
  <2>5. Good(g, n + 1)
    BY <2>3, <2>4 DEF FoldsFrom
  <2> QED BY <2>5
<1> HIDE DEF P
<1>3. N \in P
  BY <1>1, <1>2, Induction
<1> QED BY <1>3 DEF P

LEMMA FoldStays ==
  ASSUME NEW S, NEW N \in Nat, NEW f,
         f[0] \in S[0], \A k \in 1 .. N : f[k - 1] \in S[k - 1] => f[k] \in S[k]
  PROVE  f[N] \in S[N]
<1> DEFINE P == {n \in Nat : n <= N => f[n] \in S[n]}
<1>1. 0 \in P
  OBVIOUS
<1>2. ASSUME NEW n \in Nat, n \in P PROVE n + 1 \in P
  <2> SUFFICES ASSUME n + 1 <= N PROVE f[n + 1] \in S[n + 1]
    OBVIOUS
  <2>1. f[n] \in S[n] /\ n + 1 \in 1 .. N /\ (n + 1) - 1 = n
    BY <1>2
  <2> QED BY <2>1
<1> HIDE DEF P
<1>3. N \in P
  BY <1>1, <1>2, Induction
<1> QED BY <1>3 DEF P

Words == Messages \cup {"notice", "none"}
Entries == [id : Nat, level : Int, message : Words, times : Nat]
WriterStates ==
  [kind : {"queue", "email", "direct"}, max : Nat, count : Nat, held : Seq(Entries),
   sent : Seq(Entries), luck : Int, threw : BOOLEAN]
Evaluations ==
  [writer : WriterStates, verdict : {"NEUTRAL", "ACCEPT", "DENY"},
   duplicate : [count : Nat, message : Words], cache : Seq(Entries)]

\* What an evaluation may leave of the collected events.
Keeps(w, held) ==
  \/ held = w.held
  \/ w.kind = "email" /\ w.held # <<>> /\ held = Tail(w.held)
  \/ w.kind = "direct" /\ held = <<>>

\* What write_impl makes of a writer: it collects the event, sends it, or throws.
Wrote(w, v, e) ==
  /\ v \in WriterStates /\ v.kind = w.kind /\ v.max = w.max
  /\ w.kind = "direct" => v.held = <<>>
  /\ \E held \in Seq(Entries) :
       /\ Keeps(w, held)
       /\ \/ ~v.threw /\ v.sent = w.sent /\ v.held = Append(held, e)
          \/ ~v.threw /\ v.sent = w.sent \o Append(held, e) /\ v.held = <<>>
          \/ v.threw /\ v.sent = w.sent /\ v.held = <<>>

LEMMA SendFacts ==
  ASSUME NEW w \in WriterStates, ~w.threw
  PROVE  LET v == Filtered!Send(w)
         IN  /\ v \in WriterStates /\ v.kind = w.kind /\ v.max = w.max /\ v.count = w.count
             /\ v.held = <<>>
             /\ \/ ~v.threw /\ v.sent = w.sent \o w.held
                \/ v.threw /\ v.sent = w.sent
<1> DEFINE v == Filtered!Send(w)
<1>1. w.sent \o w.held \in Seq(Entries) /\ <<>> \in Seq(Entries)
  BY DEF WriterStates
<1>2. CASE w.luck > 0
  <2>1. v = [w EXCEPT !.sent = w.sent \o w.held, !.held = <<>>, !.luck = w.luck - 1]
    BY <1>2 DEF Filtered!Send
  <2> HIDE DEF v
  <2>2. v.held = <<>> /\ ~v.threw /\ v.sent = w.sent \o w.held
    BY <2>1 DEF WriterStates
  <2>3. v.kind = w.kind /\ v.max = w.max /\ v.count = w.count
    BY <2>1 DEF WriterStates
  <2>4. w.luck - 1 \in Int
    BY <1>2 DEF WriterStates
  <2>5. v \in WriterStates
    <3> DEFINE sent == w.sent \o w.held
               luck == w.luck - 1
    <3>1. v = [w EXCEPT !.sent = sent, !.held = <<>>, !.luck = luck]
      BY <2>1
    <3>2. sent \in Seq(Entries) /\ luck \in Int
      BY <1>1, <2>4
    <3> HIDE DEF sent, luck
    <3> QED BY <1>1, <3>1, <3>2 DEF WriterStates
  <2> QED BY <2>2, <2>3, <2>5 DEF v
<1>3. CASE ~(w.luck > 0)
  <2>1. v = [w EXCEPT !.held = <<>>, !.threw = TRUE]
    BY <1>3 DEF Filtered!Send
  <2> HIDE DEF v
  <2>2. v \in WriterStates /\ v.held = <<>> /\ v.threw /\ v.sent = w.sent
    BY <1>1, <2>1 DEF WriterStates
  <2>3. v.kind = w.kind /\ v.max = w.max /\ v.count = w.count
    BY <2>1 DEF WriterStates
  <2> QED BY <2>2, <2>3 DEF v
<1> QED BY <1>2, <1>3

LEMMA HeldFacts ==
  ASSUME NEW w \in WriterStates, NEW held \in Seq(Entries)
  PROVE  LET v == [w EXCEPT !.held = held]
         IN  /\ v \in WriterStates /\ v.kind = w.kind /\ v.max = w.max /\ v.count = w.count
             /\ v.held = held /\ v.sent = w.sent /\ v.threw = w.threw
  BY DEF WriterStates

LEMMA WriteImplFacts ==
  ASSUME NEW w \in WriterStates, ~w.threw, NEW e \in Entries,
         Filtered!BufferAssumption
  PROVE  Wrote(w, Filtered!WriteImpl(w, e), e)
<1> DEFINE v == Filtered!WriteImpl(w, e)
<1>1. CASE w.kind = "queue"
  <2> DEFINE c == Filtered!Collect(w, e)
             s == Filtered!Send(c)
  <2>1. /\ c \in WriterStates /\ ~c.threw /\ c.kind = w.kind /\ c.max = w.max
        /\ c.sent = w.sent /\ c.held = Append(w.held, e)
    <3> DEFINE held == Append(w.held, e)
               count == w.count + 1
    <3>1. held \in Seq(Entries) /\ count \in Nat
      BY DEF WriterStates
    <3>2. c = [w EXCEPT !.held = held, !.count = count]
      BY DEF Filtered!Collect
    <3> HIDE DEF c, held, count
    <3>3. c \in WriterStates
      BY <3>1, <3>2 DEF WriterStates
    <3>4. /\ ~c.threw /\ c.kind = w.kind /\ c.max = w.max
          /\ c.sent = w.sent /\ c.held = held
      BY <3>2 DEF WriterStates
    <3> QED BY <3>3, <3>4 DEF held
  <2>2. /\ s \in WriterStates /\ s.kind = c.kind /\ s.max = c.max /\ s.held = <<>>
        /\ \/ ~s.threw /\ s.sent = c.sent \o c.held
           \/ s.threw /\ s.sent = c.sent
    BY <2>1, SendFacts
  <2>3. v = IF c.count = c.max THEN IF s.threw THEN s ELSE [s EXCEPT !.count = 0] ELSE c
    BY <1>1 DEF Filtered!WriteImpl, Filtered!WriteToQueue, Filtered!Flush
  <2>4. w.held \in Seq(Entries) /\ Keeps(w, w.held)
    BY DEF WriterStates, Keeps
  <2> HIDE DEF v, c, s
  <2>5. ASSUME v = c PROVE Wrote(w, v, e)
    BY <1>1, <2>1, <2>4, <2>5 DEF Wrote
  <2>6. ASSUME v = s \/ v = [s EXCEPT !.count = 0] PROVE Wrote(w, v, e)
    <3>1. /\ v \in WriterStates /\ v.kind = s.kind /\ v.max = s.max /\ v.held = s.held
          /\ v.sent = s.sent /\ v.threw = s.threw
      BY <2>2, <2>6 DEF WriterStates
    <3> QED BY <1>1, <2>1, <2>2, <2>4, <3>1 DEF Wrote
  <2>7. Wrote(w, v, e)
    BY <2>3, <2>5, <2>6
  <2> QED BY <2>7 DEF v
<1>2. CASE w.kind = "email"
  <2> DEFINE c == Filtered!Buffer(w, e)
             held == IF Len(w.held) >= BufferCapacity THEN Tail(w.held) ELSE w.held
             s == Filtered!Send(c)
  <2>1. held \in Seq(Entries) /\ Keeps(w, held)
    BY <1>2 DEF WriterStates, Keeps, Filtered!BufferAssumption
  <2> HIDE DEF held
  <2>2. c = [w EXCEPT !.held = Append(held, e)]
    BY DEF Filtered!Buffer, held
  <2>3. /\ c \in WriterStates /\ ~c.threw /\ c.kind = w.kind /\ c.max = w.max
        /\ c.sent = w.sent /\ c.held = Append(held, e)
    <3> DEFINE all == Append(held, e)
    <3>1. all \in Seq(Entries)
      BY <2>1
    <3> HIDE DEF all
    <3>2. c = [w EXCEPT !.held = all]
      BY <2>2 DEF all
    <3> HIDE DEF c
    <3>3. /\ c \in WriterStates /\ c.threw = w.threw /\ c.kind = w.kind /\ c.max = w.max
          /\ c.sent = w.sent /\ c.held = all
      BY <3>1, <3>2, HeldFacts
    <3> QED BY <3>3 DEF all
  <2>4. /\ s \in WriterStates /\ s.kind = c.kind /\ s.max = c.max /\ s.held = <<>>
        /\ \/ ~s.threw /\ s.sent = c.sent \o c.held
           \/ s.threw /\ s.sent = c.sent
    BY <2>3, SendFacts
  <2>5. v = c \/ v = s
    BY <1>2 DEF Filtered!WriteImpl, Filtered!WriteMail
  <2> HIDE DEF v, c, s
  <2>6. Wrote(w, v, e)
    BY <1>2, <2>1, <2>3, <2>4, <2>5 DEF Wrote
  <2> QED BY <2>6 DEF v
<1>3. CASE w.kind = "direct"
  <2> DEFINE c == [w EXCEPT !.held = <<e>>]
             s == Filtered!Send(c)
  <2>1. /\ c \in WriterStates /\ ~c.threw /\ c.kind = w.kind /\ c.max = w.max
        /\ c.sent = w.sent /\ c.held = Append(<<>>, e)
    <3>1. <<e>> \in Seq(Entries) /\ <<e>> = Append(<<>>, e)
      OBVIOUS
    <3> QED BY <3>1, HeldFacts
  <2> HIDE DEF c
  <2>2. /\ s \in WriterStates /\ s.kind = c.kind /\ s.max = c.max /\ s.held = <<>>
        /\ \/ ~s.threw /\ s.sent = c.sent \o c.held
           \/ s.threw /\ s.sent = c.sent
    BY <2>1, SendFacts
  <2>3. v = s
    BY <1>3 DEF Filtered!WriteImpl, c
  <2>4. <<>> \in Seq(Entries) /\ Keeps(w, <<>>)
    BY <1>3 DEF Keeps
  <2> HIDE DEF v, s
  <2>5. Wrote(w, v, e)
    BY <2>1, <2>2, <2>3, <2>4 DEF Wrote
  <2> QED BY <2>5 DEF v
<1> QED BY <1>1, <1>2, <1>3 DEF WriterStates

\* What comes out after a may be b.
ComesBefore(a, b) ==
  a.message # "notice" /\ b.message # "notice" =>
    /\ a.id # b.id
    /\ Filtered!IsCached(b) /\ (Filtered!IsCached(a) \/ a.level >= ReleaseThreshold)
         => a.id < b.id
Ordered(s) == \A i, j \in DOMAIN s : i < j => ComesBefore(s[i], s[j])
AllBefore(s, t) == \A i \in DOMAIN s, j \in DOMAIN t : ComesBefore(s[i], t[j])
EndsBefore(s, e) == \A i \in DOMAIN s : ComesBefore(s[i], e)
BeginsAfter(e, t) == \A j \in DOMAIN t : ComesBefore(e, t[j])

LEMMA AppendedEntry ==
  ASSUME NEW T, NEW s \in Seq(T), NEW e
  PROVE  LET t == Append(s, e)
         IN  \A i \in DOMAIN t : /\ t[i] = e \/ (i \in DOMAIN s /\ t[i] = s[i])
                                 /\ \A j \in DOMAIN t : i < j => i \in DOMAIN s /\ t[i] = s[i]
  OBVIOUS

LEMMA AppendInOrder ==
  ASSUME NEW s \in Seq(Entries), NEW e, Ordered(s), EndsBefore(s, e)
  PROVE  Ordered(Append(s, e))
<1> DEFINE t == Append(s, e)
<1> SUFFICES ASSUME NEW i \in DOMAIN t, NEW j \in DOMAIN t, i < j PROVE ComesBefore(t[i], t[j])
  BY DEF Ordered
<1>1. i \in DOMAIN s /\ t[i] = s[i] /\ (t[j] = e \/ (j \in DOMAIN s /\ t[j] = s[j]))
  BY AppendedEntry
<1> QED BY <1>1 DEF Ordered, EndsBefore

LEMMA AppendedBetween ==
  ASSUME NEW s \in Seq(Entries), NEW e, NEW t
  PROVE  /\ AllBefore(s, t) /\ BeginsAfter(e, t) => AllBefore(Append(s, e), t)
         /\ AllBefore(t, s) /\ EndsBefore(t, e) => AllBefore(t, Append(s, e))
<1>1. \A i \in DOMAIN Append(s, e) :
        Append(s, e)[i] = e \/ (i \in DOMAIN s /\ Append(s, e)[i] = s[i])
  BY AppendedEntry
<1> QED BY <1>1 DEF AllBefore, BeginsAfter, EndsBefore

LEMMA TailByElement ==
  ASSUME NEW T, NEW s \in Seq(T), s # <<>>
  PROVE  /\ Tail(s) \in Seq(T)
         /\ \A i \in DOMAIN Tail(s) : i \in Int /\ i + 1 \in DOMAIN s /\ Tail(s)[i] = s[i + 1]
         /\ 1 \in DOMAIN s /\ \A i \in DOMAIN Tail(s) : 1 < i + 1
  OBVIOUS

LEMMA TailInOrder ==
  ASSUME NEW s \in Seq(Entries), s # <<>>, NEW t
  PROVE  /\ Tail(s) \in Seq(Entries)
         /\ Ordered(s) => Ordered(Tail(s)) /\ BeginsAfter(s[1], Tail(s))
         /\ AllBefore(s, t) => AllBefore(Tail(s), t)
         /\ AllBefore(t, s) => AllBefore(t, Tail(s)) /\ EndsBefore(t, s[1])
<1>1. /\ Tail(s) \in Seq(Entries)
      /\ \A i \in DOMAIN Tail(s) : i \in Int /\ i + 1 \in DOMAIN s /\ Tail(s)[i] = s[i + 1]
      /\ 1 \in DOMAIN s /\ \A i \in DOMAIN Tail(s) : 1 < i + 1
  BY TailByElement
<1>2. \A i, j \in DOMAIN Tail(s) : i < j => i + 1 < j + 1
  BY <1>1
<1>3. Ordered(s) => Ordered(Tail(s)) /\ BeginsAfter(s[1], Tail(s))
  BY <1>1, <1>2 DEF Ordered, BeginsAfter
<1> QED BY <1>1, <1>3 DEF AllBefore, EndsBefore

LEMMA ConcatenatedEntry ==
  ASSUME NEW T, NEW s \in Seq(T), NEW t \in Seq(T), NEW i \in DOMAIN (s \o t)
  PROVE  \/ i \in DOMAIN s /\ (s \o t)[i] = s[i]
         \/ /\ i \in Int /\ i - Len(s) \in DOMAIN t /\ (s \o t)[i] = t[i - Len(s)]
            /\ \A k \in DOMAIN s : k < i
  OBVIOUS

LEMMA ConcatInOrder ==
  ASSUME NEW s \in Seq(Entries), NEW t \in Seq(Entries),
         Ordered(s), Ordered(t), AllBefore(s, t)
  PROVE  Ordered(s \o t)
<1> SUFFICES ASSUME NEW i \in DOMAIN (s \o t), NEW j \in DOMAIN (s \o t), i < j
             PROVE  ComesBefore((s \o t)[i], (s \o t)[j])
  BY DEF Ordered
<1>1. \/ i \in DOMAIN s /\ (s \o t)[i] = s[i]
      \/ /\ i \in Int /\ i - Len(s) \in DOMAIN t /\ (s \o t)[i] = t[i - Len(s)]
         /\ \A k \in DOMAIN s : k < i
  BY ConcatenatedEntry
<1>2. \/ j \in DOMAIN s /\ (s \o t)[j] = s[j]
      \/ /\ j \in Int /\ j - Len(s) \in DOMAIN t /\ (s \o t)[j] = t[j - Len(s)]
         /\ \A k \in DOMAIN s : k < j
  BY ConcatenatedEntry
<1>3. CASE i \in DOMAIN s /\ (s \o t)[i] = s[i]
  BY <1>2, <1>3 DEF Ordered, AllBefore
<1>4. CASE /\ i \in Int /\ i - Len(s) \in DOMAIN t /\ (s \o t)[i] = t[i - Len(s)]
           /\ \A k \in DOMAIN s : k < i
  <2>1. j \notin DOMAIN s
    BY <1>4
  <2>2. /\ j - Len(s) \in DOMAIN t /\ (s \o t)[j] = t[j - Len(s)]
        /\ i - Len(s) < j - Len(s)
    BY <1>2, <1>4, <2>1
  <2> QED BY <1>4, <2>2 DEF Ordered
<1> QED BY <1>1, <1>3, <1>4

LEMMA ConcatBetween ==
  ASSUME NEW s \in Seq(Entries), NEW t \in Seq(Entries), NEW u,
         AllBefore(s, u), AllBefore(t, u)
  PROVE  AllBefore(s \o t, u)
<1> SUFFICES ASSUME NEW i \in DOMAIN (s \o t), NEW j \in DOMAIN u
             PROVE  ComesBefore((s \o t)[i], u[j])
  BY DEF AllBefore
<1>1. \/ i \in DOMAIN s /\ (s \o t)[i] = s[i]
      \/ i - Len(s) \in DOMAIN t /\ (s \o t)[i] = t[i - Len(s)]
  BY ConcatenatedEntry
<1> QED BY <1>1 DEF AllBefore

\* What is sent, collected and cached comes out in order if it does so one after another.
Parts(w, c) ==
  /\ Ordered(w.sent) /\ Ordered(w.held) /\ Ordered(c)
  /\ AllBefore(w.sent, w.held) /\ AllBefore(w.sent, c) /\ AllBefore(w.held, c)

LEMMA EmptyInOrder ==
  ASSUME NEW t, NEW e
  PROVE  /\ Ordered(<<>>) /\ AllBefore(<<>>, t) /\ AllBefore(t, <<>>)
         /\ EndsBefore(<<>>, e) /\ BeginsAfter(e, <<>>)
<1>1. DOMAIN << >> = {}
  OBVIOUS
<1> QED BY <1>1 DEF Ordered, AllBefore, EndsBefore, BeginsAfter

LEMMA WroteInOrder ==
  ASSUME NEW w \in WriterStates, NEW v, NEW e \in Entries, NEW c, Wrote(w, v, e), Parts(w, c),
         EndsBefore(w.sent, e), EndsBefore(w.held, e), BeginsAfter(e, c)
  PROVE  Parts(v, c)
<1>1. PICK held \in Seq(Entries) :
        /\ Keeps(w, held)
        /\ \/ ~v.threw /\ v.sent = w.sent /\ v.held = Append(held, e)
           \/ ~v.threw /\ v.sent = w.sent \o Append(held, e) /\ v.held = <<>>
           \/ v.threw /\ v.sent = w.sent /\ v.held = <<>>
  BY DEF Wrote
<1>2. w.sent \in Seq(Entries) /\ w.held \in Seq(Entries)
  BY DEF WriterStates
<1>3. Ordered(held) /\ AllBefore(w.sent, held) /\ AllBefore(held, c) /\ EndsBefore(held, e)
  <2>1. CASE held = w.held
    BY <2>1 DEF Parts
  <2>2. CASE w.held # <<>> /\ held = Tail(w.held)
    <3>1. Ordered(held) /\ AllBefore(w.sent, held) /\ AllBefore(held, c)
      BY <1>2, <2>2, TailInOrder DEF Parts
    <3>2. EndsBefore(held, e)
      BY <1>2, <2>2, TailByElement DEF EndsBefore
    <3> QED BY <3>1, <3>2
  <2>3. CASE held = <<>>
    BY <2>3, EmptyInOrder
  <2> QED BY <1>1, <2>1, <2>2, <2>3 DEF Keeps
<1> DEFINE all == Append(held, e)
<1>4. /\ all \in Seq(Entries)
      /\ Ordered(all) /\ AllBefore(w.sent, all) /\ AllBefore(all, c)
  BY <1>3, AppendInOrder, AppendedBetween
<1> HIDE DEF all
<1>5. /\ Ordered(w.sent \o all) /\ AllBefore(w.sent \o all, c)
  BY <1>2, <1>4, ConcatInOrder, ConcatBetween DEF Parts
<1>6. \A t : Ordered(<<>>) /\ AllBefore(<<>>, t) /\ AllBefore(t, <<>>)
  BY EmptyInOrder
<1>7. Ordered(w.sent) /\ Ordered(c) /\ AllBefore(w.sent, c)
  BY DEF Parts
<1>8. \/ v.sent = w.sent /\ v.held = all
      \/ v.sent = w.sent \o all /\ v.held = <<>>
      \/ v.sent = w.sent /\ v.held = <<>>
  BY <1>1 DEF all
<1> QED BY <1>4, <1>5, <1>6, <1>7, <1>8 DEF Parts

\* Nothing is made up.
LEMMA WroteOnly ==
  ASSUME NEW T, NEW w, NEW v, NEW e \in T, Wrote(w, v, e), T \subseteq Entries,
         w.sent \in Seq(T), w.held \in Seq(T)
  PROVE  v.sent \in Seq(T) /\ v.held \in Seq(T)
<1>1. PICK held \in Seq(Entries) :
        /\ Keeps(w, held)
        /\ \/ ~v.threw /\ v.sent = w.sent /\ v.held = Append(held, e)
           \/ ~v.threw /\ v.sent = w.sent \o Append(held, e) /\ v.held = <<>>
           \/ v.threw /\ v.sent = w.sent /\ v.held = <<>>
  BY DEF Wrote
<1>2. held \in Seq(T)
  <2>1. <<>> \in Seq(T) /\ (w.held # <<>> => Tail(w.held) \in Seq(T))
    OBVIOUS
  <2> QED BY <1>1, <2>1 DEF Keeps
<1>3. Append(held, e) \in Seq(T) /\ <<>> \in Seq(T) /\ w.sent \o Append(held, e) \in Seq(T)
  BY <1>2
<1> QED BY <1>1, <1>3

\* What releasing keeps from each event to the next, it keeps.
LEMMA ReleasedStays ==
  ASSUME NEW S, NEW s, s.cache \in Seq(Entries),
         s \in S[0],
         \A k \in 1 .. Len(s.cache) : \A x \in S[k - 1] : Filtered!Uncache(x, s.cache[k]) \in S[k]
  PROVE  Filtered!Released(s) \in S[Len(s.cache)]
<1> DEFINE n == Len(s.cache)
           step == [k \in 1 .. n |-> [x \in S[k - 1] |-> Filtered!Uncache(x, s.cache[k])]]
           Is(f) == f = [k \in 0 .. n |->
                           IF k = 0 THEN s ELSE Filtered!Uncache(f[k - 1], s.cache[k])]
           h == CHOOSE f : Is(f)
<1>1. n \in Nat
  OBVIOUS
<1>2. Filtered!Released(s) = h[n]
  BY Zenon DEF Filtered!Released
<1> HIDE DEF n
<1>3. \A k \in 1 .. n : \A x \in S[k - 1] : step[k][x] = Filtered!Uncache(x, s.cache[k])
  OBVIOUS
<1>4. \A k \in 1 .. n : \A x \in S[k - 1] : Filtered!Uncache(x, s.cache[k]) \in S[k]
  BY DEF n
<1> HIDE DEF step
<1>5. PICK g : FoldsFrom(g, s, step, n) /\ \A k \in 0 .. n : g[k] \in S[k]
  <2>1. \A k \in 1 .. n : \A x \in S[k - 1] : step[k][x] \in S[k]
    BY <1>3, <1>4
  <2> QED BY <1>1, <2>1, FoldExists
<1>6. Is(g)
  <2>1. g = [k \in 0 .. n |-> g[k]]
    BY <1>5 DEF FoldsFrom
  <2>2. ASSUME NEW k \in 0 .. n
        PROVE  g[k] = IF k = 0 THEN s ELSE Filtered!Uncache(g[k - 1], s.cache[k])
    <3>1. g[k] = IF k = 0 THEN s ELSE step[k][g[k - 1]]
      BY <1>5 DEF FoldsFrom
    <3>2. CASE k # 0
      <4>1. k \in 1 .. n /\ k - 1 \in 0 .. n
        BY <1>1, <3>2
      <4>2. step[k][g[k - 1]] = Filtered!Uncache(g[k - 1], s.cache[k])
        BY <1>3, <1>5, <4>1
      <4> QED BY <3>1, <3>2, <4>2
    <3> QED BY <3>1, <3>2
  <2> QED BY <2>1, <2>2
<1>7. Is(h)
  <2>1. \E f : Is(f)
    BY <1>6
  <2> QED BY <2>1, Zenon
<1> HIDE DEF h
<1>8. h[0] = s /\ \A k \in 1 .. n : h[k] = Filtered!Uncache(h[k - 1], s.cache[k])
  <2>1. \A k \in 0 .. n : h[k] = IF k = 0 THEN s ELSE Filtered!Uncache(h[k - 1], s.cache[k])
    BY <1>7
  <2>2. 0 \in 0 .. n /\ \A k \in 1 .. n : k \in 0 .. n /\ k # 0
    BY <1>1
  <2> QED BY <2>1, <2>2
<1> HIDE DEF Is
<1>9. h[n] \in S[n]
  <2>1. \A k \in 1 .. n : h[k - 1] \in S[k - 1] => h[k] \in S[k]
    BY <1>4, <1>8
  <2> QED BY <1>1, <1>8, <2>1, FoldStays
<1> QED BY <1>2, <1>9 DEF n

\* What each filter leaves, all leave.
LEMMA PermittedStays ==
  ASSUME NEW S, NEW s, NEW e, chain \in Seq(Filtered!Filters),
         s \in S[0],
         \A k \in 1 .. Len(chain) : \A x \in S[k - 1] : Filtered!PassedOn(chain[k], x, e) \in S[k]
  PROVE  Filtered!Permitted(s, e) \in S[Len(chain)]
<1> DEFINE n == Len(chain)
           step == [k \in 1 .. n |-> [x \in S[k - 1] |-> Filtered!PassedOn(chain[k], x, e)]]
           Is(f) == f = [k \in 0 .. n |->
                           IF k = 0 THEN s ELSE Filtered!PassedOn(chain[k], f[k - 1], e)]
           h == CHOOSE f : Is(f)
<1>1. n \in Nat
  OBVIOUS
<1>2. Filtered!Permitted(s, e) = h[n]
  BY Zenon DEF Filtered!Permitted
<1> HIDE DEF n
<1>3. \A k \in 1 .. n : \A x \in S[k - 1] : step[k][x] = Filtered!PassedOn(chain[k], x, e)
  OBVIOUS
<1>4. \A k \in 1 .. n : \A x \in S[k - 1] : Filtered!PassedOn(chain[k], x, e) \in S[k]
  BY DEF n
<1> HIDE DEF step
<1>5. PICK g : FoldsFrom(g, s, step, n) /\ \A k \in 0 .. n : g[k] \in S[k]
  <2>1. \A k \in 1 .. n : \A x \in S[k - 1] : step[k][x] \in S[k]
    BY <1>3, <1>4
  <2> QED BY <1>1, <2>1, FoldExists
<1>6. Is(g)
  <2>1. g = [k \in 0 .. n |-> g[k]]
    BY <1>5 DEF FoldsFrom
  <2>2. ASSUME NEW k \in 0 .. n
        PROVE  g[k] = IF k = 0 THEN s ELSE Filtered!PassedOn(chain[k], g[k - 1], e)
    <3>1. g[k] = IF k = 0 THEN s ELSE step[k][g[k - 1]]
      BY <1>5 DEF FoldsFrom
    <3>2. CASE k # 0
      <4>1. k \in 1 .. n /\ k - 1 \in 0 .. n
        BY <1>1, <3>2
      <4>2. step[k][g[k - 1]] = Filtered!PassedOn(chain[k], g[k - 1], e)
        BY <1>3, <1>5, <4>1
      <4> QED BY <3>1, <3>2, <4>2
    <3> QED BY <3>1, <3>2
  <2> QED BY <2>1, <2>2
<1>7. Is(h)
  <2>1. \E f : Is(f)
    BY <1>6
  <2> QED BY <2>1, Zenon
<1> HIDE DEF h
<1>8. h[0] = s /\ \A k \in 1 .. n : h[k] = Filtered!PassedOn(chain[k], h[k - 1], e)
  <2>1. \A k \in 0 .. n : h[k] = IF k = 0 THEN s ELSE Filtered!PassedOn(chain[k], h[k - 1], e)
    BY <1>7
  <2>2. 0 \in 0 .. n /\ \A k \in 1 .. n : k \in 0 .. n /\ k # 0
    BY <1>1
  <2> QED BY <2>1, <2>2
<1> HIDE DEF Is
<1>9. h[n] \in S[n]
  <2>1. \A k \in 1 .. n : h[k - 1] \in S[k - 1] => h[k] \in S[k]
    BY <1>4, <1>8
  <2> QED BY <1>1, <1>8, <2>1, FoldStays
<1> QED BY <1>2, <1>9 DEF n

\* The events that are logged: none has the text of a notice.
Events == [id : Nat, level : Int, message : Messages, times : Nat]
Between(e) == e.level > CacheThreshold /\ e.level < ReleaseThreshold

\* A set of writers that no event makes a writer leave.
Closed(W) == \A w \in W, e \in Entries : ~w.threw => Filtered!WriteImpl(w, e) \in W

\* The same filters and decision, whatever has happened to the writer and the cache.
Alike(x, y) == y.verdict = x.verdict /\ y.duplicate = x.duplicate

LEMMA UncacheFacts ==
  ASSUME Filtered!BufferAssumption, NEW x \in Evaluations, NEW e \in Entries,
         ~x.writer.threw, x.cache # <<>>
  PROVE  LET y == Filtered!Uncache(x, e)
         IN  /\ y \in Evaluations /\ Alike(x, y)
             /\ y.cache = Tail(x.cache) /\ y.writer = Filtered!WriteImpl(x.writer, e)
<1> DEFINE y == Filtered!Uncache(x, e)
           v == Filtered!WriteImpl(x.writer, e)
           rest == Tail(x.cache)
<1>1. v \in WriterStates
  BY WriteImplFacts DEF Wrote, Evaluations
<1>2. rest \in Seq(Entries)
  BY DEF Evaluations
<1>3. y = [x EXCEPT !.writer = v, !.cache = rest]
  BY DEF Filtered!Uncache, Filtered!Write, Evaluations
<1> HIDE DEF v, rest, y
<1>4. y \in Evaluations /\ Alike(x, y) /\ y.cache = rest /\ y.writer = v
  BY <1>1, <1>2, <1>3 DEF Evaluations, Alike
<1> QED BY <1>4 DEF v, rest, y

LEMMA ReleasedIn ==
  ASSUME Filtered!BufferAssumption, NEW W, Closed(W), NEW x \in Evaluations, x.writer \in W
  PROVE  LET y == Filtered!Released(x)
         IN  /\ y \in Evaluations /\ y.writer \in W /\ Alike(x, y)
             /\ ~y.writer.threw => y.cache = <<>>
<1> DEFINE n == Len(x.cache)
           In(y, k) == /\ y.writer \in W /\ Alike(x, y)
                       /\ ~y.writer.threw => Len(y.cache) = n - k
           S == [k \in Nat |-> {y \in Evaluations : In(y, k)}]
<1>1. x.cache \in Seq(Entries) /\ n \in Nat
  BY DEF Evaluations
<1>2. In(x, 0)
  BY <1>1 DEF Alike
<1>3. ASSUME NEW k \in 1 .. n, NEW y \in Evaluations, In(y, k - 1)
      PROVE  Filtered!Uncache(y, x.cache[k]) \in Evaluations
             /\ In(Filtered!Uncache(y, x.cache[k]), k)
  <2>1. x.cache[k] \in Entries
    BY <1>1
  <2>2. CASE y.writer.threw
    <3>1. Filtered!Uncache(y, x.cache[k]) = y
      BY <2>2 DEF Filtered!Uncache
    <3> QED BY <1>3, <2>2, <3>1
  <2>3. CASE ~y.writer.threw
    <3> DEFINE z == Filtered!Uncache(y, x.cache[k])
    <3>1. y.cache \in Seq(Entries) /\ y.cache # <<>> /\ Len(Tail(y.cache)) = n - k
      <4>1. y.cache \in Seq(Entries) /\ Len(y.cache) = n - (k - 1)
        BY <1>3, <2>3 DEF Evaluations
      <4> HIDE DEF n
      <4> QED BY <1>1, <4>1
    <3>2. /\ z \in Evaluations /\ Alike(y, z)
          /\ z.cache = Tail(y.cache) /\ z.writer = Filtered!WriteImpl(y.writer, x.cache[k])
      BY <2>1, <2>3, <3>1, UncacheFacts
    <3> HIDE DEF z
    <3>3. z.writer \in W
      BY <1>3, <2>1, <2>3, <3>2 DEF Closed
    <3>4. z \in Evaluations /\ In(z, k)
      BY <1>3, <3>1, <3>2, <3>3 DEF Alike
    <3> QED BY <3>4 DEF z
  <2> QED BY <2>2, <2>3
<1>4. n \in Nat /\ \A k \in 1 .. n : k \in Nat /\ k - 1 \in Nat
  BY <1>1
<1>5. \A k \in Nat : \A y : y \in S[k] <=> y \in Evaluations /\ In(y, k)
  <2> HIDE DEF In
  <2> QED OBVIOUS
<1> HIDE DEF n, S
<1>6. Filtered!Released(x) \in S[n]
  <2> HIDE DEF In
  <2>1. x \in S[0]
    BY <1>2, <1>5
  <2>2. \A k \in 1 .. n : \A y \in S[k - 1] : Filtered!Uncache(y, x.cache[k]) \in S[k]
    BY <1>3, <1>4, <1>5
  <2>3. /\ x.cache \in Seq(Entries)
        /\ \A k \in 1 .. Len(x.cache) :
             \A y \in S[k - 1] : Filtered!Uncache(y, x.cache[k]) \in S[k]
    BY <1>1, <2>2 DEF n
  <2>4. Filtered!Released(x) \in S[Len(x.cache)]
    BY <2>1, <2>3, ReleasedStays, Zenon
  <2> QED BY <2>4 DEF n
<1> DEFINE y == Filtered!Released(x)
<1> HIDE DEF y
<1>7. y \in Evaluations /\ In(y, n)
  BY <1>4, <1>5, <1>6 DEF y
<1>8. ~y.writer.threw => y.cache = <<>>
  <2>1. y.cache \in Seq(Entries) /\ (~y.writer.threw => Len(y.cache) = 0)
    BY <1>4, <1>7 DEF Evaluations
  <2> QED BY <2>1
<1> QED BY <1>7, <1>8 DEF y

LEMMA ByThresholdFacts ==
  ASSUME NEW x \in Evaluations, NEW e \in Events
  PROVE  LET y == Filtered!ByThreshold(x, e)
         IN  /\ y \in Evaluations
             /\ y.writer = x.writer /\ y.cache = x.cache /\ y.duplicate = x.duplicate
             /\ y.verdict = IF e.level >= Threshold THEN "NEUTRAL" ELSE "DENY"
  BY DEF Filtered!ByThreshold, Evaluations

LEMMA ByLevelFacts ==
  ASSUME NEW x \in Evaluations, NEW e \in Events
  PROVE  LET y == Filtered!ByLevel(x, e)
         IN  /\ y \in Evaluations
             /\ y.writer = x.writer /\ y.cache = x.cache /\ y.duplicate = x.duplicate
             /\ y.verdict = IF e.level = MatchLevel THEN "ACCEPT" ELSE "NEUTRAL"
  BY DEF Filtered!ByLevel, Evaluations

LEMMA NoticeFacts ==
  ASSUME NEW n \in Nat, NEW e \in Events
  PROVE  /\ Filtered!Notice(n, e) \in Entries
         /\ Filtered!Notice(n, e).message = "notice" /\ Filtered!Notice(n, e).times = n
  BY DEF Filtered!Notice, Entries, Events, Words

Row(n, message) == [count |-> n, message |-> message]

\* The row goes on, or another begins, for which the writer has been told of the last.
LEMMA ByDuplicateFacts ==
  ASSUME Filtered!BufferAssumption, NEW x \in Evaluations, NEW e \in Events, ~x.writer.threw
  PROVE  LET y == Filtered!ByDuplicate(x, e)
             goesOn == x.duplicate.count > 0 /\ x.duplicate.message = e.message
             notice == Filtered!Notice(x.duplicate.count, e)
         IN  /\ y \in Evaluations /\ y.cache = x.cache
             /\ goesOn => /\ y.writer = x.writer /\ y.verdict = "DENY"
                          /\ y.duplicate = Row(x.duplicate.count + 1, e.message)
             /\ ~goesOn =>
                  /\ y.verdict = x.verdict
                  /\ ~y.writer.threw => y.duplicate = Row(1, e.message)
                  /\ y.writer = IF x.duplicate.count > 1
                                THEN Filtered!WriteImpl(x.writer, notice) ELSE x.writer
<1> DEFINE y == Filtered!ByDuplicate(x, e)
           goesOn == x.duplicate.count > 0 /\ x.duplicate.message = e.message
           notice == Filtered!Notice(x.duplicate.count, e)
           v == IF x.duplicate.count > 1 THEN Filtered!WriteImpl(x.writer, notice) ELSE x.writer
           first == Row(1, e.message)
           next == Row(x.duplicate.count + 1, e.message)
           t == [x EXCEPT !.writer = v]
<1>1. x.duplicate \in [count : Nat, message : Words] /\ e.message \in Words
  BY DEF Evaluations, Events, Words
<1>2. v \in WriterStates
  <2>1. notice \in Entries
    BY <1>1, NoticeFacts
  <2> HIDE DEF notice
  <2>2. x.writer \in WriterStates
    BY DEF Evaluations
  <2> QED BY <2>1, <2>2, WriteImplFacts DEF Wrote
<1>3. first \in [count : Nat, message : Words] /\ next \in [count : Nat, message : Words]
  BY <1>1 DEF Row
<1>4. t \in Evaluations /\ t.writer = v /\ t.cache = x.cache /\ Alike(x, t)
  <2> HIDE DEF v
  <2> QED BY <1>2 DEF Evaluations, Alike
<1>5. CASE goesOn
  <2>1. y = [x EXCEPT !.duplicate = next, !.verdict = "DENY"]
    <3>1. [x.duplicate EXCEPT !.count = x.duplicate.count + 1] = next
      BY <1>1, <1>5 DEF Row
    <3>2. y = [x EXCEPT !.duplicate = [x.duplicate EXCEPT !.count = x.duplicate.count + 1],
                        !.verdict = "DENY"]
      <4>1. y = [x EXCEPT !.duplicate.count = x.duplicate.count + 1, !.verdict = "DENY"]
        BY <1>5 DEF Filtered!ByDuplicate
      <4> HIDE DEF y
      <4> QED BY <4>1 DEF Evaluations
    <3> HIDE DEF y, next
    <3> QED BY <3>1, <3>2
  <2> HIDE DEF y, next
  <2>2. /\ y \in Evaluations /\ y.cache = x.cache
        /\ y.writer = x.writer /\ y.verdict = "DENY" /\ y.duplicate = next
    BY <1>3, <2>1 DEF Evaluations
  <2> QED BY <1>5, <2>2 DEF y, next
<1>6. CASE ~goesOn
  <2>1. y = IF v.threw THEN t ELSE [t EXCEPT !.duplicate = first]
    <3>1. t = IF x.duplicate.count > 1 THEN Filtered!Write(x, notice) ELSE x
      BY DEF Filtered!Write, Evaluations
    <3> HIDE DEF t, v, notice
    <3> QED BY <1>4, <1>6, <3>1 DEF Filtered!ByDuplicate, Filtered!NewRow, Row, notice
  <2> HIDE DEF y, first, t, v
  <2>2. /\ y \in Evaluations /\ y.cache = x.cache
        /\ y.verdict = x.verdict /\ y.writer = v
        /\ ~y.writer.threw => y.duplicate = first
    BY <1>3, <1>4, <2>1 DEF Evaluations, Alike
  <2> QED BY <1>6, <2>2 DEF y, first, v
<1> QED BY <1>5, <1>6

\* An event releases what is cached, is cached itself, or is neither low nor high enough.
LEMMA ByCacheFacts ==
  ASSUME Filtered!BufferAssumption, Filtered!LevelAssumption,
         NEW x \in Evaluations, NEW e \in Events
  PROVE  LET y == Filtered!ByCache(x, e)
             z == Filtered!Released(x)
         IN  \/ /\ e.level >= ReleaseThreshold
                /\ y.writer = z.writer /\ y.cache = z.cache /\ y.duplicate = x.duplicate
                /\ y \in Evaluations /\ y.verdict = "ACCEPT"
             \/ /\ Filtered!IsCached(e) /\ y \in Evaluations /\ y.verdict = "DENY"
                /\ y.cache = Append(x.cache, e)
                /\ y.writer = x.writer /\ y.duplicate = x.duplicate
             \/ Between(e) /\ y = x
<1> DEFINE y == Filtered!ByCache(x, e)
           z == Filtered!Released(x)
           more == Append(x.cache, e)
<1>1. e \in Entries /\ e.level \in Int
  BY DEF Events, Entries, Words
<1>2. CASE e.level >= ReleaseThreshold
  <2>1. y = [z EXCEPT !.verdict = "ACCEPT"]
    BY <1>1, <1>2 DEF Filtered!ByCache, Filtered!LevelAssumption
  <2>2. z \in Evaluations /\ z.duplicate = x.duplicate
    <3>1. Closed(WriterStates)
      BY WriteImplFacts DEF Closed, Wrote
    <3>2. x.writer \in WriterStates
      BY DEF Evaluations
    <3> QED BY <3>1, <3>2, ReleasedIn DEF Alike
  <2> HIDE DEF y, z
  <2>3. /\ y \in Evaluations /\ y.verdict = "ACCEPT"
        /\ y.writer = z.writer /\ y.cache = z.cache /\ y.duplicate = z.duplicate
    BY <2>1, <2>2 DEF Evaluations
  <2> QED BY <1>2, <2>2, <2>3 DEF y, z
<1>3. CASE ~(e.level >= ReleaseThreshold) /\ e.level <= CacheThreshold
  <2>1. y = [x EXCEPT !.cache = more, !.verdict = "DENY"]
    BY <1>1, <1>3 DEF Filtered!ByCache, Filtered!LevelAssumption, Evaluations
  <2>2. more \in Seq(Entries)
    BY <1>1 DEF Evaluations
  <2> HIDE DEF y, more
  <2>3. /\ y \in Evaluations /\ y.cache = more /\ y.verdict = "DENY"
        /\ y.writer = x.writer /\ y.duplicate = x.duplicate
    BY <2>1, <2>2 DEF Evaluations
  <2>4. Filtered!IsCached(e)
    BY <1>1, <1>3 DEF Filtered!IsCached, Filtered!LevelAssumption
  <2> QED BY <2>3, <2>4 DEF y, more
<1>4. CASE ~(e.level >= ReleaseThreshold) /\ ~(e.level <= CacheThreshold)
  <2>1. y = x
    BY <1>1, <1>4 DEF Filtered!ByCache, Filtered!LevelAssumption
  <2>2. Between(e)
    BY <1>1, <1>4 DEF Between, Filtered!LevelAssumption
  <2> QED BY <2>1, <2>2
<1> QED BY <1>2, <1>3, <1>4

\* Filters change the writer only by writing to it.
LEMMA EvaluatedIn ==
  ASSUME Filtered!BufferAssumption, Filtered!LevelAssumption, NEW W, Closed(W),
         NEW x \in Evaluations, x.writer \in W, NEW e \in Events, NEW filter \in Filtered!Filters
  PROVE  /\ Filtered!PassedOn(filter, x, e) \in Evaluations
         /\ Filtered!PassedOn(filter, x, e).writer \in W
<1> DEFINE y == Filtered!PassedOn(filter, x, e)
<1>1. CASE x.verdict # "NEUTRAL" \/ x.writer.threw
  BY <1>1 DEF Filtered!PassedOn
<1>2. CASE ~(x.verdict # "NEUTRAL" \/ x.writer.threw) /\ filter = "threshold"
  <2>1. y = Filtered!ByThreshold(x, e)
    BY <1>2 DEF Filtered!PassedOn, Filtered!Evaluated
  <2> QED BY <2>1, ByThresholdFacts
<1>3. CASE ~(x.verdict # "NEUTRAL" \/ x.writer.threw) /\ filter = "level"
  <2>1. y = Filtered!ByLevel(x, e)
    BY <1>3 DEF Filtered!PassedOn, Filtered!Evaluated
  <2> QED BY <2>1, ByLevelFacts
<1>4. CASE ~(x.verdict # "NEUTRAL" \/ x.writer.threw) /\ filter = "duplicate"
  <2>1. y = Filtered!ByDuplicate(x, e)
    BY <1>4 DEF Filtered!PassedOn, Filtered!Evaluated
  <2> HIDE DEF y
  <2>2. Filtered!Notice(x.duplicate.count, e) \in Entries
    BY NoticeFacts DEF Evaluations
  <2>3. Filtered!WriteImpl(x.writer, Filtered!Notice(x.duplicate.count, e)) \in W
    BY <1>4, <2>2 DEF Closed
  <2>4. y \in Evaluations
    BY <1>4, <2>1, ByDuplicateFacts
  <2>5. \/ y.writer = x.writer
        \/ y.writer = Filtered!WriteImpl(x.writer, Filtered!Notice(x.duplicate.count, e))
    BY <1>4, <2>1, ByDuplicateFacts
  <2> QED BY <2>3, <2>4, <2>5 DEF y
<1>5. CASE ~(x.verdict # "NEUTRAL" \/ x.writer.threw) /\ filter = "cache"
  <2>1. y = Filtered!ByCache(x, e)
    BY <1>5 DEF Filtered!PassedOn, Filtered!Evaluated
  <2> HIDE DEF y
  <2>2. y \in Evaluations /\ (y.writer = Filtered!Released(x).writer \/ y.writer = x.writer)
    BY <2>1, ByCacheFacts
  <2>3. Filtered!Released(x).writer \in W
    BY ReleasedIn
  <2> QED BY <2>2, <2>3 DEF y
<1> QED BY <1>1, <1>2, <1>3, <1>4, <1>5 DEF Filtered!Filters

LEMMA PermittedIn ==
  ASSUME Filtered!BufferAssumption, Filtered!LevelAssumption, NEW W, Closed(W),
         NEW x \in Evaluations, x.writer \in W, NEW e \in Events, chain \in Seq(Filtered!Filters)
  PROVE  Filtered!Permitted(x, e) \in Evaluations /\ Filtered!Permitted(x, e).writer \in W
<1> DEFINE T == {y \in Evaluations : y.writer \in W}
           S == [k \in Nat |-> T]
           n == Len(chain)
<1>1. n \in Nat /\ \A k \in 1 .. n : chain[k] \in Filtered!Filters
  OBVIOUS
<1> HIDE DEF n
<1>2. \A k \in Nat : S[k] = T
  OBVIOUS
<1> HIDE DEF S
<1>3. S[0] = T /\ S[n] = T /\ \A k \in 1 .. n : S[k - 1] = T /\ S[k] = T
  BY <1>1, <1>2
<1>4. \A k \in 1 .. n : \A y \in T : Filtered!PassedOn(chain[k], y, e) \in T
  BY <1>1, EvaluatedIn
<1> HIDE DEF T
<1>5. x \in T
  BY DEF T
<1>6. Filtered!Permitted(x, e) \in T
  <2>1. x \in S[0] /\ \A k \in 1 .. n : \A y \in S[k - 1] :
                        Filtered!PassedOn(chain[k], y, e) \in S[k]
    BY <1>3, <1>4, <1>5
  <2>2. Filtered!Permitted(x, e) \in S[n]
    BY <2>1, PermittedStays DEF n
  <2> QED BY <1>3, <2>2
<1> QED BY <1>6 DEF T

-----------------------------------------------------------------------------
(* writer::write and flush.                                                *)

FilteredTypeOK ==
  /\ chain \in Chains
  /\ writer \in WriterStates /\ ~writer.threw
  /\ duplicate \in [count : Nat, message : Words]
  /\ cache \in Seq(Entries)
  /\ logged \in Seq(Events)
  /\ sendFaults \in Nat

\* An event on its way to the writer, before and after the filters.
NewEvent(level, message) ==
  [id |-> Len(logged) + 1, level |-> level, message |-> message, times |-> 0]
Unfiltered(luck) ==
  [writer |-> [writer EXCEPT !.luck = luck], verdict |-> "NEUTRAL",
   duplicate |-> duplicate, cache |-> cache]
Written(p, e) == IF p.verdict = "DENY" \/ p.writer.threw THEN p.writer
                 ELSE Filtered!WriteImpl(p.writer, e)

Counted(w) == sendFaults' = IF w.threw THEN sendFaults + 1 ELSE sendFaults

LEMMA QuietFacts ==
  ASSUME NEW w \in WriterStates
  PROVE  LET v == Filtered!Quiet(w)
         IN  /\ v \in WriterStates /\ ~v.threw /\ v.kind = w.kind /\ v.max = w.max
             /\ v.count = w.count /\ v.held = w.held /\ v.sent = w.sent
<1> DEFINE v == Filtered!Quiet(w)
<1>1. v = [w EXCEPT !.luck = 0, !.threw = FALSE]
  BY DEF Filtered!Quiet
<1> HIDE DEF v
<1>2. v \in WriterStates
  <2> DEFINE u == [w EXCEPT !.luck = 0]
  <2>1. u \in WriterStates
    BY DEF WriterStates
  <2>2. v = [u EXCEPT !.threw = FALSE]
    BY <1>1
  <2> HIDE DEF u
  <2> QED BY <2>1, <2>2 DEF WriterStates
<1>3. ~v.threw /\ v.kind = w.kind /\ v.max = w.max
  BY <1>1 DEF WriterStates
<1>4. v.count = w.count /\ v.held = w.held /\ v.sent = w.sent
  BY <1>1 DEF WriterStates
<1> QED BY <1>2, <1>3, <1>4 DEF v

LEMMA LogFacts ==
  ASSUME FilteredTypeOK, Filtered!LevelAssumption, NEW level \in Levels,
         NEW message \in Messages, NEW luck \in Int, Filtered!Log(level, message, luck)
  PROVE  LET e == NewEvent(level, message)
             x == Unfiltered(luck)
             p == Filtered!Permitted(x, e)
         IN  /\ e \in Events
             /\ x \in Evaluations /\ ~x.writer.threw
             /\ logged' = Append(logged, e)
             /\ writer' = Filtered!Quiet(Written(p, e))
             /\ duplicate' = p.duplicate /\ cache' = p.cache /\ chain' = chain
             /\ Counted(Written(p, e))
<1> DEFINE e == NewEvent(level, message)
           x == Unfiltered(luck)
           p == Filtered!Permitted(x, e)
<1>1. e \in Events
  BY DEF FilteredTypeOK, NewEvent, Events, Filtered!LevelAssumption
<1>2. x \in Evaluations /\ ~x.writer.threw
  <2> DEFINE w == [writer EXCEPT !.luck = luck]
  <2>1. w \in WriterStates /\ ~w.threw
    BY DEF FilteredTypeOK, WriterStates
  <2> HIDE DEF w
  <2>2. x = [writer |-> w, verdict |-> "NEUTRAL", duplicate |-> duplicate, cache |-> cache]
    BY DEF Unfiltered, w
  <2> QED BY <2>1, <2>2 DEF FilteredTypeOK, Evaluations
<1>3. /\ logged' = Append(logged, e)
      /\ writer' = Filtered!Quiet(Written(p, e))
      /\ duplicate' = p.duplicate /\ cache' = p.cache /\ chain' = chain
      /\ Filtered!Fault(Written(p, e))
  BY Zenon DEF Filtered!Log, NewEvent, Unfiltered, Written
<1>4. Counted(Written(p, e))
  <2> HIDE DEF p, e
  <2> QED BY <1>3 DEF Filtered!Fault, Counted
<1> QED BY <1>1, <1>2, <1>3, <1>4

LEMMA FlushWriterFacts ==
  ASSUME FilteredTypeOK, NEW luck \in Int, Filtered!FlushWriter(luck)
  PROVE  /\ writer' \in WriterStates /\ ~writer'.threw
         /\ writer'.kind = writer.kind /\ writer'.max = writer.max /\ writer'.held = <<>>
         /\ UNCHANGED <<chain, duplicate, cache, logged>> /\ sendFaults' \in Nat
         /\ \/ /\ sendFaults' = sendFaults
               /\ writer'.sent = writer.sent \o writer.held /\ writer'.count = 0
            \/ sendFaults' = sendFaults + 1 /\ writer'.sent = writer.sent
<1> DEFINE w == [writer EXCEPT !.luck = luck]
           s == Filtered!Send(w)
           v == Filtered!Flush(w)
<1>1. /\ w \in WriterStates /\ ~w.threw /\ w.kind = writer.kind /\ w.max = writer.max
      /\ w.held = writer.held /\ w.sent = writer.sent
  BY DEF FilteredTypeOK, WriterStates
<1>2. /\ writer' = Filtered!Quiet(v) /\ Filtered!Fault(v)
      /\ UNCHANGED <<chain, duplicate, cache, logged>>
  BY Zenon DEF Filtered!FlushWriter
<1> HIDE DEF w
<1>3. /\ s \in WriterStates /\ s.kind = w.kind /\ s.max = w.max
      /\ s.held = <<>>
      /\ \/ ~s.threw /\ s.sent = w.sent \o w.held
         \/ s.threw /\ s.sent = w.sent
  BY <1>1, SendFacts
<1>4. v = IF s.threw THEN s ELSE [s EXCEPT !.count = 0]
  BY DEF Filtered!Flush
<1> HIDE DEF s, v
<1>5. /\ v \in WriterStates /\ v.kind = s.kind /\ v.max = s.max /\ v.held = s.held
      /\ v.sent = s.sent /\ v.threw = s.threw /\ (~s.threw => v.count = 0)
  BY <1>3, <1>4 DEF WriterStates
<1>6. Counted(v)
  BY <1>2 DEF Filtered!Fault, Counted
<1>7. /\ writer' \in WriterStates /\ ~writer'.threw /\ writer'.kind = v.kind
      /\ writer'.max = v.max /\ writer'.held = v.held /\ writer'.sent = v.sent
      /\ writer'.count = v.count
  BY <1>2, <1>5, QuietFacts
<1>8. sendFaults' \in Nat
  BY <1>6 DEF Counted, FilteredTypeOK
<1> QED BY <1>1, <1>2, <1>3, <1>5, <1>6, <1>7, <1>8 DEF Counted

\* Whatever set of writers is closed, write does not leave.
LEMMA LoggedIn ==
  ASSUME Assumptions, FilteredTypeOK, NEW W, Closed(W),
         NEW level \in Levels, NEW message \in Messages, NEW luck \in Int,
         Unfiltered(luck).writer \in W
  PROVE  LET e == NewEvent(level, message)
             p == Filtered!Permitted(Unfiltered(luck), e)
         IN  Filtered!Log(level, message, luck) =>
               /\ p \in Evaluations /\ p.writer \in W /\ Written(p, e) \in W
<1> SUFFICES ASSUME Filtered!Log(level, message, luck)
             PROVE  LET e == NewEvent(level, message)
                        p == Filtered!Permitted(Unfiltered(luck), e)
                    IN  /\ p \in Evaluations /\ p.writer \in W /\ Written(p, e) \in W
  OBVIOUS
<1> DEFINE e == NewEvent(level, message)
           x == Unfiltered(luck)
           p == Filtered!Permitted(x, e)
<1>1. e \in Events /\ x \in Evaluations
  BY LogFacts DEF Assumptions
<1> HIDE DEF e
<1>2. p \in Evaluations /\ p.writer \in W
  <2>1. chain \in Seq(Filtered!Filters)
    BY DEF Assumptions, FilteredTypeOK, Filtered!ChainAssumption
  <2> HIDE DEF x
  <2>2. x.writer \in W
    BY DEF x
  <2> QED BY <1>1, <2>1, <2>2, PermittedIn DEF Assumptions
<1> HIDE DEF p
<1>3. e \in Entries
  BY <1>1 DEF Events, Entries, Words
<1>4. Written(p, e) \in W
  BY <1>2, <1>3 DEF Written, Closed
<1> QED BY <1>2, <1>4 DEF e, p

LEMMA FilteredInitially ==
  ASSUME Assumptions, Filtered!Init
  PROVE  FilteredTypeOK
<1>1. PICK w \in Writers : writer = Filtered!NewWriter(w[1], w[2])
  BY DEF Filtered!Init
<1>2. w[1] \in {"queue", "email", "direct"} /\ w[2] \in Nat
  BY DEF Assumptions, Filtered!WriterAssumption
<1>3. writer \in WriterStates /\ ~writer.threw
  BY <1>1, <1>2 DEF Filtered!NewWriter, WriterStates
<1>4. duplicate \in [count : Nat, message : Words]
  BY DEF Filtered!Init, Words
<1> QED BY <1>3, <1>4 DEF Filtered!Init, FilteredTypeOK

LEMMA StepsOfFiltered ==
  ASSUME Assumptions, Filtered!Next
  PROVE  \/ \E level \in Levels, message \in Messages, luck \in Int :
              Filtered!Log(level, message, luck)
         \/ \E luck \in Int : Filtered!FlushWriter(luck)
<1>1. 0 \in Int /\ 1 \in Int /\ Filtered!MaxLuck \in Int
  BY DEF Assumptions, Filtered!BoundAssumption, Filtered!MaxLuck
<1> QED BY <1>1 DEF Filtered!Next

LEMMA FilteredTypeKept ==
  ASSUME Assumptions, FilteredTypeOK, Filtered!Next
  PROVE  FilteredTypeOK'
<1>1. ASSUME NEW level \in Levels, NEW message \in Messages, NEW luck \in Int,
             Filtered!Log(level, message, luck)
      PROVE  FilteredTypeOK'
  <2> DEFINE e == NewEvent(level, message)
             x == Unfiltered(luck)
             p == Filtered!Permitted(x, e)
             w == Written(p, e)
  <2>1. /\ e \in Events /\ x \in Evaluations
        /\ logged' = Append(logged, e) /\ writer' = Filtered!Quiet(w)
        /\ duplicate' = p.duplicate /\ cache' = p.cache /\ chain' = chain
        /\ Counted(w)
    BY <1>1, LogFacts DEF Assumptions
  <2>2. p \in Evaluations /\ w \in WriterStates
    <3>1. Closed(WriterStates)
      BY WriteImplFacts DEF Closed, Wrote, Assumptions
    <3>2. x.writer \in WriterStates
      BY <2>1 DEF Evaluations
    <3> QED BY <1>1, <3>1, <3>2, LoggedIn
  <2> HIDE DEF e, p, w
  <2>3. writer' \in WriterStates /\ ~writer'.threw
    BY <2>1, <2>2, QuietFacts
  <2>4. duplicate' \in [count : Nat, message : Words] /\ cache' \in Seq(Entries)
    BY <2>1, <2>2 DEF Evaluations
  <2>5. logged' \in Seq(Events) /\ sendFaults' \in Nat
    BY <2>1 DEF FilteredTypeOK, Counted
  <2> QED BY <2>1, <2>3, <2>4, <2>5 DEF FilteredTypeOK
<1>2. ASSUME NEW luck \in Int, Filtered!FlushWriter(luck) PROVE FilteredTypeOK'
  BY <1>2, FlushWriterFacts DEF FilteredTypeOK
<1> QED BY <1>1, <1>2, StepsOfFiltered

\* A blob is sent when it is full, or an exception has ended the writing.
FullIsSent(w) ==
  w.kind = "queue" /\ w.max > 0 => w.threw \/ (w.count = Len(w.held) /\ w.count < w.max)

BlobInv == FilteredTypeOK /\ (sendFaults = 0 => FullIsSent(writer))

LEMMA FullStaysSent ==
  ASSUME Filtered!BufferAssumption
  PROVE  Closed({w \in WriterStates : FullIsSent(w)})
<1> SUFFICES ASSUME NEW w \in WriterStates, FullIsSent(w), NEW e \in Entries, ~w.threw
             PROVE  /\ Filtered!WriteImpl(w, e) \in WriterStates
                    /\ FullIsSent(Filtered!WriteImpl(w, e))
  BY DEF Closed
<1> DEFINE v == Filtered!WriteImpl(w, e)
<1>1. v \in WriterStates /\ v.kind = w.kind /\ v.max = w.max
  BY WriteImplFacts DEF Wrote
<1>2. ASSUME w.kind = "queue", w.max > 0 PROVE v.threw \/ (v.count = Len(v.held) /\ v.count < v.max)
  <2> DEFINE c == Filtered!Collect(w, e)
             s == Filtered!Send(c)
             held == Append(w.held, e)
             count == w.count + 1
  <2>1. /\ held \in Seq(Entries) /\ Len(held) = count /\ count \in Nat /\ count <= w.max
        /\ w.max \in Nat
    BY <1>2 DEF WriterStates, FullIsSent
  <2>2. c = [w EXCEPT !.held = held, !.count = count]
    BY DEF Filtered!Collect
  <2>3. v = IF c.count = c.max THEN IF s.threw THEN s ELSE [s EXCEPT !.count = 0] ELSE c
    BY <1>2 DEF Filtered!WriteImpl, Filtered!WriteToQueue, Filtered!Flush
  <2> HIDE DEF c, held, count, v
  <2>4. /\ c \in WriterStates /\ ~c.threw /\ c.max = w.max
        /\ c.held = held /\ c.count = count
    BY <2>1, <2>2 DEF WriterStates
  <2>5. s \in WriterStates /\ s.held = <<>> /\ s.max = w.max
    BY <2>4, SendFacts
  <2> HIDE DEF s
  <2>6. CASE c.count = c.max /\ ~s.threw
    <3>1. v = [s EXCEPT !.count = 0]
      BY <2>3, <2>6
    <3>2. v.count = 0 /\ v.held = <<>> /\ v.max = w.max
      BY <2>5, <3>1 DEF WriterStates
    <3> QED BY <1>2, <2>1, <3>2
  <2>7. CASE c.count = c.max /\ s.threw
    BY <2>3, <2>7
  <2>8. CASE c.count # c.max
    BY <2>1, <2>3, <2>4, <2>8
  <2> QED BY <2>6, <2>7, <2>8
<1> QED BY <1>1, <1>2 DEF FullIsSent

LEMMA BlobInvKept ==
  ASSUME Assumptions, BlobInv, Filtered!Next
  PROVE  BlobInv'
<1>1. ASSUME NEW level \in Levels, NEW message \in Messages, NEW luck \in Int,
             Filtered!Log(level, message, luck), sendFaults' = 0
      PROVE  FullIsSent(writer')
  <2> DEFINE e == NewEvent(level, message)
             x == Unfiltered(luck)
             p == Filtered!Permitted(x, e)
             w == Written(p, e)
             W == {v \in WriterStates : FullIsSent(v)}
  <2>1. x \in Evaluations /\ writer' = Filtered!Quiet(w) /\ Counted(w)
    BY <1>1, LogFacts DEF Assumptions, BlobInv
  <2>2. sendFaults = 0 /\ ~w.threw
    BY <1>1, <2>1 DEF Counted, BlobInv, FilteredTypeOK
  <2>3. x.writer \in W
    <3>1. x.writer = [writer EXCEPT !.luck = luck]
      BY DEF Unfiltered
    <3>2. /\ x.writer.kind = writer.kind /\ x.writer.max = writer.max
          /\ x.writer.threw = writer.threw
          /\ x.writer.count = writer.count /\ x.writer.held = writer.held
      BY <3>1 DEF BlobInv, FilteredTypeOK, WriterStates
    <3>3. x.writer \in WriterStates
      BY <2>1 DEF Evaluations
    <3> QED BY <2>2, <3>2, <3>3 DEF BlobInv, FullIsSent
  <2>4. w \in W
    <3>1. Closed(W)
      BY FullStaysSent DEF Assumptions
    <3> HIDE DEF W
    <3> QED BY <1>1, <2>3, <3>1, LoggedIn DEF BlobInv
  <2> HIDE DEF w
  <2>5. /\ writer'.kind = w.kind /\ writer'.max = w.max
        /\ writer'.count = w.count /\ writer'.held = w.held
    BY <2>1, <2>4, QuietFacts
  <2> QED BY <2>2, <2>4, <2>5 DEF FullIsSent
<1>2. ASSUME NEW luck \in Int, Filtered!FlushWriter(luck), sendFaults' = 0
      PROVE  FullIsSent(writer')
  <2>1. /\ writer'.held = <<>> /\ writer' \in WriterStates
        /\ sendFaults' = sendFaults + 1 \/ writer'.count = 0
    BY <1>2, FlushWriterFacts DEF BlobInv
  <2>2. writer'.count = 0
    BY <1>2, <2>1 DEF BlobInv, FilteredTypeOK
  <2> QED BY <2>1, <2>2 DEF FullIsSent
<1>3. sendFaults' = 0 => FullIsSent(writer')
  BY <1>1, <1>2, StepsOfFiltered
<1>4. FilteredTypeOK'
  BY FilteredTypeKept DEF BlobInv
<1> QED BY <1>3, <1>4 DEF BlobInv, FullIsSent

\* For any size of the blobs, filters, levels and messages: as long as every blob can be
\* sent, none is left with coalesce_max_ events or more.
THEOREM BlobsStayBounded == PartsSpec => []BlobIsBounded
<1>1. PartsInit => BlobInv
  <2> SUFFICES ASSUME PartsInit PROVE BlobInv
    OBVIOUS
  <2>1. FilteredTypeOK
    BY FilteredInitially, Assumptions DEF PartsInit
  <2>2. FullIsSent(writer)
    <3>1. PICK w \in Writers : writer = Filtered!NewWriter(w[1], w[2])
      BY DEF PartsInit, Filtered!Init
    <3> QED BY <2>1, <3>1 DEF Filtered!NewWriter, FullIsSent, FilteredTypeOK
  <2> QED BY <2>1, <2>2 DEF BlobInv
<1>2. BlobInv /\ [PartsNext]_<<part, vars, filtered>> => BlobInv'
  <2> SUFFICES ASSUME BlobInv, [PartsNext]_<<part, vars, filtered>> PROVE BlobInv'
    OBVIOUS
  <2>1. CASE UNCHANGED filtered
    BY <2>1 DEF filtered, BlobInv, FilteredTypeOK, FullIsSent
  <2>2. CASE Filtered!Next
    BY <2>2, BlobInvKept, Assumptions
  <2> QED BY <2>1, <2>2 DEF PartsNext
<1>3. BlobInv => BlobIsBounded
  BY DEF BlobInv, FilteredTypeOK, FullIsSent, BlobIsBounded, Filtered!BlobIsBounded
<1> QED BY <1>1, <1>2, <1>3, PTL DEF PartsSpec

-----------------------------------------------------------------------------
(* The order of what a cache_and_release_filter has held back.             *)

\* The first n events, with any notice; those that may be in the cache.
Upto(n) == {x \in Entries : x.message # "notice" => x.id <= n}
Cacheable(n) == {x \in Entries : Filtered!IsCached(x) /\ x.id <= n}

OrderOK(w, c, n) ==
  /\ Parts(w, c)
  /\ w.sent \in Seq(Upto(n)) /\ w.held \in Seq(Upto(n)) /\ c \in Seq(Cacheable(n))

LEMMA SeqOfMore ==
  ASSUME NEW T, NEW U, T \subseteq U, NEW s \in Seq(T)
  PROVE  s \in Seq(U)
  OBVIOUS

LEMMA MoreMayCome ==
  ASSUME NEW n \in Nat
  PROVE  /\ Upto(n) \subseteq Upto(n + 1) /\ Cacheable(n) \subseteq Cacheable(n + 1)
         /\ Cacheable(n) \subseteq Upto(n) /\ Upto(n) \subseteq Entries
         /\ Cacheable(n) \subseteq Entries
  BY DEF Upto, Cacheable, Entries

LEMMA NewestEndsBefore ==
  ASSUME NEW n \in Nat, NEW e \in Entries, e.id = n + 1, NEW s \in Seq(Upto(n))
  PROVE  EndsBefore(s, e)
<1> SUFFICES ASSUME NEW i \in DOMAIN s PROVE ComesBefore(s[i], e)
  BY DEF EndsBefore
<1>1. s[i] \in Upto(n)
  OBVIOUS
<1> QED BY <1>1 DEF Upto, Entries, ComesBefore

LEMMA NoticeFollows ==
  ASSUME NEW e, e.message = "notice", NEW s
  PROVE  EndsBefore(s, e) /\ BeginsAfter(e, s)
  BY DEF EndsBefore, BeginsAfter, ComesBefore

LEMMA BetweenBeginsAfter ==
  ASSUME Filtered!LevelAssumption, NEW n \in Nat, NEW e \in Events, e.id = n + 1, Between(e),
         NEW c \in Seq(Cacheable(n))
  PROVE  BeginsAfter(e, c)
<1> SUFFICES ASSUME NEW j \in DOMAIN c PROVE ComesBefore(e, c[j])
  BY DEF BeginsAfter
<1>1. c[j] \in Cacheable(n)
  OBVIOUS
<1>2. c[j].id # e.id
  BY <1>1 DEF Cacheable, Entries
<1>3. ~Filtered!IsCached(e) /\ ~(e.level >= ReleaseThreshold)
  BY DEF Between, Events, Filtered!IsCached, Filtered!LevelAssumption
<1> QED BY <1>2, <1>3 DEF ComesBefore

\* One event is written to a writer that has the first n.
LEMMA WriteKeepsOrder ==
  ASSUME Filtered!BufferAssumption, NEW n, NEW w \in WriterStates, ~w.threw, NEW c,
         NEW e \in Upto(n), Parts(w, c), w.sent \in Seq(Upto(n)), w.held \in Seq(Upto(n)),
         EndsBefore(w.sent, e), EndsBefore(w.held, e), BeginsAfter(e, c)
  PROVE  LET v == Filtered!WriteImpl(w, e)
         IN  /\ v \in WriterStates
             /\ Parts(v, c) /\ v.sent \in Seq(Upto(n)) /\ v.held \in Seq(Upto(n))
<1> DEFINE v == Filtered!WriteImpl(w, e)
<1>1. e \in Entries /\ Upto(n) \subseteq Entries
  BY DEF Upto
<1>2. Wrote(w, v, e)
  BY <1>1, WriteImplFacts
<1> HIDE DEF v
<1>3. Parts(v, c)
  BY <1>1, <1>2, WroteInOrder
<1>4. v.sent \in Seq(Upto(n)) /\ v.held \in Seq(Upto(n))
  BY <1>1, <1>2, WroteOnly
<1> QED BY <1>2, <1>3, <1>4 DEF Wrote, v

LEMMA UncacheKeepsOrder ==
  ASSUME Filtered!BufferAssumption, NEW n \in Nat, NEW y \in Evaluations, ~y.writer.threw,
         OrderOK(y.writer, y.cache, n), y.cache # <<>>
  PROVE  LET z == Filtered!Uncache(y, y.cache[1])
         IN  /\ z \in Evaluations /\ OrderOK(z.writer, z.cache, n)
             /\ z.cache = Tail(y.cache)
<1> DEFINE c == y.cache
           e == c[1]
           z == Filtered!Uncache(y, e)
           w == y.writer
           v == Filtered!WriteImpl(w, e)
<1>1. c \in Seq(Entries) /\ c \in Seq(Cacheable(n)) /\ w \in WriterStates
  BY DEF Evaluations, OrderOK
<1>2. e \in Cacheable(n) /\ Tail(c) \in Seq(Cacheable(n))
  BY <1>1
<1>3. e \in Entries /\ e \in Upto(n)
  BY <1>2, MoreMayCome
<1>4. z \in Evaluations /\ z.cache = Tail(c) /\ z.writer = v
  BY <1>3, UncacheFacts
<1> HIDE DEF c, e, z, w, v
<1>5. /\ Parts(w, c) /\ w.sent \in Seq(Upto(n)) /\ w.held \in Seq(Upto(n))
  BY DEF OrderOK, w, c
<1>6. c # <<>> /\ e = c[1]
  BY DEF c, e
<1>7. /\ Ordered(Tail(c)) /\ BeginsAfter(e, Tail(c))
      /\ AllBefore(w.sent, Tail(c)) /\ EndsBefore(w.sent, e)
      /\ AllBefore(w.held, Tail(c)) /\ EndsBefore(w.held, e)
  BY <1>1, <1>5, <1>6, TailInOrder DEF Parts
<1>8. Parts(w, Tail(c))
  BY <1>5, <1>7 DEF Parts
<1>9. ~w.threw
  BY DEF w
<1>10. Parts(v, Tail(c)) /\ v.sent \in Seq(Upto(n)) /\ v.held \in Seq(Upto(n))
  BY <1>1, <1>3, <1>5, <1>7, <1>8, <1>9, WriteKeepsOrder DEF v
<1>11. OrderOK(z.writer, z.cache, n)
  BY <1>2, <1>4, <1>10 DEF OrderOK
<1> QED BY <1>4, <1>11 DEF z, c, e

\* Whether an exception ends it or not, releasing keeps the order.
LEMMA ReleasedInOrder ==
  ASSUME Filtered!BufferAssumption, NEW n \in Nat, NEW x \in Evaluations,
         OrderOK(x.writer, x.cache, n)
  PROVE  OrderOK(Filtered!Released(x).writer, Filtered!Released(x).cache, n)
<1> DEFINE N == Len(x.cache)
           Rest(c, k) == Len(c) = N - k /\ \A i \in 1 .. N - k : c[i] = x.cache[k + i]
           In(y, k) == /\ OrderOK(y.writer, y.cache, n)
                       /\ ~y.writer.threw => Rest(y.cache, k)
           S == [k \in Nat |-> {y \in Evaluations : In(y, k)}]
<1>1. x.cache \in Seq(Entries) /\ N \in Nat
  BY DEF Evaluations
<1>2. In(x, 0)
  BY <1>1
<1>3. ASSUME NEW k \in 1 .. N, NEW y \in Evaluations, In(y, k - 1)
      PROVE  Filtered!Uncache(y, x.cache[k]) \in Evaluations
             /\ In(Filtered!Uncache(y, x.cache[k]), k)
  <2>1. CASE y.writer.threw
    <3>1. Filtered!Uncache(y, x.cache[k]) = y
      BY <2>1 DEF Filtered!Uncache
    <3> QED BY <1>3, <2>1, <3>1
  <2>2. CASE ~y.writer.threw
    <3> DEFINE z == Filtered!Uncache(y, x.cache[k])
               d == y.cache
    <3>1. d \in Seq(Entries) /\ Rest(d, k - 1)
      BY <1>3, <2>2 DEF Evaluations
    <3>2. d # <<>> /\ d[1] = x.cache[k] /\ Rest(Tail(d), k)
      <4> HIDE DEF N, d
      <4>1. Len(d) = N - (k - 1) /\ \A i \in 1 .. N - (k - 1) : d[i] = x.cache[(k - 1) + i]
        BY <3>1
      <4>2. d # <<>> /\ d[1] = x.cache[k]
        <5>1. 1 \in 1 .. N - (k - 1) /\ (k - 1) + 1 = k
          BY <1>1
        <5>2. d[1] = x.cache[k]
          BY <4>1, <5>1
        <5> QED BY <3>1, <4>1, <5>1, <5>2
      <4>3. Len(Tail(d)) = N - k /\ \A i \in 1 .. N - k : Tail(d)[i] = d[i + 1]
        BY <1>1, <3>1, <4>1, <4>2
      <4>4. ASSUME NEW i \in 1 .. N - k PROVE d[i + 1] = x.cache[k + i]
        <5>1. i + 1 \in 1 .. N - (k - 1) /\ (k - 1) + (i + 1) = k + i
          BY <1>1
        <5> QED BY <4>1, <5>1
      <4> QED BY <4>2, <4>3, <4>4
    <3>3. z \in Evaluations /\ OrderOK(z.writer, z.cache, n) /\ z.cache = Tail(d)
      BY <1>3, <2>2, <3>2, UncacheKeepsOrder
    <3> HIDE DEF z, d
    <3>4. In(z, k)
      BY <3>2, <3>3
    <3> QED BY <3>3, <3>4 DEF z
  <2> QED BY <2>1, <2>2
<1>4. N \in Nat /\ \A k \in 1 .. N : k \in Nat /\ k - 1 \in Nat
  BY <1>1
<1>5. \A k \in Nat : \A y : y \in S[k] <=> y \in Evaluations /\ In(y, k)
  <2> HIDE DEF In
  <2> QED OBVIOUS
<1> HIDE DEF N, S
<1>6. Filtered!Released(x) \in S[N]
  <2> HIDE DEF In
  <2>1. x \in S[0]
    BY <1>2, <1>5
  <2>2. \A k \in 1 .. N : \A y \in S[k - 1] : Filtered!Uncache(y, x.cache[k]) \in S[k]
    BY <1>3, <1>4, <1>5
  <2> QED BY <1>1, <2>1, <2>2, ReleasedStays DEF N
<1> QED BY <1>4, <1>5, <1>6

\* No filter before the cache accepts an event that it would hold back or that releases.
IsGuarded ==
  /\ "cache" \in Filtered!ToSet(chain)
  /\ "level" \in Filtered!ToSet(chain)
       => MatchLevel > CacheThreshold /\ MatchLevel < ReleaseThreshold

\* Is one of the first k filters the cache?
IsPast(k) == \E j \in 1 .. k : chain[j] = "cache"

\* What the first k filters leave of x, for an event e that n others have come before.
OrderedSoFar(y, e, n, k) ==
  /\ Parts(y.writer, y.cache)
  /\ y.writer.sent \in Seq(Upto(n)) /\ y.writer.held \in Seq(Upto(n))
  /\ y.cache \in Seq(Cacheable(n + 1))
  /\ y.verdict # "DENY" => y.cache \in Seq(Cacheable(n))
  /\ y.verdict = "ACCEPT" /\ ~y.writer.threw => Between(e) \/ y.cache = <<>>
  /\ y.verdict = "NEUTRAL" /\ ~y.writer.threw /\ IsPast(k) => Between(e)

LEMMA CachedInOrder ==
  ASSUME NEW n \in Nat, NEW w \in WriterStates, NEW c, NEW e \in Entries, e.id = n + 1,
         OrderOK(w, c, n), Filtered!IsCached(e)
  PROVE  Parts(w, Append(c, e)) /\ Append(c, e) \in Seq(Cacheable(n + 1))
<1>1. c \in Seq(Upto(n)) /\ c \in Seq(Entries) /\ c \in Seq(Cacheable(n + 1))
  <2>1. c \in Seq(Cacheable(n))
    BY DEF OrderOK
  <2> QED BY <2>1, MoreMayCome, SeqOfMore
<1>2. EndsBefore(c, e) /\ EndsBefore(w.sent, e) /\ EndsBefore(w.held, e)
  BY <1>1, NewestEndsBefore DEF OrderOK
<1>3. Ordered(Append(c, e))
  BY <1>1, <1>2, AppendInOrder DEF OrderOK, Parts
<1>4. AllBefore(w.sent, Append(c, e)) /\ AllBefore(w.held, Append(c, e))
  BY <1>1, <1>2, AppendedBetween DEF OrderOK, Parts
<1>5. e \in Cacheable(n + 1)
  BY DEF Cacheable
<1> QED BY <1>1, <1>3, <1>4, <1>5 DEF OrderOK, Parts

LEMMA EvaluatedInOrder ==
  ASSUME Assumptions, chain \in Seq(Filtered!Filters), IsGuarded, NEW n \in Nat,
         NEW e \in Events, e.id = n + 1, NEW k \in 1 .. Len(chain),
         NEW x \in Evaluations, OrderedSoFar(x, e, n, k - 1)
  PROVE  OrderedSoFar(Filtered!PassedOn(chain[k], x, e), e, n, k)
<1> DEFINE y == Filtered!PassedOn(chain[k], x, e)
<1> USE DEF Assumptions
<1>1. chain[k] \in Filtered!Filters /\ k \in Nat
  OBVIOUS
<1>2. ASSUME IsPast(k), chain[k] # "cache" PROVE IsPast(k - 1)
  <2>1. PICK j \in 1 .. k : chain[j] = "cache"
    BY <1>2 DEF IsPast
  <2>2. j \in 1 .. k - 1
    BY <1>1, <1>2, <2>1
  <2> QED BY <2>1, <2>2 DEF IsPast
<1>3. e \in Entries
  BY DEF Events, Entries, Words
<1>4. CASE x.verdict # "NEUTRAL" \/ x.writer.threw
  <2>1. y = x
    BY <1>4 DEF Filtered!PassedOn
  <2> QED BY <1>4, <2>1 DEF OrderedSoFar
<1>5. ASSUME x.verdict = "NEUTRAL", ~x.writer.threw, chain[k] = "threshold"
      PROVE  OrderedSoFar(y, e, n, k)
  <2>1. y = Filtered!ByThreshold(x, e)
    BY <1>5 DEF Filtered!PassedOn, Filtered!Evaluated
  <2> HIDE DEF y
  <2>2. /\ y.writer = x.writer /\ y.cache = x.cache
        /\ y.verdict \in {"NEUTRAL", "DENY"}
    BY <2>1, ByThresholdFacts
  <2> QED BY <1>2, <1>5, <2>2 DEF OrderedSoFar
<1>6. ASSUME x.verdict = "NEUTRAL", ~x.writer.threw, chain[k] = "level"
      PROVE  OrderedSoFar(y, e, n, k)
  <2>1. y = Filtered!ByLevel(x, e)
    BY <1>6 DEF Filtered!PassedOn, Filtered!Evaluated
  <2> HIDE DEF y
  <2>2. /\ y.writer = x.writer /\ y.cache = x.cache
        /\ y.verdict = IF e.level = MatchLevel THEN "ACCEPT" ELSE "NEUTRAL"
    BY <2>1, ByLevelFacts
  <2>3. e.level = MatchLevel => Between(e)
    <3>1. "level" \in Filtered!ToSet(chain)
      BY <1>6 DEF Filtered!ToSet
    <3> QED BY <3>1 DEF IsGuarded, Between
  <2> QED BY <1>2, <1>6, <2>2, <2>3 DEF OrderedSoFar
<1>7. ASSUME x.verdict = "NEUTRAL", ~x.writer.threw, chain[k] = "duplicate"
      PROVE  OrderedSoFar(y, e, n, k)
  <2> DEFINE notice == Filtered!Notice(x.duplicate.count, e)
             w == x.writer
             v == Filtered!WriteImpl(w, notice)
  <2>1. y = Filtered!ByDuplicate(x, e)
    BY <1>7 DEF Filtered!PassedOn, Filtered!Evaluated
  <2> HIDE DEF y
  <2>2. /\ y.cache = x.cache /\ y.verdict \in {"NEUTRAL", "DENY"}
        /\ y.writer = x.writer \/ y.writer = v
    BY <1>7, <2>1, ByDuplicateFacts
  <2>3. notice \in Upto(n) /\ notice.message = "notice"
    BY NoticeFacts DEF Evaluations, Upto
  <2>4. /\ w \in WriterStates /\ Parts(w, x.cache) /\ ~w.threw
        /\ w.sent \in Seq(Upto(n)) /\ w.held \in Seq(Upto(n))
    BY <1>7 DEF OrderedSoFar, Evaluations
  <2> HIDE DEF notice, w
  <2>5. EndsBefore(w.sent, notice) /\ EndsBefore(w.held, notice) /\ BeginsAfter(notice, x.cache)
    BY <2>3, NoticeFollows
  <2>6. Parts(v, x.cache) /\ v.sent \in Seq(Upto(n)) /\ v.held \in Seq(Upto(n))
    BY <2>3, <2>4, <2>5, WriteKeepsOrder
  <2> HIDE DEF v
  <2> QED BY <1>2, <1>7, <2>2, <2>6 DEF OrderedSoFar
<1>8. ASSUME x.verdict = "NEUTRAL", ~x.writer.threw, chain[k] = "cache"
      PROVE  OrderedSoFar(y, e, n, k)
  <2> DEFINE z == Filtered!Released(x)
  <2>1. y = Filtered!ByCache(x, e)
    BY <1>8 DEF Filtered!PassedOn, Filtered!Evaluated
  <2> HIDE DEF y
  <2>2. OrderOK(x.writer, x.cache, n) /\ x.writer \in WriterStates
    BY <1>8 DEF OrderedSoFar, OrderOK, Evaluations
  <2>3. /\ OrderOK(z.writer, z.cache, n)
        /\ ~z.writer.threw => z.cache = <<>>
    <3>1. Closed(WriterStates)
      BY WriteImplFacts DEF Closed, Wrote
    <3> QED BY <2>2, <3>1, ReleasedInOrder, ReleasedIn
  <2>4. z.cache \in Seq(Cacheable(n + 1)) /\ x.cache \in Seq(Cacheable(n + 1))
    BY <2>2, <2>3, MoreMayCome, SeqOfMore DEF OrderOK
  <2> HIDE DEF z
  <2>5. CASE y.writer = z.writer /\ y.cache = z.cache /\ y.verdict = "ACCEPT"
    BY <2>3, <2>4, <2>5 DEF OrderedSoFar, OrderOK
  <2>6. CASE /\ Filtered!IsCached(e) /\ y.verdict = "DENY"
             /\ y.cache = Append(x.cache, e) /\ y.writer = x.writer
    <3>1. Parts(x.writer, Append(x.cache, e)) /\ Append(x.cache, e) \in Seq(Cacheable(n + 1))
      BY <1>3, <2>2, <2>6, CachedInOrder
    <3> QED BY <2>2, <2>6, <3>1 DEF OrderedSoFar, OrderOK
  <2>7. CASE Between(e) /\ y = x
    BY <2>2, <2>4, <2>7 DEF OrderedSoFar, OrderOK
  <2> QED BY <2>1, <2>5, <2>6, <2>7, ByCacheFacts DEF z
<1>9. x.verdict \in {"NEUTRAL", "ACCEPT", "DENY"}
  BY DEF Evaluations
<1> HIDE DEF y
<1>10. OrderedSoFar(y, e, n, k)
  BY <1>1, <1>4, <1>5, <1>6, <1>7, <1>8 DEF Filtered!Filters, y
<1> QED BY <1>10 DEF y

LEMMA PermittedInOrder ==
  ASSUME Assumptions, chain \in Seq(Filtered!Filters), IsGuarded, NEW n \in Nat,
         NEW e \in Events, e.id = n + 1, NEW x \in Evaluations, x.verdict = "NEUTRAL",
         OrderOK(x.writer, x.cache, n)
  PROVE  OrderedSoFar(Filtered!Permitted(x, e), e, n, Len(chain))
<1> DEFINE N == Len(chain)
           In(y, k) == OrderedSoFar(y, e, n, k)
           S == [k \in Nat |-> {y \in Evaluations : In(y, k)}]
<1>1. N \in Nat /\ \A k \in 1 .. N : k \in Nat /\ k - 1 \in Nat /\ chain[k] \in Filtered!Filters
  OBVIOUS
<1>2. \A k \in Nat : \A y : y \in S[k] <=> y \in Evaluations /\ In(y, k)
  <2> HIDE DEF In, N
  <2> QED OBVIOUS
<1>3. In(x, 0)
  <2>1. x.cache \in Seq(Cacheable(n + 1))
    BY MoreMayCome, SeqOfMore DEF OrderOK
  <2>2. ~IsPast(0)
    BY DEF IsPast
  <2> QED BY <2>1, <2>2 DEF OrderedSoFar, OrderOK
<1>4. ASSUME NEW k \in 1 .. N, NEW y \in Evaluations, In(y, k - 1)
      PROVE  /\ Filtered!PassedOn(chain[k], y, e) \in Evaluations
             /\ In(Filtered!PassedOn(chain[k], y, e), k)
  <2>1. Filtered!PassedOn(chain[k], y, e) \in Evaluations
    <3>1. Closed(WriterStates) /\ y.writer \in WriterStates
      BY WriteImplFacts DEF Closed, Wrote, Assumptions, Evaluations
    <3> QED BY <1>1, <3>1, EvaluatedIn DEF Assumptions
  <2>2. In(Filtered!PassedOn(chain[k], y, e), k)
    BY <1>4, EvaluatedInOrder
  <2> QED BY <2>1, <2>2
<1> HIDE DEF N, S, In
<1>5. /\ x \in S[0]
      /\ \A k \in 1 .. N : \A y \in S[k - 1] : Filtered!PassedOn(chain[k], y, e) \in S[k]
  BY <1>1, <1>2, <1>3, <1>4
<1>6. Filtered!Permitted(x, e) \in S[N]
  BY <1>5, PermittedStays DEF N
<1>7. In(Filtered!Permitted(x, e), N)
  BY <1>1, <1>2, <1>6
<1> QED BY <1>7 DEF In, N

CacheOrderInv == FilteredTypeOK /\ (IsGuarded => OrderOK(writer, cache, Len(logged)))

LEMMA OrderKeptByLog ==
  ASSUME Assumptions, CacheOrderInv, IsGuarded, NEW level \in Levels, NEW message \in Messages,
         NEW luck \in Int, Filtered!Log(level, message, luck)
  PROVE  OrderOK(writer', cache', Len(logged'))
<1> DEFINE e == NewEvent(level, message)
           x == Unfiltered(luck)
           p == Filtered!Permitted(x, e)
           w == Written(p, e)
           n == Len(logged)
<1>1. /\ e \in Events /\ x \in Evaluations
      /\ logged' = Append(logged, e) /\ writer' = Filtered!Quiet(w) /\ cache' = p.cache
  BY LogFacts DEF Assumptions, CacheOrderInv
<1>2. e.id = n + 1 /\ n \in Nat /\ Len(logged') = n + 1
  BY <1>1 DEF NewEvent, CacheOrderInv, FilteredTypeOK
<1>3. e \in Entries
  BY <1>1 DEF Events, Entries, Words
<1>4. p \in Evaluations /\ p.writer \in WriterStates /\ w \in WriterStates
  <2>1. Closed(WriterStates) /\ x.writer \in WriterStates
    BY <1>1, WriteImplFacts DEF Closed, Wrote, Assumptions, Evaluations
  <2> QED BY <2>1, LoggedIn DEF CacheOrderInv
<1>5. chain \in Seq(Filtered!Filters) /\ IsPast(Len(chain))
  <2>1. chain \in Seq(Filtered!Filters)
    BY DEF Assumptions, CacheOrderInv, FilteredTypeOK, Filtered!ChainAssumption
  <2>2. IsPast(Len(chain))
    BY <2>1 DEF IsGuarded, IsPast, Filtered!ToSet
  <2> QED BY <2>1, <2>2
<1> HIDE DEF e, n
<1>6. OrderOK(x.writer, x.cache, n) /\ x.verdict = "NEUTRAL"
  <2>1. /\ x.writer.sent = writer.sent /\ x.writer.held = writer.held /\ x.cache = cache
        /\ x.verdict = "NEUTRAL"
    BY DEF Unfiltered, CacheOrderInv, FilteredTypeOK, WriterStates
  <2>2. OrderOK(writer, cache, n)
    BY DEF CacheOrderInv, n
  <2> HIDE DEF x
  <2> QED BY <2>1, <2>2 DEF OrderOK, Parts
<1> HIDE DEF x
<1>7. OrderedSoFar(p, e, n, Len(chain))
  BY <1>1, <1>2, <1>5, <1>6, PermittedInOrder
<1> HIDE DEF p
<1>8. CASE p.verdict = "DENY" \/ p.writer.threw
  <2>1. w = p.writer
    BY <1>8 DEF Written
  <2>2. p.writer.sent \in Seq(Upto(n + 1)) /\ p.writer.held \in Seq(Upto(n + 1))
    BY <1>2, <1>7, MoreMayCome, SeqOfMore DEF OrderedSoFar
  <2>3. OrderOK(w, p.cache, n + 1)
    BY <1>7, <2>1, <2>2 DEF OrderOK, OrderedSoFar
  <2>4. writer'.sent = w.sent /\ writer'.held = w.held
    BY <1>1, <1>4, QuietFacts
  <2> HIDE DEF w
  <2> QED BY <1>1, <1>2, <2>3, <2>4 DEF OrderOK, Parts
<1>9. CASE ~(p.verdict = "DENY" \/ p.writer.threw)
  <2> DEFINE u == p.writer
             c == p.cache
             m == n + 1
  <2>1. w = Filtered!WriteImpl(u, e)
    BY <1>9 DEF Written
  <2>2. c \in Seq(Cacheable(n)) /\ (Between(e) \/ c = <<>>)
    <3>1. p.verdict \in {"NEUTRAL", "ACCEPT", "DENY"}
      BY <1>4 DEF Evaluations
    <3> QED BY <1>5, <1>7, <1>9, <3>1 DEF OrderedSoFar
  <2>3. BeginsAfter(e, c)
    BY <1>1, <1>2, <2>2, BetweenBeginsAfter, EmptyInOrder DEF Assumptions
  <2>4. /\ u \in WriterStates /\ ~u.threw
        /\ Parts(u, c) /\ u.sent \in Seq(Upto(n)) /\ u.held \in Seq(Upto(n))
    BY <1>4, <1>7, <1>9 DEF OrderedSoFar
  <2> HIDE DEF u, c
  <2>5. EndsBefore(u.sent, e) /\ EndsBefore(u.held, e)
    BY <1>2, <1>3, <2>4, NewestEndsBefore
  <2>6. u.sent \in Seq(Upto(m)) /\ u.held \in Seq(Upto(m)) /\ c \in Seq(Cacheable(m))
    BY <1>2, <2>2, <2>4, MoreMayCome, SeqOfMore
  <2>7. e \in Upto(m)
    BY <1>2, <1>3 DEF Upto
  <2> HIDE DEF m
  <2>8. Parts(w, c) /\ w.sent \in Seq(Upto(m)) /\ w.held \in Seq(Upto(m))
    BY <2>1, <2>3, <2>4, <2>5, <2>6, <2>7, WriteKeepsOrder DEF Assumptions
  <2>9. writer'.sent = w.sent /\ writer'.held = w.held
    BY <1>1, <1>4, QuietFacts
  <2> HIDE DEF w
  <2> QED BY <1>1, <1>2, <2>6, <2>8, <2>9 DEF OrderOK, Parts, m, c
<1> QED BY <1>8, <1>9

LEMMA OrderKeptByFlush ==
  ASSUME CacheOrderInv, IsGuarded, NEW luck \in Int, Filtered!FlushWriter(luck)
  PROVE  OrderOK(writer', cache', Len(logged'))
<1> DEFINE n == Len(logged)
           all == writer.sent \o writer.held
<1>1. /\ writer'.held = <<>> /\ UNCHANGED <<cache, logged>>
      /\ writer'.sent = all \/ writer'.sent = writer.sent
  BY FlushWriterFacts DEF CacheOrderInv
<1>2. OrderOK(writer, cache, n) /\ writer.sent \in Seq(Entries) /\ writer.held \in Seq(Entries)
  BY DEF CacheOrderInv, FilteredTypeOK, WriterStates
<1>3. Ordered(all) /\ AllBefore(all, cache) /\ all \in Seq(Upto(n))
  BY <1>2, ConcatInOrder, ConcatBetween DEF OrderOK, Parts
<1> HIDE DEF all
<1>4. \A t : Ordered(<<>>) /\ AllBefore(<<>>, t) /\ AllBefore(t, <<>>)
  BY EmptyInOrder
<1>5. <<>> \in Seq(Upto(n))
  OBVIOUS
<1>6. Len(logged') = n
  BY <1>1
<1> HIDE DEF n
<1> QED BY <1>1, <1>2, <1>3, <1>4, <1>5, <1>6 DEF OrderOK, Parts

\* For any chain of filters that has a cache_and_release_filter, any writer, thresholds and
\* sizes, and wherever exceptions end an evaluation: what has been held back comes out
\* once, in the order of logging and before the event that releases it.
THEOREM CachedStayInOrder == PartsSpec => []CachedComeOutInOrder
<1>1. PartsInit => CacheOrderInv
  <2> SUFFICES ASSUME PartsInit PROVE CacheOrderInv
    OBVIOUS
  <2>1. FilteredTypeOK
    BY FilteredInitially, Assumptions DEF PartsInit
  <2>2. writer.sent = <<>> /\ writer.held = <<>> /\ cache = <<>>
    BY DEF PartsInit, Filtered!Init, Filtered!NewWriter
  <2>3. \A t : Ordered(<<>>) /\ AllBefore(<<>>, t)
    BY EmptyInOrder
  <2>4. \A T : <<>> \in Seq(T)
    OBVIOUS
  <2> QED BY <2>1, <2>2, <2>3, <2>4 DEF CacheOrderInv, OrderOK, Parts
<1>2. CacheOrderInv /\ [PartsNext]_<<part, vars, filtered>> => CacheOrderInv'
  <2> SUFFICES ASSUME CacheOrderInv, [PartsNext]_<<part, vars, filtered>> PROVE CacheOrderInv'
    OBVIOUS
  <2>1. CASE UNCHANGED filtered
    <3>1. UNCHANGED <<FilteredTypeOK, IsGuarded, OrderOK(writer, cache, Len(logged))>>
      BY <2>1 DEF filtered, FilteredTypeOK, IsGuarded, OrderOK, Parts
    <3> QED BY <3>1 DEF CacheOrderInv
  <2>2. CASE Filtered!Next
    <3>1. FilteredTypeOK'
      BY <2>2, Assumptions, FilteredTypeKept DEF CacheOrderInv
    <3>2. chain' = chain
      <4>1. ASSUME NEW level, NEW message, NEW luck, Filtered!Log(level, message, luck)
            PROVE  chain' = chain
        BY <4>1, Zenon DEF Filtered!Log
      <4>2. ASSUME NEW luck, Filtered!FlushWriter(luck) PROVE chain' = chain
        BY <4>2, Zenon DEF Filtered!FlushWriter
      <4> QED BY <2>2, <4>1, <4>2 DEF Filtered!Next
    <3>3. IsGuarded' = IsGuarded
      BY <3>2 DEF IsGuarded
    <3>4. IsGuarded => OrderOK(writer', cache', Len(logged'))
      BY <2>2, Assumptions, StepsOfFiltered, OrderKeptByLog, OrderKeptByFlush
    <3> QED BY <3>1, <3>3, <3>4 DEF CacheOrderInv, OrderOK, Parts
  <2> QED BY <2>1, <2>2 DEF PartsNext
<1>3. CacheOrderInv => CachedComeOutInOrder
  <2> SUFFICES ASSUME CacheOrderInv, IsGuarded,
                      NEW i \in DOMAIN Filtered!Out, NEW j \in DOMAIN Filtered!Out, i < j,
                      Filtered!Out[i].message # "notice", Filtered!Out[j].message # "notice"
               PROVE  /\ Filtered!Out[i].id # Filtered!Out[j].id
                      /\ (/\ Filtered!IsCached(Filtered!Out[j])
                          /\ \/ Filtered!IsCached(Filtered!Out[i])
                             \/ Filtered!Out[i].level >= ReleaseThreshold)
                         => Filtered!Out[i].id < Filtered!Out[j].id
    BY DEF CachedComeOutInOrder, Filtered!CachedComeOutInOrder, IsGuarded
  <2>1. Ordered(Filtered!Out)
    <3>1. writer.sent \in Seq(Entries) /\ writer.held \in Seq(Entries)
      BY DEF CacheOrderInv, FilteredTypeOK, WriterStates
    <3> QED BY <3>1, ConcatInOrder DEF CacheOrderInv, OrderOK, Parts, Filtered!Out
  <2>2. ComesBefore(Filtered!Out[i], Filtered!Out[j])
    BY <2>1 DEF Ordered
  <2> QED BY <2>2 DEF ComesBefore
<1> QED BY <1>1, <1>2, <1>3, PTL DEF PartsSpec

-----------------------------------------------------------------------------
(* What the output of a duplicate_message_filter says.                     *)

\* What a text may consist of: the last word of none is no word at all.
Values == Words \cup {Filtered!Last(<<>>)}

LEMMA RepeatedFacts ==
  ASSUME NEW message, NEW n \in Int
  PROVE  /\ \A T : message \in T => Filtered!Repeated(message, n) \in Seq(T)
         /\ n <= 0 => Filtered!Repeated(message, n) = <<>>
         /\ n >= 0 => Filtered!Repeated(message, n + 1)
                        = Append(Filtered!Repeated(message, n), message)
<1> DEFINE R(k) == Filtered!Repeated(message, k)
<1>1. CASE n <= 0
  <2>1. 1 .. n = {} /\ R(n) = [i \in 1 .. n |-> message]
    BY <1>1 DEF Filtered!Repeated
  <2>2. R(n) = <<>>
    BY <2>1
  <2>3. n = 0 => R(n + 1) = Append(<<>>, message)
    <3> SUFFICES R(1) = <<message>>
      OBVIOUS
    <3>1. R(1) = [i \in 1 .. 1 |-> message]
      BY Zenon DEF Filtered!Repeated
    <3> QED BY <3>1
  <2> HIDE DEF R
  <2>4. \A T : <<>> \in Seq(T)
    OBVIOUS
  <2> QED BY <1>1, <2>2, <2>3, <2>4 DEF R
<1>2. CASE n > 0
  <2>1. R(n) = [i \in 1 .. n |-> message] /\ R(n + 1) = [i \in 1 .. n + 1 |-> message]
    BY Zenon DEF Filtered!Repeated
  <2> HIDE DEF R
  <2>2. \A T : message \in T => R(n) \in Seq(T)
    BY <1>2, <2>1
  <2>3. R(n) \in Seq({message}) /\ Len(R(n)) = n
    BY <1>2, <2>1
  <2>4. R(n + 1) = Append(R(n), message)
    <3> DEFINE a == Append(R(n), message)
    <3>1. /\ a \in Seq({message}) /\ Len(a) = n + 1
          /\ \A i \in 1 .. n + 1 : a[i] = message
      BY <2>3
    <3> HIDE DEF a
    <3>2. a = [i \in 1 .. n + 1 |-> a[i]]
      BY <3>1
    <3> QED BY <2>1, <3>1, <3>2 DEF a
  <2> QED BY <1>2, <2>2, <2>4 DEF R
<1> QED BY <1>1, <1>2

LEMMA ReadFacts ==
  ASSUME NEW text \in Seq(Values), NEW e \in Entries
  PROVE  Filtered!Read(text, e) \in Seq(Values)
<1>1. e.message \in Values /\ e.times - 1 \in Int
  BY DEF Entries, Values
<1>2. Filtered!Last(text) \in Values
  <2>1. CASE text = <<>>
    BY <2>1 DEF Values
  <2>2. CASE text # <<>>
    BY <2>2 DEF Filtered!Last
  <2> QED BY <2>1, <2>2
<1>3. Filtered!Repeated(Filtered!Last(text), e.times - 1) \in Seq(Values)
  BY <1>1, <1>2, RepeatedFacts
<1> QED BY <1>1, <1>3 DEF Filtered!Read

LEMMA ToldFacts ==
  ASSUME NEW filters, NEW text \in Seq(Values), NEW e \in Entries
  PROVE  Filtered!Told(filters, text, e) \in Seq(Values)
<1>1. e.message \in Values
  BY DEF Entries, Values
<1> QED BY <1>1 DEF Filtered!Told

\* f reads the first n events, or tells of them.
Reads(f, es, n) ==
  f[0] = <<>> /\ \A k \in 1 .. n : f[k] = Filtered!Read(f[k - 1], es[k])
Tells(filters, f, es, n) ==
  f[0] = <<>> /\ \A k \in 1 .. n : f[k] = Filtered!Told(filters, f[k - 1], es[k])

\* What is read.
LEMMA ExpandedBySteps ==
  ASSUME NEW es \in Seq(Entries)
  PROVE  \E f : Reads(f, es, Len(es)) /\ Filtered!Expanded(es) = f[Len(es)]
<1> DEFINE n == Len(es)
           step == [k \in 1 .. n |-> [x \in Seq(Values) |-> Filtered!Read(x, es[k])]]
           S == [k \in Nat |-> Seq(Values)]
           Is(f) == f = [k \in 0 .. n |-> IF k = 0 THEN <<>>
                                          ELSE Filtered!Read(f[k - 1], es[k])]
           h == CHOOSE f : Is(f)
<1>1. n \in Nat /\ \A k \in 1 .. n : es[k] \in Entries
  OBVIOUS
<1>2. Filtered!Expanded(es) = h[n]
  BY Zenon DEF Filtered!Expanded
<1> HIDE DEF n
<1>3. \A k \in 1 .. n : \A x \in Seq(Values) : step[k][x] = Filtered!Read(x, es[k])
  OBVIOUS
<1> HIDE DEF step
<1>4. \A k \in 0 .. n : S[k] = Seq(Values)
  BY <1>1
<1> HIDE DEF S
<1>5. PICK g : FoldsFrom(g, <<>>, step, n) /\ \A k \in 0 .. n : g[k] \in Seq(Values)
  <2>1. ASSUME NEW k \in 1 .. n, NEW x \in S[k - 1] PROVE step[k][x] \in S[k]
    <3>1. k \in 0 .. n /\ k - 1 \in 0 .. n
      BY <1>1
    <3>2. Filtered!Read(x, es[k]) \in Seq(Values)
      BY <1>1, <1>4, <3>1, ReadFacts
    <3> QED BY <1>3, <1>4, <3>1, <3>2
  <2>2. <<>> \in S[0]
    <3>1. 0 \in 0 .. n
      BY <1>1
    <3>2. <<>> \in Seq(Values)
      OBVIOUS
    <3> QED BY <1>4, <3>1, <3>2
  <2>3. PICK g : FoldsFrom(g, <<>>, step, n) /\ \A k \in 0 .. n : g[k] \in S[k]
    BY <1>1, <2>1, <2>2, FoldExists
  <2> QED BY <1>4, <2>3
<1>6. Is(g)
  <2>1. g = [k \in 0 .. n |-> g[k]]
    BY <1>5 DEF FoldsFrom
  <2>2. ASSUME NEW k \in 0 .. n
        PROVE  g[k] = IF k = 0 THEN <<>> ELSE Filtered!Read(g[k - 1], es[k])
    <3>1. g[k] = IF k = 0 THEN <<>> ELSE step[k][g[k - 1]]
      BY <1>5 DEF FoldsFrom
    <3>2. CASE k # 0
      <4>1. k \in 1 .. n /\ k - 1 \in 0 .. n
        BY <1>1, <3>2
      <4>2. step[k][g[k - 1]] = Filtered!Read(g[k - 1], es[k])
        BY <1>3, <1>5, <4>1
      <4> QED BY <3>1, <3>2, <4>2
    <3> QED BY <3>1, <3>2
  <2> QED BY <2>1, <2>2
<1>7. Is(h)
  <2>1. \E f : Is(f)
    BY <1>6
  <2> QED BY <2>1, Zenon
<1> HIDE DEF h
<1>8. Reads(h, es, n)
  <2>1. \A k \in 0 .. n : h[k] = IF k = 0 THEN <<>> ELSE Filtered!Read(h[k - 1], es[k])
    BY <1>7
  <2>2. 0 \in 0 .. n /\ \A k \in 1 .. n : k \in 0 .. n /\ k # 0
    BY <1>1
  <2> HIDE DEF Is
  <2> QED BY <2>1, <2>2 DEF Reads
<1> QED BY <1>2, <1>8 DEF n

LEMMA ExpandedInSeq ==
  ASSUME NEW es \in Seq(Entries)
  PROVE  Filtered!Expanded(es) \in Seq(Values)
<1> DEFINE n == Len(es)
           S == [k \in Nat |-> Seq(Values)]
<1>1. n \in Nat /\ \A k \in 1 .. n : es[k] \in Entries
  OBVIOUS
<1>2. PICK f : Reads(f, es, n) /\ Filtered!Expanded(es) = f[n]
  BY ExpandedBySteps
<1> HIDE DEF n
<1>3. S[n] = Seq(Values) /\ S[0] = Seq(Values)
      /\ \A k \in 1 .. n : S[k] = Seq(Values) /\ S[k - 1] = Seq(Values)
  BY <1>1
<1> HIDE DEF S
<1>4. f[0] \in S[0]
  <2>1. <<>> \in Seq(Values)
    OBVIOUS
  <2> QED BY <1>2, <1>3, <2>1 DEF Reads
<1>5. \A k \in 1 .. n : f[k - 1] \in S[k - 1] => f[k] \in S[k]
  <2> SUFFICES ASSUME NEW k \in 1 .. n, f[k - 1] \in S[k - 1] PROVE f[k] \in S[k]
    OBVIOUS
  <2>1. Filtered!Read(f[k - 1], es[k]) \in Seq(Values)
    BY <1>1, <1>3, ReadFacts
  <2> QED BY <1>2, <1>3, <2>1 DEF Reads
<1>6. f[n] \in S[n]
  BY <1>1, <1>4, <1>5, FoldStays
<1> QED BY <1>2, <1>3, <1>6

LEMMA ExpandedOfAppend ==
  ASSUME NEW es \in Seq(Entries), NEW e \in Entries
  PROVE  Filtered!Expanded(Append(es, e)) = Filtered!Read(Filtered!Expanded(es), e)
<1> DEFINE n == Len(es)
           more == Append(es, e)
<1>1. /\ n \in Nat /\ more \in Seq(Entries) /\ Len(more) = n + 1
      /\ more[n + 1] = e /\ \A k \in 1 .. n : more[k] = es[k]
  OBVIOUS
<1>2. PICK f : Reads(f, es, n) /\ Filtered!Expanded(es) = f[n]
  BY ExpandedBySteps
<1> HIDE DEF n, more
<1>3. PICK g : Reads(g, more, n + 1) /\ Filtered!Expanded(more) = g[n + 1]
  BY <1>1, ExpandedBySteps
<1> DEFINE S == [k \in Nat |-> {f[k]}]
<1>4. \A k \in Nat : \A x : x \in S[k] <=> x = f[k]
  OBVIOUS
<1> HIDE DEF S
<1>5. 0 \in Nat /\ \A k \in 1 .. n : k \in Nat /\ k - 1 \in Nat /\ k \in 1 .. n + 1
  BY <1>1
<1>6. g[0] = f[0] /\ \A k \in 1 .. n : g[k - 1] = f[k - 1] => g[k] = f[k]
  BY <1>1, <1>2, <1>3, <1>5 DEF Reads
<1>7. g[n] \in S[n]
  <2>1. g[0] \in S[0]
    BY <1>4, <1>5, <1>6
  <2>2. \A k \in 1 .. n : g[k - 1] \in S[k - 1] => g[k] \in S[k]
    BY <1>4, <1>5, <1>6
  <2> QED BY <1>1, <2>1, <2>2, FoldStays
<1>8. g[n + 1] = Filtered!Read(g[n], e)
  <2>1. n + 1 \in 1 .. n + 1 /\ (n + 1) - 1 = n
    BY <1>1
  <2> QED BY <1>1, <1>3, <2>1 DEF Reads
<1>9. g[n] = f[n]
  BY <1>1, <1>4, <1>7
<1> QED BY <1>2, <1>3, <1>8, <1>9 DEF more

LEMMA ExpandedOfNone == Filtered!Expanded(<<>>) = <<>>
<1>1. <<>> \in Seq(Entries) /\ Len(<<>>) = 0
  OBVIOUS
<1>2. PICK f : Reads(f, <<>>, Len(<<>>)) /\ Filtered!Expanded(<<>>) = f[Len(<<>>)]
  BY <1>1, ExpandedBySteps
<1> QED BY <1>1, <1>2 DEF Reads

\* What is told.
LEMMA TextsBySteps ==
  ASSUME NEW filters, NEW es \in Seq(Entries)
  PROVE  \E f : /\ Tells(filters, f, es, Len(es))
                /\ Filtered!Texts(filters, es) = f[Len(es)]
<1> DEFINE n == Len(es)
           step == [k \in 1 .. n |-> [x \in Seq(Values) |-> Filtered!Told(filters, x, es[k])]]
           S == [k \in Nat |-> Seq(Values)]
           Is(f) == f = [k \in 0 .. n |-> IF k = 0 THEN <<>>
                                          ELSE Filtered!Told(filters, f[k - 1], es[k])]
           h == CHOOSE f : Is(f)
<1>1. n \in Nat /\ \A k \in 1 .. n : es[k] \in Entries
  OBVIOUS
<1>2. Filtered!Texts(filters, es) = h[n]
  BY Zenon DEF Filtered!Texts
<1> HIDE DEF n
<1>3. \A k \in 1 .. n : \A x \in Seq(Values) : step[k][x] = Filtered!Told(filters, x, es[k])
  OBVIOUS
<1> HIDE DEF step
<1>4. \A k \in 0 .. n : S[k] = Seq(Values)
  BY <1>1
<1> HIDE DEF S
<1>5. PICK g : FoldsFrom(g, <<>>, step, n) /\ \A k \in 0 .. n : g[k] \in Seq(Values)
  <2>1. ASSUME NEW k \in 1 .. n, NEW x \in S[k - 1] PROVE step[k][x] \in S[k]
    <3>1. k \in 0 .. n /\ k - 1 \in 0 .. n
      BY <1>1
    <3>2. Filtered!Told(filters, x, es[k]) \in Seq(Values)
      BY <1>1, <1>4, <3>1, ToldFacts
    <3> QED BY <1>3, <1>4, <3>1, <3>2
  <2>2. <<>> \in S[0]
    <3>1. 0 \in 0 .. n
      BY <1>1
    <3>2. <<>> \in Seq(Values)
      OBVIOUS
    <3> QED BY <1>4, <3>1, <3>2
  <2>3. PICK g : FoldsFrom(g, <<>>, step, n) /\ \A k \in 0 .. n : g[k] \in S[k]
    BY <1>1, <2>1, <2>2, FoldExists
  <2> QED BY <1>4, <2>3
<1>6. Is(g)
  <2>1. g = [k \in 0 .. n |-> g[k]]
    BY <1>5 DEF FoldsFrom
  <2>2. ASSUME NEW k \in 0 .. n
        PROVE  g[k] = IF k = 0 THEN <<>> ELSE Filtered!Told(filters, g[k - 1], es[k])
    <3>1. g[k] = IF k = 0 THEN <<>> ELSE step[k][g[k - 1]]
      BY <1>5 DEF FoldsFrom
    <3>2. CASE k # 0
      <4>1. k \in 1 .. n /\ k - 1 \in 0 .. n
        BY <1>1, <3>2
      <4>2. step[k][g[k - 1]] = Filtered!Told(filters, g[k - 1], es[k])
        BY <1>3, <1>5, <4>1
      <4> QED BY <3>1, <3>2, <4>2
    <3> QED BY <3>1, <3>2
  <2> QED BY <2>1, <2>2
<1>7. Is(h)
  <2>1. \E f : Is(f)
    BY <1>6
  <2> QED BY <2>1, Zenon
<1> HIDE DEF h
<1>8. Tells(filters, h, es, n)
  <2>1. \A k \in 0 .. n : h[k] = IF k = 0 THEN <<>> ELSE Filtered!Told(filters, h[k - 1], es[k])
    BY <1>7
  <2>2. 0 \in 0 .. n /\ \A k \in 1 .. n : k \in 0 .. n /\ k # 0
    BY <1>1
  <2> HIDE DEF Is
  <2> QED BY <2>1, <2>2 DEF Tells
<1> QED BY <1>2, <1>8 DEF n

LEMMA TextsInSeq ==
  ASSUME NEW filters, NEW es \in Seq(Entries)
  PROVE  Filtered!Texts(filters, es) \in Seq(Values)
<1> DEFINE n == Len(es)
           S == [k \in Nat |-> Seq(Values)]
<1>1. n \in Nat /\ \A k \in 1 .. n : es[k] \in Entries
  OBVIOUS
<1>2. PICK f : Tells(filters, f, es, n) /\ Filtered!Texts(filters, es) = f[n]
  BY TextsBySteps
<1> HIDE DEF n
<1>3. S[n] = Seq(Values) /\ S[0] = Seq(Values)
      /\ \A k \in 1 .. n : S[k] = Seq(Values) /\ S[k - 1] = Seq(Values)
  BY <1>1
<1> HIDE DEF S
<1>4. f[0] \in S[0]
  <2>1. <<>> \in Seq(Values)
    OBVIOUS
  <2> QED BY <1>2, <1>3, <2>1 DEF Tells
<1>5. \A k \in 1 .. n : f[k - 1] \in S[k - 1] => f[k] \in S[k]
  <2> SUFFICES ASSUME NEW k \in 1 .. n, f[k - 1] \in S[k - 1] PROVE f[k] \in S[k]
    OBVIOUS
  <2>1. Filtered!Told(filters, f[k - 1], es[k]) \in Seq(Values)
    BY <1>1, <1>3, ToldFacts
  <2> QED BY <1>2, <1>3, <2>1 DEF Tells
<1>6. f[n] \in S[n]
  BY <1>1, <1>4, <1>5, FoldStays
<1> QED BY <1>2, <1>3, <1>6

LEMMA TextsOfAppend ==
  ASSUME NEW filters, NEW es \in Seq(Entries), NEW e \in Entries
  PROVE  Filtered!Texts(filters, Append(es, e))
           = Filtered!Told(filters, Filtered!Texts(filters, es), e)
<1> DEFINE n == Len(es)
           more == Append(es, e)
<1>1. /\ n \in Nat /\ more \in Seq(Entries) /\ Len(more) = n + 1
      /\ more[n + 1] = e /\ \A k \in 1 .. n : more[k] = es[k]
  OBVIOUS
<1>2. PICK f : Tells(filters, f, es, n) /\ Filtered!Texts(filters, es) = f[n]
  BY TextsBySteps
<1> HIDE DEF n, more
<1>3. PICK g : Tells(filters, g, more, n + 1) /\ Filtered!Texts(filters, more) = g[n + 1]
  BY <1>1, TextsBySteps
<1> DEFINE S == [k \in Nat |-> {f[k]}]
<1>4. \A k \in Nat : \A x : x \in S[k] <=> x = f[k]
  OBVIOUS
<1> HIDE DEF S
<1>5. 0 \in Nat /\ \A k \in 1 .. n : k \in Nat /\ k - 1 \in Nat /\ k \in 1 .. n + 1
  BY <1>1
<1>6. g[0] = f[0] /\ \A k \in 1 .. n : g[k - 1] = f[k - 1] => g[k] = f[k]
  BY <1>1, <1>2, <1>3, <1>5 DEF Tells
<1>7. g[n] \in S[n]
  <2>1. g[0] \in S[0]
    BY <1>4, <1>5, <1>6
  <2>2. \A k \in 1 .. n : g[k - 1] \in S[k - 1] => g[k] \in S[k]
    BY <1>4, <1>5, <1>6
  <2> QED BY <1>1, <2>1, <2>2, FoldStays
<1>8. g[n + 1] = Filtered!Told(filters, g[n], e)
  <2>1. n + 1 \in 1 .. n + 1 /\ (n + 1) - 1 = n
    BY <1>1
  <2> QED BY <1>1, <1>3, <2>1 DEF Tells
<1>9. g[n] = f[n]
  BY <1>1, <1>4, <1>7
<1> QED BY <1>2, <1>3, <1>8, <1>9 DEF more

LEMMA TextsOfNone ==
  ASSUME NEW filters
  PROVE  Filtered!Texts(filters, <<>>) = <<>>
<1>1. <<>> \in Seq(Entries) /\ Len(<<>>) = 0
  OBVIOUS
<1>2. PICK f : Tells(filters, f, <<>>, Len(<<>>)) /\ Filtered!Texts(filters, <<>>) = f[Len(<<>>)]
  BY <1>1, TextsBySteps
<1> QED BY <1>1, <1>2 DEF Tells

OutOf(w) == w.sent \o w.held

\* The output and the row that is going on tell the text.
Telling(w, dup, text) ==
  LET said == Filtered!Expanded(OutOf(w))
  IN  /\ w.kind # "email" /\ (w.kind = "direct" => w.held = <<>>)
      /\ said \o Filtered!Repeated(dup.message, dup.count - 1) = text
      /\ dup.count = 0 => said = <<>>
      /\ dup.count > 0 => said # <<>> /\ Filtered!Last(said) = dup.message

IsTelling == sendFaults = 0 /\ writer.kind # "email"
             /\ chain \in {<<"duplicate">>, <<"threshold", "duplicate">>}

TellInv == /\ FilteredTypeOK
           /\ IsTelling => Telling(writer, duplicate, Filtered!Texts(chain, logged))

LEMMA ConcatFacts ==
  ASSUME NEW T, NEW s \in Seq(T), NEW t \in Seq(T)
  PROVE  /\ s \o t \in Seq(T) /\ s \o <<>> = s /\ (s \o t) \o <<>> = s \o t
         /\ \A e : e \in T => s \o Append(t, e) = Append(s \o t, e)
<1>1. s \o t \in Seq(T)
  OBVIOUS
<1>2. ASSUME NEW u \in Seq(T) PROVE u \o <<>> = u
  <2>1. u \o <<>> \in Seq(T) /\ Len(u \o <<>>) = Len(u)
        /\ \A i \in 1 .. Len(u) : (u \o <<>>)[i] = u[i]
    OBVIOUS
  <2>2. u = [i \in 1 .. Len(u) |-> u[i]]
    OBVIOUS
  <2>3. u \o <<>> = [i \in 1 .. Len(u \o <<>>) |-> (u \o <<>>)[i]]
    BY <2>1
  <2> QED BY <2>1, <2>2, <2>3
<1>3. ASSUME NEW e \in T PROVE s \o Append(t, e) = Append(s \o t, e)
  <2> DEFINE a == s \o Append(t, e)
             b == Append(s \o t, e)
             n == Len(s) + Len(t) + 1
  <2>1. /\ a \in Seq(T) /\ Len(a) = n /\ n \in Nat
        /\ b \in Seq(T) /\ Len(b) = n
    OBVIOUS
  <2>2. \A i \in 1 .. n : a[i] = b[i]
    OBVIOUS
  <2> HIDE DEF a, b, n
  <2>3. a = [i \in 1 .. n |-> a[i]] /\ b = [i \in 1 .. n |-> b[i]]
    BY <2>1
  <2>4. a = b
    BY <2>2, <2>3
  <2> QED BY <2>4 DEF a, b
<1> QED BY <1>1, <1>2, <1>3

\* Writing without an exception appends to the output of a writer that drops nothing.
LEMMA WriteAppends ==
  ASSUME Filtered!BufferAssumption, NEW w \in WriterStates, ~w.threw, w.kind # "email",
         w.kind = "direct" => w.held = <<>>, NEW e \in Entries,
         ~Filtered!WriteImpl(w, e).threw
  PROVE  LET v == Filtered!WriteImpl(w, e)
         IN  /\ v \in WriterStates /\ v.kind = w.kind /\ (v.kind = "direct" => v.held = <<>>)
             /\ OutOf(v) = Append(OutOf(w), e)
<1> DEFINE v == Filtered!WriteImpl(w, e)
<1>1. Wrote(w, v, e)
  BY WriteImplFacts
<1> HIDE DEF v
<1>2. ~v.threw
  BY DEF v
<1>3. w.sent \in Seq(Entries) /\ w.held \in Seq(Entries)
  BY DEF WriterStates
<1>4. \/ v.sent = w.sent /\ v.held = Append(w.held, e)
      \/ v.sent = w.sent \o Append(w.held, e) /\ v.held = <<>>
  <2>1. PICK held \in Seq(Entries) :
          /\ Keeps(w, held)
          /\ \/ ~v.threw /\ v.sent = w.sent /\ v.held = Append(held, e)
             \/ ~v.threw /\ v.sent = w.sent \o Append(held, e) /\ v.held = <<>>
             \/ v.threw /\ v.sent = w.sent /\ v.held = <<>>
    BY <1>1 DEF Wrote
  <2>2. held = w.held
    BY <2>1 DEF Keeps
  <2> QED BY <1>2, <2>1, <2>2
<1>5. OutOf(v) = w.sent \o Append(w.held, e)
  <2>1. Append(w.held, e) \in Seq(Entries)
    BY <1>3
  <2>2. (w.sent \o Append(w.held, e)) \o <<>> = w.sent \o Append(w.held, e)
    BY <1>3, <2>1, ConcatFacts
  <2> QED BY <1>4, <2>2 DEF OutOf
<1>6. w.sent \o Append(w.held, e) = Append(OutOf(w), e)
  <2> DEFINE sent == w.sent
             held == w.held
  <2>1. sent \in Seq(Entries) /\ held \in Seq(Entries)
    BY <1>3
  <2> HIDE DEF sent, held
  <2>2. sent \o Append(held, e) = Append(sent \o held, e)
    BY <2>1, ConcatFacts
  <2> QED BY <2>2 DEF OutOf, sent, held
<1> QED BY <1>1, <1>5, <1>6 DEF Wrote, v

\* The row goes on.
LEMMA TellingRepeated ==
  ASSUME NEW w \in WriterStates, NEW dup \in [count : Nat, message : Words],
         NEW text \in Seq(Values), NEW message \in Words,
         Telling(w, dup, text), dup.count > 0, dup.message = message
  PROVE  Telling(w, Row(dup.count + 1, message), Append(text, message))
<1> DEFINE said == Filtered!Expanded(OutOf(w))
           rest == Filtered!Repeated(message, dup.count - 1)
           more == Filtered!Repeated(message, dup.count)
           next == Row(dup.count + 1, message)
<1>1. said \in Seq(Values)
  <2>1. OutOf(w) \in Seq(Entries)
    BY DEF OutOf, WriterStates
  <2> QED BY <2>1, ExpandedInSeq
<1>2. message \in Values /\ dup.count - 1 \in Int /\ dup.count - 1 >= 0
      /\ (dup.count - 1) + 1 = dup.count
  BY DEF Values
<1>3. rest \in Seq(Values) /\ more = Append(rest, message)
  BY <1>2, RepeatedFacts
<1>4. next.count = dup.count + 1 /\ next.message = message /\ next.count - 1 = dup.count
      /\ next.count > 0
  BY DEF Row
<1>5. said \o rest = text
  BY DEF Telling
<1> HIDE DEF said, rest, more, next
<1>6. said \o more = Append(text, message)
  BY <1>1, <1>2, <1>3, <1>5, ConcatFacts
<1>7. said # <<>> /\ Filtered!Last(said) = message
  BY DEF Telling, said
<1>8. w.kind # "email" /\ (w.kind = "direct" => w.held = <<>>)
  BY DEF Telling
<1>9. said \o Filtered!Repeated(next.message, next.count - 1) = Append(text, message)
  BY <1>4, <1>6 DEF more
<1> QED BY <1>4, <1>7, <1>8, <1>9 DEF Telling, said, next

\* A notice ends a row of several events.
LEMMA TellingNotice ==
  ASSUME Filtered!BufferAssumption, NEW w \in WriterStates, ~w.threw,
         NEW dup \in [count : Nat, message : Words], NEW text, NEW e \in Events,
         Telling(w, dup, text), dup.count > 1,
         ~Filtered!WriteImpl(w, Filtered!Notice(dup.count, e)).threw
  PROVE  LET v == Filtered!WriteImpl(w, Filtered!Notice(dup.count, e))
         IN  /\ v \in WriterStates /\ v.kind = w.kind /\ (v.kind = "direct" => v.held = <<>>)
             /\ Filtered!Expanded(OutOf(v)) = text
<1> DEFINE notice == Filtered!Notice(dup.count, e)
           v == Filtered!WriteImpl(w, notice)
           said == Filtered!Expanded(OutOf(w))
<1>1. notice \in Entries /\ notice.message = "notice" /\ notice.times = dup.count
  BY NoticeFacts
<1> HIDE DEF notice
<1>2. ~v.threw /\ w.kind # "email" /\ (w.kind = "direct" => w.held = <<>>)
  BY DEF Telling, notice
<1>3. /\ v \in WriterStates /\ v.kind = w.kind /\ (v.kind = "direct" => v.held = <<>>)
      /\ OutOf(v) = Append(OutOf(w), notice)
  BY <1>1, <1>2, WriteAppends
<1> HIDE DEF v
<1>4. OutOf(w) \in Seq(Entries)
  BY DEF OutOf, WriterStates
<1>5. Filtered!Expanded(OutOf(v)) = Filtered!Read(said, notice)
  BY <1>1, <1>3, <1>4, ExpandedOfAppend
<1>6. said \o Filtered!Repeated(dup.message, dup.count - 1) = text
      /\ Filtered!Last(said) = dup.message
  BY DEF Telling
<1> HIDE DEF said
<1>7. Filtered!Read(said, notice) = said \o Filtered!Repeated(Filtered!Last(said), notice.times - 1)
  BY <1>1 DEF Filtered!Read
<1> QED BY <1>1, <1>3, <1>5, <1>6, <1>7 DEF v, notice

\* The first event of a row is written itself.
LEMMA TellingFirst ==
  ASSUME Filtered!BufferAssumption, Filtered!MessageAssumption, NEW w \in WriterStates,
         ~w.threw, NEW e \in Events, w.kind # "email", w.kind = "direct" => w.held = <<>>,
         ~Filtered!WriteImpl(w, e).threw
  PROVE  LET v == Filtered!WriteImpl(w, e)
         IN  Telling(v, Row(1, e.message), Append(Filtered!Expanded(OutOf(w)), e.message))
<1> DEFINE v == Filtered!WriteImpl(w, e)
           said == Filtered!Expanded(OutOf(w))
           message == e.message
           all == Append(said, message)
<1>1. e \in Entries /\ message \in Words /\ message # "notice"
  BY DEF Events, Entries, Words, Filtered!MessageAssumption
<1>2. /\ v \in WriterStates /\ v.kind = w.kind /\ (v.kind = "direct" => v.held = <<>>)
      /\ OutOf(v) = Append(OutOf(w), e)
  BY <1>1, WriteAppends
<1> HIDE DEF v
<1>3. OutOf(w) \in Seq(Entries)
  BY DEF OutOf, WriterStates
<1>4. said \in Seq(Values) /\ message \in Values
  BY <1>1, <1>3, ExpandedInSeq DEF Values
<1>5. Filtered!Expanded(OutOf(v)) = Filtered!Read(said, e)
  BY <1>1, <1>2, <1>3, ExpandedOfAppend
<1> HIDE DEF said
<1>6. Filtered!Read(said, e) = all
  BY <1>1 DEF Filtered!Read
<1>7. all \in Seq(Values) /\ all # <<>> /\ Filtered!Last(all) = message
  BY <1>4 DEF Filtered!Last
<1> HIDE DEF all
<1>8. all \o Filtered!Repeated(message, 0) = all
  BY <1>7, RepeatedFacts, ConcatFacts
<1>9. Row(1, message).count = 1 /\ Row(1, message).message = message
  BY DEF Row
<1>10. Telling(v, Row(1, message), all)
  BY <1>2, <1>5, <1>6, <1>7, <1>8, <1>9 DEF Telling
<1> QED BY <1>10 DEF v, all, said

\* An event that reaches the duplicate_message_filter and then, unless it goes on a row,
\* the writer.
LEMMA TellingThroughFilter ==
  ASSUME Filtered!BufferAssumption, Filtered!MessageAssumption, NEW x \in Evaluations,
         ~x.writer.threw, x.verdict = "NEUTRAL", NEW e \in Events, NEW text \in Seq(Values),
         Telling(x.writer, x.duplicate, text),
         ~Written(Filtered!ByDuplicate(x, e), e).threw
  PROVE  LET p == Filtered!ByDuplicate(x, e)
         IN  Telling(Written(p, e), p.duplicate, Append(text, e.message))
<1> DEFINE p == Filtered!ByDuplicate(x, e)
           w == x.writer
           dup == x.duplicate
           goesOn == dup.count > 0 /\ dup.message = e.message
           notice == Filtered!Notice(dup.count, e)
           u == IF dup.count > 1 THEN Filtered!WriteImpl(w, notice) ELSE w
           m == e.message
<1>1. /\ p \in Evaluations
      /\ goesOn => p.writer = w /\ p.verdict = "DENY" /\ p.duplicate = Row(dup.count + 1, m)
      /\ ~goesOn => /\ p.verdict = "NEUTRAL" /\ p.writer = u
                    /\ ~p.writer.threw => p.duplicate = Row(1, m)
  BY ByDuplicateFacts
<1>2. /\ w \in WriterStates /\ dup \in [count : Nat, message : Words] /\ ~w.threw
      /\ Telling(w, dup, text) /\ m \in Words
  BY DEF Evaluations, Events, Words
<1>3. ~Written(p, e).threw
  OBVIOUS
<1> HIDE DEF p, w, dup
<1>4. CASE goesOn
  <2>1. Written(p, e) = w
    BY <1>1, <1>4 DEF Written
  <2>2. Telling(w, Row(dup.count + 1, m), Append(text, m))
    BY <1>2, <1>4, TellingRepeated
  <2> QED BY <1>1, <1>4, <2>1, <2>2 DEF p
<1>5. CASE ~goesOn
  <2>1. p.writer = u /\ p.verdict = "NEUTRAL"
    BY <1>1, <1>5
  <2>2. ~u.threw
    BY <1>3, <2>1 DEF Written
  <2>3. /\ u \in WriterStates /\ u.kind # "email" /\ (u.kind = "direct" => u.held = <<>>)
        /\ Filtered!Expanded(OutOf(u)) = text
    <3>1. CASE dup.count > 1
      <4>1. u = Filtered!WriteImpl(w, notice)
        BY <3>1
      <4> HIDE DEF u, goesOn
      <4>2. /\ u \in WriterStates /\ u.kind = w.kind /\ (u.kind = "direct" => u.held = <<>>)
            /\ Filtered!Expanded(OutOf(u)) = text
        BY <1>2, <2>2, <3>1, <4>1, TellingNotice
      <4>3. w.kind # "email"
        BY <1>2 DEF Telling
      <4> QED BY <4>2, <4>3
    <3>2. CASE ~(dup.count > 1)
      <4>1. u = w /\ dup.count - 1 \in Int /\ dup.count - 1 <= 0
        BY <1>2, <3>2
      <4> DEFINE said == Filtered!Expanded(OutOf(w))
      <4>2. said \in Seq(Values)
        <5>1. OutOf(w) \in Seq(Entries)
          BY <1>2 DEF OutOf, WriterStates
        <5> QED BY <5>1, ExpandedInSeq
      <4>3. said \o Filtered!Repeated(dup.message, dup.count - 1) = text
            /\ w.kind # "email" /\ (w.kind = "direct" => w.held = <<>>)
        BY <1>2 DEF Telling
      <4> HIDE DEF said, u
      <4>4. Filtered!Repeated(dup.message, dup.count - 1) = <<>>
        BY <4>1, RepeatedFacts
      <4>5. said = text
        BY <4>2, <4>3, <4>4, ConcatFacts
      <4> QED BY <1>2, <4>1, <4>3, <4>5 DEF said
    <3> QED BY <3>1, <3>2
  <2> HIDE DEF u
  <2>4. Written(p, e) = Filtered!WriteImpl(u, e)
    BY <2>1, <2>2 DEF Written
  <2>5. Telling(Filtered!WriteImpl(u, e), Row(1, m), Append(text, m))
    BY <1>3, <2>2, <2>3, <2>4, TellingFirst
  <2>6. p.duplicate = Row(1, m)
    BY <1>1, <1>5, <2>1, <2>2
  <2> QED BY <2>4, <2>5, <2>6 DEF p
<1> QED BY <1>4, <1>5

\* The two chains of filters, evaluated.
LEMMA PermittedByOne ==
  ASSUME chain = <<"duplicate">>, NEW x, NEW e
  PROVE  Filtered!Permitted(x, e) = Filtered!PassedOn("duplicate", x, e)
<1> DEFINE y == Filtered!PassedOn("duplicate", x, e)
           S == [k \in Nat |-> IF k = 0 THEN {x} ELSE {y}]
<1>1. S[0] = {x} /\ S[1] = {y}
  OBVIOUS
<1> HIDE DEF S, y
<1>2. chain \in Seq(Filtered!Filters) /\ Len(chain) = 1 /\ chain[1] = "duplicate"
  BY DEF Filtered!Filters
<1>3. \A k \in 1 .. Len(chain) : \A z \in S[k - 1] : Filtered!PassedOn(chain[k], z, e) \in S[k]
  <2> SUFFICES ASSUME NEW k \in 1 .. 1, NEW z \in S[k - 1]
               PROVE  Filtered!PassedOn(chain[k], z, e) \in S[k]
    BY <1>2
  <2>1. k = 1 /\ k - 1 = 0
    OBVIOUS
  <2>2. Filtered!PassedOn("duplicate", x, e) \in S[1]
    BY <1>1 DEF y
  <2> QED BY <1>1, <1>2, <2>1, <2>2
<1>4. Filtered!Permitted(x, e) \in S[Len(chain)]
  BY <1>1, <1>2, <1>3, PermittedStays
<1> QED BY <1>1, <1>2, <1>4 DEF y

LEMMA PermittedByTwo ==
  ASSUME chain = <<"threshold", "duplicate">>, NEW x, NEW e
  PROVE  Filtered!Permitted(x, e) =
           Filtered!PassedOn("duplicate", Filtered!PassedOn("threshold", x, e), e)
<1> DEFINE y == Filtered!PassedOn("threshold", x, e)
           z == Filtered!PassedOn("duplicate", y, e)
           S == [k \in Nat |-> IF k = 0 THEN {x} ELSE IF k = 1 THEN {y} ELSE {z}]
<1>1. S[0] = {x} /\ S[1] = {y} /\ S[2] = {z}
  OBVIOUS
<1> HIDE DEF S, y, z
<1>2. /\ chain \in Seq(Filtered!Filters) /\ Len(chain) = 2
      /\ chain[1] = "threshold" /\ chain[2] = "duplicate"
  BY DEF Filtered!Filters
<1>3. \A k \in 1 .. Len(chain) : \A u \in S[k - 1] : Filtered!PassedOn(chain[k], u, e) \in S[k]
  <2> SUFFICES ASSUME NEW k \in 1 .. 2, NEW u \in S[k - 1]
               PROVE  Filtered!PassedOn(chain[k], u, e) \in S[k]
    BY <1>2
  <2>1. (k = 1 /\ k - 1 = 0) \/ (k = 2 /\ k - 1 = 1)
    OBVIOUS
  <2>2. /\ Filtered!PassedOn("threshold", x, e) \in S[1]
        /\ Filtered!PassedOn("duplicate", y, e) \in S[2]
    BY <1>1 DEF y, z
  <2> QED BY <1>1, <1>2, <2>1, <2>2
<1>4. Filtered!Permitted(x, e) \in S[Len(chain)]
  BY <1>1, <1>2, <1>3, PermittedStays
<1> QED BY <1>1, <1>2, <1>4 DEF y, z

LEMMA TellKeptByLog ==
  ASSUME Assumptions, TellInv, NEW level \in Levels, NEW message \in Messages,
         NEW luck \in Int, Filtered!Log(level, message, luck), IsTelling'
  PROVE  Telling(writer', duplicate', Filtered!Texts(chain', logged'))
<1> DEFINE e == NewEvent(level, message)
           x == Unfiltered(luck)
           p == Filtered!Permitted(x, e)
           w == Written(p, e)
           text == Filtered!Texts(chain, logged)
           T == Filtered!Texts(chain', logged')
<1>1. /\ e \in Events /\ x \in Evaluations /\ ~x.writer.threw
      /\ logged' = Append(logged, e) /\ writer' = Filtered!Quiet(w)
      /\ duplicate' = p.duplicate /\ chain' = chain /\ Counted(w)
  BY LogFacts DEF Assumptions, TellInv
<1>2. /\ x.writer.sent = writer.sent /\ x.writer.held = writer.held
      /\ x.writer.kind = writer.kind /\ x.duplicate = duplicate /\ x.verdict = "NEUTRAL"
  BY DEF Unfiltered, TellInv, FilteredTypeOK, WriterStates
<1>3. w \in WriterStates /\ w.kind = writer.kind
  <2> DEFINE W == {v \in WriterStates : v.kind = writer.kind}
  <2>1. Closed(W)
    BY WriteImplFacts DEF Closed, Wrote, Assumptions
  <2>2. x.writer \in W
    BY <1>1, <1>2 DEF Evaluations
  <2> HIDE DEF W
  <2>3. w \in W
    BY <2>1, <2>2, LoggedIn DEF TellInv
  <2> QED BY <2>3 DEF W
<1>4. logged \in Seq(Entries) /\ e \in Entries
  <2>1. Events \subseteq Entries
    BY DEF Events, Entries, Words
  <2>2. logged \in Seq(Events)
    BY DEF TellInv, FilteredTypeOK
  <2> QED BY <1>1, <2>1, <2>2, SeqOfMore
<1> HIDE DEF e, w
<1>5. /\ writer'.kind = w.kind /\ writer'.sent = w.sent /\ writer'.held = w.held
  BY <1>1, <1>3, QuietFacts
<1>6. sendFaults = 0 /\ ~w.threw
  BY <1>1 DEF Counted, IsTelling, TellInv, FilteredTypeOK
<1>7. Telling(writer, duplicate, text) /\ chain \in {<<"duplicate">>, <<"threshold", "duplicate">>}
  BY <1>1, <1>3, <1>5, <1>6 DEF TellInv, IsTelling
<1> HIDE DEF x
<1>8. Telling(x.writer, x.duplicate, text)
  BY <1>2, <1>7 DEF Telling, OutOf
<1>9. text \in Seq(Values) /\ T = Filtered!Told(chain, text, e)
  BY <1>1, <1>4, TextsInSeq, TextsOfAppend
<1> HIDE DEF text, T
<1> USE DEF Assumptions
<1>10. ASSUME NEW y \in Evaluations, ~y.writer.threw, y.verdict = "NEUTRAL",
              Telling(y.writer, y.duplicate, text), p = Filtered!PassedOn("duplicate", y, e),
              T = Append(text, e.message)
       PROVE  Telling(w, p.duplicate, T)
  <2>1. p = Filtered!ByDuplicate(y, e)
    BY <1>10 DEF Filtered!PassedOn, Filtered!Evaluated
  <2> HIDE DEF p
  <2>2. ~Written(Filtered!ByDuplicate(y, e), e).threw
    BY <1>6, <2>1 DEF w
  <2>3. Telling(Written(Filtered!ByDuplicate(y, e), e), Filtered!ByDuplicate(y, e).duplicate,
                Append(text, e.message))
    BY <1>1, <1>9, <1>10, <2>2, TellingThroughFilter
  <2> QED BY <1>10, <2>1, <2>3 DEF w
<1>11. CASE chain = <<"duplicate">>
  <2>1. p = Filtered!PassedOn("duplicate", x, e)
    BY <1>11, PermittedByOne
  <2>2. T = Append(text, e.message)
    <3>1. Head(chain) = "duplicate"
      BY <1>11
    <3> QED BY <1>9, <3>1 DEF Filtered!Told
  <2> HIDE DEF p
  <2>3. Telling(w, p.duplicate, T)
    BY <1>1, <1>2, <1>8, <1>10, <2>1, <2>2 DEF p
  <2> QED BY <1>1, <1>5, <2>3 DEF Telling, OutOf, T
<1>12. CASE chain = <<"threshold", "duplicate">>
  <2> DEFINE y == Filtered!ByThreshold(x, e)
  <2>1. p = Filtered!PassedOn("duplicate", Filtered!PassedOn("threshold", x, e), e)
    BY <1>12, PermittedByTwo
  <2>2. Filtered!PassedOn("threshold", x, e) = y
    BY <1>1, <1>2 DEF Filtered!PassedOn, Filtered!Evaluated
  <2>3. /\ y \in Evaluations /\ y.writer = x.writer /\ y.duplicate = x.duplicate
        /\ y.verdict = IF e.level >= Threshold THEN "NEUTRAL" ELSE "DENY"
    BY <1>1, ByThresholdFacts
  <2>4. Head(chain) = "threshold" /\ e.level \in Int /\ Threshold \in Int
    BY <1>1, <1>12 DEF Events, Filtered!LevelAssumption
  <2> HIDE DEF y, p
  <2>5. Telling(w, p.duplicate, T)
    <3>1. CASE e.level >= Threshold
      <4>1. T = Append(text, e.message)
        BY <1>9, <2>4, <3>1 DEF Filtered!Told
      <4> QED BY <1>1, <1>8, <1>10, <2>1, <2>2, <2>3, <3>1, <4>1 DEF p
    <3>2. CASE ~(e.level >= Threshold)
      <4>1. T = text
        BY <1>9, <2>4, <3>2 DEF Filtered!Told
      <4>2. p = y
        BY <2>1, <2>2, <2>3, <3>2 DEF Filtered!PassedOn
      <4>3. w = x.writer
        BY <2>3, <3>2, <4>2 DEF w, p, Written
      <4> QED BY <1>8, <2>3, <4>1, <4>2, <4>3
    <3> QED BY <3>1, <3>2
  <2> QED BY <1>1, <1>5, <2>5 DEF Telling, OutOf, T, p
<1> QED BY <1>7, <1>11, <1>12

LEMMA TellKeptByFlush ==
  ASSUME TellInv, NEW luck \in Int, Filtered!FlushWriter(luck), IsTelling'
  PROVE  Telling(writer', duplicate', Filtered!Texts(chain', logged'))
<1>1. /\ writer'.kind = writer.kind /\ writer'.held = <<>>
      /\ UNCHANGED <<chain, duplicate, logged>>
      /\ \/ sendFaults' = sendFaults /\ writer'.sent = writer.sent \o writer.held
         \/ sendFaults' = sendFaults + 1
  BY FlushWriterFacts DEF TellInv
<1>2. sendFaults = 0 /\ writer'.sent = writer.sent \o writer.held
  <2>1. sendFaults' = 0
    BY DEF IsTelling
  <2>2. sendFaults \in Nat
    BY DEF TellInv, FilteredTypeOK
  <2>3. sendFaults' # sendFaults + 1
    BY <2>1, <2>2
  <2>4. sendFaults' = sendFaults /\ writer'.sent = writer.sent \o writer.held
    BY <1>1, <2>3, Zenon
  <2> QED BY <2>1, <2>4, Zenon
<1>3. OutOf(writer') = OutOf(writer)
  <2>1. writer.sent \in Seq(Entries) /\ writer.held \in Seq(Entries)
    BY DEF TellInv, FilteredTypeOK, WriterStates
  <2>2. (writer.sent \o writer.held) \o <<>> = writer.sent \o writer.held
    BY <2>1, ConcatFacts
  <2> QED BY <1>1, <1>2, <2>2 DEF OutOf
<1>4. Telling(writer, duplicate, Filtered!Texts(chain, logged))
  BY <1>1, <1>2 DEF TellInv, IsTelling
<1> QED BY <1>1, <1>3, <1>4 DEF Telling

\* For any size of the blobs, levels and messages, and any threshold: as long as nothing
\* throws, the output and its notices tell exactly what was logged.
THEOREM OutputStaysTelling == PartsSpec => []OutputTellsTheLog
<1>1. PartsInit => TellInv
  <2> SUFFICES ASSUME PartsInit PROVE TellInv
    OBVIOUS
  <2>1. FilteredTypeOK
    BY FilteredInitially, Assumptions DEF PartsInit
  <2>2. /\ writer.sent = <<>> /\ writer.held = <<>> /\ logged = <<>>
        /\ duplicate.count = 0
    BY DEF PartsInit, Filtered!Init, Filtered!NewWriter
  <2>3. OutOf(writer) = <<>>
    BY <2>2 DEF OutOf
  <2>4. /\ Filtered!Expanded(OutOf(writer)) = <<>>
        /\ Filtered!Texts(chain, logged) = <<>>
    BY <2>2, <2>3, ExpandedOfNone, TextsOfNone
  <2>5. Filtered!Repeated(duplicate.message, duplicate.count - 1) = <<>>
    BY <2>2, RepeatedFacts
  <2>6. Filtered!Expanded(OutOf(writer))
          \o Filtered!Repeated(duplicate.message, duplicate.count - 1)
          = Filtered!Texts(chain, logged)
    BY <2>4, <2>5
  <2>7. IsTelling => Telling(writer, duplicate, Filtered!Texts(chain, logged))
    BY <2>2, <2>4, <2>6 DEF Telling, IsTelling
  <2> QED BY <2>1, <2>7 DEF TellInv
<1>2. TellInv /\ [PartsNext]_<<part, vars, filtered>> => TellInv'
  <2> SUFFICES ASSUME TellInv, [PartsNext]_<<part, vars, filtered>> PROVE TellInv'
    OBVIOUS
  <2>1. CASE UNCHANGED filtered
    <3>1. FilteredTypeOK' = FilteredTypeOK /\ IsTelling' = IsTelling
      BY <2>1 DEF filtered, FilteredTypeOK, IsTelling
    <3>2. /\ writer' = writer /\ duplicate' = duplicate /\ chain' = chain /\ logged' = logged
      BY <2>1 DEF filtered
    <3>3. IsTelling' => Telling(writer', duplicate', Filtered!Texts(chain', logged'))
      BY <3>1, <3>2 DEF TellInv
    <3> QED BY <3>1, <3>3 DEF TellInv
  <2>2. CASE Filtered!Next
    <3>1. FilteredTypeOK'
      BY <2>2, Assumptions, FilteredTypeKept DEF TellInv
    <3>2. IsTelling' => Telling(writer', duplicate', Filtered!Texts(chain', logged'))
      BY <2>2, Assumptions, StepsOfFiltered, TellKeptByLog, TellKeptByFlush
    <3> QED BY <3>1, <3>2 DEF TellInv
  <2> QED BY <2>1, <2>2 DEF PartsNext
<1>3. TellInv => OutputTellsTheLog
  <2> SUFFICES ASSUME TellInv, IsTelling
               PROVE  Filtered!Expanded(Filtered!Out) \o Filtered!Pending
                        = Filtered!Texts(chain, logged)
    BY DEF OutputTellsTheLog, Filtered!OutputTellsTheLog, IsTelling
  <2>1. Filtered!Out = OutOf(writer)
    BY DEF Filtered!Out, OutOf
  <2>2. Filtered!Expanded(OutOf(writer))
          \o Filtered!Repeated(duplicate.message, duplicate.count - 1)
          = Filtered!Texts(chain, logged)
    BY DEF TellInv, Telling
  <2> QED BY <2>1, <2>2 DEF Filtered!Pending
<1> QED BY <1>1, <1>2, <1>3, PTL DEF PartsSpec
=============================================================================

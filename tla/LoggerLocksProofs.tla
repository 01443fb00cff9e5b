------------------------- MODULE LoggerLocksProofs --------------------------
(***************************************************************************)
(* No circle of threads that wait for each other, and no writer taken      *)
(* apart under a call, whatever the threads and however many calls they    *)
(* make.                                                                   *)
(*                                                                         *)
(* What a thread still has to do tells which mutexes it holds: those it    *)
(* will unlock before it locks them again (Held).  Every script locks in   *)
(* the order of Rank; the join of ~async_writer has a place in that order, *)
(* below the mutexes the worker takes.  This is said of the running        *)
(* threads: a first get that cannot configure the loggers locks what it    *)
(* holds, and stops running (StuckInv).                                    *)
(***************************************************************************)
EXTENDS LoggerLocks, SequenceTheorems, TLAPS

\* The place of a mutex in the order in which all calls lock.
Rank(m) == CASE m = "logger" -> 1 [] m = "root" -> 2 [] m = "writer" -> 3
             [] m = "root_writer" -> 4 [] m = "cache" -> 6 [] m = "inner" -> 7
             [] m = "loggers" -> 8

Deeds == {"initialize", "find", "release", "write", "push", "destroy_writer", "sweep",
          "join", "wait", "decide", "decide_empty"}
Steps == {Lock(m) : m \in Mutexes} \cup {Unlock(m) : m \in Mutexes}
           \cup {Do(what) : what \in Deeds}

\* The guard of the cache is unlocked by what follows the wait of the worker.
Frees(step, m) == step = Unlock(m) \/ (m = "cache" /\ step = Do("wait"))

\* The mutexes held by a thread that still has to do s.
Held(s) == {m \in Mutexes :
              \E j \in 1 .. Len(s) : Frees(s[j], m) /\ \A k \in 1 .. j - 1 : s[k] # Lock(m)}

InWriter(s) == \E i \in 1 .. Len(s) : s[i] \in {Lock("writer"), Unlock("writer")}
Has(s, what) == \E i \in 1 .. Len(s) : s[i] = Do(what)

\* A step that may stand before the rest of a script.
Fine(step, rest) ==
  /\ \A m \in Mutexes :
       /\ step = Lock(m) => /\ m \in Held(rest)
                            /\ \A n \in Held(rest) \ {m} : Rank(n) < Rank(m)
       /\ Frees(step, m) => m \notin Held(rest)
  /\ step = Do("find") => "loggers" \in Held(rest)
  /\ step \in {Do("write"), Do("destroy_writer")} => Held(rest) = {"logger"}
  /\ step \in {Do("initialize"), Do("sweep")} => Held(rest) = {"loggers"}
  /\ step \in {Do("release"), Do("wait"), Do("decide"), Do("decide_empty")} => rest = <<>>
  /\ step \in {Unlock("logger"), Do("destroy_writer")} => ~InWriter(rest)
  /\ ~Has(rest, "join")

From(s, i) == [k \in 1 .. Len(s) + 1 - i |-> s[k + i - 1]]
Good(s) == /\ s \in Seq(Steps)
           /\ \A i \in 1 .. Len(s) : Fine(s[i], From(s, i + 1))

-----------------------------------------------------------------------------
(* Scripts.                                                                *)

LEMMA StepsDiffer ==
  /\ \A m, n \in Mutexes : /\ Lock(m) = Lock(n) => m = n
                           /\ Unlock(m) = Unlock(n) => m = n
                           /\ Lock(m) # Unlock(n)
  /\ \A m \in Mutexes, d \in Deeds : Lock(m) # Do(d) /\ Unlock(m) # Do(d)
  /\ \A d, e \in Deeds : Do(d) = Do(e) => d = e
<1>1. \A m, n \in Mutexes : /\ Lock(m) = Lock(n) => m = n
                            /\ Unlock(m) = Unlock(n) => m = n
                            /\ Lock(m) # Unlock(n)
  BY DEF Lock, Unlock
<1>2. \A m \in Mutexes, d \in Deeds : Lock(m) # Do(d) /\ Unlock(m) # Do(d)
  BY DEF Lock, Unlock, Do, Deeds
<1>3. \A d, e \in Deeds : Do(d) = Do(e) => d = e
  BY DEF Do
<1> QED BY <1>1, <1>2, <1>3

LEMMA StepsAre ==
  /\ \A m \in Mutexes : Lock(m) \in Steps /\ Unlock(m) \in Steps
  /\ \A d \in Deeds : Do(d) \in Steps
BY DEF Steps

\* What a step does tells which step it is.
LEMMA StepIs ==
  ASSUME NEW step \in Steps
  PROVE  /\ step.does = "lock" => step.on \in Mutexes /\ step = Lock(step.on)
         /\ step.does = "unlock" => step.on \in Mutexes /\ step = Unlock(step.on)
         /\ \A d \in Deeds : step.does = d => step = Do(d)
<1>1. CASE \E m \in Mutexes : step = Lock(m)
  BY <1>1 DEF Lock, Deeds
<1>2. CASE \E m \in Mutexes : step = Unlock(m)
  BY <1>2 DEF Unlock, Deeds
<1>3. CASE \E d \in Deeds : step = Do(d)
  <2>1. PICK d \in Deeds : step = Do(d)
    BY <1>3
  <2>2. step.does = d /\ d # "lock" /\ d # "unlock"
    BY <2>1 DEF Do, Deeds
  <2> QED BY <2>1, <2>2
<1> QED BY <1>1, <1>2, <1>3 DEF Steps

LEMMA Prepended ==
  ASSUME NEW s \in Seq(Steps), NEW step \in Steps
  PROVE  /\ <<step>> \o s \in Seq(Steps)
         /\ Len(<<step>> \o s) = Len(s) + 1
         /\ (<<step>> \o s)[1] = step
         /\ \A i \in 1 .. Len(s) : (<<step>> \o s)[i + 1] = s[i]
         /\ \A i \in 2 .. Len(s) + 1 : (<<step>> \o s)[i] = s[i - 1]
  OBVIOUS

LEMMA HeldPrepended ==
  ASSUME NEW s \in Seq(Steps), NEW step \in Steps, NEW m \in Mutexes
  PROVE  m \in Held(<<step>> \o s)
           <=> Frees(step, m) \/ (step # Lock(m) /\ m \in Held(s))
<1> DEFINE p == <<step>> \o s
<1>1. p \in Seq(Steps) /\ Len(p) = Len(s) + 1 /\ p[1] = step /\ Len(s) \in Nat
      /\ \A i \in 1 .. Len(s) : p[i + 1] = s[i]
      /\ \A k \in 2 .. Len(s) + 1 : p[k] = s[k - 1]
  BY Prepended
<1> HIDE DEF p
<1>2. ASSUME m \in Held(p), ~Frees(step, m)
      PROVE  step # Lock(m) /\ m \in Held(s)
  <2>1. PICK j \in 1 .. Len(p) : Frees(p[j], m) /\ \A k \in 1 .. j - 1 : p[k] # Lock(m)
    BY <1>2 DEF Held
  <2>2. j # 1
    BY <2>1, <1>2, <1>1
  <2>3. j - 1 \in 1 .. Len(s) /\ s[j - 1] = p[j] /\ \A k \in 1 .. j - 2 : s[k] = p[k + 1]
    BY <2>2, <1>1
  <2>4. step # Lock(m)
    BY <2>1, <2>2, <1>1
  <2>5. \A k \in 1 .. (j - 1) - 1 : s[k] # Lock(m)
    BY <2>1, <2>2, <2>3
  <2> QED BY <2>1, <2>3, <2>4, <2>5 DEF Held
<1>3. ASSUME Frees(step, m)
      PROVE  m \in Held(p)
  BY <1>3, <1>1 DEF Held
<1>4. ASSUME step # Lock(m), m \in Held(s)
      PROVE  m \in Held(p)
  <2>1. PICK j \in 1 .. Len(s) : Frees(s[j], m) /\ \A k \in 1 .. j - 1 : s[k] # Lock(m)
    BY <1>4 DEF Held
  <2>2. j + 1 \in 1 .. Len(p) /\ Frees(p[j + 1], m)
    BY <2>1, <1>1
  <2>3. ASSUME NEW k \in 1 .. (j + 1) - 1
        PROVE  p[k] # Lock(m)
    <3>1. CASE k = 1
      BY <3>1, <1>1, <1>4
    <3>2. CASE k # 1
      BY <3>2, <2>1, <1>1
    <3> QED BY <3>1, <3>2
  <2> QED BY <2>2, <2>3 DEF Held
<1> QED BY <1>2, <1>3, <1>4 DEF p

LEMMA FromPrepended ==
  ASSUME NEW s \in Seq(Steps), NEW step \in Steps
  PROVE  /\ From(<<step>> \o s, 2) = s
         /\ \A i \in 1 .. Len(s) : From(<<step>> \o s, i + 2) = From(s, i + 1)
<1> DEFINE p == <<step>> \o s
<1>1. Len(p) = Len(s) + 1 /\ Len(s) \in Nat /\ \A i \in 1 .. Len(s) : p[i + 1] = s[i]
  BY Prepended
<1> HIDE DEF p
<1>2. From(p, 2) = s
  <2>1. 1 .. Len(p) + 1 - 2 = 1 .. Len(s)
    BY <1>1
  <2>2. s = [k \in 1 .. Len(s) |-> s[k]]
    OBVIOUS
  <2>3. \A k \in 1 .. Len(s) : p[k + 2 - 1] = s[k]
    <3> TAKE k \in 1 .. Len(s)
    <3>1. k + 2 - 1 = k + 1
      OBVIOUS
    <3> QED BY <3>1, <1>1
  <2> QED BY <2>1, <2>2, <2>3 DEF From
<1>3. ASSUME NEW i \in 1 .. Len(s)
      PROVE  From(p, i + 2) = From(s, i + 1)
  <2>1. 1 .. Len(p) + 1 - (i + 2) = 1 .. Len(s) + 1 - (i + 1)
    BY <1>1
  <2>2. \A k \in 1 .. Len(s) + 1 - (i + 1) : p[k + (i + 2) - 1] = s[k + (i + 1) - 1]
    <3> TAKE k \in 1 .. Len(s) + 1 - (i + 1)
    <3>1. k + (i + 1) - 1 \in 1 .. Len(s) /\ k + (i + 2) - 1 = (k + (i + 1) - 1) + 1
      BY <1>1
    <3> QED BY <3>1, <1>1
  <2> QED BY <2>1, <2>2 DEF From
<1> QED BY <1>2, <1>3 DEF p

\* A fine step before a good script makes a good script.
LEMMA GoodPrepended ==
  ASSUME NEW s, Good(s), NEW step \in Steps, Fine(step, s)
  PROVE  Good(<<step>> \o s)
<1> DEFINE p == <<step>> \o s
<1>1. s \in Seq(Steps)
  BY DEF Good
<1>2. p \in Seq(Steps) /\ Len(p) = Len(s) + 1 /\ p[1] = step /\ Len(s) \in Nat
      /\ \A i \in 2 .. Len(s) + 1 : p[i] = s[i - 1]
  BY Prepended, <1>1
<1>3. From(p, 2) = s /\ \A i \in 1 .. Len(s) : From(p, i + 2) = From(s, i + 1)
  BY FromPrepended, <1>1
<1> HIDE DEF p
<1>4. ASSUME NEW i \in 1 .. Len(p)
      PROVE  Fine(p[i], From(p, i + 1))
  <2>1. CASE i = 1
    BY <2>1, <1>2, <1>3
  <2>2. CASE i # 1
    <3>1. i - 1 \in 1 .. Len(s) /\ p[i] = s[i - 1] /\ From(p, i + 1) = From(s, (i - 1) + 1)
      <4>1. i - 1 \in 1 .. Len(s) /\ p[i] = s[i - 1]
        BY <2>2, <1>2
      <4>2. From(p, (i - 1) + 2) = From(s, (i - 1) + 1)
        BY <4>1, <1>3
      <4>3. (i - 1) + 2 = i + 1
        BY <1>2
      <4> QED BY <4>1, <4>2, <4>3
    <3> QED BY <3>1 DEF Good
  <2> QED BY <2>1, <2>2
<1> QED BY <1>2, <1>4 DEF Good, p

LEMMA GoodTail ==
  ASSUME NEW s, Good(s), s # <<>>
  PROVE  /\ Head(s) \in Steps /\ Tail(s) \in Seq(Steps)
         /\ s = <<Head(s)>> \o Tail(s)
         /\ Fine(Head(s), Tail(s))
         /\ Good(Tail(s))
<1>1. s \in Seq(Steps) /\ Len(s) \in Nat /\ Len(s) > 0
  BY DEF Good
<1>2. Head(s) \in Steps /\ Tail(s) \in Seq(Steps) /\ s = <<Head(s)>> \o Tail(s)
      /\ Head(s) = s[1] /\ Len(Tail(s)) = Len(s) - 1
      /\ \A i \in 1 .. Len(s) - 1 : Tail(s)[i] = s[i + 1]
  BY <1>1
<1>3. From(s, 2) = Tail(s) /\ \A i \in 1 .. Len(s) - 1 : From(s, i + 2) = From(Tail(s), i + 1)
  <2> DEFINE h == Head(s)
             r == Tail(s)
  <2>1. h \in Steps /\ r \in Seq(Steps) /\ s = <<h>> \o r /\ Len(r) = Len(s) - 1
    BY <1>2
  <2> HIDE DEF h, r
  <2>2. From(<<h>> \o r, 2) = r /\ \A i \in 1 .. Len(r) : From(<<h>> \o r, i + 2) = From(r, i + 1)
    BY FromPrepended, <2>1
  <2>3. From(s, 2) = r /\ \A i \in 1 .. Len(r) : From(s, i + 2) = From(r, i + 1)
    BY <2>1, <2>2
  <2> QED BY <2>1, <2>3 DEF h, r
<1>4. Fine(Head(s), Tail(s))
  <2>1. 1 \in 1 .. Len(s) /\ 1 + 1 = 2
    BY <1>1
  <2>2. Fine(s[1], From(s, 1 + 1))
    BY <2>1 DEF Good
  <2> QED BY <2>1, <2>2, <1>2, <1>3
<1>5. ASSUME NEW i \in 1 .. Len(Tail(s))
      PROVE  Fine(Tail(s)[i], From(Tail(s), i + 1))
  <2>1. i + 1 \in 1 .. Len(s) /\ Tail(s)[i] = s[i + 1] /\ From(s, i + 2) = From(Tail(s), i + 1)
    BY <1>1, <1>2, <1>3
  <2>2. (i + 1) + 1 = i + 2
    BY <1>2
  <2>3. Fine(s[i + 1], From(s, (i + 1) + 1))
    BY <2>1 DEF Good
  <2> QED BY <2>1, <2>2, <2>3
<1> QED BY <1>2, <1>4, <1>5 DEF Good
LEMMA HasPrepended ==
  ASSUME NEW s \in Seq(Steps), NEW step \in Steps
  PROVE  /\ \A what \in Deeds : Has(<<step>> \o s, what) <=> step = Do(what) \/ Has(s, what)
         /\ InWriter(<<step>> \o s)
              <=> step \in {Lock("writer"), Unlock("writer")} \/ InWriter(s)
<1> DEFINE p == <<step>> \o s
<1>1. Len(p) = Len(s) + 1 /\ p[1] = step /\ Len(s) \in Nat
      /\ \A i \in 1 .. Len(s) : p[i + 1] = s[i]
      /\ \A k \in 2 .. Len(s) + 1 : p[k] = s[k - 1]
  BY Prepended
<1> HIDE DEF p
<1>2. ASSUME NEW i \in 1 .. Len(p)
      PROVE  p[i] = step \/ \E j \in 1 .. Len(s) : p[i] = s[j]
  <2>1. CASE i = 1
    BY <2>1, <1>1
  <2>2. CASE i # 1
    BY <2>2, <1>1
  <2> QED BY <2>1, <2>2
<1>3. 1 \in 1 .. Len(p) /\ \A j \in 1 .. Len(s) : j + 1 \in 1 .. Len(p)
  BY <1>1
<1>4. \A what \in Deeds : Has(p, what) <=> step = Do(what) \/ Has(s, what)
  BY <1>1, <1>2, <1>3 DEF Has
<1>5. InWriter(p) <=> step \in {Lock("writer"), Unlock("writer")} \/ InWriter(s)
  BY <1>1, <1>2, <1>3 DEF InWriter
<1> QED BY <1>4, <1>5 DEF p

LEMMA NothingLeft ==
  /\ Good(<<>>) /\ Held(<<>>) = {} /\ ~InWriter(<<>>)
  /\ \A what \in Deeds : ~Has(<<>>, what)
BY DEF Good, Held, InWriter, Has

\* The three ways to lengthen a script by a step, and what is held before it.
LEMMA LockBefore ==
  ASSUME NEW s, Good(s), NEW m \in Mutexes, m \in Held(s), ~Has(s, "join"),
         \A n \in Held(s) \ {m} : Rank(n) < Rank(m)
  PROVE  /\ Good(<<Lock(m)>> \o s)
         /\ Held(<<Lock(m)>> \o s) = Held(s) \ {m}
<1>1. Lock(m) \in Steps /\ s \in Seq(Steps)
  BY StepsAre DEF Good
<1>2. /\ \A n \in Mutexes : Lock(m) = Lock(n) <=> m = n
      /\ \A n \in Mutexes : Lock(m) # Unlock(n)
      /\ \A d \in Deeds : Lock(m) # Do(d)
  BY StepsDiffer
<1>3. \A n \in Mutexes : ~Frees(Lock(m), n)
  BY <1>2 DEF Frees, Deeds
<1>4. Fine(Lock(m), s)
  BY <1>2, <1>3 DEF Fine, Deeds, Mutexes
<1>5. Good(<<Lock(m)>> \o s)
  BY <1>1, <1>4, GoodPrepended
<1>6. \A n \in Mutexes : n \in Held(<<Lock(m)>> \o s) <=> n # m /\ n \in Held(s)
  BY <1>1, <1>2, <1>3, HeldPrepended
<1>7. Held(<<Lock(m)>> \o s) \subseteq Mutexes /\ Held(s) \subseteq Mutexes
  BY DEF Held
<1> QED BY <1>5, <1>6, <1>7

LEMMA UnlockBefore ==
  ASSUME NEW s, Good(s), NEW m \in Mutexes, m \notin Held(s), ~Has(s, "join"),
         m = "logger" => ~InWriter(s)
  PROVE  /\ Good(<<Unlock(m)>> \o s)
         /\ Held(<<Unlock(m)>> \o s) = Held(s) \cup {m}
<1>1. Unlock(m) \in Steps /\ s \in Seq(Steps)
  BY StepsAre DEF Good
<1>2. /\ \A n \in Mutexes : Unlock(m) = Unlock(n) <=> m = n
      /\ \A n \in Mutexes : Unlock(m) # Lock(n)
      /\ \A d \in Deeds : Unlock(m) # Do(d)
  BY StepsDiffer
<1>3. \A n \in Mutexes : Frees(Unlock(m), n) <=> n = m
  BY <1>2 DEF Frees, Deeds
<1>4. Fine(Unlock(m), s)
  BY <1>2, <1>3 DEF Fine, Deeds, Mutexes
<1>5. Good(<<Unlock(m)>> \o s)
  BY <1>1, <1>4, GoodPrepended
<1>6. \A n \in Mutexes : n \in Held(<<Unlock(m)>> \o s) <=> n = m \/ n \in Held(s)
  BY <1>1, <1>2, <1>3, HeldPrepended
<1>7. Held(<<Unlock(m)>> \o s) \subseteq Mutexes /\ Held(s) \subseteq Mutexes
  BY DEF Held
<1> QED BY <1>5, <1>6, <1>7

LEMMA DoBefore ==
  ASSUME NEW s, Good(s), NEW what \in Deeds \ {"wait"}, ~Has(s, "join"),
         what = "find" => "loggers" \in Held(s),
         what \in {"write", "destroy_writer"} => Held(s) = {"logger"},
         what \in {"initialize", "sweep"} => Held(s) = {"loggers"},
         what \in {"release", "decide", "decide_empty"} => s = <<>>,
         what = "destroy_writer" => ~InWriter(s)
  PROVE  /\ Good(<<Do(what)>> \o s)
         /\ Held(<<Do(what)>> \o s) = Held(s)
<1>1. Do(what) \in Steps /\ s \in Seq(Steps)
  BY StepsAre DEF Good
<1>2. /\ \A n \in Mutexes : Do(what) # Unlock(n)
      /\ \A n \in Mutexes : Do(what) # Lock(n)
      /\ \A d \in Deeds : Do(what) = Do(d) <=> what = d
  BY StepsDiffer
<1>3. \A n \in Mutexes : ~Frees(Do(what), n)
  BY <1>2 DEF Frees, Deeds
<1>4. Fine(Do(what), s)
  BY <1>2, <1>3 DEF Fine, Deeds, Mutexes
<1>5. Good(<<Do(what)>> \o s)
  BY <1>1, <1>4, GoodPrepended
<1>6. \A n \in Mutexes : n \in Held(<<Do(what)>> \o s) <=> n \in Held(s)
  BY <1>1, <1>2, <1>3, HeldPrepended
<1>7. Held(<<Do(what)>> \o s) \subseteq Mutexes /\ Held(s) \subseteq Mutexes
  BY DEF Held
<1> QED BY <1>5, <1>6, <1>7

\* The worker waits with the guard of the cache.
LEMMA WaitIsGood == Good(<<Do("wait")>>) /\ Held(<<Do("wait")>>) = {"cache"}
<1>1. Do("wait") \in Steps /\ <<>> \in Seq(Steps) /\ "wait" \in Deeds
  <2>1. "wait" \in Deeds
    BY DEF Deeds
  <2> QED BY <2>1, StepsAre
<1>2. /\ \A n \in Mutexes : Do("wait") # Unlock(n)
      /\ \A n \in Mutexes : Do("wait") # Lock(n)
      /\ \A d \in Deeds : Do("wait") = Do(d) <=> "wait" = d
  BY <1>1, StepsDiffer
<1>3. \A n \in Mutexes : Frees(Do("wait"), n) <=> n = "cache"
  BY <1>2 DEF Frees
<1>4. Fine(Do("wait"), <<>>)
  BY <1>2, <1>3, NothingLeft DEF Fine, Deeds, Mutexes
<1>5. <<Do("wait")>> \o <<>> = <<Do("wait")>>
  OBVIOUS
<1>6. Good(<<Do("wait")>>)
  BY <1>1, <1>4, <1>5, NothingLeft, GoodPrepended
<1>7. \A n \in Mutexes : n \in Held(<<Do("wait")>>) <=> n = "cache"
  BY <1>1, <1>2, <1>3, <1>5, NothingLeft, HeldPrepended
<1>8. Held(<<Do("wait")>>) \subseteq Mutexes /\ "cache" \in Mutexes
  BY DEF Held, Mutexes
<1> QED BY <1>6, <1>7, <1>8
Before(step, s) == <<step>> \o s

\* A script that is good, and neither joins nor enters the writer.
Safe(s, held) == Good(s) /\ Held(s) = held /\ ~Has(s, "join") /\ ~InWriter(s)

LEMMA SafeLock ==
  ASSUME NEW s, NEW held, Safe(s, held), NEW m \in Mutexes \ {"writer"}, m \in held,
         \A n \in held \ {m} : Rank(n) < Rank(m),
         NEW before, \A n : n \in before <=> n \in held /\ n # m
  PROVE  Safe(Before(Lock(m), s), before)
<1> before = held \ {m}
  OBVIOUS
<1>1. Good(<<Lock(m)>> \o s) /\ Held(<<Lock(m)>> \o s) = held \ {m}
  BY LockBefore DEF Safe
<1>2. Lock(m) \in Steps /\ s \in Seq(Steps)
  BY StepsAre DEF Safe, Good
<1>3. Lock(m) # Do("join") /\ Lock(m) # Lock("writer") /\ Lock(m) # Unlock("writer")
  BY StepsDiffer DEF Mutexes, Deeds
<1>4. "join" \in Deeds
  BY DEF Deeds
<1> QED BY <1>1, <1>2, <1>3, <1>4, HasPrepended DEF Safe, Before

LEMMA SafeUnlock ==
  ASSUME NEW s, NEW held, Safe(s, held), NEW m \in Mutexes \ {"writer"}, m \notin held,
         NEW before, \A n : n \in before <=> n \in held \/ n = m
  PROVE  Safe(Before(Unlock(m), s), before)
<1> before = held \cup {m}
  OBVIOUS
<1>1. Good(<<Unlock(m)>> \o s) /\ Held(<<Unlock(m)>> \o s) = held \cup {m}
  BY UnlockBefore DEF Safe
<1>2. Unlock(m) \in Steps /\ s \in Seq(Steps)
  BY StepsAre DEF Safe, Good
<1>3. Unlock(m) # Do("join") /\ Unlock(m) # Lock("writer") /\ Unlock(m) # Unlock("writer")
  BY StepsDiffer DEF Mutexes, Deeds
<1>4. "join" \in Deeds
  BY DEF Deeds
<1> QED BY <1>1, <1>2, <1>3, <1>4, HasPrepended DEF Safe, Before

LEMMA SafeDo ==
  ASSUME NEW s, NEW held, Safe(s, held), NEW what \in Deeds \ {"wait", "join"},
         what = "find" => "loggers" \in held,
         what \in {"write", "destroy_writer"} => held = {"logger"},
         what \in {"initialize", "sweep"} => held = {"loggers"},
         what \in {"release", "decide", "decide_empty"} => s = <<>>
  PROVE  Safe(Before(Do(what), s), held)
<1>1. Good(<<Do(what)>> \o s) /\ Held(<<Do(what)>> \o s) = held
  BY DoBefore DEF Safe
<1>2. Do(what) \in Steps /\ s \in Seq(Steps)
  BY StepsAre DEF Safe, Good
<1>3. Do(what) # Do("join") /\ Do(what) # Lock("writer") /\ Do(what) # Unlock("writer")
  BY StepsDiffer DEF Mutexes, Deeds
<1>4. "join" \in Deeds
  BY DEF Deeds
<1> QED BY <1>1, <1>2, <1>3, <1>4, HasPrepended DEF Safe, Before

LEMMA SafeEnd == Safe(<<>>, {})
<1>1. "join" \in Deeds
  BY DEF Deeds
<1> QED BY <1>1, NothingLeft DEF Safe

\* A script is its steps, one before the other.
LEMMA OneStep ==
  \A a : <<a>> = Before(a, <<>>)
BY DEF Before

LEMMA TwoSteps ==
  \A a, b : <<a, b>> = Before(a, Before(b, <<>>))
  <1> TAKE a, b
  <1>1. <<a>> \in Seq({a, b}) /\ <<b>> \in Seq({a, b}) /\ <<a, b>> \in Seq({a, b})
    OBVIOUS
  <1>2. <<a>> \o <<b>> \in Seq({a, b}) /\ Len(<<a>> \o <<b>>) = 2
    BY <1>1
  <1>3. (<<a>> \o <<b>>)[1] = a /\ (<<a>> \o <<b>>)[2] = b
    BY <1>1
  <1>4. \A i \in 1 .. 2 : <<a, b>>[i] = (<<a>> \o <<b>>)[i]
    BY <1>3
  <1>5. Len(<<a, b>>) = 2
    OBVIOUS
  <1>6. <<a, b>> = <<a>> \o <<b>>
    BY <1>1, <1>2, <1>4, <1>5, SeqEqual
  <1>7. <<a, b>> = Before(a, <<b>>)
  BY <1>6 DEF Before
<1> QED BY <1>7, OneStep

LEMMA ThreeSteps ==
  \A a, b, c : <<a, b, c>> = Before(a, Before(b, Before(c, <<>>)))
<1> TAKE a, b, c
<1>1. <<a, b, c>> = Before(a, <<b, c>>)
  BY DEF Before
<1> QED BY <1>1, TwoSteps

LEMMA FourSteps ==
  \A a, b, c, d : <<a, b, c, d>> = Before(a, Before(b, Before(c, Before(d, <<>>))))
<1> TAKE a, b, c, d
<1>1. <<a, b, c, d>> = Before(a, <<b, c, d>>)
  BY DEF Before
<1> QED BY <1>1, ThreeSteps

LEMMA FiveSteps ==
  \A a, b, c, d, e : <<a, b, c, d, e>>
    = Before(a, Before(b, Before(c, Before(d, Before(e, <<>>)))))
<1> TAKE a, b, c, d, e
<1>1. <<a, b, c, d, e>> = Before(a, <<b, c, d, e>>)
  BY DEF Before
<1> QED BY <1>1, FourSteps

LEMMA SixSteps ==
  \A a, b, c, d, e, f : <<a, b, c, d, e, f>>
    = Before(a, Before(b, Before(c, Before(d, Before(e, Before(f, <<>>))))))
<1> TAKE a, b, c, d, e, f
<1>1. <<a, b, c, d, e, f>> = Before(a, <<b, c, d, e, f>>)
  BY DEF Before
<1> QED BY <1>1, FiveSteps

LEMMA SevenSteps ==
  \A a, b, c, d, e, f, g : <<a, b, c, d, e, f, g>>
    = Before(a, Before(b, Before(c, Before(d, Before(e, Before(f, Before(g, <<>>)))))))
<1> TAKE a, b, c, d, e, f, g
<1>1. <<a, b, c, d, e, f, g>> = Before(a, <<b, c, d, e, f, g>>)
  BY DEF Before
<1> QED BY <1>1, SixSteps

LEMMA BeforeConcat ==
  ASSUME NEW s \in Seq(Steps), NEW t \in Seq(Steps), NEW step \in Steps
  PROVE  /\ Before(step, s) \o t = Before(step, s \o t)
         /\ Before(step, s) \in Seq(Steps) /\ s \o t \in Seq(Steps)
<1>1. <<step>> \in Seq(Steps)
  OBVIOUS
<1> QED BY <1>1, ConcatAssociative DEF Before

\* The mutexes are locked in the order of their places.
LEMMA Places ==
  /\ \A m \in Mutexes : Rank(m) \in 1 .. 8
  /\ Rank("logger") = 1 /\ Rank("root") = 2 /\ Rank("writer") = 3
  /\ Rank("root_writer") = 4 /\ Rank("cache") = 6 /\ Rank("inner") = 7
  /\ Rank("loggers") = 8
<1>1. Rank("logger") = 1 /\ Rank("root") = 2 /\ Rank("writer") = 3
  BY DEF Rank
<1>2. Rank("root_writer") = 4 /\ Rank("cache") = 6
  BY DEF Rank
<1>3. Rank("inner") = 7 /\ Rank("loggers") = 8
  BY DEF Rank
<1>4. ASSUME NEW m \in Mutexes
      PROVE  Rank(m) \in 1 .. 8
  <2>1. m \in {"logger", "writer", "cache", "inner", "root", "root_writer", "loggers"}
    BY DEF Mutexes
  <2>2. Rank(m) \in {1, 2, 3, 4, 6, 7, 8}
    BY <2>1, <1>1, <1>2, <1>3
  <2> QED BY <2>2
<1> QED BY <1>1, <1>2, <1>3, <1>4

\* A mutex that is locked and unlocked with nothing held, and with one other held.
LEMMA UnlockAlone ==
  ASSUME NEW s, Safe(s, {}), NEW m \in Mutexes \ {"writer"}
  PROVE  Safe(Before(Unlock(m), s), {m})
<1>1. \A n : n \in {m} <=> n \in {} \/ n = m
  OBVIOUS
<1> QED BY <1>1, SafeUnlock

LEMMA UnlockSecond ==
  ASSUME NEW s, NEW a, Safe(s, {a}), NEW m \in Mutexes \ {"writer"}, a # m
  PROVE  Safe(Before(Unlock(m), s), {a, m})
<1>1. \A n : n \in {a, m} <=> n \in {a} \/ n = m
  OBVIOUS
<1>2. m \notin {a}
  OBVIOUS
<1> QED BY <1>1, <1>2, SafeUnlock

LEMMA LockAlone ==
  ASSUME NEW s, NEW m \in Mutexes \ {"writer"}, Safe(s, {m})
  PROVE  Safe(Before(Lock(m), s), {})
<1>1. \A n : n \in {} <=> n \in {m} /\ n # m
  OBVIOUS
<1>2. \A n \in {m} \ {m} : Rank(n) < Rank(m)
  OBVIOUS
<1> QED BY <1>1, <1>2, SafeLock

LEMMA LockSecond ==
  ASSUME NEW s, NEW m \in Mutexes \ {"writer"}, NEW a, Safe(s, {a, m}), a # m,
         Rank(a) < Rank(m)
  PROVE  Safe(Before(Lock(m), s), {a})
<1>1. \A n : n \in {a} <=> n \in {a, m} /\ n # m
  OBVIOUS
<1>2. \A n \in {a, m} \ {m} : Rank(n) < Rank(m)
  OBVIOUS
<1>3. m \in {a, m}
  OBVIOUS
<1> QED BY <1>1, <1>2, <1>3, SafeLock

LEMMA GetIsSafe == Safe(GetScript, {})
<1> DEFINE s1 == Before(Unlock("loggers"), <<>>)
             s2 == Before(Do("find"), s1)
             s3 == Before(Do("initialize"), s2)
             s4 == Before(Lock("loggers"), s3)
<1>1. GetScript = s4
  BY FourSteps DEF GetScript
<1> HIDE DEF s1, s2, s3, s4
<1>2. Safe(s1, {"loggers"})
  BY SafeEnd, UnlockAlone DEF s1, Mutexes
<1>3. Safe(s2, {"loggers"})
  BY <1>2, SafeDo DEF s2, Deeds
<1>4. Safe(s3, {"loggers"})
  BY <1>3, SafeDo DEF s3, Deeds
<1>5. Safe(s4, {})
  BY <1>4, LockAlone DEF s4, Mutexes
<1> QED BY <1>1, <1>5

LEMMA RemoveWriterIsSafe == Safe(RemoveWriter, {})
<1> DEFINE s1 == Before(Unlock("logger"), <<>>)
             s2 == Before(Do("destroy_writer"), s1)
             s3 == Before(Lock("logger"), s2)
<1>1. RemoveWriter = s3
  BY ThreeSteps DEF RemoveWriter
<1> HIDE DEF s1, s2, s3
<1>2. Safe(s1, {"logger"})
  BY SafeEnd, UnlockAlone DEF s1, Mutexes
<1>3. Safe(s2, {"logger"})
  BY <1>2, SafeDo DEF s2, Deeds
<1>4. Safe(s3, {})
  BY <1>3, LockAlone DEF s3, Mutexes
<1> QED BY <1>1, <1>4

LEMMA RemoveUnusedIsSafe == Safe(RemoveUnused, {})
<1> DEFINE s1 == Before(Unlock("loggers"), <<>>)
             s2 == Before(Do("sweep"), s1)
             s3 == Before(Lock("loggers"), s2)
<1>1. RemoveUnused = s3
  BY ThreeSteps DEF RemoveUnused
<1> HIDE DEF s1, s2, s3
<1>2. Safe(s1, {"loggers"})
  BY SafeEnd, UnlockAlone DEF s1, Mutexes
<1>3. Safe(s2, {"loggers"})
  BY <1>2, SafeDo DEF s2, Deeds
<1>4. Safe(s3, {})
  BY <1>3, LockAlone DEF s3, Mutexes
<1> QED BY <1>1, <1>4

LEMMA ForwardIsSafe == Safe(Forward, {})
<1> DEFINE s1 == Before(Do("release"), <<>>)
             s2 == Before(Unlock("inner"), s1)
             s3 == Before(Lock("inner"), s2)
<1>1. Forward = s3
  BY ThreeSteps DEF Forward
<1> HIDE DEF s1, s2, s3
<1>2. Safe(s1, {})
  BY SafeEnd, SafeDo DEF s1, Deeds
<1>3. Safe(s2, {"inner"})
  BY <1>2, UnlockAlone DEF s2, Mutexes
<1>4. Safe(s3, {})
  BY <1>3, LockAlone DEF s3, Mutexes
<1> QED BY <1>1, <1>4

LEMMA WriteScriptIsSafe == Safe(WriteScript, {})
<1> DEFINE s1 == Before(Unlock("root"), <<>>)
             s2 == Before(Unlock("root_writer"), s1)
             s3 == Before(Lock("root_writer"), s2)
             s4 == Before(Lock("root"), s3)
             s5 == Before(Unlock("logger"), s4)
             s6 == Before(Do("write"), s5)
             s7 == Before(Lock("logger"), s6)
<1>1. WriteScript = s7
  BY SevenSteps DEF WriteScript
<1> HIDE DEF s1, s2, s3, s4, s5, s6, s7
<1>2. Safe(s1, {"root"})
  BY SafeEnd, UnlockAlone DEF s1, Mutexes
<1>3. Safe(s2, {"root", "root_writer"})
  BY <1>2, UnlockSecond DEF s2, Mutexes
<1>4. Safe(s3, {"root"})
  <2>1. "root_writer" \in Mutexes \ {"writer"} /\ "root" # "root_writer"
    BY DEF Mutexes
  <2>2. Rank("root") < Rank("root_writer")
    BY Places
  <2> QED BY <1>3, <2>1, <2>2, LockSecond DEF s3
<1>5. Safe(s4, {})
  BY <1>4, LockAlone DEF s4, Mutexes
<1>6. Safe(s5, {"logger"})
  BY <1>5, UnlockAlone DEF s5, Mutexes
<1>7. Safe(s6, {"logger"})
  BY <1>6, SafeDo DEF s6, Deeds
<1>8. Safe(s7, {})
  BY <1>7, LockAlone DEF s7, Mutexes
<1> QED BY <1>1, <1>8
LEMMA ReleaseIsSafe == Safe(<<Do("release")>>, {})
<1> DEFINE s1 == Before(Do("release"), <<>>)
<1>1. <<Do("release")>> = s1
  BY OneStep
<1> HIDE DEF s1
<1>2. Safe(s1, {})
  BY SafeEnd, SafeDo DEF s1, Deeds
<1> QED BY <1>1, <1>2

LEMMA TakeEventIsSafe == Safe(TakeEvent, {"cache"})
<1> DEFINE s1 == Before(Do("decide"), <<>>)
             s2 == Before(Unlock("cache"), s1)
             s3 == Before(Unlock("loggers"), s2)
             s4 == Before(Do("find"), s3)
             s5 == Before(Lock("loggers"), s4)
<1>1. TakeEvent = s5
  BY FiveSteps DEF TakeEvent
<1> HIDE DEF s1, s2, s3, s4, s5
<1>2. Safe(s1, {})
  BY SafeEnd, SafeDo DEF s1, Deeds
<1>3. Safe(s2, {"cache"})
  BY <1>2, UnlockAlone DEF s2, Mutexes
<1>4. Safe(s3, {"cache", "loggers"})
  BY <1>3, UnlockSecond DEF s3, Mutexes
<1>5. Safe(s4, {"cache", "loggers"})
  BY <1>4, SafeDo DEF s4, Deeds
<1>6. Safe(s5, {"cache"})
  BY <1>5, LockSecond, Places DEF s5, Mutexes
<1> QED BY <1>1, <1>6

LEMMA TimeOutIsSafe == Safe(TimeOut, {"cache"})
<1> DEFINE s1 == Before(Do("decide_empty"), <<>>)
             s2 == Before(Unlock("cache"), s1)
<1>1. TimeOut = s2
  BY TwoSteps DEF TimeOut
<1> HIDE DEF s1, s2
<1>2. Safe(s1, {})
  BY SafeEnd, SafeDo DEF s1, Deeds
<1>3. Safe(s2, {"cache"})
  BY <1>2, UnlockAlone DEF s2, Mutexes
<1> QED BY <1>1, <1>3

LEMMA PopIsSafe == Safe(Pop, {})
<1> DEFINE s1 == Before(Do("wait"), <<>>)
           s2 == Before(Lock("cache"), s1)
<1>1. Pop = s2 /\ s1 = <<Do("wait")>>
  BY OneStep, TwoSteps DEF Pop
<1> HIDE DEF s1, s2
<1>2. Good(s1) /\ Held(s1) = {"cache"}
  BY <1>1, WaitIsGood
<1>3. Do("wait") # Do("join") /\ Do("wait") # Lock("writer") /\ Do("wait") # Unlock("writer")
  BY StepsDiffer DEF Mutexes, Deeds
<1>4. Do("wait") \in Steps /\ "join" \in Deeds /\ <<>> \in Seq(Steps)
  <2>1. "wait" \in Deeds /\ "join" \in Deeds
    BY DEF Deeds
  <2> QED BY <2>1, StepsAre
<1>5. ~Has(s1, "join") /\ ~InWriter(s1)
  BY <1>3, <1>4, HasPrepended, NothingLeft DEF s1, Before
<1>6. Safe(s1, {"cache"})
  BY <1>2, <1>5 DEF Safe
<1>7. Safe(s2, {})
  BY <1>6, LockAlone DEF s2, Mutexes
<1> QED BY <1>1, <1>7

LEMMA LogIsSafe == Safe(Log, {})
<1> DEFINE w == WriteScript
           s1 == Before(Unlock("logger"), w)
           s2 == Before(Unlock("loggers"), s1)
           s3 == Before(Lock("loggers"), s2)
           s4 == Before(Lock("logger"), s3)
<1>1. Log = s4
  <2> DEFINE a == Lock("logger")
             b == Lock("loggers")
             c == Unlock("loggers")
             d == Unlock("logger")
  <2>1. a \in Steps /\ b \in Steps /\ c \in Steps /\ d \in Steps
    BY StepsAre DEF Mutexes
  <2> DEFINE d1 == Before(d, <<>>)
             c1 == Before(c, d1)
             b1 == Before(b, c1)
  <2>2. Permits = Before(a, b1)
    BY FourSteps DEF Permits
  <2>3. w \in Seq(Steps) /\ <<>> \in Seq(Steps) /\ <<>> \o w = w
    <3>1. w \in Seq(Steps)
      BY WriteScriptIsSafe DEF Safe, Good
    <3> QED BY <3>1
  <2> HIDE DEF a, b, c, d, w
  <2>4. d1 \o w = Before(d, <<>> \o w) /\ d1 \in Seq(Steps)
    BY <2>1, <2>3, BeforeConcat
  <2> HIDE DEF d1
  <2>5. c1 \o w = Before(c, d1 \o w) /\ c1 \in Seq(Steps)
    BY <2>1, <2>3, <2>4, BeforeConcat
  <2> HIDE DEF c1
  <2>6. b1 \o w = Before(b, c1 \o w) /\ b1 \in Seq(Steps)
    BY <2>1, <2>3, <2>5, BeforeConcat
  <2> HIDE DEF b1
  <2>7. Before(a, b1) \o w = Before(a, b1 \o w)
    BY <2>1, <2>3, <2>6, BeforeConcat
  <2>8. Before(a, b1 \o w) = Before(a, Before(b, Before(c, Before(d, w))))
    BY <2>3, <2>4, <2>5, <2>6
  <2> QED BY <2>2, <2>7, <2>8 DEF Log, a, b, c, d, w
<1> HIDE DEF s1, s2, s3, s4, w
<1>2. Safe(w, {})
  BY WriteScriptIsSafe DEF w
<1>3. Safe(s1, {"logger"})
  BY <1>2, UnlockAlone DEF s1, Mutexes
<1>4. Safe(s2, {"logger", "loggers"})
  BY <1>3, UnlockSecond DEF s2, Mutexes
<1>5. Safe(s3, {"logger"})
  BY <1>4, LockSecond, Places DEF s3, Mutexes
<1>6. Safe(s4, {})
  BY <1>5, LockAlone DEF s4, Mutexes
<1> QED BY <1>1, <1>6

LEMMA HasConcat ==
  ASSUME NEW r \in Seq(Steps), NEW s \in Seq(Steps), NEW what
  PROVE  Has(r \o s, what) => Has(r, what) \/ Has(s, what)
<1> SUFFICES ASSUME Has(r \o s, what)
             PROVE  Has(r, what) \/ Has(s, what)
  OBVIOUS
<1>1. PICK i \in 1 .. Len(r \o s) : (r \o s)[i] = Do(what)
  BY DEF Has
<1>2. CASE i <= Len(r)
  <2>1. i \in 1 .. Len(r) /\ r[i] = Do(what)
    BY <1>1, <1>2
  <2> QED BY <2>1 DEF Has
<1>3. CASE i > Len(r)
  <2>1. i - Len(r) \in 1 .. Len(s) /\ s[i - Len(r)] = Do(what)
    BY <1>1, <1>3
  <2> QED BY <2>1 DEF Has
<1> QED BY <1>1, <1>2, <1>3

\* What a call does, whichever it is.
LEMMA CallsAreSafe ==
  ASSUME NEW op \in AllOperations
  PROVE  /\ Safe(ScriptOf(op), {})
         /\ Has(ScriptOf(op), "write") => op = "log"
         /\ Has(ScriptOf(op), "sweep") => op = "remove_unused"
<1>1. CASE op = "get"
  <2>1. ~Has(GetScript, "write") /\ ~Has(GetScript, "sweep")
    BY DEF Has, GetScript, Lock, Unlock, Do
  <2> QED BY <1>1, <2>1, GetIsSafe DEF ScriptOf
<1>2. CASE op = "log"
  <2>1. ~Has(Permits, "sweep")
    BY DEF Has, Permits, Lock, Unlock, Do
  <2>2. ~Has(WriteScript, "sweep")
    BY DEF Has, WriteScript, Lock, Unlock, Do
  <2>3. Permits \in Seq(Steps) /\ WriteScript \in Seq(Steps)
    <3>1. WriteScript \in Seq(Steps)
      BY WriteScriptIsSafe DEF Safe, Good
    <3>2. Permits \in Seq(Steps)
      BY StepsAre DEF Permits, Mutexes
    <3> QED BY <3>1, <3>2
  <2>4. ~Has(Log, "sweep")
    BY <2>1, <2>2, <2>3, HasConcat DEF Log
  <2> QED BY <1>2, <2>4, LogIsSafe DEF ScriptOf
<1>3. CASE op = "release"
  <2>1. ~Has(<<Do("release")>>, "write") /\ ~Has(<<Do("release")>>, "sweep")
    BY DEF Has, Do
  <2> QED BY <1>3, <2>1, ReleaseIsSafe DEF ScriptOf
<1>4. CASE op = "remove_writer"
  <2>1. ~Has(RemoveWriter, "write") /\ ~Has(RemoveWriter, "sweep")
    BY DEF Has, RemoveWriter, Lock, Unlock, Do
  <2> QED BY <1>4, <2>1, RemoveWriterIsSafe DEF ScriptOf
<1>5. CASE op = "remove_unused"
  <2>1. ~Has(RemoveUnused, "write")
    BY DEF Has, RemoveUnused, Lock, Unlock, Do
  <2> QED BY <1>5, <2>1, RemoveUnusedIsSafe DEF ScriptOf
<1> QED BY <1>1, <1>2, <1>3, <1>4, <1>5 DEF AllOperations
\* What a write does in the writer, under the guard of the logger.
InAsynchronous == <<Lock("writer"), Lock("cache"), Do("push"), Unlock("cache"), Unlock("writer")>>
InSynchronous == <<Lock("writer"), Unlock("writer")>>

LEMMA WritingIsGood ==
  ASSUME NEW r, Good(r), Held(r) = {"logger"}, ~Has(r, "join"),
         NEW more \in {InAsynchronous, InSynchronous}
  PROVE  /\ Good(more \o r)
         /\ Held(more \o r) = {"logger"}
         /\ ~Has(more \o r, "join")
         /\ \A what \in Deeds : Has(more \o r, what) => what = "push" \/ Has(r, what)
<1> DEFINE u1 == Before(Unlock("writer"), r)
           u2 == Before(Unlock("cache"), u1)
           u3 == Before(Do("push"), u2)
           u4 == Before(Lock("cache"), u3)
           lw(s) == Before(Lock("writer"), s)
           Ok(s, held) == /\ Good(s) /\ Held(s) = held
                          /\ \A what \in Deeds : Has(s, what) => what = "push" \/ Has(r, what)
<1>1. \A s : Good(s) => s \in Seq(Steps)
  BY DEF Good
<1>2. {"logger", "writer", "cache"} \subseteq Mutexes /\ {"push", "join"} \subseteq Deeds
  BY DEF Mutexes, Deeds
<1>3. \A m \in Mutexes, what \in Deeds : Lock(m) # Do(what) /\ Unlock(m) # Do(what)
  BY StepsDiffer
<1>4. \A what \in Deeds : Do("push") = Do(what) => what = "push"
  BY <1>2, StepsDiffer
<1>5. \A m \in Mutexes : Lock(m) \in Steps /\ Unlock(m) \in Steps
  BY StepsAre
<1>6. Do("push") \in Steps
  BY <1>2, StepsAre
<1>7. ASSUME NEW s, NEW held, Ok(s, held), NEW m \in Mutexes
      PROVE  /\ m \notin held /\ m # "logger" => Ok(Before(Unlock(m), s), held \cup {m})
             /\ m \in held /\ (\A n \in held \ {m} : Rank(n) < Rank(m))
                  => Ok(Before(Lock(m), s), held \ {m})
  <2>1. s \in Seq(Steps) /\ ~Has(s, "join") /\ Good(s) /\ Held(s) = held
    BY <1>1, <1>2, <1>7
  <2>2. \A what \in Deeds : /\ Has(Before(Unlock(m), s), what) => Has(s, what)
                            /\ Has(Before(Lock(m), s), what) => Has(s, what)
    BY <2>1, <1>3, <1>5, HasPrepended DEF Before
  <2>3. ASSUME m \notin held, m # "logger"
        PROVE  Ok(Before(Unlock(m), s), held \cup {m})
    <3>1. Good(Before(Unlock(m), s)) /\ Held(Before(Unlock(m), s)) = held \cup {m}
      BY <2>1, <2>3, UnlockBefore DEF Before
    <3> QED BY <3>1, <2>2, <1>7
  <2>4. ASSUME m \in held, \A n \in held \ {m} : Rank(n) < Rank(m)
        PROVE  Ok(Before(Lock(m), s), held \ {m})
    <3>1. Good(Before(Lock(m), s)) /\ Held(Before(Lock(m), s)) = held \ {m}
      BY <2>1, <2>4, LockBefore DEF Before
    <3> QED BY <3>1, <2>2, <1>7
  <2> QED BY <2>3, <2>4
<1>8. Ok(r, {"logger"})
  OBVIOUS
<1> HIDE DEF Ok
<1>9. Ok(u1, {"logger", "writer"})
  <2>1. {"logger"} \cup {"writer"} = {"logger", "writer"} /\ "writer" \notin {"logger"}
    OBVIOUS
  <2>2. Ok(Before(Unlock("writer"), r), {"logger"} \cup {"writer"})
    BY <1>2, <1>7, <1>8, <2>1
  <2> QED BY <2>1, <2>2
<1>10. Ok(u2, {"logger", "writer", "cache"})
  <2>1. /\ {"logger", "writer"} \cup {"cache"} = {"logger", "writer", "cache"}
        /\ "cache" \notin {"logger", "writer"}
    OBVIOUS
  <2>2. Ok(Before(Unlock("cache"), u1), {"logger", "writer"} \cup {"cache"})
    BY <1>2, <1>7, <1>9, <2>1
  <2> QED BY <2>1, <2>2
<1>11. Ok(u3, {"logger", "writer", "cache"})
  <2>1. u2 \in Seq(Steps) /\ Good(u2) /\ Held(u2) = {"logger", "writer", "cache"}
    BY <1>1, <1>10 DEF Ok
  <2>2. ~Has(u2, "join")
    BY <1>2, <1>10 DEF Ok
  <2>3. Good(u3) /\ Held(u3) = {"logger", "writer", "cache"}
    BY <2>1, <2>2, <1>2, DoBefore DEF Before
  <2>4. \A what \in Deeds : Has(u3, what) <=> Do("push") = Do(what) \/ Has(u2, what)
    BY <2>1, <1>6, HasPrepended DEF Before
  <2> QED BY <2>3, <2>4, <1>4, <1>10 DEF Ok
<1>12. Ok(u4, {"logger", "writer"})
  <2>1. {"logger", "writer", "cache"} \ {"cache"} = {"logger", "writer"}
    OBVIOUS
  <2>2. \A n \in {"logger", "writer", "cache"} \ {"cache"} : Rank(n) < Rank("cache")
    BY Places
  <2>3. Ok(Before(Lock("cache"), u3), {"logger", "writer", "cache"} \ {"cache"})
    BY <1>2, <1>7, <1>11, <2>2
  <2> QED BY <2>1, <2>3
<1>13. ASSUME NEW s, Ok(s, {"logger", "writer"})
       PROVE  Ok(lw(s), {"logger"})
  <2>1. {"logger", "writer"} \ {"writer"} = {"logger"}
    OBVIOUS
  <2>2. \A n \in {"logger", "writer"} \ {"writer"} : Rank(n) < Rank("writer")
    BY Places
  <2>3. Ok(Before(Lock("writer"), s), {"logger", "writer"} \ {"writer"})
    BY <1>2, <1>7, <1>13, <2>2
  <2> QED BY <2>1, <2>3
<1>14. Ok(lw(u4), {"logger"}) /\ Ok(lw(u1), {"logger"})
  BY <1>9, <1>12, <1>13
<1>15. InAsynchronous \o r = lw(u4) /\ InSynchronous \o r = lw(u1)
  <2> DEFINE a == Lock("writer")
             b == Lock("cache")
             c == Do("push")
             d == Unlock("cache")
             e == Unlock("writer")
             e1 == Before(e, <<>>)
             d1 == Before(d, e1)
             c1 == Before(c, d1)
             b1 == Before(b, c1)
  <2>1. a \in Steps /\ b \in Steps /\ c \in Steps /\ d \in Steps /\ e \in Steps
    BY <1>2, <1>5, <1>6
  <2>2. InAsynchronous = Before(a, b1) /\ InSynchronous = Before(a, e1)
    BY FiveSteps, TwoSteps DEF InAsynchronous, InSynchronous
  <2>3. r \in Seq(Steps) /\ <<>> \in Seq(Steps) /\ <<>> \o r = r
    <3>1. r \in Seq(Steps)
      BY <1>1
    <3> QED BY <3>1
  <2> HIDE DEF a, b, c, d, e
  <2>4. e1 \o r = Before(e, <<>> \o r) /\ e1 \in Seq(Steps)
    BY <2>1, <2>3, BeforeConcat
  <2> HIDE DEF e1
  <2>5. d1 \o r = Before(d, e1 \o r) /\ d1 \in Seq(Steps)
    BY <2>1, <2>3, <2>4, BeforeConcat
  <2> HIDE DEF d1
  <2>6. c1 \o r = Before(c, d1 \o r) /\ c1 \in Seq(Steps)
    BY <2>1, <2>3, <2>5, BeforeConcat
  <2> HIDE DEF c1
  <2>7. b1 \o r = Before(b, c1 \o r) /\ b1 \in Seq(Steps)
    BY <2>1, <2>3, <2>6, BeforeConcat
  <2> HIDE DEF b1
  <2>8. Before(a, b1) \o r = Before(a, b1 \o r) /\ Before(a, e1) \o r = Before(a, e1 \o r)
    BY <2>1, <2>3, <2>4, <2>7, BeforeConcat
  <2>9. Before(a, b1 \o r) = lw(u4) /\ Before(a, e1 \o r) = lw(u1)
    BY <2>3, <2>4, <2>5, <2>6, <2>7 DEF a, b, c, d, e
  <2> QED BY <2>2, <2>8, <2>9
<1> HIDE DEF lw, u4, u1
<1>16. Ok(more \o r, {"logger"})
  BY <1>14, <1>15
<1> QED BY <1>2, <1>16 DEF Ok
-----------------------------------------------------------------------------
(* The invariant.                                                          *)

WorkerSteps == {Lock(m) : m \in {"cache", "inner", "loggers"}}
                 \cup {Unlock(m) : m \in {"cache", "inner", "loggers"}}
                 \cup {Do(what) : what \in {"find", "release", "wait", "decide",
                                            "decide_empty"}}

\* The threads but for one that waits for itself.
Running == AllThreads \ {unconfigured}

TypeInv == /\ owner \in [Mutexes -> AllThreads \cup {Nobody}]
           /\ script \in [AllThreads -> Seq(Steps)]
           /\ calls \in [Threads -> Nat]
           /\ writer \in {"present", "stopping", "gone"}
           /\ worker \in {"running", "exited"}
           /\ asynchronous \in BOOLEAN
           /\ unconfigured \in Threads \cup {Nobody}

\* The thread whose first get cannot configure the loggers locks what it holds, and
\* holds nothing else.
StuckInv ==
  unconfigured # Nobody =>
    /\ AtStep(unconfigured, "lock") /\ Head(script[unconfigured]).on = "loggers"
    /\ \A m \in Mutexes : owner[m] = unconfigured <=> m = "loggers"

ScriptInv == /\ \A t \in Running : Good(script[t])
             /\ script["worker"] \in Seq(WorkerSteps)

\* What a thread still has to do tells what it holds.
OwnerInv == \A t \in Running, m \in Mutexes : owner[m] = t <=> m \in Held(script[t])

\* Who is in the writer has the guard of a logger that still has it; who destroys it
\* keeps all others from getting there, by the guard of the logger, or by that of all
\* loggers when nobody has a pointer to this one.
WriterInv ==
  /\ \A t \in Running : InWriter(script[t]) => /\ writer = "present"
                                               /\ owner["logger"] = t
                                               /\ t \in handles
  /\ \A t \in Running : Has(script[t], "write") => t \in handles
  /\ \A t \in Running : AtStep(t, "join") => writer # "present"
  /\ writer = "stopping" =>
       \E u \in Running : /\ AtStep(u, "join")
                          /\ \/ owner["logger"] = u
                             \/ owner["loggers"] = u /\ handles = {}

IInv == TypeInv /\ StuckInv /\ ScriptInv /\ OwnerInv /\ WriterInv

LEMMA ThreadsAreSomebody ==
  /\ "worker" \notin Threads /\ Nobody \notin AllThreads
  /\ "worker" \in AllThreads /\ Threads \subseteq AllThreads
BY ThreadsAssumption DEF Nobody, AllThreads

LEMMA RunningAreThreads ==
  /\ Running \subseteq AllThreads
  /\ unconfigured' = unconfigured => Running' = Running
  /\ unconfigured \in Threads \cup {Nobody} => "worker" \in Running
BY ThreadsAreSomebody DEF Running, AllThreads

\* A thread that is not the one that waits for itself makes a step.
LEMMA StuckKept ==
  ASSUME StuckInv, NEW t \in Running, unconfigured' = unconfigured,
         unconfigured \in Threads \cup {Nobody},
         \A u \in AllThreads \ {t} : script'[u] = script[u],
         unconfigured # Nobody =>
           \A m \in Mutexes : owner'[m] = unconfigured <=> owner[m] = unconfigured
  PROVE  StuckInv'
<1> SUFFICES ASSUME unconfigured # Nobody
             PROVE  /\ AtStep(unconfigured, "lock")' /\ Head(script'[unconfigured]).on = "loggers"
                    /\ \A m \in Mutexes : owner'[m] = unconfigured <=> m = "loggers"
  BY DEF StuckInv
<1>1. script'[unconfigured] = script[unconfigured]
  BY ThreadsAreSomebody DEF Running
<1>2. AtStep(unconfigured, "lock")'
  BY <1>1 DEF StuckInv, AtStep
<1> QED BY <1>1, <1>2 DEF StuckInv

\* Only a running thread goes on.
LEMMA StuckWaits ==
  ASSUME StuckInv, TypeInv, NEW t \in AllThreads
  PROVE  /\ AtStep(t, "lock") /\ owner[Head(script[t]).on] = Nobody => t \in Running
         /\ ~AtStep(t, "lock") => t \in Running
<1>1. ASSUME t = unconfigured
      PROVE  AtStep(t, "lock") /\ owner[Head(script[t]).on] # Nobody
  <2>1. unconfigured # Nobody /\ "loggers" \in Mutexes
    BY <1>1, ThreadsAreSomebody DEF Mutexes
  <2> QED BY <1>1, <2>1 DEF StuckInv
<1> QED BY <1>1 DEF Running

\* What a thread is about to do, and what is left then.
LEMMA NextStep ==
  ASSUME NEW s, Good(s), s # <<>>
  PROVE  /\ s \in Seq(Steps) /\ Head(s) \in Steps
         /\ Tail(s) \in Seq(Steps) /\ Good(Tail(s)) /\ Fine(Head(s), Tail(s))
         /\ \A m \in Mutexes : m \in Held(s)
              <=> Frees(Head(s), m) \/ (Head(s) # Lock(m) /\ m \in Held(Tail(s)))
         /\ \A what \in Deeds : Has(s, what) <=> Head(s) = Do(what) \/ Has(Tail(s), what)
         /\ InWriter(s) <=> Head(s) \in {Lock("writer"), Unlock("writer")} \/ InWriter(Tail(s))
<1> DEFINE h == Head(s)
           r == Tail(s)
<1>1. h \in Steps /\ r \in Seq(Steps) /\ s = <<h>> \o r /\ Fine(h, r) /\ Good(r)
  BY GoodTail
<1> HIDE DEF h, r
<1>2. \A m \in Mutexes : m \in Held(<<h>> \o r) <=> Frees(h, m) \/ (h # Lock(m) /\ m \in Held(r))
  BY <1>1, HeldPrepended
<1>3. \A what \in Deeds : Has(<<h>> \o r, what) <=> h = Do(what) \/ Has(r, what)
  BY <1>1, HasPrepended
<1>4. InWriter(<<h>> \o r) <=> h \in {Lock("writer"), Unlock("writer")} \/ InWriter(r)
  BY <1>1, HasPrepended
<1>5. s \in Seq(Steps)
  BY DEF Good
<1> QED BY <1>1, <1>2, <1>3, <1>4, <1>5 DEF h, r

LEMMA AtLock ==
  ASSUME NEW t \in Running, Good(script[t]), AtStep(t, "lock")
  PROVE  \E m \in Mutexes : Head(script[t]) = Lock(m) /\ Head(script[t]).on = m
<1>1. Head(script[t]) \in Steps
  BY NextStep DEF AtStep
<1>2. Head(script[t]).does = "lock"
  BY DEF AtStep
<1> QED BY <1>1, <1>2, StepIs

LEMMA AtUnlock ==
  ASSUME NEW t \in Running, Good(script[t]), AtStep(t, "unlock")
  PROVE  \E m \in Mutexes : Head(script[t]) = Unlock(m) /\ Head(script[t]).on = m
<1>1. Head(script[t]) \in Steps
  BY NextStep DEF AtStep
<1>2. Head(script[t]).does = "unlock"
  BY DEF AtStep
<1> QED BY <1>1, <1>2, StepIs

LEMMA AtDeed ==
  ASSUME NEW t \in Running, Good(script[t]), NEW what \in Deeds
  PROVE  AtStep(t, what) <=> script[t] # <<>> /\ Head(script[t]) = Do(what)
<1>1. ASSUME AtStep(t, what)
      PROVE  script[t] # <<>> /\ Head(script[t]) = Do(what)
  <2>1. script[t] # <<>> /\ Head(script[t]) \in Steps /\ Head(script[t]).does = what
    BY <1>1, NextStep DEF AtStep
  <2> QED BY <2>1, StepIs
<1>2. ASSUME script[t] # <<>>, Head(script[t]) = Do(what)
      PROVE  AtStep(t, what)
  BY <1>2 DEF AtStep, Do
<1> QED BY <1>1, <1>2

LEMMA InitIsGood == Init => IInv
<1> SUFFICES ASSUME Init
             PROVE  IInv
  OBVIOUS
<1>1. TypeInv
  BY ThreadsAreSomebody, RunningAreThreads DEF Init, TypeInv
<1>2. \A t \in Running : script[t] = <<>>
  BY RunningAreThreads DEF Init
<1>3. ScriptInv
  <2>1. script["worker"] = <<>> /\ <<>> \in Seq(WorkerSteps)
    BY <1>2, ThreadsAreSomebody, RunningAreThreads DEF Init
  <2> QED BY <1>2, <2>1, NothingLeft DEF ScriptInv
<1>4. OwnerInv
  BY <1>2, NothingLeft, ThreadsAreSomebody, RunningAreThreads DEF OwnerInv, Init
<1>5. WriterInv
  <2>1. "write" \in Deeds
    BY DEF Deeds
  <2>2. \A t \in Running : ~AtStep(t, "join")
    BY <1>2 DEF AtStep
  <2> QED BY <1>2, <2>1, <2>2, NothingLeft DEF WriterInv, Init
<1>6. StuckInv
  BY DEF Init, StuckInv
<1> QED BY <1>1, <1>3, <1>4, <1>5, <1>6 DEF IInv

\* A thread that goes on with a good script.
LEMMA GoesOn ==
  ASSUME TypeInv, ScriptInv, NEW t \in Running, script[t] # <<>>, NEW more,
         Continue(t, more), Good(more \o Tail(script[t])), unconfigured' = unconfigured,
         t = "worker" => more \in Seq(WorkerSteps)
  PROVE  /\ script' \in [AllThreads -> Seq(Steps)]
         /\ ScriptInv'
         /\ script'[t] = more \o Tail(script[t])
         /\ \A u \in AllThreads \ {t} : script'[u] = script[u]
<1>1. script' = [script EXCEPT ![t] = more \o Tail(@)] /\ t \in AllThreads
  BY RunningAreThreads DEF Continue
<1>2. script'[t] = more \o Tail(script[t]) /\ \A u \in AllThreads \ {t} : script'[u] = script[u]
  BY <1>1 DEF TypeInv
<1>3. more \o Tail(script[t]) \in Seq(Steps)
  BY DEF Good
<1>4. script' \in [AllThreads -> Seq(Steps)]
  BY <1>1, <1>3 DEF TypeInv
<1>5. \A u \in Running' : Good(script'[u])
  BY <1>2, RunningAreThreads DEF ScriptInv
<1>6. script'["worker"] \in Seq(WorkerSteps)
  <2>1. CASE t = "worker"
    <3>1. script["worker"] \in Seq(WorkerSteps) /\ script["worker"] # <<>>
      BY <2>1 DEF ScriptInv
    <3>2. Tail(script["worker"]) \in Seq(WorkerSteps)
      BY <3>1
    <3>3. more \o Tail(script["worker"]) \in Seq(WorkerSteps)
      BY <2>1, <3>2
    <3> QED BY <1>2, <2>1, <3>3
  <2>2. CASE t # "worker"
    BY <1>2, <2>2, ThreadsAreSomebody, RunningAreThreads DEF ScriptInv
  <2> QED BY <2>1, <2>2
<1> QED BY <1>2, <1>4, <1>5, <1>6 DEF ScriptInv
LEMMA GoesOnWithRest ==
  ASSUME TypeInv, ScriptInv, NEW t \in Running, script[t] # <<>>, Continue(t, <<>>),
         unconfigured' = unconfigured
  PROVE  /\ script' \in [AllThreads -> Seq(Steps)]
         /\ ScriptInv'
         /\ script'[t] = Tail(script[t])
         /\ \A u \in AllThreads \ {t} : script'[u] = script[u]
<1>1. Good(Tail(script[t])) /\ Tail(script[t]) \in Seq(Steps)
  BY NextStep DEF ScriptInv
<1>2. <<>> \o Tail(script[t]) = Tail(script[t]) /\ <<>> \in Seq(WorkerSteps)
  BY <1>1
<1>3. Good(<<>> \o Tail(script[t]))
  BY <1>1, <1>2
<1> QED BY <1>2, <1>3, GoesOn

\* A thread that goes on with the rest of its script is not at a join, and what it still
\* has to do it had to do before.
LEMMA RestIsLess ==
  ASSUME ScriptInv, ScriptInv', NEW t \in Running, script[t] # <<>>,
         unconfigured' = unconfigured, script'[t] = Tail(script[t]),
         \A u \in AllThreads \ {t} : script'[u] = script[u]
  PROVE  /\ \A u \in Running : InWriter(script'[u]) => InWriter(script[u])
         /\ \A u \in Running : Has(script'[u], "write") => Has(script[u], "write")
         /\ \A u \in Running : AtStep(u, "join")' => u # t /\ AtStep(u, "join")
         /\ \A u \in Running : u # t => (AtStep(u, "join")' <=> AtStep(u, "join"))
<1>1. "write" \in Deeds /\ "join" \in Deeds
  BY DEF Deeds
<1>2. /\ InWriter(Tail(script[t])) => InWriter(script[t])
      /\ Has(Tail(script[t]), "write") => Has(script[t], "write")
      /\ ~Has(Tail(script[t]), "join")
  BY <1>1, NextStep DEF ScriptInv, Fine
<1>3. ~AtStep(t, "join")'
  <2>1. SUFFICES ASSUME script'[t] # <<>>, Head(script'[t]).does = "join"
                 PROVE  FALSE
    BY DEF AtStep
  <2>2. Good(script'[t])
    BY RunningAreThreads DEF ScriptInv
  <2>3. script'[t] \in Seq(Steps) /\ Head(script'[t]) \in Steps
    BY <2>1, <2>2, NextStep
  <2>4. Head(script'[t]) = Do("join")
    BY <1>1, <2>1, <2>3, StepIs
  <2>5. 1 \in 1 .. Len(script'[t]) /\ script'[t][1] = Do("join")
    BY <2>1, <2>3, <2>4
  <2> QED BY <1>2, <2>5 DEF Has
<1>4. \A u \in AllThreads \ {t} : AtStep(u, "join")' <=> AtStep(u, "join")
  BY DEF AtStep
<1> QED BY <1>2, <1>3, <1>4, RunningAreThreads
\* A step that neither takes nor gives back a mutex.
LEMMA OwnersKept ==
  ASSUME OwnerInv, owner' = owner, unconfigured' = unconfigured, NEW t \in Running,
         \A m \in Mutexes : m \in Held(script'[t]) <=> m \in Held(script[t]),
         \A u \in AllThreads \ {t} : script'[u] = script[u]
  PROVE  OwnerInv'
BY RunningAreThreads DEF OwnerInv

LEMMA DeedHoldsTheSame ==
  ASSUME ScriptInv, NEW t \in Running, NEW what \in Deeds \ {"wait"}, AtStep(t, what)
  PROVE  \A m \in Mutexes : m \in Held(Tail(script[t])) <=> m \in Held(script[t])
<1>1. script[t] # <<>> /\ Head(script[t]) = Do(what) /\ Good(script[t])
  BY AtDeed DEF ScriptInv
<1>2. \A m \in Mutexes : Do(what) # Lock(m) /\ Do(what) # Unlock(m)
  BY StepsDiffer
<1>3. Do(what) # Do("wait")
  BY StepsDiffer DEF Deeds
<1>4. \A m \in Mutexes : ~Frees(Do(what), m)
  BY <1>2, <1>3 DEF Frees
<1> QED BY <1>1, <1>2, <1>4, NextStep

\* A step of a thread that does not join leaves the writer to those who are in it.
LEMMA WriterKept ==
  ASSUME IInv, NEW t \in Running, script[t] # <<>>, ~AtStep(t, "join"), ScriptInv',
         script'[t] = Tail(script[t]), \A u \in AllThreads \ {t} : script'[u] = script[u],
         writer' = writer, unconfigured' = unconfigured,
         \A u \in Running : /\ u \in handles
                            /\ InWriter(script'[u]) \/ Has(script'[u], "write")
                            => u \in handles',
         \A u \in Running : /\ owner["logger"] = u
                            /\ u # t \/ InWriter(script'[u])
                            => owner'["logger"] = u,
         \A u \in Running \ {t} : owner["loggers"] = u => /\ owner'["loggers"] = u
                                                          /\ handles' \subseteq handles
  PROVE  WriterInv'
<1>1. /\ \A u \in Running : InWriter(script'[u]) => InWriter(script[u])
      /\ \A u \in Running : Has(script'[u], "write") => Has(script[u], "write")
      /\ \A u \in Running : AtStep(u, "join")' => u # t /\ AtStep(u, "join")
      /\ \A u \in Running : u # t => (AtStep(u, "join")' <=> AtStep(u, "join"))
  BY RestIsLess DEF IInv
<1>2. \A u \in Running : InWriter(script'[u]) => /\ writer' = "present"
                                                /\ owner'["logger"] = u
                                                /\ u \in handles'
  BY <1>1 DEF IInv, WriterInv
<1>3. \A u \in Running : Has(script'[u], "write") => u \in handles'
  BY <1>1 DEF IInv, WriterInv
<1>4. \A u \in Running : AtStep(u, "join")' => writer' # "present"
  BY <1>1 DEF IInv, WriterInv
<1>5. ASSUME writer' = "stopping"
      PROVE  \E u \in Running : /\ AtStep(u, "join")'
                                /\ \/ owner'["logger"] = u
                                   \/ owner'["loggers"] = u /\ handles' = {}
  <2>1. PICK u \in Running : /\ AtStep(u, "join")
                             /\ \/ owner["logger"] = u
                                \/ owner["loggers"] = u /\ handles = {}
    BY <1>5 DEF IInv, WriterInv
  <2>2. u # t /\ u \in Running
    BY <2>1
  <2>3. AtStep(u, "join")'
    BY <1>1, <2>1, <2>2
  <2> QED BY <2>1, <2>2, <2>3
<1> QED BY <1>2, <1>3, <1>4, <1>5, RunningAreThreads DEF WriterInv

LEMMA CallKeeps ==
  ASSUME IInv, NEW t \in Threads, NEW op \in AllOperations, Call(t, op)
  PROVE  IInv'
<1>1. /\ script' = [script EXCEPT ![t] = ScriptOf(op)] /\ script[t] = <<>>
      /\ owner' = owner /\ handles' = handles /\ writer' = writer /\ worker' = worker
      /\ asynchronous' = asynchronous /\ calls' = [calls EXCEPT ![t] = @ + 1]
      /\ unconfigured' = unconfigured
      /\ op = "log" => t \in handles
  BY DEF Call, made, first
<1>2. /\ Good(ScriptOf(op)) /\ Held(ScriptOf(op)) = {} /\ ~Has(ScriptOf(op), "join")
      /\ ~InWriter(ScriptOf(op))
      /\ Has(ScriptOf(op), "write") => op = "log"
  BY CallsAreSafe DEF Safe
<1>3. t \in Running /\ t \in AllThreads /\ t # "worker"
  <2>1. ~AtStep(t, "lock")
    BY <1>1 DEF AtStep
  <2> QED BY <2>1, StuckWaits, ThreadsAreSomebody, RunningAreThreads DEF IInv
<1>4. script'[t] = ScriptOf(op) /\ \A u \in AllThreads \ {t} : script'[u] = script[u]
  BY <1>1, <1>3 DEF IInv, TypeInv
<1>5. TypeInv'
  <2>1. ScriptOf(op) \in Seq(Steps)
    BY <1>2 DEF Good
  <2>2. script' \in [AllThreads -> Seq(Steps)]
    BY <1>1, <2>1 DEF IInv, TypeInv
  <2>3. calls' \in [Threads -> Nat]
    BY <1>1 DEF IInv, TypeInv
  <2> QED BY <1>1, <2>2, <2>3 DEF IInv, TypeInv
<1>6. ScriptInv'
  BY <1>1, <1>2, <1>3, <1>4, ThreadsAreSomebody, RunningAreThreads DEF IInv, ScriptInv
<1>7. OwnerInv'
  <2>1. Held(script[t]) = {}
    BY <1>1, NothingLeft
  <2> QED BY <1>1, <1>2, <1>3, <1>4, <2>1, OwnersKept DEF IInv
<1>8. WriterInv'
  <2>1. ~AtStep(t, "join") /\ ~AtStep(t, "join")'
    <3>1. ~AtStep(t, "join")
      BY <1>1 DEF AtStep
    <3>2. ASSUME script'[t] # <<>>, Head(script'[t]).does = "join"
          PROVE  FALSE
      <4>1. Head(script'[t]) \in Steps /\ script'[t] \in Seq(Steps) /\ "join" \in Deeds
        BY <1>2, <1>4, <3>2, NextStep DEF Deeds
      <4>2. Head(script'[t]) = Do("join")
        BY <4>1, <3>2, StepIs
      <4>3. Has(script'[t], "join")
        BY <4>1, <4>2, <1>2, <1>4, <3>2, NextStep
      <4> QED BY <4>3, <1>2, <1>4
    <3> QED BY <3>1, <3>2 DEF AtStep
  <2>2. \A u \in AllThreads : AtStep(u, "join")' <=> AtStep(u, "join")
    BY <1>4, <2>1 DEF AtStep
  <2>3. ~InWriter(script'[t]) /\ (Has(script'[t], "write") => t \in handles)
    BY <1>1, <1>2, <1>4
  <2>4. \A u \in Running : Has(script'[u], "write") => u \in handles'
    <3> TAKE u \in Running
    <3>1. CASE u = t
      BY <3>1, <2>3, <1>1
    <3>2. CASE u # t
      BY <3>2, <1>1, <1>4 DEF IInv, WriterInv
    <3> QED BY <3>1, <3>2
  <2>5. \A u \in Running : InWriter(script'[u]) => /\ writer' = "present"
                                                  /\ owner'["logger"] = u
                                                  /\ u \in handles'
    <3> TAKE u \in Running
    <3>1. CASE u = t
      BY <3>1, <2>3
    <3>2. CASE u # t
      BY <3>2, <1>1, <1>4 DEF IInv, WriterInv
    <3> QED BY <3>1, <3>2
  <2>6. \A u \in Running : AtStep(u, "join")' => writer' # "present"
    BY <1>1, <2>2, RunningAreThreads DEF IInv, WriterInv
  <2>7. ASSUME writer' = "stopping"
        PROVE  \E u \in Running : /\ AtStep(u, "join")'
                                  /\ \/ owner'["logger"] = u
                                     \/ owner'["loggers"] = u /\ handles' = {}
    BY <1>1, <2>2, <2>7, RunningAreThreads DEF IInv, WriterInv
  <2> QED BY <2>4, <2>5, <2>6, <2>7, <1>1, RunningAreThreads DEF WriterInv
<1>9. StuckInv'
  BY <1>1, <1>3, <1>4, StuckKept DEF IInv, TypeInv
<1> QED BY <1>5, <1>6, <1>7, <1>8, <1>9 DEF IInv

LEMMA AcquireKeeps ==
  ASSUME IInv, NEW t \in AllThreads, Acquire(t)
  PROVE  IInv'
<1>0. t \in Running
  BY StuckWaits DEF Acquire, IInv
<1>1. PICK m \in Mutexes : Head(script[t]) = Lock(m) /\ Head(script[t]).on = m
  BY <1>0, AtLock DEF Acquire, IInv, ScriptInv
<1>2. /\ script[t] # <<>> /\ Continue(t, <<>>)
      /\ owner[m] = Nobody /\ owner' = [owner EXCEPT ![m] = t]
      /\ handles' = handles /\ writer' = writer /\ worker' = worker /\ calls' = calls
      /\ asynchronous' = asynchronous /\ unconfigured' = unconfigured
  BY <1>1 DEF Acquire, AtStep, made, first
<1>3. /\ script' \in [AllThreads -> Seq(Steps)] /\ ScriptInv'
      /\ script'[t] = Tail(script[t]) /\ \A u \in AllThreads \ {t} : script'[u] = script[u]
  BY <1>2, GoesOnWithRest, <1>0 DEF IInv
<1>4. TypeInv'
  BY <1>2, <1>3 DEF IInv, TypeInv
<1>5. \A n \in Mutexes : owner'[n] = IF n = m THEN t ELSE owner[n]
  BY <1>2 DEF IInv, TypeInv
<1>6. OwnerInv'
  <2>1. m \in Held(Tail(script[t]))
    BY <1>1, <1>2, NextStep, <1>0 DEF Fine, IInv, ScriptInv
  <2>2. \A n \in Mutexes \ {m} : n \in Held(Tail(script[t])) <=> n \in Held(script[t])
    <3>1. \A n \in Mutexes \ {m} : Lock(m) # Lock(n)
      BY StepsDiffer
    <3>2. \A n \in Mutexes : ~Frees(Lock(m), n)
      BY StepsDiffer DEF Frees, Deeds
    <3> QED BY <1>1, <1>2, <3>1, <3>2, NextStep, <1>0 DEF IInv, ScriptInv
  <2>3. ASSUME NEW u \in Running, NEW n \in Mutexes
        PROVE  owner'[n] = u <=> n \in Held(script'[u])
    <3>1. CASE u = t
      BY <3>1, <1>3, <1>5, <2>1, <2>2 DEF IInv, OwnerInv
    <3>2. CASE u # t
      <4>1. n = m => n \notin Held(script[u])
        BY <1>2, ThreadsAreSomebody, RunningAreThreads DEF IInv, OwnerInv
      <4>2. script'[u] = script[u]
        BY <3>2, <1>3, RunningAreThreads
      <4> QED BY <3>2, <4>1, <4>2, <1>0, <1>2, <1>5 DEF IInv, OwnerInv
    <3> QED BY <3>1, <3>2
  <2> QED BY <2>3, <1>2, RunningAreThreads DEF OwnerInv
<1>7. WriterInv'
  <2>1. ~AtStep(t, "join")
    BY <1>1 DEF AtStep, Lock
  <2>2. "logger" \in Mutexes /\ "loggers" \in Mutexes
    BY DEF Mutexes
  <2>3. \A u \in Running, n \in Mutexes : owner[n] = u => owner'[n] = u
    BY <1>2, <1>5, ThreadsAreSomebody, RunningAreThreads
  <2> QED BY <1>2, <1>3, <2>1, <2>2, <2>3, WriterKept, <1>0
<1>8. StuckInv'
  <2>1. unconfigured # Nobody /\ unconfigured # t
    => \A n \in Mutexes : owner'[n] = unconfigured <=> owner[n] = unconfigured
    BY <1>2, <1>5
  <2> QED BY <1>0, <1>2, <1>3, <2>1, StuckKept DEF IInv, TypeInv, Running
<1> QED BY <1>3, <1>4, <1>6, <1>7, <1>8 DEF IInv
LEMMA ReleaseMutexKeeps ==
  ASSUME IInv, NEW t \in AllThreads, ReleaseMutex(t)
  PROVE  IInv'
<1>0. t \in Running
  <2>1. ~AtStep(t, "lock")
    BY DEF ReleaseMutex, AtStep
  <2> QED BY <2>1, StuckWaits DEF IInv
<1>1. PICK m \in Mutexes : Head(script[t]) = Unlock(m) /\ Head(script[t]).on = m
  BY <1>0, AtUnlock DEF ReleaseMutex, IInv, ScriptInv
<1>2. /\ script[t] # <<>> /\ Continue(t, <<>>) /\ owner' = [owner EXCEPT ![m] = Nobody]
      /\ handles' = handles /\ writer' = writer /\ worker' = worker /\ calls' = calls
      /\ asynchronous' = asynchronous /\ unconfigured' = unconfigured
  BY <1>1 DEF ReleaseMutex, AtStep, made, first
<1>3. /\ script' \in [AllThreads -> Seq(Steps)] /\ ScriptInv'
      /\ script'[t] = Tail(script[t]) /\ \A u \in AllThreads \ {t} : script'[u] = script[u]
  BY <1>2, GoesOnWithRest, <1>0 DEF IInv
<1>4. TypeInv'
  BY <1>2, <1>3 DEF IInv, TypeInv
<1>5. \A n \in Mutexes : owner'[n] = IF n = m THEN Nobody ELSE owner[n]
  BY <1>2 DEF IInv, TypeInv
<1>6. owner[m] = t
  <2>1. m \in Held(script[t])
    BY <1>1, <1>2, NextStep, <1>0 DEF Frees, IInv, ScriptInv
  <2> QED BY <2>1, <1>0 DEF IInv, OwnerInv
<1>7. OwnerInv'
  <2>1. m \notin Held(Tail(script[t]))
    BY <1>1, <1>2, NextStep, <1>0 DEF Fine, Frees, IInv, ScriptInv
  <2>2. \A n \in Mutexes \ {m} : n \in Held(Tail(script[t])) <=> n \in Held(script[t])
    <3>1. \A n \in Mutexes : Unlock(m) # Lock(n)
      BY StepsDiffer
    <3>2. \A n \in Mutexes \ {m} : ~Frees(Unlock(m), n)
      BY StepsDiffer DEF Frees, Deeds
    <3> QED BY <1>1, <1>2, <3>1, <3>2, NextStep, <1>0 DEF IInv, ScriptInv
  <2>3. ASSUME NEW u \in Running, NEW n \in Mutexes
        PROVE  owner'[n] = u <=> n \in Held(script'[u])
    <3>1. CASE u = t
      BY <3>1, <1>3, <1>5, <2>1, <2>2, ThreadsAreSomebody, RunningAreThreads DEF IInv, OwnerInv
    <3>2. CASE u # t
      BY <3>2, <1>3, <1>5, <1>6, ThreadsAreSomebody, RunningAreThreads DEF IInv, OwnerInv
    <3> QED BY <3>1, <3>2
  <2> QED BY <2>3, <1>2, RunningAreThreads DEF OwnerInv
<1>8. WriterInv'
  <2>1. ~AtStep(t, "join")
    BY <1>1 DEF AtStep, Unlock
  <2>2. "logger" \in Mutexes /\ "loggers" \in Mutexes
    BY DEF Mutexes
  <2>3. \A u \in Running \ {t}, n \in Mutexes : owner[n] = u => owner'[n] = u
    BY <1>5, <1>6
  <2>4. m = "logger" => ~InWriter(script'[t])
    BY <1>1, <1>2, <1>3, NextStep, <1>0 DEF Fine, IInv, ScriptInv
  <2>5. \A u \in Running : owner["logger"] = u /\ (u # t \/ InWriter(script'[u]))
                                => owner'["logger"] = u
    <3> TAKE u \in Running
    <3>1. CASE u = t
      BY <3>1, <2>2, <2>4, <1>5
    <3>2. CASE u # t
      BY <3>2, <2>2, <2>3
    <3> QED BY <3>1, <3>2
  <2>6. /\ \A u \in Running : u \in handles => u \in handles'
        /\ \A u \in Running \ {t} : owner["loggers"] = u => /\ owner'["loggers"] = u
                                                           /\ handles' \subseteq handles
    BY <1>2, <2>2, <2>3
  <2> QED BY <1>0, <1>2, <1>3, <2>1, <2>5, <2>6, WriterKept
<1>9. StuckInv'
  <2>1. unconfigured # Nobody /\ unconfigured # t
    => \A n \in Mutexes : owner'[n] = unconfigured <=> owner[n] = unconfigured
    BY <1>5, <1>6
  <2> QED BY <1>0, <1>2, <1>3, <2>1, StuckKept DEF IInv, TypeInv, Running
<1> QED BY <1>3, <1>4, <1>7, <1>8, <1>9 DEF IInv

\* A deed that changes nothing but the pointers, the cache and the flag of the manager.
LEMMA DeedKeeps ==
  ASSUME IInv, NEW t \in Running, NEW what \in Deeds \ {"wait", "join"}, AtStep(t, what),
         Continue(t, <<>>), owner' = owner, writer' = writer, worker' = worker,
         calls' = calls, asynchronous' = asynchronous, unconfigured' = unconfigured,
         \A u \in Running \ {t} : u \in handles => u \in handles',
         t \in handles => t \in handles' \/ Tail(script[t]) = <<>>,
         \A u \in Running \ {t} : owner["loggers"] = u => handles' \subseteq handles
  PROVE  IInv'
<1>1. script[t] # <<>> /\ Head(script[t]) = Do(what) /\ Good(script[t])
  BY AtDeed DEF IInv, ScriptInv
<1>2. /\ script' \in [AllThreads -> Seq(Steps)] /\ ScriptInv'
      /\ script'[t] = Tail(script[t]) /\ \A u \in AllThreads \ {t} : script'[u] = script[u]
  BY <1>1, GoesOnWithRest DEF IInv
<1>3. TypeInv'
  BY <1>2 DEF IInv, TypeInv
<1>4. OwnerInv'
  BY <1>2, OwnersKept, DeedHoldsTheSame DEF IInv
<1>5. WriterInv'
  <2>1. ~AtStep(t, "join")
    BY <1>1 DEF AtStep, Do
  <2>2. "write" \in Deeds
    BY DEF Deeds
  <2>3. Tail(script[t]) = <<>> => ~InWriter(script'[t]) /\ ~Has(script'[t], "write")
    BY <1>2, <2>2, NothingLeft
  <2>4. \A u \in Running : /\ u \in handles
                           /\ InWriter(script'[u]) \/ Has(script'[u], "write")
                           => u \in handles'
    BY <2>3
  <2> QED BY <1>1, <1>2, <2>1, <2>4, WriterKept
<1>6. StuckInv'
  BY <1>2, StuckKept DEF IInv, TypeInv
<1> QED BY <1>2, <1>3, <1>4, <1>5, <1>6 DEF IInv

LEMMA SimpleDeedsKeep ==
  ASSUME IInv, NEW t \in Running,
         \/ Initialize(t) /\ unconfigured' = unconfigured
         \/ Find(t) \/ DropHandle(t) \/ Push(t)
  PROVE  IInv'
<1>1. CASE Initialize(t) /\ unconfigured' = unconfigured
  <2>1. "initialize" \in Deeds \ {"wait", "join"}
    BY DEF Deeds
  <2>2. AtStep(t, "initialize") /\ unconfigured # t
    BY <1>1 DEF Initialize, Perform, Running
  <2>3. Continue(t, <<>>)
    BY <1>1, <2>2 DEF Initialize, Perform
  <2> QED BY <1>1, <2>1, <2>2, <2>3, DeedKeeps DEF Initialize, Perform, made
<1>2. CASE Push(t)
  <2>1. "push" \in Deeds \ {"wait", "join"}
    BY DEF Deeds
  <2> QED BY <1>2, <2>1, DeedKeeps DEF Push, made, first
<1>3. CASE Find(t)
  <2>1. "find" \in Deeds \ {"wait", "join"} /\ "loggers" \in Mutexes
    BY DEF Deeds, Mutexes
  <2>2. AtStep(t, "find") /\ script[t] # <<>> /\ Head(script[t]) = Do("find") /\ Good(script[t])
    BY <1>3, <2>1, AtDeed DEF Find, IInv, ScriptInv
  <2>3. "loggers" \in Held(Tail(script[t]))
    BY <2>2, NextStep DEF Fine
  <2>4. owner["loggers"] = t
    BY <2>1, <2>2, <2>3, DeedHoldsTheSame DEF IInv, OwnerInv
  <2> QED BY <1>3, <2>1, <2>2, <2>4, DeedKeeps DEF Find, made, first
<1>4. CASE DropHandle(t)
  <2>1. "release" \in Deeds \ {"wait", "join"}
    BY DEF Deeds
  <2>2. AtStep(t, "release") /\ script[t] # <<>> /\ Head(script[t]) = Do("release")
        /\ Good(script[t])
    BY <1>4, <2>1, AtDeed DEF DropHandle, IInv, ScriptInv
  <2>3. Tail(script[t]) = <<>>
    BY <2>2, NextStep DEF Fine
  <2> QED BY <1>4, <2>1, <2>2, <2>3, DeedKeeps DEF DropHandle, made, first
<1> QED BY <1>1, <1>2, <1>3, <1>4

\* Who configures the loggers holds loggers_guard_, so nobody has failed to before.
LEMMA FailsOnce ==
  ASSUME IInv, NEW t \in Running, Initialize(t)
  PROVE  /\ unconfigured = Nobody
         /\ Held(Tail(script[t])) = {"loggers"} /\ Tail(script[t]) \in Seq(Steps)
         /\ script[t] # <<>> /\ Head(script[t]) = Do("initialize")
         /\ \A m \in Mutexes : owner[m] = t <=> m = "loggers"
<1>1. "initialize" \in Deeds \ {"wait", "join"} /\ "loggers" \in Mutexes
  BY DEF Deeds, Mutexes
<1>2. script[t] # <<>> /\ Head(script[t]) = Do("initialize") /\ Good(script[t])
  BY <1>1, AtDeed DEF Initialize, Perform, IInv, ScriptInv
<1>3. Held(Tail(script[t])) = {"loggers"} /\ Tail(script[t]) \in Seq(Steps)
  BY <1>2, NextStep DEF Fine
<1>4. \A m \in Mutexes : owner[m] = t <=> m = "loggers"
  BY <1>1, <1>3, DeedHoldsTheSame DEF Initialize, Perform, IInv, OwnerInv
<1>5. unconfigured # Nobody => owner["loggers"] = unconfigured
  BY <1>1 DEF IInv, StuckInv
<1> QED BY <1>1, <1>2, <1>3, <1>4, <1>5 DEF Running

\* The first get that cannot configure the loggers: the thread goes to lock the guard it
\* holds, and is no longer one of the running.
LEMMA FailureKeeps ==
  ASSUME IInv, NEW t \in Running, Initialize(t), unconfigured' # unconfigured
  PROVE  IInv'
<1>1. /\ AtStep(t, "initialize") /\ unconfigured' = t /\ Continue(t, RemoveUnused)
      /\ owner' = owner /\ handles' = handles /\ writer' = writer /\ worker' = worker
      /\ calls' = calls /\ asynchronous' = asynchronous
  BY DEF Initialize, Perform, made
<1>2. t \in AllThreads
  BY RunningAreThreads
<1>3. script[t] # <<>> /\ Head(script[t]) = Do("initialize") /\ unconfigured = Nobody
  BY FailsOnce
<1>4. Held(Tail(script[t])) = {"loggers"} /\ Tail(script[t]) \in Seq(Steps)
  BY FailsOnce
<1>5. \A m \in Mutexes : owner[m] = t <=> m = "loggers"
  BY FailsOnce
<1>7. t \in Threads
  <2>1. Do("initialize") \notin WorkerSteps
    BY DEF WorkerSteps, Lock, Unlock, Do
  <2>2. ASSUME t = "worker"
        PROVE  FALSE
    <3>1. script["worker"] \in Seq(WorkerSteps) /\ script["worker"] # <<>>
      BY <1>3, <2>2 DEF IInv, ScriptInv
    <3>2. Head(script["worker"]) \in WorkerSteps
      BY <3>1
    <3> QED BY <3>2, <1>3, <2>1, <2>2
  <2> QED BY <2>2, <1>2 DEF AllThreads
<1>8. Running' \subseteq Running /\ t \notin Running' /\ \A u \in Running : u # t => u \in Running'
  BY <1>1, <1>3, ThreadsAreSomebody DEF Running, AllThreads
<1>9. /\ script' = [script EXCEPT ![t] = RemoveUnused \o Tail(script[t])]
      /\ \A u \in AllThreads \ {t} : script'[u] = script[u]
  BY <1>1 DEF Continue, IInv, TypeInv
<1>10. RemoveUnused \in Seq(Steps) /\ RemoveUnused \o Tail(script[t]) \in Seq(Steps)
  BY <1>4, RemoveUnusedIsSafe DEF Safe, Good
<1>11. TypeInv'
  BY <1>1, <1>7, <1>9, <1>10 DEF IInv, TypeInv
<1>12. ScriptInv'
  BY <1>7, <1>8, <1>9, RunningAreThreads, ThreadsAreSomebody DEF IInv, ScriptInv
<1>13. OwnerInv'
  BY <1>1, <1>8, <1>9, RunningAreThreads DEF IInv, OwnerInv
<1>14. StuckInv'
  <2>1. Head(RemoveUnused \o Tail(script[t])) = Lock("loggers")
        /\ RemoveUnused \o Tail(script[t]) # <<>>
    BY <1>4 DEF RemoveUnused
  <2>2. script'[t] # <<>> /\ Head(script'[t]) = Lock("loggers")
    BY <1>2, <1>9, <2>1 DEF IInv, TypeInv
  <2>3. AtStep(t, "lock")' /\ Head(script'[t]).on = "loggers"
    BY <2>2 DEF AtStep, Lock
  <2> QED BY <1>1, <1>5, <2>3 DEF StuckInv, AtStep
<1>15. WriterInv'
  <2>1. \A u \in Running' : u \in Running /\ u # t /\ script'[u] = script[u]
                             /\ (AtStep(u, "join")' <=> AtStep(u, "join"))
    BY <1>8, <1>9, RunningAreThreads DEF AtStep
  <2>2. \A u \in Running : AtStep(u, "join") => u # t /\ u \in Running'
    BY <1>1, <1>8 DEF AtStep
  <2>3. \A u \in Running' : InWriter(script'[u]) => /\ writer' = "present"
                                                   /\ owner'["logger"] = u
                                                   /\ u \in handles'
    BY <1>1, <2>1 DEF IInv, WriterInv
  <2>4. \A u \in Running' : Has(script'[u], "write") => u \in handles'
    BY <1>1, <2>1 DEF IInv, WriterInv
  <2>5. \A u \in Running' : AtStep(u, "join")' => writer' # "present"
    BY <1>1, <2>1 DEF IInv, WriterInv
  <2>6. ASSUME writer' = "stopping"
        PROVE  \E u \in Running' : /\ AtStep(u, "join")'
                                   /\ \/ owner'["logger"] = u
                                      \/ owner'["loggers"] = u /\ handles' = {}
    <3>1. PICK u \in Running : /\ AtStep(u, "join")
                               /\ \/ owner["logger"] = u
                                  \/ owner["loggers"] = u /\ handles = {}
      BY <1>1, <2>6 DEF IInv, WriterInv
    <3> QED BY <1>1, <2>1, <2>2, <3>1
  <2> QED BY <2>3, <2>4, <2>5, <2>6 DEF WriterInv
<1> QED BY <1>11, <1>12, <1>13, <1>14, <1>15 DEF IInv

\* The rest of a script may stand behind a join.
LEMMA JoinBefore ==
  ASSUME NEW r, Good(r), ~Has(r, "join")
  PROVE  /\ Good(<<Do("join")>> \o r)
         /\ \A m \in Mutexes : m \in Held(<<Do("join")>> \o r) <=> m \in Held(r)
         /\ InWriter(<<Do("join")>> \o r) => InWriter(r)
         /\ Has(<<Do("join")>> \o r, "write") => Has(r, "write")
         /\ <<Do("join")>> \o r # <<>> /\ Head(<<Do("join")>> \o r) = Do("join")
<1>1. "join" \in Deeds \ {"wait"} /\ "write" \in Deeds
  BY DEF Deeds
<1>2. r \in Seq(Steps) /\ Do("join") \in Steps
  BY <1>1, StepsAre DEF Good
<1>3. Good(<<Do("join")>> \o r) /\ Held(<<Do("join")>> \o r) = Held(r)
  BY <1>1, DoBefore
<1>4. /\ Do("join") # Lock("writer") /\ Do("join") # Unlock("writer")
      /\ Do("join") # Do("write")
  BY <1>1, StepsDiffer DEF Mutexes
<1>5. /\ InWriter(<<Do("join")>> \o r) => InWriter(r)
      /\ Has(<<Do("join")>> \o r, "write") => Has(r, "write")
  BY <1>1, <1>2, <1>4, HasPrepended
<1>6. <<Do("join")>> \o r # <<>> /\ Head(<<Do("join")>> \o r) = Do("join")
  BY <1>2
<1> QED BY <1>3, <1>5, <1>6

\* The writer is taken apart by who has the guard of the logger, or that of all loggers
\* when nobody has a pointer to this one.
LEMMA DestroyKeeps ==
  ASSUME IInv, NEW t \in Running, NEW what \in {"destroy_writer", "sweep"},
         AtStep(t, what), Destroy(t), what = "sweep" => handles = {},
         UNCHANGED <<made, first, owner, calls, handles, worker>>
  PROVE  IInv'
<1> DEFINE r == Tail(script[t])
           held == IF what = "sweep" THEN "loggers" ELSE "logger"
<1>1. what \in Deeds \ {"wait", "join"}
  BY DEF Deeds
<1>2. script[t] # <<>> /\ Head(script[t]) = Do(what) /\ Good(script[t])
  BY <1>1, AtDeed DEF IInv, ScriptInv
<1>3. Good(r) /\ Held(r) = {held} /\ ~Has(r, "join") /\ r \in Seq(Steps)
      /\ (what = "destroy_writer" => ~InWriter(r))
  <2>1. what = "sweep" => Held(r) = {"loggers"}
    BY <1>2, NextStep DEF Fine
  <2>2. what = "destroy_writer" => Held(r) = {"logger"} /\ ~InWriter(r)
    BY <1>2, NextStep DEF Fine
  <2>3. Good(r) /\ ~Has(r, "join") /\ r \in Seq(Steps)
    BY <1>2, NextStep DEF Fine
  <2> QED BY <2>1, <2>2, <2>3
<1>4. owner[held] = t
  <2>1. held \in Mutexes /\ held \in Held(r)
    BY <1>3 DEF Mutexes
  <2> QED BY <2>1, <1>1, DeedHoldsTheSame DEF IInv, OwnerInv
<1>5. t \in Threads
  <2>1. Do(what) \notin WorkerSteps
    BY DEF WorkerSteps, Lock, Unlock, Do
  <2>2. t # "worker"
    <3>1. ASSUME t = "worker"
          PROVE  FALSE
      <4>1. script["worker"] \in Seq(WorkerSteps) /\ script["worker"] # <<>>
        BY <1>2, <3>1 DEF IInv, ScriptInv
      <4>2. Head(script["worker"]) \in WorkerSteps
        BY <4>1
      <4> QED BY <4>2, <1>2, <2>1, <3>1
    <3> QED BY <3>1
  <2> QED BY <2>2, RunningAreThreads DEF AllThreads
<1>6. owner' = owner /\ handles' = handles /\ worker' = worker /\ calls' = calls
      /\ asynchronous' = asynchronous /\ unconfigured' = unconfigured
  BY DEF made, first
<1>7. CASE writer # "present"
  <2>1. writer' = writer /\ Continue(t, <<>>)
    BY <1>7 DEF Destroy
  <2> QED BY <1>1, <1>6, <2>1, DeedKeeps
<1>8. CASE writer = "present"
  <2> DEFINE more == IF asynchronous THEN <<Do("join")>> ELSE <<>>
             next == more \o r
  <2>1. /\ writer' = IF asynchronous THEN "stopping" ELSE "gone"
        /\ Continue(t, more)
    BY <1>8 DEF Destroy, Stopping
  <2>2. Good(next) /\ (InWriter(next) => InWriter(r)) /\ (Has(next, "write") => Has(r, "write"))
        /\ (\A m \in Mutexes : m \in Held(next) <=> m \in Held(r))
        /\ (asynchronous => next # <<>> /\ Head(next) = Do("join"))
        /\ (~asynchronous => ~Has(next, "join"))
    <3>1. CASE asynchronous
      BY <3>1, <1>3, JoinBefore
    <3>2. CASE ~asynchronous
      <4>1. next = r
        BY <3>2, <1>3
      <4> HIDE DEF next
      <4> QED BY <3>2, <4>1, <1>3
    <3> QED BY <3>1, <3>2
  <2>3. more \in Seq(Steps) /\ t # "worker" /\ next = more \o Tail(script[t])
    <3>1. Do("join") \in Steps
      BY StepsAre DEF Deeds
    <3> QED BY <3>1, <1>5, ThreadsAreSomebody, RunningAreThreads
  <2> HIDE DEF next, more
  <2>4. /\ script' \in [AllThreads -> Seq(Steps)] /\ ScriptInv'
        /\ script'[t] = next /\ \A u \in AllThreads \ {t} : script'[u] = script[u]
    BY <1>2, <1>6, <2>1, <2>2, <2>3, GoesOn DEF IInv
  <2>5. TypeInv'
    BY <1>6, <2>1, <2>4 DEF IInv, TypeInv
  <2>6. OwnerInv'
    <3>1. \A m \in Mutexes : m \in Held(script'[t]) <=> m \in Held(script[t])
      BY <1>1, <2>2, <2>4, DeedHoldsTheSame DEF IInv
    <3> QED BY <3>1, <1>6, <2>4, OwnersKept DEF IInv
  <2>7. \A u \in Running : ~InWriter(script[u])
    <3>1. CASE what = "sweep"
      BY <3>1 DEF IInv, WriterInv
    <3>2. CASE what = "destroy_writer"
      <4>1. Do(what) # Lock("writer") /\ Do(what) # Unlock("writer")
        BY <1>1, StepsDiffer DEF Mutexes
      <4>2. ~InWriter(script[t])
        BY <1>2, <1>3, <3>2, <4>1, NextStep
      <4>3. owner["logger"] = t
        BY <1>4, <3>2
      <4> QED BY <4>2, <4>3 DEF IInv, WriterInv
    <3> QED BY <3>1, <3>2
  <2>8. \A u \in Running : ~InWriter(script'[u])
    <3>1. ~InWriter(r)
      BY <2>7, <1>2, NextStep
    <3> QED BY <3>1, <2>2, <2>4, <2>7, RunningAreThreads
  <2>9. \A u \in Running : Has(script'[u], "write") => u \in handles'
    <3>1. Has(next, "write") => Has(script[t], "write")
      <4>1. "write" \in Deeds
        BY DEF Deeds
      <4> QED BY <4>1, <2>2, <1>2, NextStep
    <3> TAKE u \in Running
    <3>2. CASE u = t
      BY <3>1, <3>2, <1>6, <2>4 DEF IInv, WriterInv
    <3>3. CASE u # t
      BY <3>3, <1>6, <2>4, RunningAreThreads DEF IInv, WriterInv
    <3> QED BY <3>2, <3>3
  <2>10. writer' # "present"
    BY <2>1
  <2>11. writer' = "stopping" => /\ AtStep(t, "join")'
                                 /\ \/ owner'["logger"] = t
                                    \/ owner'["loggers"] = t /\ handles' = {}
    <3>1. writer' = "stopping" => asynchronous
      BY <2>1 DEF IInv, TypeInv
    <3>2. asynchronous => AtStep(t, "join")'
      BY <2>2, <2>4 DEF AtStep, Do
    <3>3. owner'["logger"] = t \/ (owner'["loggers"] = t /\ handles' = {})
      BY <1>4, <1>6
    <3> QED BY <3>1, <3>2, <3>3
  <2>12. WriterInv'
    BY <1>6, <2>8, <2>9, <2>10, <2>11, RunningAreThreads DEF WriterInv
  <2>13. StuckInv'
    BY <1>6, <2>4, StuckKept DEF IInv, TypeInv
  <2> QED BY <2>4, <2>5, <2>6, <2>12, <2>13 DEF IInv
<1> QED BY <1>7, <1>8

LEMMA DestroyersKeep ==
  ASSUME IInv, NEW t \in Running, DestroyWriter(t) \/ Sweep(t)
  PROVE  IInv'
<1>1. CASE DestroyWriter(t)
  BY <1>1, DestroyKeeps DEF DestroyWriter
<1>2. CASE Sweep(t) /\ initialized /\ handles = {}
  BY <1>2, DestroyKeeps DEF Sweep
<1>3. CASE Sweep(t) /\ ~(initialized /\ handles = {})
  <2>1. "sweep" \in Deeds \ {"wait", "join"}
    BY DEF Deeds
  <2>2. /\ AtStep(t, "sweep") /\ Continue(t, <<>>) /\ writer' = writer
        /\ owner' = owner /\ handles' = handles /\ worker' = worker /\ calls' = calls
        /\ asynchronous' = asynchronous /\ unconfigured' = unconfigured
    BY <1>3 DEF Sweep, made, first
  <2> QED BY <2>1, <2>2, DeedKeeps
<1> QED BY <1>1, <1>2, <1>3
LEMMA JoinKeeps ==
  ASSUME IInv, NEW t \in Running, Join(t)
  PROVE  IInv'
<1>1. /\ AtStep(t, "join") /\ Continue(t, <<>>) /\ writer' = "gone" /\ owner' = owner
      /\ handles' = handles /\ worker' = worker /\ calls' = calls
      /\ asynchronous' = asynchronous /\ unconfigured' = unconfigured
  BY DEF Join, made, first
<1>2. "join" \in Deeds \ {"wait"} /\ script[t] # <<>>
  BY <1>1 DEF Deeds, AtStep
<1>3. /\ script' \in [AllThreads -> Seq(Steps)] /\ ScriptInv'
      /\ script'[t] = Tail(script[t]) /\ \A u \in AllThreads \ {t} : script'[u] = script[u]
  BY <1>1, <1>2, GoesOnWithRest DEF IInv
<1>4. TypeInv'
  BY <1>1, <1>3 DEF IInv, TypeInv
<1>5. OwnerInv'
  BY <1>1, <1>2, <1>3, OwnersKept, DeedHoldsTheSame DEF IInv
<1>6. /\ \A u \in Running : InWriter(script'[u]) => InWriter(script[u])
      /\ \A u \in Running : Has(script'[u], "write") => Has(script[u], "write")
  BY <1>1, <1>2, <1>3, RestIsLess DEF IInv
<1>7. writer # "present"
  BY <1>1 DEF IInv, WriterInv
<1>8. WriterInv'
  BY <1>1, <1>6, <1>7, RunningAreThreads DEF IInv, WriterInv
<1>9. StuckInv'
  BY <1>1, <1>3, StuckKept DEF IInv, TypeInv
<1> QED BY <1>3, <1>4, <1>5, <1>8, <1>9 DEF IInv

\* Who is about to write has the guard of the logger and a pointer to it: no destructor
\* of the writer is running.
LEMMA WriteKeeps ==
  ASSUME IInv, NEW t \in Running, Write(t)
  PROVE  IInv'
<1> DEFINE r == Tail(script[t])
<1>1. /\ AtStep(t, "write") /\ writer' = writer /\ owner' = owner
      /\ handles' = handles /\ worker' = worker /\ calls' = calls
      /\ asynchronous' = asynchronous /\ unconfigured' = unconfigured
  BY DEF Write, made, first
<1>2. "write" \in Deeds \ {"wait", "join"} /\ "join" \in Deeds /\ "logger" \in Mutexes
  BY DEF Deeds, Mutexes
<1>3. script[t] # <<>> /\ Head(script[t]) = Do("write") /\ Good(script[t])
  BY <1>1, <1>2, AtDeed DEF IInv, ScriptInv
<1>4. Good(r) /\ Held(r) = {"logger"} /\ ~Has(r, "join") /\ Has(script[t], "write")
  BY <1>2, <1>3, NextStep DEF Fine
<1>5. owner["logger"] = t
  BY <1>1, <1>2, <1>4, DeedHoldsTheSame DEF IInv, OwnerInv
<1>6. t \in handles
  BY <1>4 DEF IInv, WriterInv
<1>7. ~AtStep(t, "join")
  <2>1. Do("write") # Do("join")
    BY <1>2, StepsDiffer
  <2> QED BY <1>2, <1>3, <2>1, AtDeed
<1>8. writer # "stopping"
  <2>1. ASSUME NEW u \in Running, AtStep(u, "join")
        PROVE  owner["logger"] # u
    BY <2>1, <1>5, <1>7
  <2> QED BY <2>1, <1>6 DEF IInv, WriterInv
<1>9. CASE writer = "gone"
  <2>1. Continue(t, <<>>)
    BY <1>9 DEF Write
  <2> QED BY <1>1, <1>2, <2>1, DeedKeeps
<1>10. CASE writer = "present"
  <2> DEFINE more == IF asynchronous THEN InAsynchronous ELSE InSynchronous
             next == more \o r
  <2>1. Continue(t, more)
    BY <1>10 DEF Write, InAsynchronous, InSynchronous
  <2>2. more \in {InAsynchronous, InSynchronous}
    OBVIOUS
  <2> HIDE DEF more
  <2>3. /\ Good(next) /\ Held(next) = {"logger"} /\ ~Has(next, "join")
        /\ Has(next, "write") => Has(r, "write")
    <3>1. \A what \in Deeds : Has(next, what) => what = "push" \/ Has(r, what)
      BY <1>4, <2>2, WritingIsGood
    <3>2. Good(next) /\ Held(next) = {"logger"} /\ ~Has(next, "join")
      BY <1>4, <2>2, WritingIsGood
    <3> QED BY <1>2, <3>1, <3>2
  <2>4. t # "worker"
    <3>1. Do("write") \notin WorkerSteps
      BY DEF WorkerSteps, Lock, Unlock, Do
    <3>2. ASSUME t = "worker"
          PROVE  FALSE
      <4>1. script["worker"] \in Seq(WorkerSteps) /\ script["worker"] # <<>>
        BY <1>3, <3>2 DEF IInv, ScriptInv
      <4>2. Head(script["worker"]) \in WorkerSteps
        BY <4>1
      <4> QED BY <4>2, <1>3, <3>1, <3>2
    <3> QED BY <3>2
  <2>5. /\ script' \in [AllThreads -> Seq(Steps)] /\ ScriptInv'
        /\ script'[t] = next /\ \A u \in AllThreads \ {t} : script'[u] = script[u]
    BY <1>1, <1>3, <2>1, <2>3, <2>4, GoesOn DEF IInv
  <2> HIDE DEF next
  <2>6. TypeInv'
    BY <1>1, <2>5 DEF IInv, TypeInv
  <2>7. OwnerInv'
    <3>1. \A m \in Mutexes : m \in Held(script'[t]) <=> m \in Held(script[t])
      BY <1>1, <1>2, <1>4, <2>3, <2>5, DeedHoldsTheSame DEF IInv
    <3> QED BY <3>1, <1>1, <2>5, OwnersKept DEF IInv
  <2>8. \A u \in Running : InWriter(script'[u]) => /\ writer' = "present"
                                                  /\ owner'["logger"] = u
                                                  /\ u \in handles'
    <3> TAKE u \in Running
    <3>1. CASE u = t
      BY <3>1, <1>1, <1>5, <1>6, <1>10
    <3>2. CASE u # t
      BY <3>2, <1>1, <2>5, RunningAreThreads DEF IInv, WriterInv
    <3> QED BY <3>1, <3>2
  <2>9. \A u \in Running : Has(script'[u], "write") => u \in handles'
    <3> TAKE u \in Running
    <3>1. CASE u = t
      BY <3>1, <1>1, <1>6
    <3>2. CASE u # t
      BY <3>2, <1>1, <2>5, RunningAreThreads DEF IInv, WriterInv
    <3> QED BY <3>1, <3>2
  <2>10. \A u \in Running : AtStep(u, "join")' => writer' # "present"
    <3>1. ~AtStep(t, "join")'
      <4>1. ASSUME script'[t] # <<>>, Head(script'[t]).does = "join"
            PROVE  FALSE
        <5>1. Head(next) \in Steps /\ Head(next) = Do("join")
          <6>1. Head(next) \in Steps
            BY <4>1, <2>3, <2>5, NextStep
          <6> QED BY <6>1, <4>1, <1>2, <2>5, StepIs
        <5>2. Has(next, "join")
          BY <5>1, <4>1, <1>2, <2>3, <2>5, NextStep
        <5> QED BY <5>2, <2>3
      <4> QED BY <4>1 DEF AtStep
    <3> TAKE u \in Running
    <3>2. CASE u = t
      BY <3>1, <3>2
    <3>3. CASE u # t
      <4>1. AtStep(u, "join")' <=> AtStep(u, "join")
          BY <3>3, <2>5, RunningAreThreads DEF AtStep
      <4> QED BY <4>1, <1>1 DEF IInv, WriterInv
    <3> QED BY <3>2, <3>3
  <2>11. WriterInv'
    BY <1>1, <1>10, <2>8, <2>9, <2>10, RunningAreThreads DEF WriterInv
  <2>12. StuckInv'
    BY <1>1, <2>5, StuckKept DEF IInv, TypeInv
  <2> QED BY <2>5, <2>6, <2>7, <2>11, <2>12 DEF IInv
<1> QED BY <1>8, <1>9, <1>10 DEF IInv, TypeInv
\* The worker is not in the writer, and destroys nothing.
LEMMA WorkerDoes ==
  ASSUME NEW s \in Seq(WorkerSteps)
  PROVE  ~InWriter(s) /\ ~Has(s, "write") /\ (s # <<>> => Head(s).does # "join")
<1>1. \A x \in WorkerSteps : /\ x # Lock("writer") /\ x # Unlock("writer")
                             /\ x # Do("write") /\ x.does # "join"
  BY DEF WorkerSteps, Lock, Unlock, Do
<1>2. \A i \in 1 .. Len(s) : s[i] \in WorkerSteps
  OBVIOUS
<1>3. s # <<>> => Head(s) \in WorkerSteps
  OBVIOUS
<1> QED BY <1>1, <1>2, <1>3 DEF InWriter, Has

LEMMA WorkerGoesOn ==
  ASSUME IInv, NEW next \in Seq(WorkerSteps), Good(next),
         \A m \in Mutexes : m \in Held(next) <=> m \in Held(script["worker"]),
         script' = [script EXCEPT !["worker"] = next],
         UNCHANGED <<made, first, owner, calls, handles, writer>>, worker' \in {"running", "exited"}
  PROVE  IInv'
<1>1. owner' = owner /\ handles' = handles /\ writer' = writer /\ calls' = calls
      /\ asynchronous' = asynchronous /\ unconfigured' = unconfigured
  BY DEF made, first
<1>2. "worker" \in Running /\ "worker" \in AllThreads
  BY ThreadsAreSomebody, RunningAreThreads DEF IInv, TypeInv
<1>3. script'["worker"] = next /\ \A u \in AllThreads \ {"worker"} : script'[u] = script[u]
  BY <1>2 DEF IInv, TypeInv
<1>4. TypeInv'
  <2>1. next \in Seq(Steps)
    BY DEF Good
  <2> QED BY <2>1, <1>1 DEF IInv, TypeInv
<1>5. ScriptInv'
  BY <1>1, <1>3, RunningAreThreads DEF IInv, ScriptInv
<1>6. OwnerInv'
  BY <1>1, <1>2, <1>3, OwnersKept DEF IInv
<1>7. WriterInv'
  <2>1. ~InWriter(next) /\ ~Has(next, "write") /\ ~AtStep("worker", "join")'
    BY <1>3, WorkerDoes DEF AtStep
  <2>2. ~AtStep("worker", "join")
    BY WorkerDoes DEF AtStep, IInv, ScriptInv
  <2>3. \A u \in Running : AtStep(u, "join")' <=> AtStep(u, "join")
    BY <1>3, <2>1, <2>2, RunningAreThreads DEF AtStep
  <2>4. \A u \in Running : InWriter(script'[u]) => /\ writer' = "present"
                                                  /\ owner'["logger"] = u
                                                  /\ u \in handles'
    <3> TAKE u \in Running
    <3>1. CASE u = "worker"
      BY <3>1, <1>3, <2>1
    <3>2. CASE u # "worker"
      BY <3>2, <1>1, <1>3, RunningAreThreads DEF IInv, WriterInv
    <3> QED BY <3>1, <3>2
  <2>5. \A u \in Running : Has(script'[u], "write") => u \in handles'
    <3> TAKE u \in Running
    <3>1. CASE u = "worker"
      BY <3>1, <1>3, <2>1
    <3>2. CASE u # "worker"
      BY <3>2, <1>1, <1>3, RunningAreThreads DEF IInv, WriterInv
    <3> QED BY <3>1, <3>2
  <2>6. \A u \in Running : AtStep(u, "join")' => writer' # "present"
    BY <1>1, <2>3 DEF IInv, WriterInv
  <2>7. writer' = "stopping" => \E u \in Running : /\ AtStep(u, "join")'
                                  /\ \/ owner'["logger"] = u
                                     \/ owner'["loggers"] = u /\ handles' = {}
    BY <1>1, <2>3 DEF IInv, WriterInv
  <2> QED BY <2>4, <2>5, <2>6, <2>7, <1>1, RunningAreThreads DEF WriterInv
<1>8. StuckInv'
  BY <1>1, <1>2, <1>3, StuckKept DEF IInv, TypeInv
<1> QED BY <1>4, <1>5, <1>6, <1>7, <1>8 DEF IInv

\* The worker's own scripts.
LEMMA WorkerScripts ==
  /\ Pop \in Seq(WorkerSteps) /\ TakeEvent \in Seq(WorkerSteps)
  /\ TimeOut \in Seq(WorkerSteps) /\ Forward \in Seq(WorkerSteps)
  /\ <<Do("release")>> \in Seq(WorkerSteps) /\ <<>> \in Seq(WorkerSteps)
<1>1. /\ \A m \in {"cache", "inner", "loggers"} : Lock(m) \in WorkerSteps /\ Unlock(m) \in WorkerSteps
      /\ \A d \in {"find", "release", "wait", "decide", "decide_empty"} : Do(d) \in WorkerSteps
  BY DEF WorkerSteps
<1>2. Pop \in Seq(WorkerSteps)
  BY <1>1 DEF Pop
<1>3. TakeEvent \in Seq(WorkerSteps)
  BY <1>1 DEF TakeEvent
<1>4. TimeOut \in Seq(WorkerSteps)
  BY <1>1 DEF TimeOut
<1>5. Forward \in Seq(WorkerSteps)
  BY <1>1 DEF Forward
<1>6. <<Do("release")>> \in Seq(WorkerSteps)
  BY <1>1
<1>7. <<>> \in Seq(WorkerSteps)
  OBVIOUS
<1> QED BY <1>2, <1>3, <1>4, <1>5, <1>6, <1>7

LEMMA WorkerStepKeeps ==
  ASSUME IInv, WorkerStep
  PROVE  IInv'
<1> DEFINE s == script["worker"]
<1>1. s \in Seq(Steps) /\ Good(s) /\ s \in Seq(WorkerSteps) /\ "worker" \in Running
  BY ThreadsAreSomebody, RunningAreThreads DEF IInv, TypeInv, ScriptInv, Good
<1>2. CASE StartPop
  <2>1. /\ s = <<>> /\ script' = [script EXCEPT !["worker"] = Pop]
        /\ worker' = worker /\ UNCHANGED <<made, first, owner, calls, handles, writer>>
    BY <1>2 DEF StartPop
  <2>2. Good(Pop) /\ Held(Pop) = {} /\ Held(s) = {}
    BY <2>1, PopIsSafe, NothingLeft DEF Safe
  <2> QED BY <2>1, <2>2, WorkerScripts, WorkerGoesOn DEF IInv, TypeInv
<1>3. ASSUME NEW d \in {"wait", "decide", "decide_empty"}, AtStep("worker", d),
             NEW more, Continue("worker", more), more \in Seq(WorkerSteps)
      PROVE  /\ s # <<>> /\ Head(s) = Do(d) /\ Tail(s) = <<>>
             /\ script' = [script EXCEPT !["worker"] = more]
  <2>1. d \in Deeds
    BY DEF Deeds
  <2>2. s # <<>> /\ Head(s) = Do(d)
    BY <1>1, <1>3, <2>1, AtDeed
  <2>3. Tail(s) = <<>>
    BY <1>1, <2>2, NextStep DEF Fine
  <2>4. more \o Tail(s) = more
    BY <2>3, <1>3, ConcatEmptySeq
  <2>5. script' = [script EXCEPT !["worker"] = more]
    BY <2>4, <1>3 DEF Continue
  <2> QED BY <2>2, <2>3, <2>5
<1>4. CASE Wait
  <2> DEFINE more == IF pending > 0 THEN TakeEvent ELSE TimeOut
  <2>1. /\ AtStep("worker", "wait") /\ Continue("worker", more)
        /\ worker' = worker /\ UNCHANGED <<made, first, owner, calls, handles, writer>>
    BY <1>4 DEF Wait
  <2>2. more \in Seq(WorkerSteps) /\ Good(more) /\ Held(more) = {"cache"}
    BY WorkerScripts, TakeEventIsSafe, TimeOutIsSafe DEF Safe
  <2> HIDE DEF more
  <2>3. /\ s # <<>> /\ Head(s) = Do("wait") /\ Tail(s) = <<>>
        /\ script' = [script EXCEPT !["worker"] = more]
    BY <1>3, <2>1, <2>2
  <2>4. \A m \in Mutexes : m \in Held(s) <=> m \in Held(more)
    <3>1. Held(Tail(s)) = {}
      BY <2>3, NothingLeft
    <3>2. \A m \in Mutexes : Frees(Do("wait"), m) <=> m = "cache"
      BY StepsDiffer DEF Frees, Deeds
    <3> QED BY <1>1, <2>2, <2>3, <3>1, <3>2, NextStep
  <2> QED BY <2>1, <2>2, <2>3, <2>4, WorkerGoesOn DEF IInv, TypeInv
<1>5. ASSUME NEW d \in {"decide", "decide_empty"}, AtStep("worker", d), NEW more,
             Continue("worker", more), more \in Seq(WorkerSteps), Good(more), Held(more) = {},
             worker' \in {"running", "exited"}, UNCHANGED <<made, first, owner, calls, handles, writer>>
      PROVE  IInv'
  <2>1. s # <<>> /\ Tail(s) = <<>> /\ script' = [script EXCEPT !["worker"] = more]
    BY <1>3, <1>5
  <2>2. \A m \in Mutexes : m \in Held(s) <=> m \in Held(more)
    <3>1. Held(Tail(s)) = {}
      BY <2>1, NothingLeft
    <3>2. d \in Deeds \ {"wait"}
      BY DEF Deeds
    <3> QED BY <1>1, <1>5, <3>1, <3>2, DeedHoldsTheSame DEF IInv
  <2> QED BY <1>5, <2>1, <2>2, WorkerGoesOn
<1>6. CASE Decide
  <2> DEFINE more == IF writer = "stopping" /\ ~flushes THEN <<Do("release")>> ELSE Forward
  <2>1. /\ AtStep("worker", "decide") /\ Continue("worker", more)
        /\ worker' \in {worker, "exited"} /\ UNCHANGED <<made, first, owner, calls, handles, writer>>
    BY <1>6 DEF Decide
  <2>2. more \in Seq(WorkerSteps) /\ Good(more) /\ Held(more) = {}
    BY WorkerScripts, ForwardIsSafe, ReleaseIsSafe DEF Safe
  <2> HIDE DEF more
  <2>3. worker' \in {"running", "exited"}
    BY <2>1 DEF IInv, TypeInv
  <2> QED BY <1>5, <2>1, <2>2, <2>3
<1>7. CASE DecideEmpty
  <2>1. /\ AtStep("worker", "decide_empty") /\ Continue("worker", <<>>)
        /\ worker' \in {worker, "exited"} /\ UNCHANGED <<made, first, owner, calls, handles, writer>>
    BY <1>7 DEF DecideEmpty
  <2>2. <<>> \in Seq(WorkerSteps) /\ Good(<<>>) /\ Held(<<>>) = {}
    BY WorkerScripts, NothingLeft
  <2>3. worker' \in {"running", "exited"}
    BY <2>1 DEF IInv, TypeInv
  <2> QED BY <1>5, <2>1, <2>2, <2>3
<1> QED BY <1>2, <1>4, <1>6, <1>7 DEF WorkerStep

LEMMA NextKeeps == IInv /\ [Next]_vars => IInv'
<1> SUFFICES ASSUME IInv, [Next]_vars
             PROVE  IInv'
  OBVIOUS
<1>1. ASSUME NEW t \in Threads, NEW op \in AllOperations, Call(t, op)
      PROVE  IInv'
  BY <1>1, CallKeeps
<1>2. ASSUME NEW t \in AllThreads, Step(t)
      PROVE  IInv'
  <2>1. CASE Acquire(t)
    BY <2>1, AcquireKeeps
  <2>2. CASE ReleaseMutex(t)
    BY <2>2, ReleaseMutexKeeps
  <2>3. CASE Initialize(t) \/ Find(t) \/ DropHandle(t) \/ Write(t) \/ Push(t)
             \/ DestroyWriter(t) \/ Sweep(t) \/ Join(t)
    <3>1. ~AtStep(t, "lock")
      BY <2>3 DEF Initialize, Perform, Find, DropHandle, Write, Push, DestroyWriter, Sweep, Join, AtStep
    <3>2. t \in Running
      BY <3>1, StuckWaits DEF IInv
    <3> QED BY <2>3, <3>2, SimpleDeedsKeep, FailureKeeps, WriteKeeps, DestroyersKeep, JoinKeeps
  <2> QED BY <1>2, <2>1, <2>2, <2>3 DEF Step
<1>3. CASE WorkerStep
  BY <1>3, WorkerStepKeeps
<1>4. CASE UNCHANGED vars
  BY <1>4, RunningAreThreads
  DEF vars, made, first, IInv, TypeInv, StuckInv, ScriptInv, OwnerInv, WriterInv, AtStep
<1> QED BY <1>1, <1>2, <1>3, <1>4 DEF Next

-----------------------------------------------------------------------------
(* The theorems.                                                           *)

\* The scripts, the mutexes and the writer fit together, in every state, whoever calls
\* what: the invariant of which the two properties below follow.
THEOREM CallsFitTogether == Spec => []IInv
<1>1. Init => IInv
  BY InitIsGood
<1>2. IInv /\ [Next]_vars => IInv'
  BY NextKeeps
<1> QED BY <1>1, <1>2, PTL DEF Spec

\* No destructor of a writer runs while a thread is in the writer (logger::write and
\* remove_writer of logger.cpp, and ~async_writer), even one that runs inside
\* remove_unused_loggers.
THEOREM WriterIsKept == Spec => []WriterOutlivesCalls
<1>1. IInv => WriterOutlivesCalls
  <2> SUFFICES ASSUME IInv, owner["writer"] # Nobody
               PROVE  writer = "present"
    BY DEF WriterOutlivesCalls
  <2>1. "writer" \in Mutexes
    BY DEF Mutexes
  <2>2. PICK t \in Running : owner["writer"] = t
    <3>1. owner["writer"] # unconfigured
      BY <2>1 DEF IInv, StuckInv
    <3> QED BY <2>1, <3>1 DEF IInv, TypeInv, Running
  <2>3. "writer" \in Held(script[t])
    BY <2>1, <2>2 DEF IInv, OwnerInv
  <2>4. InWriter(script[t])
    <3>1. PICK j \in 1 .. Len(script[t]) : Frees(script[t][j], "writer")
      BY <2>3 DEF Held
    <3> QED BY <3>1 DEF Frees, InWriter
  <2> QED BY <2>4 DEF IInv, WriterInv
<1> QED BY <1>1, CallsFitTogether, PTL
-----------------------------------------------------------------------------
(* The circle.  remove_unused_loggers may destroy an async_writer while it holds the   *)
(* guard of all loggers, for which the worker it joins may wait: where this call meets *)
(* that writer there is a circle, so the theorem is about the instances without.       *)

NoSweepJoins == "remove_unused" \notin Operations[TRUE]

\* The join of an async_writer is made with nothing but the guard of the logger held.
JoinInv ==
  /\ worker = "running" => asynchronous
  /\ asynchronous => \A t \in Running : /\ ~Has(script[t], "sweep")
                                        /\ AtStep(t, "join") => Held(script[t]) = {"logger"}

\* One thread goes on with a script that brings no sweep, and no join but one made with
\* the guard of the logger.
LEMMA JoinKept ==
  ASSUME JoinInv, NEW t \in Running, unconfigured' = unconfigured,
         \A u \in AllThreads \ {t} : script'[u] = script[u],
         asynchronous' = asynchronous, worker' \in {worker, "exited"},
         asynchronous /\ Has(script'[t], "sweep") => Has(script[t], "sweep"),
         asynchronous /\ AtStep(t, "join")' => Held(script'[t]) = {"logger"}
  PROVE  JoinInv'
<1>1. ASSUME asynchronous, NEW u \in Running
      PROVE  ~Has(script'[u], "sweep") /\ (AtStep(u, "join")' => Held(script'[u]) = {"logger"})
  <2>1. CASE u = t
    BY <1>1, <2>1 DEF JoinInv
  <2>2. CASE u # t
    <3>1. script'[u] = script[u] /\ (AtStep(u, "join")' <=> AtStep(u, "join"))
      BY <2>2, RunningAreThreads DEF AtStep
    <3> QED BY <1>1, <3>1 DEF JoinInv
  <2> QED BY <2>1, <2>2
<1>2. worker' = "running" => asynchronous'
  BY DEF JoinInv
<1> QED BY <1>1, <1>2, RunningAreThreads DEF JoinInv

LEMMA NotAtJoin ==
  ASSUME NEW s, Good(s), ~Has(s, "join"), s # <<>>
  PROVE  Head(s).does # "join"
<1>1. "join" \in Deeds
  BY DEF Deeds
<1>2. Head(s) \in Steps /\ Head(s) # Do("join")
  BY <1>1, NextStep
<1> QED BY <1>1, <1>2, StepIs

\* A thread that goes on with the rest of its script.
LEMMA JoinKeptByRest ==
  ASSUME IInv, JoinInv, NEW t \in Running, script[t] # <<>>, Continue(t, <<>>),
         asynchronous' = asynchronous, worker' \in {worker, "exited"},
         unconfigured' = unconfigured
  PROVE  JoinInv'
<1>1. script'[t] = Tail(script[t]) /\ \A u \in AllThreads \ {t} : script'[u] = script[u]
  BY GoesOnWithRest DEF IInv
<1>2. "sweep" \in Deeds
  BY DEF Deeds
<1>3. /\ Has(Tail(script[t]), "sweep") => Has(script[t], "sweep")
      /\ ~Has(Tail(script[t]), "join") /\ Good(Tail(script[t]))
  BY <1>2, NextStep DEF IInv, ScriptInv, Fine
<1>4. ~AtStep(t, "join")'
  BY <1>1, <1>3, NotAtJoin DEF AtStep
<1> QED BY <1>1, <1>3, <1>4, JoinKept

LEMMA JoinKeptByCall ==
  ASSUME NoSweepJoins, IInv, JoinInv, NEW t \in Threads, NEW op \in AllOperations, Call(t, op)
  PROVE  JoinInv'
<1>1. /\ script' = [script EXCEPT ![t] = ScriptOf(op)] /\ worker' = worker
      /\ asynchronous' = asynchronous /\ op \in Operations[asynchronous]
      /\ script[t] = <<>> /\ unconfigured' = unconfigured
  BY DEF Call, made, first
<1>2. t \in Running /\ t \in AllThreads
  <2>1. ~AtStep(t, "lock")
    BY <1>1 DEF AtStep
  <2> QED BY <2>1, StuckWaits, ThreadsAreSomebody DEF IInv
<1>3. script'[t] = ScriptOf(op) /\ \A u \in AllThreads \ {t} : script'[u] = script[u]
  BY <1>1, <1>2 DEF IInv, TypeInv
<1>4. Good(ScriptOf(op)) /\ ~Has(ScriptOf(op), "join")
  BY CallsAreSafe DEF Safe
<1>5. Has(ScriptOf(op), "sweep") => op = "remove_unused"
  BY CallsAreSafe
<1>6. asynchronous => op # "remove_unused"
  <2>1. asynchronous => asynchronous = TRUE
    BY DEF IInv, TypeInv
  <2> QED BY <1>1, <2>1 DEF NoSweepJoins
<1>7. ~AtStep(t, "join")'
  BY <1>3, <1>4, NotAtJoin DEF AtStep
<1>8. asynchronous => ~Has(script'[t], "sweep")
  BY <1>3, <1>5, <1>6
<1> QED BY <1>1, <1>2, <1>3, <1>7, <1>8, JoinKept

LEMMA JoinKeptByWrite ==
  ASSUME IInv, JoinInv, NEW t \in Running, Write(t), writer # "gone"
  PROVE  JoinInv'
<1> DEFINE r == Tail(script[t])
           more == IF asynchronous THEN InAsynchronous ELSE InSynchronous
           next == more \o r
<1>1. /\ AtStep(t, "write") /\ Continue(t, more) /\ worker' = worker
      /\ asynchronous' = asynchronous /\ unconfigured' = unconfigured
  BY DEF Write, made, first, InAsynchronous, InSynchronous
<1>2. "write" \in Deeds /\ "join" \in Deeds /\ "sweep" \in Deeds
  BY DEF Deeds
<1>3. script[t] # <<>> /\ Head(script[t]) = Do("write") /\ Good(script[t])
  BY <1>1, <1>2, AtDeed DEF IInv, ScriptInv
<1>4. Good(r) /\ Held(r) = {"logger"} /\ ~Has(r, "join")
      /\ (Has(r, "sweep") => Has(script[t], "sweep"))
  BY <1>2, <1>3, NextStep DEF Fine
<1>5. more \in {InAsynchronous, InSynchronous}
  OBVIOUS
<1> HIDE DEF more, r
<1>6. \A what \in Deeds : Has(more \o r, what) => what = "push" \/ Has(r, what)
  BY <1>4, <1>5, WritingIsGood
<1>7. Good(next) /\ ~Has(next, "join")
  BY <1>4, <1>5, WritingIsGood
<1>8. Has(next, "sweep") => Has(script[t], "sweep")
  BY <1>2, <1>4, <1>6
<1>9. script'[t] = next /\ \A u \in AllThreads \ {t} : script'[u] = script[u]
  BY <1>1, RunningAreThreads DEF IInv, TypeInv, Continue, r
<1> HIDE DEF next
<1>10. ~AtStep(t, "join")'
  BY <1>7, <1>9, NotAtJoin DEF AtStep
<1> QED BY <1>1, <1>8, <1>9, <1>10, JoinKept

LEMMA JoinKeptByDestroy ==
  ASSUME IInv, JoinInv, NEW t \in Running, DestroyWriter(t) \/ Sweep(t)
  PROVE  JoinInv'
<1> DEFINE r == Tail(script[t])
<1>1. script[t] # <<>> /\ worker' = worker /\ asynchronous' = asynchronous
      /\ unconfigured' = unconfigured /\ {"sweep", "destroy_writer"} \subseteq Deeds
  BY DEF DestroyWriter, Sweep, AtStep, made, first, Deeds
<1>2. CASE Continue(t, <<>>)
  BY <1>1, <1>2, JoinKeptByRest
<1>3. CASE ~asynchronous
  <2>1. Continue(t, <<>>)
    BY <1>3 DEF DestroyWriter, Sweep, Destroy
  <2> QED BY <1>2, <2>1
<1>4. CASE Sweep(t) /\ asynchronous
  <2>1. Head(script[t]) = Do("sweep") /\ Good(script[t])
    BY <1>1, <1>4, AtDeed DEF Sweep, IInv, ScriptInv
  <2>2. Has(script[t], "sweep")
    BY <1>1, <2>1, NextStep
  <2> QED BY <1>4, <2>2 DEF JoinInv
<1>5. CASE DestroyWriter(t) /\ asynchronous /\ ~Continue(t, <<>>)
  <2>1. Continue(t, <<Do("join")>>) /\ AtStep(t, "destroy_writer")
    BY <1>5 DEF DestroyWriter, Destroy
  <2>2. Head(script[t]) = Do("destroy_writer") /\ Good(script[t])
    BY <1>1, <2>1, AtDeed DEF IInv, ScriptInv
  <2>3. Good(r) /\ Held(r) = {"logger"} /\ ~Has(r, "join") /\ r \in Seq(Steps)
        /\ (Has(r, "sweep") => Has(script[t], "sweep"))
    BY <1>1, <2>2, NextStep DEF Fine
  <2> DEFINE next == <<Do("join")>> \o r
  <2>4. Held(next) = {"logger"}
    <3>1. Held(next) \subseteq Mutexes /\ Held(r) \subseteq Mutexes
      BY DEF Held
    <3>2. \A m \in Mutexes : m \in Held(next) <=> m \in Held(r)
      BY <2>3, JoinBefore
    <3> HIDE DEF next
    <3> QED BY <3>1, <3>2, <2>3
  <2>5. Has(next, "sweep") => Has(r, "sweep")
    <3>1. Do("join") \in Steps /\ Do("join") # Do("sweep")
      <4>1. "join" \in Deeds
        BY DEF Deeds
      <4> QED BY <4>1, <1>1, StepsAre, StepsDiffer
    <3> QED BY <3>1, <2>3, <1>1, HasPrepended
  <2>6. script'[t] = next /\ \A u \in AllThreads \ {t} : script'[u] = script[u]
    BY <2>1, RunningAreThreads DEF IInv, TypeInv, Continue
  <2> HIDE DEF next, r
  <2> QED BY <1>1, <2>3, <2>4, <2>5, <2>6, JoinKept
<1> QED BY <1>2, <1>3, <1>4, <1>5

LEMMA JoinKeptByWorker ==
  ASSUME IInv, IInv', JoinInv, WorkerStep
  PROVE  JoinInv'
<1>1. "worker" \in Running /\ "worker" \in AllThreads
  BY ThreadsAreSomebody, RunningAreThreads DEF IInv, TypeInv
<1>2. asynchronous' = asynchronous /\ unconfigured' = unconfigured
      /\ worker' \in {worker, "exited"}
  BY DEF WorkerStep, StartPop, Wait, Decide, DecideEmpty, made, first
<1>3. \A u \in AllThreads \ {"worker"} : script'[u] = script[u]
  BY <1>1 DEF WorkerStep, StartPop, Wait, Decide, DecideEmpty, Continue, IInv, TypeInv
<1>4. script'["worker"] \in Seq(WorkerSteps)
  BY DEF IInv, ScriptInv
<1>5. ~AtStep("worker", "join")'
  BY <1>4, WorkerDoes DEF AtStep
<1>6. ~Has(script'["worker"], "sweep")
  <2>1. Do("sweep") \notin WorkerSteps
    BY DEF WorkerSteps, Lock, Unlock, Do
  <2>2. \A i \in 1 .. Len(script'["worker"]) : script'["worker"][i] \in WorkerSteps
    BY <1>4
  <2> QED BY <2>1, <2>2 DEF Has
<1> QED BY <1>1, <1>2, <1>3, <1>5, <1>6, JoinKept

LEMMA NextKeepsJoins ==
  ASSUME NoSweepJoins, IInv, IInv', JoinInv, [Next]_vars
  PROVE  JoinInv'
<1>1. ASSUME NEW t \in Threads, NEW op \in AllOperations, Call(t, op)
      PROVE  JoinInv'
  BY <1>1, JoinKeptByCall
<1>2. ASSUME NEW t \in AllThreads, Step(t)
      PROVE  JoinInv'
  <2>1. t \in Running
    <3>1. CASE Acquire(t)
      BY <3>1, StuckWaits DEF Acquire, IInv
    <3>2. CASE ~Acquire(t)
      <4>1. ~AtStep(t, "lock")
        BY <1>2, <3>2 DEF Step, ReleaseMutex, Initialize, Perform, Find, DropHandle, Write, Push,
                          DestroyWriter, Sweep, Join, AtStep
      <4> QED BY <4>1, StuckWaits DEF IInv
    <3> QED BY <3>1, <3>2
  <2>2. CASE Acquire(t) \/ ReleaseMutex(t) \/ Find(t) \/ DropHandle(t) \/ Push(t) \/ Join(t)
    <3>1. script[t] # <<>> /\ Continue(t, <<>>) /\ asynchronous' = asynchronous
          /\ worker' = worker /\ unconfigured' = unconfigured
      BY <2>2 DEF Acquire, ReleaseMutex, Find, DropHandle, Push, Join, AtStep, made, first
    <3> QED BY <2>1, <3>1, JoinKeptByRest
  <2>3. CASE Initialize(t) /\ unconfigured' = unconfigured
    <3>1. script[t] # <<>> /\ asynchronous' = asynchronous /\ worker' = worker
      BY <2>3 DEF Initialize, Perform, AtStep, made
    <3>2. Continue(t, <<>>)
      BY <2>1, <2>3 DEF Initialize, Perform, Running
    <3> QED BY <2>1, <2>3, <3>1, <3>2, JoinKeptByRest
  <2>4. CASE Initialize(t) /\ unconfigured' # unconfigured
    <3>1. /\ unconfigured' = t /\ Continue(t, RemoveUnused)
          /\ asynchronous' = asynchronous /\ worker' = worker
      BY <2>4 DEF Initialize, Perform, made
    <3>2. unconfigured = Nobody
      BY <2>1, <2>4, FailsOnce
    <3>3. Running' \subseteq Running /\ t \notin Running'
      BY <3>1, <3>2, ThreadsAreSomebody DEF Running, AllThreads
    <3>4. \A u \in Running' : script'[u] = script[u]
      BY <3>1, <3>3, RunningAreThreads DEF Continue, IInv, TypeInv
    <3>5. \A u \in Running' : AtStep(u, "join")' <=> AtStep(u, "join")
      BY <3>4 DEF AtStep
    <3> QED BY <3>1, <3>3, <3>4, <3>5 DEF JoinInv
  <2>5. CASE Write(t) /\ writer # "gone"
    BY <2>1, <2>5, JoinKeptByWrite
  <2>6. CASE Write(t) /\ writer = "gone"
    <3>1. script[t] # <<>> /\ Continue(t, <<>>) /\ asynchronous' = asynchronous
          /\ worker' = worker /\ unconfigured' = unconfigured
      BY <2>6 DEF Write, AtStep, made, first
    <3> QED BY <2>1, <3>1, JoinKeptByRest
  <2>7. CASE DestroyWriter(t) \/ Sweep(t)
    BY <2>1, <2>7, JoinKeptByDestroy
  <2> QED BY <1>2, <2>2, <2>3, <2>4, <2>5, <2>6, <2>7 DEF Step
<1>3. CASE WorkerStep
  BY <1>3, JoinKeptByWorker
<1>4. CASE UNCHANGED vars
  BY <1>4, RunningAreThreads DEF vars, made, first, JoinInv, AtStep
<1> QED BY <1>1, <1>2, <1>3, <1>4 DEF Next

\* How far a thread that waits has come in the order of the mutexes; who joins the
\* worker stands below all the worker takes.
Height(t) == IF AtStep(t, "lock") THEN Rank(Head(script[t]).on) ELSE 5

LEMMA WaitsForHigher ==
  ASSUME IInv, JoinInv, NEW t \in Running, NEW u \in Running, WaitsFor(t, u),
         NEW v \in Running, WaitsFor(u, v)
  PROVE  /\ Height(t) \in 1 .. 8 /\ Height(u) \in 1 .. 8
         /\ Height(t) < Height(u)
<1>1. ASSUME NEW w \in Running, AtStep(w, "lock")
      PROVE  \E m \in Mutexes : /\ Head(script[w]) = Lock(m) /\ Head(script[w]).on = m
                                /\ Height(w) = Rank(m) /\ Height(w) \in 1 .. 8
  <2>1. PICK m \in Mutexes : Head(script[w]) = Lock(m) /\ Head(script[w]).on = m
    BY <1>1, AtLock DEF IInv, ScriptInv
  <2>2. Height(w) = Rank(m)
    BY <1>1, <2>1 DEF Height
  <2> QED BY <2>1, <2>2, Places
<1>2. ASSUME NEW w \in Running, AtStep(w, "join")
      PROVE  Height(w) = 5 /\ w # "worker"
  <2>1. ~AtStep(w, "lock")
    BY <1>2 DEF AtStep
  <2>2. w # "worker"
    BY <1>2, WorkerDoes DEF AtStep, IInv, ScriptInv
  <2> QED BY <2>1, <2>2 DEF Height
<1>3. CASE AtStep(t, "lock") /\ AtStep(u, "lock")
  <2>1. PICK m \in Mutexes : /\ Head(script[t]) = Lock(m) /\ Head(script[t]).on = m
                             /\ Height(t) = Rank(m) /\ Height(t) \in 1 .. 8
    BY <1>1, <1>3
  <2>2. PICK n \in Mutexes : /\ Head(script[u]) = Lock(n) /\ Head(script[u]).on = n
                             /\ Height(u) = Rank(n) /\ Height(u) \in 1 .. 8
    BY <1>1, <1>3
  <2>3. owner[m] = u
    <3>1. ~AtStep(t, "join")
      BY <1>3 DEF AtStep
    <3> QED BY <3>1, <2>1 DEF WaitsFor
  <2>4. script[u] # <<>> /\ Good(script[u]) /\ m \in Held(script[u])
    BY <2>3, <1>3 DEF IInv, OwnerInv, ScriptInv, AtStep
  <2>5. ~Frees(Lock(n), m)
    BY StepsDiffer DEF Frees, Deeds
  <2>6. Lock(n) # Lock(m) /\ m \in Held(Tail(script[u]))
    BY <2>2, <2>4, <2>5, NextStep
  <2>7. Rank(m) < Rank(n)
    BY <2>2, <2>4, <2>6, NextStep DEF Fine
  <2> QED BY <2>1, <2>2, <2>7
<1>4. CASE AtStep(t, "lock") /\ ~AtStep(u, "lock")
  <2>1. PICK m \in Mutexes : /\ Head(script[t]) = Lock(m) /\ Head(script[t]).on = m
                             /\ Height(t) = Rank(m) /\ Height(t) \in 1 .. 8
    BY <1>1, <1>4
  <2>2. owner[m] = u
    <3>1. ~AtStep(t, "join")
      BY <1>4 DEF AtStep
    <3> QED BY <3>1, <2>1 DEF WaitsFor
  <2>3. AtStep(u, "join") /\ worker = "running"
    BY <1>4 DEF WaitsFor
  <2>4. Held(script[u]) = {"logger"}
    BY <2>3 DEF JoinInv
  <2>5. m = "logger"
    BY <2>2, <2>4 DEF IInv, OwnerInv
  <2> QED BY <2>1, <2>3, <2>5, <1>2, Places
<1>5. CASE ~AtStep(t, "lock")
  <2>1. AtStep(t, "join") /\ u = "worker"
    BY <1>5 DEF WaitsFor
  <2>2. AtStep(u, "lock")
    BY <1>2, <2>1 DEF WaitsFor
  <2>3. PICK n \in Mutexes : /\ Head(script[u]) = Lock(n) /\ Head(script[u]).on = n
                             /\ Height(u) = Rank(n) /\ Height(u) \in 1 .. 8
    BY <1>1, <2>2
  <2>4. Lock(n) \in WorkerSteps
    <3>1. script["worker"] \in Seq(WorkerSteps) /\ script["worker"] # <<>>
      BY <2>1, <2>2 DEF IInv, ScriptInv, AtStep
    <3>2. Head(script["worker"]) \in WorkerSteps
      BY <3>1
    <3> QED BY <3>2, <2>1, <2>3
  <2>5. n \in {"cache", "inner", "loggers"}
    BY <2>4 DEF WorkerSteps, Lock, Unlock, Do
  <2>6. Rank(n) \in {6, 7, 8}
    BY <2>5, Places
  <2> QED BY <2>1, <2>3, <2>6, <1>2
<1> QED BY <1>3, <1>4, <1>5

\* Threads that call the loggers of this library, with what their writers do below them,
\* never wait for each other in a circle, nor one for itself, but for the thread whose
\* first get cannot configure the loggers and those that wait for it: not in the locks
\* that logger.cpp, writer.cpp, event_cache.cpp and async_writer.cpp take, nor in the join
\* of ~async_writer.
THEOREM NobodyWaitsInACircle ==
  ASSUME NoSweepJoins
  PROVE  Spec => []NoDeadlock
<1>1. Init => JoinInv
  <2> SUFFICES ASSUME Init
               PROVE  JoinInv
    OBVIOUS
  <2>1. "sweep" \in Deeds /\ \A t \in Running : script[t] = <<>>
    BY RunningAreThreads DEF Init, Deeds
  <2>2. worker = "running" => asynchronous
    BY DEF Init
  <2> QED BY <2>1, <2>2, NothingLeft, RunningAreThreads DEF JoinInv, AtStep
<1>2. IInv /\ IInv' /\ JoinInv /\ [Next]_vars => JoinInv'
  BY NextKeepsJoins
<1>3. IInv /\ JoinInv => NoDeadlock
  <2> SUFFICES ASSUME IInv, JoinInv, NEW S \in SUBSET AllThreads, Circle(S),
                      unconfigured \notin S
               PROVE  FALSE
    BY DEF NoDeadlock
  <2>0. S \subseteq Running /\ S # {} /\ \A t \in S : \E u \in S : WaitsFor(t, u)
    BY DEF Circle, Running
  <2>1. \A t \in S : \E u \in S : /\ Height(t) \in 1 .. 8 /\ Height(u) \in 1 .. 8
                                  /\ Height(t) < Height(u)
    <3> TAKE t \in S
    <3>1. PICK u \in S : WaitsFor(t, u)
      BY <2>0
    <3>2. PICK v \in S : WaitsFor(u, v)
      BY <2>0
    <3> QED BY <2>0, <3>1, <3>2, WaitsForHigher
  <2> DEFINE Below(k) == \A t \in S : Height(t) < k
  <2>2. ASSUME NEW k \in 2 .. 9, Below(k)
        PROVE  Below(k - 1)
    <3> SUFFICES ASSUME NEW t \in S PROVE Height(t) < k - 1
      OBVIOUS
    <3>1. PICK u \in S : Height(t) \in 1 .. 8 /\ Height(u) \in 1 .. 8 /\ Height(t) < Height(u)
      BY <2>1
    <3>2. Height(u) < k
      BY <2>2
    <3> HIDE DEF Below
    <3> QED BY <3>1, <3>2
  <2>3. Below(9)
    BY <2>1
  <2>4. ~Below(1)
    BY <2>0, <2>1
  <2> HIDE DEF Below
  <2>5. /\ Below(9) => Below(8)
        /\ Below(8) => Below(7)
        /\ Below(7) => Below(6)
        /\ Below(6) => Below(5)
    BY <2>2, 9 - 1 = 8, 8 - 1 = 7, 7 - 1 = 6, 6 - 1 = 5
  <2>6. /\ Below(5) => Below(4)
        /\ Below(4) => Below(3)
        /\ Below(3) => Below(2)
        /\ Below(2) => Below(1)
    BY <2>2, 5 - 1 = 4, 4 - 1 = 3, 3 - 1 = 2, 2 - 1 = 1
  <2> QED BY <2>3, <2>4, <2>5, <2>6
<1> QED BY <1>1, <1>2, <1>3, CallsFitTogether, PTL DEF Spec
=============================================================================

------------------------ MODULE StatusManagerProofs -------------------------
(***************************************************************************)
(* What module StatusManager checks of caches of one and two statuses,     *)
(* proved for caches of any size, any threads and observers, and any       *)
(* number of statuses.                                                     *)
(*                                                                         *)
(* FirstAndLastAreKept is inductive: it says what each cache is, as a      *)
(* function of how many statuses have been recorded since the last clear.  *)
(***************************************************************************)
EXTENDS StatusManager, TLAPS

CountIsOfRecorded == count <= Len(recorded)

\* What FirstAndLastAreKept says, of the lengths and the elements of the caches.
KeptByElement ==
  /\ Len(head) = IF count < HeadMax THEN count ELSE HeadMax
  /\ Len(tail) = IF count - Len(head) < TailMax THEN count - Len(head) ELSE TailMax
  /\ \A i \in 1 .. Len(head) :
       head[i] = [at |-> Len(recorded) - count + i,
                  level |-> recorded[Len(recorded) - count + i]]
  /\ \A i \in 1 .. Len(tail) :
       tail[i] = [at |-> Len(recorded) - Len(tail) + i,
                  level |-> recorded[Len(recorded) - Len(tail) + i]]

\* The level is the worst of the statuses that are kept.
LevelIsOfKept ==
  /\ \A s \in Range(head) \cup Range(tail) : s.level <= level
  /\ level # INFO => \E s \in Range(head) \cup Range(tail) : s.level = level

IInv == TypeOK /\ CountIsOfRecorded /\ FirstAndLastAreKept /\ LevelIsOfKept

\* A range of what has been recorded, element by element.
LEMMA RecordedFacts ==
  ASSUME TypeOK, NEW from \in Int, NEW to \in Int, from >= 1, to <= Len(recorded)
  PROVE  /\ Recorded(from, to) \in Seq(Status)
         /\ Len(Recorded(from, to)) = IF to < from THEN 0 ELSE to - from + 1
         /\ \A i \in 1 .. Len(Recorded(from, to)) :
              Recorded(from, to)[i] = [at |-> from + i - 1, level |-> recorded[from + i - 1]]
<1> DEFINE n == IF to < from THEN 0 ELSE to - from + 1
<1>1. n \in Nat
  OBVIOUS
<1>2. \A i \in 1 .. n :
        [at |-> from + i - 1, level |-> recorded[from + i - 1]] \in Status
  <2> TAKE i \in 1 .. n
  <2>1. from + i - 1 \in 1 .. Len(recorded) /\ Len(recorded) <= RecordBound
    BY DEF TypeOK
  <2>2. recorded[from + i - 1] \in Levels
    BY <2>1 DEF TypeOK
  <2>3. from + i - 1 \in 0 .. RecordBound
    BY <2>1, BoundAssumption DEF TypeOK
  <2> QED BY <2>2, <2>3 DEF Status
<1>3. Recorded(from, to) = [i \in 1 .. n |->
        [at |-> from + i - 1, level |-> recorded[from + i - 1]]]
  BY DEF Recorded
<1> HIDE DEF n
<1>4. Recorded(from, to) \in [1 .. n -> Status]
  BY <1>2, <1>3
<1>5. Recorded(from, to) \in Seq(Status) /\ Len(Recorded(from, to)) = n
  BY <1>1, <1>4
<1> QED BY <1>1, <1>3, <1>5 DEF n

\* Max of some levels is the greatest of them.
LEMMA MaxOfLevels ==
  ASSUME NEW S \in SUBSET Levels, INFO \in S
  PROVE  Max(S) \in S /\ \A l \in S : l <= Max(S)
<1>1. Levels = {0, 1, 2}
  BY DEF Levels, INFO, ERROR
<1>2. \E m \in S : \A l \in S : m >= l
  <2>1. CASE 2 \in S
    BY <1>1, <2>1
  <2>2. CASE 2 \notin S /\ 1 \in S
    BY <1>1, <2>2
  <2>3. CASE 2 \notin S /\ 1 \notin S
    BY <1>1, <2>3 DEF INFO
  <2> QED BY <2>1, <2>2, <2>3
<1>3. Max(S) \in S /\ \A l \in S : Max(S) >= l
  BY <1>2 DEF Max
<1> QED BY <1>1, <1>3

\* adjust_level finds the worst of the statuses that are kept.
LEMMA AdjustedFacts ==
  ASSUME NEW hd \in Seq(Status), NEW tl \in Seq(Status)
  PROVE  /\ Adjusted(hd, tl) \in Levels
         /\ \A s \in Range(hd) \cup Range(tl) : s.level <= Adjusted(hd, tl)
         /\ Adjusted(hd, tl) # INFO =>
              \E s \in Range(hd) \cup Range(tl) : s.level = Adjusted(hd, tl)
<1> DEFINE S == {INFO} \cup {s.level : s \in Range(hd) \cup Range(tl)}
<1>1. \A s \in Range(hd) \cup Range(tl) : s \in Status
  BY DEF Range
<1>2. \A s \in Status : s.level \in Levels
  BY DEF Status
<1>3. INFO \in Levels
  BY DEF INFO, ERROR, Levels
<1>4. S \in SUBSET Levels /\ INFO \in S
  BY <1>1, <1>2, <1>3
<1>5. Adjusted(hd, tl) = Max(S)
  BY DEF Adjusted
<1>6. Max(S) \in S /\ \A l \in S : l <= Max(S)
  <2> HIDE DEF S
  <2> QED BY <1>4, MaxOfLevels
<1> QED BY <1>4, <1>5, <1>6

LEMMA SequencesEqual ==
  ASSUME NEW S, NEW s \in Seq(S), NEW t \in Seq(S), Len(s) = Len(t),
         \A i \in 1 .. Len(s) : s[i] = t[i]
  PROVE  s = t
  OBVIOUS

LEMMA KeptFacts ==
  ASSUME TypeOK, CountIsOfRecorded, FirstAndLastAreKept
  PROVE  KeptByElement
<1> DEFINE total == Len(recorded)
           inHead == IF count < HeadMax THEN count ELSE HeadMax
           base == total - count
           cut == base + inHead
           inTail == IF total - cut < TailMax THEN total - cut ELSE TailMax
<1>1. /\ total \in Nat /\ count \in Nat /\ count <= total
      /\ inHead \in Nat /\ inHead <= count
      /\ inTail \in Nat /\ inTail <= total - cut
  BY CachesAssumption DEF TypeOK, CountIsOfRecorded, KeptByElement
<1>2. head = Recorded(base + 1, cut) /\ tail = Recorded(total - inTail + 1, total)
  BY DEF FirstAndLastAreKept
<1> HIDE DEF inHead, inTail
<1>3. /\ Len(head) = inHead
      /\ \A i \in 1 .. inHead :
           head[i] = [at |-> (base + 1) + i - 1, level |-> recorded[(base + 1) + i - 1]]
  <2>1. base + 1 \in Int /\ cut \in Int /\ base + 1 >= 1 /\ cut <= Len(recorded)
    BY <1>1
  <2>2. inHead = IF cut < base + 1 THEN 0 ELSE cut - (base + 1) + 1
    BY <1>1
  <2> HIDE DEF base, cut
  <2> QED BY <1>2, <2>1, <2>2, RecordedFacts
<1>4. /\ Len(tail) = inTail
      /\ \A i \in 1 .. inTail :
           tail[i] = [at |-> (total - inTail + 1) + i - 1,
                      level |-> recorded[(total - inTail + 1) + i - 1]]
  <2> DEFINE from == total - inTail + 1
  <2>1. from \in Int /\ total \in Int /\ from >= 1 /\ total <= Len(recorded)
    BY <1>1
  <2>2. inTail = IF total < from THEN 0 ELSE total - from + 1
    BY <1>1
  <2>3. tail = Recorded(from, total)
    BY <1>2
  <2> HIDE DEF total, from
  <2>4. Len(Recorded(from, total)) = inTail
    BY <2>1, <2>2, RecordedFacts
  <2>5. \A i \in 1 .. inTail :
          Recorded(from, total)[i] = [at |-> from + i - 1, level |-> recorded[from + i - 1]]
    BY <2>1, <2>4, RecordedFacts
  <2> QED BY <2>3, <2>4, <2>5 DEF from
<1>5. \A i \in 1 .. inHead : (base + 1) + i - 1 = base + i
  BY <1>1
<1>6. \A i \in 1 .. inTail : (total - inTail + 1) + i - 1 = total - inTail + i
  BY <1>1
<1>7. total - cut = count - inHead
  BY <1>1
<1> QED BY <1>3, <1>4, <1>5, <1>6, <1>7 DEF inHead, inTail, KeptByElement

LEMMA KeptIfByElement ==
  TypeOK /\ CountIsOfRecorded /\ KeptByElement => FirstAndLastAreKept
<1> SUFFICES ASSUME TypeOK, CountIsOfRecorded, KeptByElement PROVE FirstAndLastAreKept
  OBVIOUS
<1> DEFINE total == Len(recorded)
           base == total - count
           cut == base + Len(head)
           from == total - Len(tail) + 1
<1>1. /\ total \in Nat /\ count \in Nat /\ count <= total
      /\ Len(head) \in Nat /\ Len(head) <= count
      /\ Len(tail) \in Nat /\ Len(tail) <= total - cut
      /\ head \in Seq(Status) /\ tail \in Seq(Status)
  BY CachesAssumption DEF TypeOK, CountIsOfRecorded, KeptByElement
<1>2. head = Recorded(base + 1, cut)
  <2>1. base + 1 \in Int /\ cut \in Int /\ base + 1 >= 1 /\ cut <= Len(recorded)
    BY <1>1
  <2>2. Len(head) = IF cut < base + 1 THEN 0 ELSE cut - (base + 1) + 1
    BY <1>1
  <2>3. \A i \in 1 .. Len(head) : (base + 1) + i - 1 = Len(recorded) - count + i
    BY <1>1
  <2> HIDE DEF base, cut
  <2>4. /\ Recorded(base + 1, cut) \in Seq(Status)
        /\ Len(Recorded(base + 1, cut)) = IF cut < base + 1 THEN 0 ELSE cut - (base + 1) + 1
        /\ \A i \in 1 .. Len(Recorded(base + 1, cut)) :
             Recorded(base + 1, cut)[i] =
               [at |-> (base + 1) + i - 1, level |-> recorded[(base + 1) + i - 1]]
    BY ONLY TypeOK, <2>1, RecordedFacts
  <2>5. /\ Recorded(base + 1, cut) \in Seq(Status)
        /\ Len(Recorded(base + 1, cut)) = Len(head)
        /\ \A i \in 1 .. Len(head) :
             Recorded(base + 1, cut)[i] =
               [at |-> (base + 1) + i - 1, level |-> recorded[(base + 1) + i - 1]]
    BY ONLY <2>2, <2>4
  <2>6. \A i \in 1 .. Len(head) : head[i] = Recorded(base + 1, cut)[i]
    BY <2>3, <2>5 DEF KeptByElement
  <2> QED BY <1>1, <2>5, <2>6, SequencesEqual
<1>3. tail = Recorded(from, total)
  <2>1. from \in Int /\ total \in Int /\ from >= 1 /\ total <= Len(recorded)
    BY <1>1
  <2>2. Len(tail) = IF total < from THEN 0 ELSE total - from + 1
    BY <1>1
  <2>3. \A i \in 1 .. Len(tail) : from + i - 1 = Len(recorded) - Len(tail) + i
    BY <1>1
  <2> HIDE DEF from, total
  <2>4. /\ Recorded(from, total) \in Seq(Status)
        /\ Len(Recorded(from, total)) = IF total < from THEN 0 ELSE total - from + 1
        /\ \A i \in 1 .. Len(Recorded(from, total)) :
             Recorded(from, total)[i] =
               [at |-> from + i - 1, level |-> recorded[from + i - 1]]
    BY ONLY TypeOK, <2>1, RecordedFacts
  <2>5. /\ Recorded(from, total) \in Seq(Status)
        /\ Len(Recorded(from, total)) = Len(tail)
        /\ \A i \in 1 .. Len(tail) :
             Recorded(from, total)[i] =
               [at |-> from + i - 1, level |-> recorded[from + i - 1]]
    BY ONLY <2>2, <2>4
  <2>6. \A i \in 1 .. Len(tail) : tail[i] = Recorded(from, total)[i]
    BY <2>3, <2>5 DEF KeptByElement
  <2> QED BY <1>1, <2>5, <2>6, SequencesEqual
<1>4. total - cut = count - Len(head)
  BY <1>1
<1> QED BY <1>1, <1>2, <1>3, <1>4 DEF FirstAndLastAreKept, KeptByElement

-----------------------------------------------------------------------------
(* The steps.                                                              *)

LEMMA InitIInv == Init => IInv
<1> SUFFICES ASSUME Init PROVE IInv
  OBVIOUS
<1>1. TypeOK
  BY CachesAssumption, BoundAssumption
  DEF Init, TypeOK, AllObservers, Status, NoStatus, Levels, INFO, ERROR
<1>2. CountIsOfRecorded
  BY DEF Init, CountIsOfRecorded
<1>3. KeptByElement
  <2>1. head = <<>> /\ tail = <<>> /\ Len(head) = 0 /\ Len(tail) = 0 /\ count = 0
    BY DEF Init
  <2>2. ~ \E i \in 1 .. 0 : TRUE
    OBVIOUS
  <2>3. /\ Len(head) = IF count < HeadMax THEN count ELSE HeadMax
        /\ Len(tail) = IF count - Len(head) < TailMax THEN count - Len(head) ELSE TailMax
    <3>1. Len(head) = 0 /\ Len(tail) = 0 /\ count = 0
      BY <2>1
    <3> QED BY ONLY <3>1, CachesAssumption
  <2>4. 1 .. Len(head) = {} /\ 1 .. Len(tail) = {}
    BY ONLY <2>1, <2>2
  <2> QED BY ONLY <2>3, <2>4 DEF KeptByElement
<1>4. FirstAndLastAreKept
  BY <1>1, <1>2, <1>3, KeptIfByElement
<1>5. LevelIsOfKept
  BY DEF Init, LevelIsOfKept, Range
<1> QED BY <1>1, <1>2, <1>4, <1>5 DEF IInv

\* The types of the caches, and of what has been recorded, after a status.
LEMMA RecordTypes ==
  ASSUME TypeOK, KeptByElement, NEW t \in Threads, NEW lvl \in Levels, Record(t, lvl)
  PROVE  TypeOK'
<1> DEFINE st == [at |-> Len(recorded) + 1, level |-> lvl]
<1>1. st \in Status
  BY BoundAssumption DEF TypeOK, Record, Status
<1>2. /\ recorded' = Append(recorded, lvl)
      /\ recorded' \in Seq(Levels) /\ Len(recorded') <= RecordBound
  BY BoundAssumption DEF TypeOK, Record
<1>3. count' = count + 1 /\ count' \in Nat
  BY DEF TypeOK, Record
<1>4. /\ head' \in Seq(Status) /\ Len(head') <= HeadMax
      /\ tail' \in Seq(Status) /\ Len(tail') <= TailMax
  <2>1. CASE Len(head) < HeadMax
    <3>1. head' = Append(head, st) /\ tail' = tail
      BY <2>1 DEF Record
    <3> HIDE DEF st
    <3> QED BY <1>1, <2>1, <3>1, CachesAssumption DEF TypeOK
  <2>2. CASE ~(Len(head) < HeadMax)
    <3>1. head' = head /\ tail' = DropOldest(Append(tail, st))
      BY <2>2 DEF Record
    <3> HIDE DEF st
    <3>2. /\ Append(tail, st) \in Seq(Status)
          /\ Len(Append(tail, st)) = Len(tail) + 1
      BY <1>1 DEF TypeOK
    <3>3. tail' \in Seq(Status) /\ Len(tail') <= TailMax
      <4>1. CASE Len(Append(tail, st)) > TailMax
        <5>1. tail' = Tail(Append(tail, st))
          BY <3>1, <4>1 DEF DropOldest
        <5>2. Append(tail, st) # <<>>
          BY <3>2, Len(tail) \in Nat DEF TypeOK
        <5> QED BY <3>2, <5>1, <5>2, CachesAssumption DEF TypeOK
      <4>2. CASE ~(Len(Append(tail, st)) > TailMax)
        BY <3>1, <3>2, <4>2, CachesAssumption DEF DropOldest
      <4> QED BY <4>1, <4>2
    <3> QED BY <3>1, <3>3 DEF TypeOK
  <2> QED BY <2>1, <2>2
<1>5. level' \in Levels
  <2>1. level' = Adjusted(head', tail')
    BY DEF Record
  <2> QED BY <1>4, <2>1, AdjustedFacts
<1>6. reporting' \in [Threads -> Status]
  <2>1. reporting' = [reporting EXCEPT ![t] = st]
    BY DEF Record
  <2> HIDE DEF st
  <2> QED BY <1>1, <2>1 DEF TypeOK
<1>7. UNCHANGED <<observers, told, left>>
  BY DEF Record
<1> QED BY <1>2, <1>3, <1>4, <1>5, <1>6, <1>7 DEF TypeOK

\* A status goes to the end of the head, or to that of the tail, which loses its oldest.
LEMMA RecordKeeps ==
  ASSUME TypeOK, CountIsOfRecorded, KeptByElement,
         NEW t \in Threads, NEW lvl \in Levels, Record(t, lvl)
  PROVE  CountIsOfRecorded' /\ KeptByElement'
<1> DEFINE st == [at |-> Len(recorded) + 1, level |-> lvl]
<1>1. /\ recorded \in Seq(Levels) /\ recorded' = Append(recorded, lvl)
      /\ Len(recorded') = Len(recorded) + 1
      /\ \A i \in 1 .. Len(recorded) : recorded'[i] = recorded[i]
      /\ recorded'[Len(recorded) + 1] = lvl
  BY DEF TypeOK, Record
<1>2. count \in Nat /\ count' = count + 1 /\ count <= Len(recorded) /\ Len(recorded) \in Nat
  BY DEF TypeOK, Record, CountIsOfRecorded
<1>3. /\ head \in Seq(Status) /\ tail \in Seq(Status)
      /\ Len(head) \in Nat /\ Len(tail) \in Nat
  BY DEF TypeOK
<1>4. st \in Status
  BY BoundAssumption DEF TypeOK, Record, Status
<1>5. CountIsOfRecorded'
  BY <1>1, <1>2 DEF CountIsOfRecorded
<1>6. CASE Len(head) < HeadMax
  <2>1. head' = Append(head, st) /\ tail' = tail
    BY <1>6 DEF Record
  <2> HIDE DEF st
  <2>2. /\ Len(head') = Len(head) + 1
        /\ \A i \in 1 .. Len(head) : head'[i] = head[i]
        /\ head'[Len(head) + 1] = st
    BY <1>3, <1>4, <2>1
  <2>3. Len(head) = count /\ Len(tail) = 0
    BY <1>2, <1>3, <1>6, CachesAssumption DEF KeptByElement
  <2>4. Len(head') = IF count' < HeadMax THEN count' ELSE HeadMax
    BY <1>2, <1>6, <2>2, <2>3, CachesAssumption
  <2>5. Len(tail') = IF count' - Len(head') < TailMax THEN count' - Len(head') ELSE TailMax
    BY <1>2, <2>1, <2>2, <2>3, CachesAssumption
  <2>6. ASSUME NEW i \in 1 .. Len(head')
        PROVE  head'[i] = [at |-> Len(recorded') - count' + i,
                           level |-> recorded'[Len(recorded') - count' + i]]
    <3>1. Len(recorded') - count' + i = Len(recorded) - count + i
      BY <1>1, <1>2
    <3>2. CASE i \in 1 .. Len(head)
      <4>1. Len(recorded) - count + i \in 1 .. Len(recorded)
        BY <1>2, <2>3, <3>2
      <4>2. head[i] = [at |-> Len(recorded) - count + i,
                       level |-> recorded[Len(recorded) - count + i]]
        BY <3>2 DEF KeptByElement
      <4>3. recorded'[Len(recorded) - count + i] = recorded[Len(recorded) - count + i]
        BY <1>1, <4>1
      <4> QED BY <2>2, <3>1, <3>2, <4>2, <4>3
    <3>3. CASE i = Len(head) + 1
      <4>1. Len(recorded) - count + i = Len(recorded) + 1
        BY <1>2, <2>3, <3>3
      <4> QED BY <1>1, <2>2, <3>1, <3>3, <4>1 DEF st
    <3> QED BY <1>3, <2>2, <3>2, <3>3
  <2>7. ~ \E i \in 1 .. Len(tail') : TRUE
    BY <2>1, <2>3
  <2> QED BY <1>5, <2>4, <2>5, <2>6, <2>7 DEF KeptByElement
<1>7. CASE ~(Len(head) < HeadMax)
  <2>1. head' = head /\ tail' = DropOldest(Append(tail, st))
    BY <1>7 DEF Record
  <2> HIDE DEF st
  <2> DEFINE longer == Append(tail, st)
  <2>2. /\ longer \in Seq(Status) /\ Len(longer) = Len(tail) + 1
        /\ \A i \in 1 .. Len(tail) : longer[i] = tail[i]
        /\ longer[Len(tail) + 1] = st
    BY <1>3, <1>4
  <2>3. Len(head) = HeadMax /\ HeadMax <= count
    BY <1>2, <1>3, <1>7, CachesAssumption DEF KeptByElement
  <2>4. Len(head') = IF count' < HeadMax THEN count' ELSE HeadMax
    BY <1>2, <2>1, <2>3, CachesAssumption
  <2>5. \A i \in 1 .. Len(head') :
          head'[i] = [at |-> Len(recorded') - count' + i,
                      level |-> recorded'[Len(recorded') - count' + i]]
    <3> SUFFICES ASSUME NEW i \in 1 .. Len(head)
                 PROVE  head[i] = [at |-> Len(recorded') - count' + i,
                                   level |-> recorded'[Len(recorded') - count' + i]]
      BY <2>1
    <3>1. Len(recorded') - count' + i = Len(recorded) - count + i
      BY <1>1, <1>2
    <3>2. Len(recorded) - count + i \in 1 .. Len(recorded)
      BY <1>2, <2>3
    <3>3. head[i] = [at |-> Len(recorded) - count + i,
                     level |-> recorded[Len(recorded) - count + i]]
      BY DEF KeptByElement
    <3>4. recorded'[Len(recorded) - count + i] = recorded[Len(recorded) - count + i]
      BY <1>1, <3>2
    <3> QED BY <3>1, <3>3, <3>4
  \* All of the longer tail is the end of what has been recorded.
  <2>6. ASSUME NEW i \in 1 .. Len(longer)
        PROVE  longer[i] = [at |-> Len(recorded') - Len(longer) + i,
                            level |-> recorded'[Len(recorded') - Len(longer) + i]]
    <3>1. Len(recorded') - Len(longer) + i = Len(recorded) - Len(tail) + i
      BY <1>1, <1>2, <1>3, <2>2
    <3>2. CASE i \in 1 .. Len(tail)
      <4>1. Len(tail) <= Len(recorded)
        BY <1>2, <1>3, <2>3, CachesAssumption DEF KeptByElement
      <4>2. Len(recorded) - Len(tail) + i \in 1 .. Len(recorded)
        BY <1>2, <1>3, <3>2, <4>1
      <4>3. tail[i] = [at |-> Len(recorded) - Len(tail) + i,
                       level |-> recorded[Len(recorded) - Len(tail) + i]]
        BY <3>2 DEF KeptByElement
      <4>4. recorded'[Len(recorded) - Len(tail) + i] = recorded[Len(recorded) - Len(tail) + i]
        BY <1>1, <4>2
      <4> QED BY <2>2, <3>1, <3>2, <4>3, <4>4
    <3>3. CASE i = Len(tail) + 1
      <4>1. Len(recorded) - Len(tail) + i = Len(recorded) + 1
        BY <1>2, <1>3, <3>3
      <4> QED BY <1>1, <2>2, <3>1, <3>3, <4>1 DEF st
    <3> QED BY <1>3, <2>2, <3>2, <3>3
  <2> HIDE DEF longer
  <2>7. Len(tail) = IF count - Len(head) < TailMax THEN count - Len(head) ELSE TailMax
    BY DEF KeptByElement
  <2>8. CASE Len(longer) > TailMax
    <3>1. tail' = Tail(longer)
      BY <2>1, <2>8 DEF DropOldest, longer
    <3>2. /\ Len(tail') = Len(longer) - 1
          /\ \A i \in 1 .. Len(tail') : tail'[i] = longer[i + 1]
      BY <2>2, <3>1
    <3>3. Len(tail') = TailMax /\ TailMax <= count - Len(head)
      BY <1>2, <1>3, <2>2, <2>3, <2>7, <2>8, <3>2, CachesAssumption
    <3>4. Len(tail') = IF count' - Len(head') < TailMax THEN count' - Len(head') ELSE TailMax
      BY <1>2, <1>3, <2>1, <3>3, CachesAssumption
    <3>5. \A i \in 1 .. Len(tail') :
            tail'[i] = [at |-> Len(recorded') - Len(tail') + i,
                        level |-> recorded'[Len(recorded') - Len(tail') + i]]
      <4> TAKE i \in 1 .. Len(tail')
      <4>1. i + 1 \in 1 .. Len(longer)
        BY <1>3, <2>2, <3>2
      <4>2. Len(recorded') - Len(longer) + (i + 1) = Len(recorded') - Len(tail') + i
        BY <1>1, <1>2, <1>3, <2>2, <3>2
      <4>3. longer[i + 1] = [at |-> Len(recorded') - Len(longer) + (i + 1),
                             level |-> recorded'[Len(recorded') - Len(longer) + (i + 1)]]
        BY <2>6, <4>1
      <4> QED BY <3>2, <4>2, <4>3
    <3> QED BY <1>5, <2>4, <2>5, <3>4, <3>5 DEF KeptByElement
  <2>9. CASE ~(Len(longer) > TailMax)
    <3>1. tail' = longer
      BY <2>1, <2>9 DEF DropOldest, longer
    <3>2. Len(tail') = IF count' - Len(head') < TailMax THEN count' - Len(head') ELSE TailMax
      BY <1>2, <1>3, <2>1, <2>2, <2>3, <2>7, <2>9, <3>1, CachesAssumption
    <3> QED BY <1>5, <2>4, <2>5, <2>6, <3>1, <3>2 DEF KeptByElement
  <2> QED BY <2>8, <2>9
<1> QED BY <1>6, <1>7

LEMMA RecordStep ==
  ASSUME IInv, NEW t \in Threads, NEW lvl \in Levels, Record(t, lvl)
  PROVE  IInv'
<1>1. TypeOK /\ CountIsOfRecorded /\ KeptByElement
  BY KeptFacts DEF IInv
<1>2. TypeOK'
  BY <1>1, RecordTypes
<1>3. CountIsOfRecorded' /\ KeptByElement'
  BY <1>1, RecordKeeps
<1>4. FirstAndLastAreKept'
  BY <1>2, <1>3, KeptIfByElement, PTL
<1>5. LevelIsOfKept'
  <2>1. level' = Adjusted(head', tail')
    BY DEF Record
  <2>2. head' \in Seq(Status) /\ tail' \in Seq(Status)
    BY <1>2 DEF TypeOK
  <2> QED BY <2>1, <2>2, AdjustedFacts DEF LevelIsOfKept
<1> QED BY <1>2, <1>3, <1>4, <1>5 DEF IInv

LEMMA ClearStep == ASSUME IInv, Clear PROVE IInv'
<1>1. /\ head' = <<>> /\ tail' = <<>> /\ Len(head') = 0 /\ Len(tail') = 0
      /\ count' = 0 /\ level' = INFO
      /\ UNCHANGED <<observers, reporting, recorded, told, left>>
  BY DEF Clear
<1>2. TypeOK'
  BY <1>1, CachesAssumption DEF IInv, TypeOK, Levels, INFO, ERROR
<1>3. CountIsOfRecorded'
  BY <1>1 DEF IInv, TypeOK, CountIsOfRecorded
<1>4. KeptByElement'
  <2>1. ~ \E i \in 1 .. 0 : TRUE
    OBVIOUS
  <2>2. /\ Len(head') = IF count' < HeadMax THEN count' ELSE HeadMax
        /\ Len(tail') = IF count' - Len(head') < TailMax THEN count' - Len(head') ELSE TailMax
    <3>1. Len(head') = 0 /\ Len(tail') = 0 /\ count' = 0
      BY <1>1
    <3> QED BY ONLY <3>1, CachesAssumption
  <2>3. 1 .. Len(head') = {} /\ 1 .. Len(tail') = {}
    BY ONLY <1>1, <2>1
  <2> QED BY ONLY <2>2, <2>3 DEF KeptByElement
<1>5. FirstAndLastAreKept'
  BY <1>2, <1>3, <1>4, KeptIfByElement, PTL
<1>6. LevelIsOfKept'
  BY <1>1 DEF LevelIsOfKept, Range
<1> QED BY <1>2, <1>3, <1>5, <1>6 DEF IInv

\* The observers and what they are told do not touch the caches.
LEMMA CachesUnchanged ==
  ASSUME IInv, UNCHANGED caches, TypeOK'
  PROVE  IInv'
<1>1. UNCHANGED <<head, tail, count, level, recorded>>
  BY DEF caches
<1>2. CountIsOfRecorded' /\ LevelIsOfKept'
  BY <1>1 DEF IInv, CountIsOfRecorded, LevelIsOfKept
<1>3. FirstAndLastAreKept'
  BY <1>1 DEF IInv, FirstAndLastAreKept, Recorded
<1> QED BY <1>2, <1>3 DEF IInv

LEMMA NextIInv == IInv /\ [Next]_vars => IInv'
<1> SUFFICES ASSUME IInv, [Next]_vars PROVE IInv'
  OBVIOUS
<1>1. ASSUME NEW t \in Threads, NEW lvl \in Levels, Record(t, lvl) PROVE IInv'
  BY <1>1, RecordStep
<1>2. ASSUME NEW t \in Threads, Notify(t) PROVE IInv'
  <2>1. UNCHANGED caches /\ UNCHANGED <<head, tail, count, level, recorded, observers, left>>
    BY <1>2 DEF Notify, caches
  <2>2. reporting' \in [Threads -> Status]
    <3>1. NoStatus \in Status
      BY BoundAssumption DEF NoStatus, Status, Levels, INFO, ERROR
    <3> QED BY <1>2, <3>1 DEF Notify, IInv, TypeOK
  <2>3. told' \in [Observers -> SUBSET (0 .. RecordBound)]
    <3>1. reporting[t].at \in 0 .. RecordBound
      BY DEF IInv, TypeOK, Status
    <3> QED BY <1>2, <3>1 DEF Notify, IInv, TypeOK
  <2>4. TypeOK'
    BY <2>1, <2>2, <2>3 DEF IInv, TypeOK
  <2> QED BY <2>1, <2>4, CachesUnchanged
<1>3. ASSUME NEW o \in Observers, AddObserver(o) PROVE IInv'
  <2>1. UNCHANGED caches /\ UNCHANGED <<head, tail, count, level, recorded, reporting, told>>
    BY <1>3 DEF AddObserver, caches
  <2>2. observers' \subseteq AllObservers /\ left' \subseteq Observers
    BY <1>3 DEF AddObserver, IInv, TypeOK, AllObservers
  <2>3. TypeOK'
    BY <2>1, <2>2 DEF IInv, TypeOK
  <2> QED BY <2>1, <2>3, CachesUnchanged
<1>4. ASSUME NEW o \in Observers, RemoveObserver(o) PROVE IInv'
  <2>1. UNCHANGED caches /\ UNCHANGED <<head, tail, count, level, recorded, reporting, told>>
    BY <1>4 DEF RemoveObserver, caches
  <2>2. observers' \subseteq AllObservers /\ left' \subseteq Observers
    BY <1>4 DEF RemoveObserver, IInv, TypeOK, AllObservers
  <2>3. TypeOK'
    BY <2>1, <2>2 DEF IInv, TypeOK
  <2> QED BY <2>1, <2>3, CachesUnchanged
<1>5. CASE Clear
  BY <1>5, ClearStep
<1>6. CASE UNCHANGED vars
  <2>1. UNCHANGED caches /\ UNCHANGED <<head, tail, count, level, recorded, observers,
                                        reporting, told, left>>
    BY <1>6 DEF vars, caches
  <2>2. TypeOK'
    BY <2>1 DEF IInv, TypeOK
  <2> QED BY <2>1, <2>2, CachesUnchanged
<1> QED BY <1>1, <1>2, <1>3, <1>4, <1>5, <1>6 DEF Next

-----------------------------------------------------------------------------
(* The theorems.                                                           *)

\* What is kept follows from how many statuses there have been since the last clear.
THEOREM Invariance == Spec => []IInv
<1> QED BY InitIInv, NextIInv, PTL DEF Spec

\* The caches never outgrow HEAD_CACHE_MAX and TAIL_CACHE_MAX.
THEOREM TypeCorrect == Spec => []TypeOK
<1>1. IInv => TypeOK
  BY DEF IInv
<1> QED BY <1>1, Invariance, PTL

\* Whatever the sizes of the caches, however many threads report, and whenever the caches
\* are cleared: status_manager::add keeps the first and the last statuses, in order.
THEOREM FirstAndLastStayKept == Spec => []FirstAndLastAreKept
<1>1. IInv => FirstAndLastAreKept
  BY DEF IInv
<1> QED BY <1>1, Invariance, PTL

\* What the caches hold and what the level is of them, as a fact about what was reported.
LEMMA KeptGivesLevel == IInv => LevelCoversTheEnds
<1> SUFFICES ASSUME IInv PROVE LevelCoversTheEnds
  OBVIOUS
<1> DEFINE total == Len(recorded)
           base == total - count
<1>1. TypeOK /\ KeptByElement /\ LevelIsOfKept
  BY KeptFacts DEF IInv
<1>2. /\ total \in Nat /\ count \in Nat /\ base \in Nat
      /\ Len(head) \in Nat /\ Len(tail) \in Nat
      /\ head \in Seq(Status) /\ tail \in Seq(Status)
  BY DEF IInv, TypeOK, CountIsOfRecorded
<1>3. /\ Len(head) = IF count < HeadMax THEN count ELSE HeadMax
      /\ Len(tail) = IF count - Len(head) < TailMax THEN count - Len(head) ELSE TailMax
  BY <1>1 DEF KeptByElement
<1>4. ASSUME NEW j \in 1 .. Len(head) PROVE head[j].level = recorded[base + j]
  <2>1. head[j] = [at |-> Len(recorded) - count + j,
                   level |-> recorded[Len(recorded) - count + j]]
    BY <1>1 DEF KeptByElement
  <2> QED BY <2>1
<1>5. ASSUME NEW j \in 1 .. Len(tail) PROVE tail[j].level = recorded[total - Len(tail) + j]
  <2>1. tail[j] = [at |-> Len(recorded) - Len(tail) + j,
                   level |-> recorded[Len(recorded) - Len(tail) + j]]
    BY <1>1 DEF KeptByElement
  <2> QED BY <2>1
<1>6. /\ \A j \in 1 .. Len(head) : head[j].level <= level
      /\ \A j \in 1 .. Len(tail) : tail[j].level <= level
  BY <1>1, <1>2 DEF LevelIsOfKept, Range
<1>7. ASSUME NEW i \in AtTheEnds PROVE recorded[i] <= level
  <2>1. /\ i \in Int /\ base + 1 <= i /\ i <= total
        /\ i <= base + HeadMax \/ i > total - TailMax
    BY <1>2 DEF AtTheEnds, SinceClear
  <2>2. CASE i <= base + Len(head)
    <3>1. i - base \in 1 .. Len(head) /\ base + (i - base) = i
      BY <1>2, <2>1, <2>2
    <3> QED BY <1>4, <1>6, <3>1
  <2>3. CASE ~(i <= base + Len(head))
    <3> DEFINE j == i - (total - Len(tail))
    <3>1. j \in 1 .. Len(tail) /\ total - Len(tail) + j = i
      BY <1>2, <1>3, <2>1, <2>3, CachesAssumption
    <3> QED BY <1>5, <1>6, <3>1
  <2> QED BY <2>2, <2>3
<1>8. ASSUME level # INFO PROVE \E i \in SinceClear : recorded[i] = level
  <2>1. PICK s \in Range(head) \cup Range(tail) : s.level = level
    BY <1>1, <1>8 DEF LevelIsOfKept
  <2>2. CASE s \in Range(head)
    <3>1. PICK j \in 1 .. Len(head) : s = head[j]
      BY <1>2, <2>2 DEF Range
    <3>2. base + j \in SinceClear
      BY <1>2, <1>3, CachesAssumption DEF SinceClear
    <3> QED BY <1>4, <2>1, <3>1, <3>2
  <2>3. CASE s \in Range(tail)
    <3>1. PICK j \in 1 .. Len(tail) : s = tail[j]
      BY <1>2, <2>3 DEF Range
    <3>2. total - Len(tail) + j \in SinceClear
      BY <1>2, <1>3, CachesAssumption DEF SinceClear
    <3> QED BY <1>5, <2>1, <3>1, <3>2
  <2> QED BY <2>1, <2>2, <2>3
<1> QED BY <1>7, <1>8 DEF LevelCoversTheEnds

\* Whatever the sizes of the caches: adjust_level leaves in level_ the worst of the first
\* and the last statuses since the last clear. It is not the worst of them all.
THEOREM LevelAlwaysCoversTheEnds == Spec => []LevelCoversTheEnds
<1> QED BY KeptGivesLevel, Invariance, PTL
=============================================================================

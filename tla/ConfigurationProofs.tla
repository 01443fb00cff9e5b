------------------------ MODULE ConfigurationProofs -------------------------
(***************************************************************************)
(* Proofs about Configuration.                                             *)
(*                                                                         *)
(* A configuration replays a document, so each proof follows the replay    *)
(* element by element: what making a logger keeps and adds (CreateFacts),  *)
(* what an element comes to in each format (LoggerFacts), and by induction *)
(* over the elements what a document does (ConfigureFacts).  The loggers   *)
(* are seen through WritersAt alone, which has no writers for a logger     *)
(* that is not registered: so making one, removing one and a reset of all  *)
(* of them need no case of their own.                                      *)
(*                                                                         *)
(* The invariant is what the last document read left of the registry.  It  *)
(* is inductive only with RegistryOK: what is held is registered, and a    *)
(* registry without a root has no loggers, so that the first root is that  *)
(* of an empty registry.                                                   *)
(***************************************************************************)
EXTENDS Configuration, FiniteSetTheorems, WellFoundedInduction, TLAPS

-----------------------------------------------------------------------------
(* Recursion over the entries and over the elements.                       *)

\* Induction over the numbers, from the well-foundedness of the finite sets: a least
\* number outside P would be the successor of one inside.
LEMMA Induction ==
  ASSUME NEW P, 0 \in P, \A n \in Nat : n \in P => n + 1 \in P
  PROVE  \A n \in Nat : n \in P
<1> SUFFICES ASSUME NEW n \in Nat, n \notin P PROVE FALSE
  OBVIOUS
<1> DEFINE Missing == {k \in 0 .. n : k \notin P}
           Below == {0 .. k : k \in Missing}
<1>1. IsWellFoundedOn(StrictSubsetOrdering(0 .. n), SUBSET (0 .. n))
  <2>1. IsFiniteSet(0 .. n)
    BY FS_Interval
  <2>2. FiniteSubsetsOf(0 .. n) = SUBSET (0 .. n)
    BY <2>1, FS_FiniteSubsetsOfFinite
  <2> QED BY <2>2, FS_StrictSubsetOrderingWellFounded
<1>2. Below \subseteq SUBSET (0 .. n) /\ Below # {}
  OBVIOUS
<1>3. PICK least \in Below : \A s \in Below : <<s, least>> \notin StrictSubsetOrdering(0 .. n)
  BY <1>1, <1>2, WFMin
<1>4. PICK k \in Missing : least = 0 .. k
  OBVIOUS
<1>5. k # 0 /\ k - 1 \in Missing
  BY <1>4
<1>6. <<0 .. k - 1, 0 .. k>> \in StrictSubsetOrdering(0 .. n)
  BY <1>5 DEF StrictSubsetOrdering
<1> QED
  BY <1>3, <1>4, <1>5, <1>6

\* What begins with start and makes each value from the one before.
IsFold(f, start, step, n) ==
  f = [k \in 0 .. n |-> IF k = 0 THEN start ELSE step[k][f[k - 1]]]

LEMMA FoldExists ==
  ASSUME NEW S, NEW start \in S, NEW N \in Nat, NEW step \in [1 .. N -> [S -> S]]
  PROVE  \E f \in [0 .. N -> S] : IsFold(f, start, step, N)
<1> DEFINE P == {n \in Nat : n <= N => \E f \in [0 .. n -> S] : IsFold(f, start, step, n)}
<1>1. 0 \in P
  <2> DEFINE f == [k \in 0 .. 0 |-> start]
  <2> f \in [0 .. 0 -> S] /\ IsFold(f, start, step, 0)
    BY DEF IsFold
  <2> QED OBVIOUS
<1>2. ASSUME NEW n \in Nat, n \in P PROVE n + 1 \in P
  <2> SUFFICES ASSUME n + 1 <= N PROVE \E f \in [0 .. n + 1 -> S] : IsFold(f, start, step, n + 1)
    OBVIOUS
  <2> PICK f \in [0 .. n -> S] : IsFold(f, start, step, n)
    BY <1>2
  <2> DEFINE g == [k \in 0 .. n + 1 |-> IF k <= n THEN f[k] ELSE step[n + 1][f[n]]]
  <2>1. g \in [0 .. n + 1 -> S]
    OBVIOUS
  <2>2. ASSUME NEW k \in 0 .. n + 1 PROVE g[k] = IF k = 0 THEN start ELSE step[k][g[k - 1]]
    BY DEF IsFold
  <2>3. IsFold(g, start, step, n + 1)
    BY <2>2 DEF IsFold
  <2> QED BY <2>1, <2>3
<1> HIDE DEF P
<1>3. N \in P
  BY <1>1, <1>2, Induction
<1> QED BY <1>3 DEF P

\* f makes the selection from the first n entries.
Selects(f, entries, places, n) ==
  /\ f[0] = <<>>
  /\ \A k \in 1 .. n : f[k] = IF k \in places THEN Append(f[k - 1], entries[k]) ELSE f[k - 1]

LEMMA SelectedBySteps ==
  ASSUME NEW T, NEW entries \in Seq(T), NEW places
  PROVE  \E f : Selects(f, entries, places, Len(entries))
                /\ Selected(entries, places) = f[Len(entries)]
<1> DEFINE n == Len(entries)
           step == [k \in 1 .. n |->
                      [s \in Seq(T) |-> IF k \in places THEN Append(s, entries[k]) ELSE s]]
           Is(f) == f = [k \in 0 .. n |->
                           IF k = 0 THEN <<>>
                           ELSE IF k \in places THEN Append(f[k - 1], entries[k])
                           ELSE f[k - 1]]
           h == CHOOSE f : Is(f)
<1>1. n \in Nat /\ \A k \in 1 .. n : entries[k] \in T
  OBVIOUS
<1>2. Selected(entries, places) = h[n]
  BY Zenon DEF Selected
<1> HIDE DEF n
<1>3. step \in [1 .. n -> [Seq(T) -> Seq(T)]]
  BY <1>1
<1>4. PICK g \in [0 .. n -> Seq(T)] : IsFold(g, <<>>, step, n)
  <2>1. <<>> \in Seq(T)
    OBVIOUS
  <2> HIDE DEF step
  <2> QED BY <1>1, <1>3, <2>1, FoldExists
<1>5. Is(g)
  <2>1. ASSUME NEW k \in 0 .. n
        PROVE  g[k] = IF k = 0 THEN <<>>
                      ELSE IF k \in places THEN Append(g[k - 1], entries[k]) ELSE g[k - 1]
    <3>1. CASE k = 0
      BY <1>1, <1>4, <3>1 DEF IsFold
    <3>2. CASE k # 0
      <4>1. k \in 1 .. n /\ k - 1 \in 0 .. n
        BY <1>1, <3>2
      <4>2. g[k] = step[k][g[k - 1]] /\ g[k - 1] \in Seq(T)
        <5> HIDE DEF step
        <5> QED BY <1>1, <1>4, <3>2, <4>1 DEF IsFold
      <4> QED BY <3>2, <4>1, <4>2
    <3> QED BY <3>1, <3>2
  <2>2. g = [k \in 0 .. n |-> g[k]]
    BY <1>4
  <2> QED BY <2>1, <2>2
<1>6. Is(h)
  <2>1. \E f : Is(f)
    BY <1>5
  <2> QED BY <2>1, Zenon
<1> HIDE DEF h
<1>7. Selects(h, entries, places, n)
  <2>1. \A k \in 0 .. n : h[k] = IF k = 0 THEN <<>>
                                  ELSE IF k \in places THEN Append(h[k - 1], entries[k])
                                  ELSE h[k - 1]
    BY <1>6
  <2>2. 0 \in 0 .. n /\ \A k \in 1 .. n : k \in 0 .. n /\ k # 0
    BY <1>1
  <2> HIDE DEF Is
  <2> QED BY <2>1, <2>2 DEF Selects
<1> QED BY <1>2, <1>7 DEF n

LEMMA SelectedIsSeq ==
  ASSUME NEW T, NEW entries \in Seq(T), NEW places
  PROVE  Selected(entries, places) \in Seq(T)
<1> DEFINE n == Len(entries)
<1>1. n \in Nat /\ \A k \in 1 .. n : entries[k] \in T
  OBVIOUS
<1>2. PICK f : Selects(f, entries, places, n) /\ Selected(entries, places) = f[n]
  BY SelectedBySteps
<1> HIDE DEF n
<1> DEFINE P == {k \in Nat : k <= n => f[k] \in Seq(T)}
<1>3. 0 \in P
  <2>1. <<>> \in Seq(T) /\ f[0] = <<>>
    BY <1>2 DEF Selects
  <2> QED BY <2>1
<1>4. ASSUME NEW k \in Nat, k \in P PROVE k + 1 \in P
  <2> SUFFICES ASSUME k + 1 <= n PROVE f[k + 1] \in Seq(T)
    OBVIOUS
  <2>1. f[k] \in Seq(T) /\ k + 1 \in 1 .. n /\ entries[k + 1] \in T
    BY <1>1, <1>4
  <2>2. f[k + 1] = IF k + 1 \in places THEN Append(f[k], entries[k + 1]) ELSE f[k]
    BY <1>2, <2>1 DEF Selects
  <2> QED BY <2>1, <2>2
<1> HIDE DEF P
<1>5. n \in P
  BY <1>1, <1>3, <1>4, Induction
<1> QED BY <1>1, <1>2, <1>5 DEF P

\* f gives the logger m what the first n elements give it.
Gives(f, elements, m, places, n) ==
  /\ f[0] = <<>>
  /\ \A k \in 1 .. n : f[k] = IF k \in places /\ elements[k].name = m
                              THEN f[k - 1] \o WritersIn(elements[k].entries) ELSE f[k - 1]

LEMMA GivenBySteps ==
  ASSUME NEW elements \in Seq(Elements), NEW m, NEW places
  PROVE  \E f : Gives(f, elements, m, places, Len(elements))
                /\ Given(elements, m, places) = f[Len(elements)]
<1> DEFINE n == Len(elements)
           S == Seq(STRING)
           in(k) == WritersIn(elements[k].entries)
           step == [k \in 1 .. n |->
                      [s \in S |-> IF k \in places /\ elements[k].name = m
                                   THEN s \o in(k) ELSE s]]
           Is(f) == f = [k \in 0 .. n |->
                           IF k = 0 THEN <<>>
                           ELSE IF k \in places /\ elements[k].name = m
                           THEN f[k - 1] \o in(k) ELSE f[k - 1]]
           h == CHOOSE f : Is(f)
<1>1. n \in Nat /\ \A k \in 1 .. n : elements[k] \in Elements
  OBVIOUS
<1>2. Given(elements, m, places) = h[n]
  BY Zenon DEF Given
<1> HIDE DEF n
<1>3. step \in [1 .. n -> [S -> S]]
  <2>1. ASSUME NEW k \in 1 .. n PROVE in(k) \in S
    <3>1. elements[k].entries \in Seq(STRING)
      BY <1>1 DEF Elements
    <3> QED BY <3>1, SelectedIsSeq DEF WritersIn, WritersAmong
  <2> HIDE DEF in
  <2>2. ASSUME NEW k \in 1 .. n, NEW s \in S PROVE s \o in(k) \in S
    BY <2>1
  <2> HIDE DEF S
  <2> QED BY <2>2
<1>4. PICK g \in [0 .. n -> S] : IsFold(g, <<>>, step, n)
  <2>1. <<>> \in S
    OBVIOUS
  <2> HIDE DEF step, S
  <2> QED BY <1>1, <1>3, <2>1, FoldExists
<1> HIDE DEF in, S
<1>5. Is(g)
  <2>1. ASSUME NEW k \in 0 .. n
        PROVE  g[k] = IF k = 0 THEN <<>>
                      ELSE IF k \in places /\ elements[k].name = m
                      THEN g[k - 1] \o in(k) ELSE g[k - 1]
    <3>1. CASE k = 0
      BY <1>1, <1>4, <3>1 DEF IsFold
    <3>2. CASE k # 0
      <4>1. k \in 1 .. n /\ k - 1 \in 0 .. n
        BY <1>1, <3>2
      <4>2. g[k] = step[k][g[k - 1]] /\ g[k - 1] \in S
        <5> HIDE DEF step
        <5> QED BY <1>1, <1>4, <3>2, <4>1 DEF IsFold
      <4> QED BY <3>2, <4>1, <4>2
    <3> QED BY <3>1, <3>2
  <2>2. g = [k \in 0 .. n |-> g[k]]
    BY <1>4
  <2> QED BY <2>1, <2>2
<1>6. Is(h)
  <2>1. \E f : Is(f)
    BY <1>5
  <2> QED BY <2>1, Zenon
<1> HIDE DEF h
<1>7. Gives(h, elements, m, places, n)
  <2>1. \A k \in 0 .. n : h[k] = IF k = 0 THEN <<>>
                                  ELSE IF k \in places /\ elements[k].name = m
                                  THEN h[k - 1] \o in(k) ELSE h[k - 1]
    BY <1>6
  <2>2. 0 \in 0 .. n /\ \A k \in 1 .. n : k \in 0 .. n /\ k # 0
    BY <1>1
  <2> HIDE DEF Is
  <2> QED BY <2>1, <2>2 DEF Gives, in
<1> QED BY <1>2, <1>7 DEF n

-----------------------------------------------------------------------------
(* What a configuration finds and leaves.                                  *)

\* (The provers do not know that "console" is a string.)
WriterStates == [name : STRING \cup {"console"}, of : Nat]
Levels == {"none", "INFO", "DEBUG"}
LoggerStates == [writers : Seq(WriterStates), level : Levels, root : Nat]
Maps == UNION {[D -> LoggerStates] : D \in SUBSET Names}
States == [roots : Seq(LoggerStates), loggers : Maps, operation : Nat,
           over : BOOLEAN, threw : BOOLEAN, good : BOOLEAN]
Mementos == [name : Names \cup {Root}, level : Levels, writers : Seq(WriterStates)]

\* The writers of the registered logger n; none of one that is not registered.
WritersAt(rs, ls, n) ==
  IF n = Root THEN IF rs = <<>> THEN <<>> ELSE rs[Len(rs)].writers
  ELSE IF n \in DOMAIN ls THEN ls[n].writers ELSE <<>>

NamesOf(writers) == [i \in DOMAIN writers |-> writers[i].name]
AllOf(writers, operation) == \A i \in DOMAIN writers : writers[i].of = operation

\* What making a logger keeps: t is s with some loggers more or other writers.
Keeps(s, t) ==
  /\ t \in States
  /\ t.operation = s.operation /\ t.over = s.over /\ t.threw = s.threw
  /\ Len(t.roots) >= Len(s.roots)
  /\ DOMAIN s.loggers \subseteq DOMAIN t.loggers

LEMMA NewLoggerType ==
  ASSUME NEW level \in Levels, NEW root \in Nat
  PROVE  NewLogger(level, root) \in LoggerStates /\ NewLogger(level, root).writers = <<>>
BY DEF NewLogger, LoggerStates

LEMMA NewRootFacts ==
  ASSUME NEW s \in States, NEW level \in Levels
  PROVE  LET t == NewRoot(s, level)
         IN  /\ Keeps(s, t)
             /\ t.loggers = s.loggers
             /\ Len(t.roots) = Len(s.roots) + 1
             /\ WritersAt(t.roots, t.loggers, Root) = <<>>
<1> DEFINE new == NewLogger(level, 0)
           rs == Append(s.roots, new)
           t == NewRoot(s, level)
<1>1. new \in LoggerStates /\ new.writers = <<>>
  BY NewLoggerType
<1>2. s.roots \in Seq(LoggerStates)
  BY DEF States
<1> HIDE DEF new
<1>3. /\ rs \in Seq(LoggerStates) /\ Len(rs) = Len(s.roots) + 1 /\ rs # <<>>
      /\ rs[Len(rs)] = new
  BY <1>1, <1>2
<1>4. t = [s EXCEPT !.roots = rs]
  BY DEF NewRoot, new
<1> HIDE DEF rs, t
<1>5. t \in States /\ t.roots = rs /\ t.loggers = s.loggers
      /\ t.operation = s.operation /\ t.over = s.over /\ t.threw = s.threw
  BY <1>3, <1>4 DEF States
<1>6. Len(s.roots) \in Nat
  BY <1>2
<1>7. WritersAt(t.roots, t.loggers, Root) = <<>>
  BY <1>1, <1>3, <1>5 DEF WritersAt
<1> QED BY <1>3, <1>5, <1>6, <1>7 DEF Keeps, t

\* The map ls with the logger x at n.
With(ls, n, x) == [m \in DOMAIN ls \cup {n} |-> IF m = n THEN x ELSE ls[m]]

LEMMA WithFacts ==
  ASSUME NEW ls \in Maps, NEW n \in Names, NEW x \in LoggerStates
  PROVE  With(ls, n, x) \in Maps
<1>1. PICK D \in SUBSET Names : ls \in [D -> LoggerStates]
  BY DEF Maps
<1>2. With(ls, n, x) \in [D \cup {n} -> LoggerStates]
  BY <1>1 DEF With
<1> QED BY <1>1, <1>2 DEF Maps

LEMMA GetImplFacts ==
  ASSUME NEW s \in States, NEW n \in Names \cup {Root}
  PROVE  LET t == GetImpl(s, n)
         IN  /\ Keeps(s, t)
             /\ t.roots # <<>>
             /\ n # Root => n \in DOMAIN t.loggers
             /\ s.roots # <<>> => Len(t.roots) = Len(s.roots)
             /\ \A m : WritersAt(t.roots, t.loggers, m) = WritersAt(s.roots, s.loggers, m)
<1> DEFINE r == IF s.roots = <<>> THEN NewRoot(s, "none") ELSE s
           t == GetImpl(s, n)
<1>1. /\ Keeps(s, r) /\ r \in States /\ r.roots # <<>> /\ r.loggers = s.loggers
      /\ s.roots # <<>> => r = s
      /\ WritersAt(r.roots, r.loggers, Root) = WritersAt(s.roots, s.loggers, Root)
  <2>1. CASE s.roots = <<>>
    <3>1. r = NewRoot(s, "none") /\ "none" \in Levels
      BY <2>1 DEF Levels
    <3> HIDE DEF r
    <3>2. /\ Keeps(s, r) /\ r.loggers = s.loggers /\ Len(r.roots) = Len(s.roots) + 1
          /\ WritersAt(r.roots, r.loggers, Root) = <<>>
      BY <3>1, NewRootFacts
    <3>3. r \in States
      BY <3>2 DEF Keeps
    <3>4. r.roots # <<>>
      <4>1. Len(s.roots) = 0 /\ Len(r.roots) # 0
        BY <2>1, <3>2
      <4> QED BY <4>1
    <3> QED BY <2>1, <3>2, <3>3, <3>4 DEF WritersAt
  <2>2. CASE s.roots # <<>>
    <3>1. r = s
      BY <2>2
    <3>2. Len(s.roots) \in Nat
      BY DEF States
    <3> HIDE DEF r
    <3> QED BY <2>2, <3>1, <3>2 DEF Keeps
  <2> QED BY <2>1, <2>2
<1> HIDE DEF r
<1>2. CASE n = Root \/ n \in DOMAIN r.loggers
  <2>1. t = r
    BY <1>2 DEF GetImpl, r
  <2> QED BY <1>1, <1>2, <2>1 DEF WritersAt
<1>3. CASE n # Root /\ n \notin DOMAIN r.loggers
  <2> DEFINE new == NewLogger("none", Len(r.roots))
             ls == With(r.loggers, n, new)
  <2>1. new \in LoggerStates /\ new.writers = <<>>
    <3>1. Len(r.roots) \in Nat /\ "none" \in Levels
      BY <1>1 DEF States, Levels
    <3> QED BY <3>1, NewLoggerType
  <2>2. t = [r EXCEPT !.loggers = ls]
    BY <1>3 DEF GetImpl, r, With
  <2> HIDE DEF new
  <2>3. ls \in Maps
    <3>1. r.loggers \in Maps /\ n \in Names
      BY <1>1, <1>3 DEF States
    <3> QED BY <2>1, <3>1, WithFacts
  <2>4. DOMAIN ls = DOMAIN r.loggers \cup {n} /\ ls[n] = new
        /\ \A m \in DOMAIN r.loggers : m # n => ls[m] = r.loggers[m]
    BY DEF With
  <2> HIDE DEF ls, t
  <2>5. t \in States /\ t.roots = r.roots /\ t.loggers = ls
        /\ t.operation = r.operation /\ t.over = r.over /\ t.threw = r.threw
    BY <1>1, <2>2, <2>3 DEF States
  <2>6. \A m : WritersAt(t.roots, t.loggers, m) = WritersAt(r.roots, r.loggers, m)
    BY <1>3, <2>1, <2>4, <2>5 DEF WritersAt
  <2>7. \A m : m # Root => WritersAt(r.roots, r.loggers, m) = WritersAt(s.roots, s.loggers, m)
    BY <1>1 DEF WritersAt
  <2>8. Keeps(s, t)
    BY <1>1, <2>4, <2>5 DEF Keeps
  <2> QED BY <1>1, <2>4, <2>5, <2>6, <2>7, <2>8 DEF t
<1> QED BY <1>2, <1>3

LEMMA MementoFacts ==
  ASSUME NEW s \in States, NEW element \in Elements, NEW places
  PROVE  LET m == Memento(s, element, places)
         IN  /\ m \in Mementos /\ m.name = element.name
             /\ NamesOf(m.writers) = WritersAmong(element.entries, places)
             /\ AllOf(m.writers, s.operation)
<1> DEFINE ws == WritersAmong(element.entries, places)
           named == [i \in DOMAIN ws |-> [name |-> ws[i], of |-> s.operation]]
           level == IF HasAt(element.entries, places, "level") THEN "DEBUG" ELSE "none"
           m == Memento(s, element, places)
<1>1. ws \in Seq(STRING)
  <2>1. element.entries \in Seq(STRING)
    BY DEF Elements
  <2> QED BY <2>1, SelectedIsSeq DEF WritersAmong
<1>2. m = [name |-> element.name, level |-> level, writers |-> named]
  BY DEF Memento
<1>3. level \in Levels
  BY DEF Levels
<1>4. s.operation \in Nat /\ element.name \in Names \cup {Root}
  BY DEF States, Elements
<1> HIDE DEF ws
<1>5. named \in Seq(WriterStates)
  <2>1. Len(ws) \in Nat /\ DOMAIN ws = 1 .. Len(ws)
    BY <1>1
  <2>2. ASSUME NEW i \in 1 .. Len(ws) PROVE [name |-> ws[i], of |-> s.operation] \in WriterStates
    <3>1. ws[i] \in STRING
      BY <1>1
    <3> QED BY <1>4, <3>1 DEF WriterStates
  <2> QED BY <2>1, <2>2
<1>6. \A i \in DOMAIN named : named[i].of = s.operation
  OBVIOUS
<1>7. NamesOf(named) = ws
  <2>1. ws = [i \in DOMAIN ws |-> ws[i]]
    BY <1>1
  <2> QED BY <2>1 DEF NamesOf
<1> HIDE DEF named, level, m
<1>8. m \in Mementos /\ m.name = element.name /\ m.writers = named
  BY <1>2, <1>3, <1>4, <1>5 DEF Mementos
<1> QED BY <1>6, <1>7, <1>8 DEF AllOf, m, ws

LEMMA ConfiguredFacts ==
  ASSUME NEW lgr \in LoggerStates, NEW m \in Mementos
  PROVE  /\ Configured(lgr, m) \in LoggerStates
         /\ Configured(lgr, m).writers = lgr.writers \o m.writers
<1> DEFINE ws == lgr.writers \o m.writers
           level == IF m.level = "none" THEN lgr.level ELSE m.level
<1>1. Configured(lgr, m) = [lgr EXCEPT !.writers = ws, !.level = level]
  BY DEF Configured
<1>2. ws \in Seq(WriterStates) /\ level \in Levels
  BY DEF LoggerStates, Mementos
<1> HIDE DEF ws, level
<1>3. [lgr EXCEPT !.writers = ws, !.level = level] \in LoggerStates
  BY <1>2 DEF LoggerStates
<1> QED BY <1>1, <1>2, <1>3 DEF LoggerStates, ws

LEMMA CreateFacts ==
  ASSUME DocumentAssumption, NEW s \in States, NEW m \in Mementos
  PROVE  LET t == Create(s, m)
         IN  /\ Keeps(s, t)
             /\ t.roots # <<>>
             /\ \A n : WritersAt(t.roots, t.loggers, n) =
                         IF n = m.name THEN WritersAt(s.roots, s.loggers, n) \o m.writers
                         ELSE WritersAt(s.roots, s.loggers, n)
<1> DEFINE r == GetImpl(s, m.name)
           t == Create(s, m)
<1>1. m.name \in Names \cup {Root}
  BY DEF Mementos
<1>2. /\ Keeps(s, r) /\ r \in States /\ r.roots # <<>>
      /\ m.name # Root => m.name \in DOMAIN r.loggers
      /\ \A n : WritersAt(r.roots, r.loggers, n) = WritersAt(s.roots, s.loggers, n)
  BY <1>1, GetImplFacts DEF Keeps
<1>3. CASE m.name = Root
  <2> DEFINE l == Len(r.roots)
             new == Configured(r.roots[l], m)
             rs == [r.roots EXCEPT ![l] = new]
  <2>1. r.roots \in Seq(LoggerStates) /\ l \in 1 .. l /\ l \in Nat /\ l \in DOMAIN r.roots
    BY <1>2 DEF States
  <2>2. r.roots[l] \in LoggerStates
    BY <2>1
  <2>3. new \in LoggerStates /\ new.writers = r.roots[l].writers \o m.writers
    BY <2>2, ConfiguredFacts
  <2>4. t = [r EXCEPT !.roots = rs]
    BY <1>3 DEF Create
  <2> HIDE DEF new
  <2>5. rs \in Seq(LoggerStates) /\ Len(rs) = l /\ rs[l] = new /\ rs # <<>>
    BY <2>1, <2>3
  <2> HIDE DEF rs, t
  <2>6. t \in States /\ t.roots = rs /\ t.loggers = r.loggers
        /\ t.operation = r.operation /\ t.over = r.over /\ t.threw = r.threw
    BY <1>2, <2>4, <2>5 DEF States
  <2>7. Keeps(s, t)
    BY <1>2, <2>5, <2>6 DEF Keeps
  <2>8. WritersAt(t.roots, t.loggers, Root) = WritersAt(r.roots, r.loggers, Root) \o m.writers
    BY <1>2, <2>3, <2>5, <2>6 DEF WritersAt
  <2>9. \A n : n # Root => WritersAt(t.roots, t.loggers, n) = WritersAt(r.roots, r.loggers, n)
    BY <2>6 DEF WritersAt
  <2> HIDE DEF l, r
  <2> QED BY <1>2, <1>3, <2>5, <2>6, <2>7, <2>8, <2>9 DEF t
<1>4. CASE m.name # Root
  <2> DEFINE x == m.name
             new == Configured(r.loggers[x], m)
             ls == [r.loggers EXCEPT ![x] = new]
  <2>1. PICK D \in SUBSET Names : r.loggers \in [D -> LoggerStates]
    BY <1>2 DEF States, Maps
  <2>2. x \in D /\ DOMAIN r.loggers = D /\ r.loggers[x] \in LoggerStates
    BY <1>2, <1>4, <2>1
  <2>3. new \in LoggerStates /\ new.writers = r.loggers[x].writers \o m.writers
    BY <2>2, ConfiguredFacts
  <2>4. t = [r EXCEPT !.loggers = ls]
    BY <1>4 DEF Create
  <2> HIDE DEF new
  <2>5. /\ ls \in [D -> LoggerStates] /\ DOMAIN ls = D /\ ls[x] = new
        /\ \A n \in D : n # x => ls[n] = r.loggers[n]
    BY <2>1, <2>2, <2>3
  <2>6. ls \in Maps
    BY <2>5 DEF Maps
  <2> HIDE DEF ls, t
  <2>7. t \in States /\ t.roots = r.roots /\ t.loggers = ls
        /\ t.operation = r.operation /\ t.over = r.over /\ t.threw = r.threw
    BY <1>2, <2>4, <2>6 DEF States
  <2>8. Keeps(s, t)
    BY <1>2, <2>2, <2>5, <2>7 DEF Keeps
  <2>9. WritersAt(t.roots, t.loggers, x) = WritersAt(r.roots, r.loggers, x) \o m.writers
    BY <1>4, <2>2, <2>3, <2>5, <2>7 DEF WritersAt
  <2>10. \A n : n # x => WritersAt(t.roots, t.loggers, n) = WritersAt(r.roots, r.loggers, n)
    BY <2>2, <2>5, <2>7 DEF WritersAt
  <2> HIDE DEF r
  <2> QED BY <1>2, <2>7, <2>8, <2>9, <2>10 DEF t
<1> QED BY <1>3, <1>4

LEMMA ClearedFacts ==
  ASSUME NEW lgr \in LoggerStates
  PROVE  Cleared(lgr) \in LoggerStates /\ Cleared(lgr).writers = <<>>
<1>1. "none" \in Levels /\ <<>> \in Seq(WriterStates)
  BY DEF Levels
<1> QED BY <1>1 DEF Cleared, LoggerStates

LEMMA ResetFacts ==
  ASSUME NEW s \in States
  PROVE  LET t == Reset(s)
         IN  /\ Keeps(s, t)
             /\ Len(t.roots) = Len(s.roots) /\ DOMAIN t.loggers = DOMAIN s.loggers
             /\ \A n : WritersAt(t.roots, t.loggers, n) = <<>>
<1> DEFINE l == Len(s.roots)
           rs == [i \in DOMAIN s.roots |-> IF i = l THEN Cleared(s.roots[i]) ELSE s.roots[i]]
           ls == [n \in DOMAIN s.loggers |-> Cleared(s.loggers[n])]
           t == Reset(s)
<1>1. t = [s EXCEPT !.roots = rs, !.loggers = ls]
  BY DEF Reset
<1>2. s.roots \in Seq(LoggerStates) /\ l \in Nat /\ DOMAIN s.roots = 1 .. l
  BY DEF States
<1>3. \A i \in 1 .. l : s.roots[i] \in LoggerStates
  BY <1>2
<1>4. PICK D \in SUBSET Names : s.loggers \in [D -> LoggerStates]
  BY DEF States, Maps
<1>5. /\ ls \in [D -> LoggerStates] /\ DOMAIN ls = DOMAIN s.loggers
      /\ \A n \in DOMAIN ls : ls[n].writers = <<>>
  BY <1>4, ClearedFacts
<1>6. ls \in Maps
  BY <1>5 DEF Maps
<1> HIDE DEF ls
<1>7. rs \in Seq(LoggerStates) /\ Len(rs) = l /\ (rs # <<>> => rs[l].writers = <<>>)
  <2> HIDE DEF l
  <2>1. \A i \in 1 .. l : rs[i] \in LoggerStates /\ (i = l => rs[i].writers = <<>>)
    BY <1>2, <1>3, ClearedFacts
  <2>2. DOMAIN rs = 1 .. l /\ rs = [i \in 1 .. l |-> rs[i]]
    BY <1>2
  <2> HIDE DEF rs
  <2>3. rs \in Seq(LoggerStates) /\ Len(rs) = l
    BY <1>2, <2>1, <2>2
  <2>4. rs # <<>> => l \in 1 .. l
    BY <1>2, <2>3
  <2> QED BY <2>1, <2>3, <2>4
<1> HIDE DEF rs, t
<1>8. t \in States /\ t.roots = rs /\ t.loggers = ls
      /\ t.operation = s.operation /\ t.over = s.over /\ t.threw = s.threw
  BY <1>1, <1>6, <1>7 DEF States
<1> QED BY <1>2, <1>5, <1>7, <1>8 DEF Keeps, WritersAt, t

-----------------------------------------------------------------------------
(* What an element of a document does to the loggers.                      *)

Structured == {"json", "config_file", "log4cplus"}
InYaml == {"yaml_items", "yaml_pairs"}
IsGood(format, element) ==
  /\ format \in Structured \cup InYaml /\ ~Has(element.entries, "bad")
  /\ format \in InYaml => Has(element.entries, "name")

Writers(s, n) == WritersAt(s.roots, s.loggers, n)

\* t has made all of the element; it has made none of it; whatever it has made it has
\* made now, and no logger without a root.
MakesAll(s, t, element) ==
  \A n : NamesOf(Writers(t, n)) =
           IF n = element.name THEN NamesOf(Writers(s, n)) \o WritersIn(element.entries)
           ELSE NamesOf(Writers(s, n))
MakesNone(s, t) == \A n : NamesOf(Writers(t, n)) = NamesOf(Writers(s, n))
AllNew(s) == \A n : AllOf(Writers(s, n), s.operation)
Follows(s, t) ==
  /\ t \in States
  /\ t.operation = s.operation
  /\ Len(t.roots) >= Len(s.roots)
  /\ DOMAIN s.loggers \subseteq DOMAIN t.loggers
  /\ t.roots = <<>> => t.loggers = s.loggers
  /\ AllNew(s) => AllNew(t)

LEMMA WritersType ==
  ASSUME NEW s \in States, NEW n
  PROVE  Writers(s, n) \in Seq(WriterStates)
<1>1. <<>> \in Seq(WriterStates)
  OBVIOUS
<1>2. PICK D \in SUBSET Names : s.loggers \in [D -> LoggerStates]
  BY DEF States, Maps
<1>3. ASSUME s.roots # <<>> PROVE s.roots[Len(s.roots)] \in LoggerStates
  <2>1. s.roots \in Seq(LoggerStates)
    BY DEF States
  <2> QED BY <1>3, <2>1
<1>4. \A lgr \in LoggerStates : lgr.writers \in Seq(WriterStates)
  BY DEF LoggerStates
<1> QED BY <1>1, <1>2, <1>3, <1>4 DEF Writers, WritersAt

LEMMA NamesOfJoined ==
  ASSUME NEW a \in Seq(WriterStates), NEW b \in Seq(WriterStates)
  PROVE  NamesOf(a \o b) = NamesOf(a) \o NamesOf(b)
<1> DEFINE c == a \o b
<1>1. /\ Len(a) \in Nat /\ Len(b) \in Nat /\ Len(c) = Len(a) + Len(b)
      /\ DOMAIN a = 1 .. Len(a) /\ DOMAIN b = 1 .. Len(b) /\ DOMAIN c = 1 .. Len(c)
      /\ \A i \in 1 .. Len(a) + Len(b) : c[i] = IF i <= Len(a) THEN a[i] ELSE b[i - Len(a)]
  OBVIOUS
<1>2. ASSUME NEW x \in Seq(WriterStates)
      PROVE  NamesOf(x) \in Seq(STRING \cup {"console"}) /\ Len(NamesOf(x)) = Len(x)
             /\ \A i \in 1 .. Len(x) : NamesOf(x)[i] = x[i].name
  <2>1. \A w \in WriterStates : w.name \in STRING \cup {"console"}
    BY DEF WriterStates
  <2>2. Len(x) \in Nat /\ DOMAIN x = 1 .. Len(x) /\ \A i \in 1 .. Len(x) : x[i] \in WriterStates
    OBVIOUS
  <2> QED BY <2>1, <2>2 DEF NamesOf
<1>3. c \in Seq(WriterStates)
  OBVIOUS
<1> HIDE DEF c
<1> DEFINE na == NamesOf(a)
           nb == NamesOf(b)
           nc == NamesOf(c)
           T == STRING \cup {"console"}
<1>4. /\ na \in Seq(T) /\ nb \in Seq(T) /\ nc \in Seq(T)
      /\ Len(na) = Len(a) /\ Len(nb) = Len(b) /\ Len(nc) = Len(a) + Len(b)
  BY <1>1, <1>2, <1>3
<1>5. ASSUME NEW i \in 1 .. Len(a) + Len(b)
      PROVE  nc[i] = IF i <= Len(a) THEN na[i] ELSE nb[i - Len(a)]
  <2>1. CASE i <= Len(a)
    <3>1. i \in 1 .. Len(a) /\ i \in 1 .. Len(c) /\ c[i] = a[i]
      BY <1>1, <2>1
    <3>2. nc[i] = c[i].name /\ na[i] = a[i].name
      BY <1>2, <1>3, <3>1
    <3> QED BY <2>1, <3>1, <3>2
  <2>2. CASE ~(i <= Len(a))
    <3>1. i - Len(a) \in 1 .. Len(b)
      BY <1>1, <2>2
    <3> QED BY <1>1, <1>2, <1>3, <2>2, <3>1
  <2> QED BY <2>1, <2>2
<1> HIDE DEF na, nb, nc, T
<1>6. nc = na \o nb
  <2> DEFINE d == na \o nb
             l == Len(a) + Len(b)
  <2>1. d = [i \in 1 .. l |-> d[i]] /\ nc = [i \in 1 .. l |-> nc[i]]
    <3>1. \A x \in Seq(T) : x = [i \in 1 .. Len(x) |-> x[i]]
      OBVIOUS
    <3>2. d \in Seq(T) /\ Len(d) = l
      <4>1. \A x, y \in Seq(T) : x \o y \in Seq(T) /\ Len(x \o y) = Len(x) + Len(y)
        OBVIOUS
      <4> QED BY <1>4, <4>1
    <3> HIDE DEF d
    <3> QED BY <1>4, <3>1, <3>2
  <2>2. \A i \in 1 .. l : d[i] = IF i <= Len(a) THEN na[i] ELSE nb[i - Len(a)]
    BY <1>4
  <2> HIDE DEF d
  <2>3. \A i \in 1 .. l : d[i] = nc[i]
    BY <1>5, <2>2
  <2> HIDE DEF l
  <2> QED BY <2>1, <2>3 DEF d
<1> QED BY <1>6 DEF na, nb, nc, c

LEMMA AllOfJoined ==
  ASSUME NEW a \in Seq(WriterStates), NEW b \in Seq(WriterStates), NEW o
  PROVE  AllOf(a, o) /\ AllOf(b, o) => AllOf(a \o b, o)
<1> DEFINE c == a \o b
<1>1. /\ Len(a) \in Nat /\ Len(b) \in Nat
      /\ DOMAIN a = 1 .. Len(a) /\ DOMAIN b = 1 .. Len(b) /\ DOMAIN c = 1 .. Len(a) + Len(b)
      /\ \A i \in 1 .. Len(a) + Len(b) : c[i] = IF i <= Len(a) THEN a[i] ELSE b[i - Len(a)]
  OBVIOUS
<1>2. ASSUME AllOf(a, o), AllOf(b, o), NEW i \in DOMAIN c PROVE c[i].of = o
  <2> HIDE DEF c
  <2>1. CASE i <= Len(a)
    BY <1>1, <1>2, <2>1 DEF AllOf
  <2>2. CASE ~(i <= Len(a))
    <3>1. i - Len(a) \in 1 .. Len(b)
      BY <1>1, <1>2, <2>2
    <3> QED BY <1>1, <1>2, <2>2, <3>1 DEF AllOf
  <2> QED BY <2>1, <2>2
<1> QED BY <1>2 DEF AllOf

\* Making an element with what is at the places.
LEMMA MakingFacts ==
  ASSUME DocumentAssumption, NEW s \in States, NEW element \in Elements, NEW places
  PROVE  LET t == Create(s, Memento(s, element, places))
         IN  /\ Follows(s, t) /\ t.over = s.over /\ t.threw = s.threw
             /\ places = DOMAIN element.entries => MakesAll(s, t, element)
<1> DEFINE m == Memento(s, element, places)
           t == Create(s, m)
<1>1. /\ m \in Mementos /\ m.name = element.name
      /\ NamesOf(m.writers) = WritersAmong(element.entries, places)
      /\ AllOf(m.writers, s.operation)
  BY MementoFacts
<1> HIDE DEF m
<1>2. /\ Keeps(s, t) /\ t.roots # <<>>
      /\ \A n : WritersAt(t.roots, t.loggers, n) =
                  IF n = m.name THEN WritersAt(s.roots, s.loggers, n) \o m.writers
                  ELSE WritersAt(s.roots, s.loggers, n)
  BY <1>1, CreateFacts
<1> HIDE DEF t
<1>3. \A n : Writers(t, n) = IF n = element.name THEN Writers(s, n) \o m.writers ELSE Writers(s, n)
  BY <1>1, <1>2 DEF Writers
<1>4. m.writers \in Seq(WriterStates)
  BY <1>1 DEF Mementos
<1>5. AllNew(s) => AllNew(t)
  <2> SUFFICES ASSUME AllNew(s), NEW n PROVE AllOf(Writers(t, n), s.operation)
    BY <1>2 DEF AllNew, Keeps
  <2>1. AllOf(Writers(s, n), s.operation) /\ Writers(s, n) \in Seq(WriterStates)
    BY WritersType DEF AllNew
  <2>2. AllOf(Writers(s, n) \o m.writers, s.operation)
    BY <1>1, <1>4, <2>1, AllOfJoined
  <2> QED BY <1>3, <2>1, <2>2
<1>6. ASSUME places = DOMAIN element.entries PROVE MakesAll(s, t, element)
  <2> SUFFICES ASSUME NEW n
               PROVE  NamesOf(Writers(t, n)) =
                        IF n = element.name
                        THEN NamesOf(Writers(s, n)) \o WritersIn(element.entries)
                        ELSE NamesOf(Writers(s, n))
    BY DEF MakesAll
  <2>1. Writers(s, n) \in Seq(WriterStates)
    BY WritersType
  <2>2. NamesOf(Writers(s, n) \o m.writers) = NamesOf(Writers(s, n)) \o NamesOf(m.writers)
    BY <1>4, <2>1, NamesOfJoined
  <2>3. NamesOf(m.writers) = WritersIn(element.entries)
    BY <1>1, <1>6 DEF WritersIn
  <2> QED BY <1>3, <2>2, <2>3
<1>7. Follows(s, t) /\ t.over = s.over /\ t.threw = s.threw
  BY <1>2, <1>5 DEF Follows, Keeps
<1> QED BY <1>6, <1>7 DEF t, m

LEMMA UntouchedFacts ==
  ASSUME NEW s \in States, NEW t \in States,
         t.roots = s.roots, t.loggers = s.loggers, t.operation = s.operation
  PROVE  Follows(s, t) /\ MakesNone(s, t)
<1>1. Len(s.roots) \in Nat
  BY DEF States
<1> QED BY <1>1 DEF Follows, MakesNone, AllNew, Writers

\* An element is made whole, not at all or in part, and in part only by YAML. An element
\* without an error is made whole, unless an earlier one has ended it all.
Handles(format, element, s, t) ==
  /\ Follows(s, t)
  /\ format \in Structured =>
       MakesNone(s, t) \/ (MakesAll(s, t, element) /\ ~Has(element.entries, "bad"))
  /\ IsGood(format, element) /\ ~s.over /\ ~s.threw =>
       MakesAll(s, t, element) /\ ~t.over /\ ~t.threw

LEMMA LoggerFacts ==
  ASSUME DocumentAssumption, NEW s \in States, NEW element \in Elements, NEW format \in Formats
  PROVE  Handles(format, element, s, Logger(format, s, element))
<1> DEFINE t == Logger(format, s, element)
           all == DOMAIN element.entries
           handled == Handled(format, element.entries)
           isBad == Has(element.entries, "bad")
           made(places) == Create(s, Memento(s, element, places))
<1>1. \A places : /\ Follows(s, made(places))
                  /\ made(places).over = s.over /\ made(places).threw = s.threw
                  /\ places = all => MakesAll(s, made(places), element)
  BY MakingFacts
<1>2. Follows(s, s) /\ MakesNone(s, s)
  BY UntouchedFacts
<1>3. ASSUME NEW b \in BOOLEAN
      PROVE  LET r == [s EXCEPT !.threw = b] IN Follows(s, r) /\ MakesNone(s, r)
  <2> DEFINE r == [s EXCEPT !.threw = b]
  <2>1. r \in States /\ r.roots = s.roots /\ r.loggers = s.loggers /\ r.operation = s.operation
    BY DEF States
  <2> HIDE DEF r
  <2> QED BY <2>1, UntouchedFacts DEF r
<1>4. ASSUME NEW b \in BOOLEAN
      PROVE  Follows(s, [s EXCEPT !.over = b])
  <2> DEFINE r == [s EXCEPT !.over = b]
  <2>1. r \in States /\ r.roots = s.roots /\ r.loggers = s.loggers /\ r.operation = s.operation
    BY DEF States
  <2> HIDE DEF r
  <2> QED BY <2>1, UntouchedFacts DEF r
<1> HIDE DEF made
<1>5. CASE format = "json"
  <2>1. t = IF s.threw THEN s ELSE IF isBad THEN [s EXCEPT !.threw = TRUE] ELSE made(all)
    BY <1>5 DEF Logger, JsonLogger, CreateFrom, made
  <2> HIDE DEF t, isBad
  <2>2. ASSUME s.threw \/ isBad PROVE Handles(format, element, s, t)
    BY <1>2, <1>3, <2>1, <2>2 DEF Handles, IsGood, isBad
  <2>3. ASSUME ~s.threw /\ ~isBad PROVE Handles(format, element, s, t)
    BY <1>1, <2>1, <2>3 DEF Handles, IsGood, isBad
  <2> QED BY <2>2, <2>3 DEF t
<1>6. CASE format \in {"config_file", "log4cplus"}
  <2> DEFINE flag == format = "log4cplus" /\ element.name = Root
  <2>1. t = IF s.threw THEN s ELSE IF isBad THEN [s EXCEPT !.threw = flag] ELSE made(all)
    <3>1. t = ConfigFileLogger(format, s, element)
      BY <1>6 DEF Logger
    <3> QED BY <3>1, Zenon DEF ConfigFileLogger, CreateFrom, made
  <2>2. flag \in BOOLEAN
    OBVIOUS
  <2> HIDE DEF t, isBad, flag
  <2>3. ASSUME s.threw \/ isBad PROVE Handles(format, element, s, t)
    BY <1>2, <1>3, <2>1, <2>2, <2>3 DEF Handles, IsGood, isBad
  <2>4. ASSUME ~s.threw /\ ~isBad PROVE Handles(format, element, s, t)
    BY <1>1, <2>1, <2>4 DEF Handles, IsGood, isBad
  <2> QED BY <2>3, <2>4 DEF t
<1>7. CASE format \notin Structured
  <2> DEFINE flag == format = "yaml_pairs"
  <2>1. t = IF s.over THEN s
            ELSE IF HasAt(element.entries, handled, "name") THEN made(handled)
            ELSE [s EXCEPT !.over = flag]
    <3>1. t = YamlLogger(format, s, element)
      BY <1>7 DEF Logger, Structured
    <3> QED BY <3>1, Zenon DEF YamlLogger, made
  <2>2. ~isBad => handled = all
    <3>1. element.entries \in Seq(STRING)
      BY DEF Elements
    <3>2. ~isBad => \A j \in all : element.entries[j] # "bad"
      BY DEF Has, HasAt
    <3>3. \A k \in all : \A j \in 1 .. k : j \in all
      BY <3>1
    <3> QED BY <3>2, <3>3 DEF Handled
  <2>3. flag \in BOOLEAN
    OBVIOUS
  <2> HIDE DEF t, isBad, handled, all, flag
  <2>4. Follows(s, t)
    BY <1>1, <1>2, <1>4, <2>1, <2>3
  <2>5. ASSUME IsGood(format, element), ~s.over, ~s.threw
        PROVE  MakesAll(s, t, element) /\ ~t.over /\ ~t.threw
    <3>1. ~isBad /\ Has(element.entries, "name")
      BY <1>7, <2>5 DEF IsGood, isBad
    <3> QED BY <1>1, <2>1, <2>2, <2>5, <3>1 DEF Has, all
  <2>6. Handles(format, element, s, t)
    BY <1>7, <2>4, <2>5 DEF Handles
  <2> QED BY <2>6 DEF t
<1>8. format = "json" \/ format \in {"config_file", "log4cplus"} \/ format \notin Structured
  BY DEF Structured
<1> QED BY <1>5, <1>6, <1>7, <1>8

-----------------------------------------------------------------------------
(* What a document does to the loggers.                                    *)

\* f[k] is what the first k elements make of s.
Makes(f, s, doc, n) ==
  /\ f[0] = s
  /\ \A k \in 1 .. n : f[k] = Logger(doc.format, f[k - 1], doc.elements[k])

\* A configuration's last words, which are not about the loggers.
Ended(t, doc) ==
  [t EXCEPT !.threw = @ \/ doc.malformed,
            !.good = ~(t.threw \/ doc.malformed \/ doc.format = "unknown")]

LEMMA DocumentFacts ==
  ASSUME NEW doc, IsDocument(doc)
  PROVE  /\ doc.format \in Formats /\ doc.elements \in Seq(Elements) /\ doc.malformed \in BOOLEAN
         /\ Len(doc.elements) \in Nat /\ DOMAIN doc.elements = 1 .. Len(doc.elements)
         /\ \A k \in 1 .. Len(doc.elements) : doc.elements[k] \in Elements
BY DEF IsDocument

LEMMA MadeBySteps ==
  ASSUME DocumentAssumption, NEW s \in States, NEW doc, IsDocument(doc)
  PROVE  \E f : Makes(f, s, doc, Len(doc.elements))
                /\ Configure(s, doc) = Ended(f[Len(doc.elements)], doc)
<1> DEFINE n == Len(doc.elements)
           step == [k \in 1 .. n |-> [r \in States |-> Logger(doc.format, r, doc.elements[k])]]
           Is(f) == f = [k \in 0 .. n |->
                           IF k = 0 THEN s ELSE Logger(doc.format, f[k - 1], doc.elements[k])]
           h == CHOOSE f : Is(f)
<1>1. n \in Nat /\ doc.format \in Formats /\ \A k \in 1 .. n : doc.elements[k] \in Elements
  BY DocumentFacts
<1>2. Configure(s, doc) = Ended(h[n], doc)
  BY Zenon DEF Configure, Ended
<1> HIDE DEF n
<1>3. step \in [1 .. n -> [States -> States]]
  <2>1. \A k \in 1 .. n, r \in States : Logger(doc.format, r, doc.elements[k]) \in States
    BY <1>1, LoggerFacts DEF Handles, Follows
  <2> QED BY <2>1
<1>4. PICK g \in [0 .. n -> States] : IsFold(g, s, step, n)
  <2> HIDE DEF step
  <2> QED BY <1>1, <1>3, FoldExists
<1>5. Is(g)
  <2>1. ASSUME NEW k \in 0 .. n
        PROVE  g[k] = IF k = 0 THEN s ELSE Logger(doc.format, g[k - 1], doc.elements[k])
    <3>1. CASE k = 0
      BY <1>1, <1>4, <3>1 DEF IsFold
    <3>2. CASE k # 0
      <4>1. k \in 1 .. n /\ k - 1 \in 0 .. n
        BY <1>1, <3>2
      <4>2. g[k] = step[k][g[k - 1]] /\ g[k - 1] \in States
        <5> HIDE DEF step
        <5> QED BY <1>1, <1>4, <3>2, <4>1 DEF IsFold
      <4> QED BY <3>2, <4>1, <4>2
    <3> QED BY <3>1, <3>2
  <2>2. g = [k \in 0 .. n |-> g[k]]
    BY <1>4
  <2> QED BY <2>1, <2>2
<1>6. Is(h)
  <2>1. \E f : Is(f)
    BY <1>5
  <2> QED BY <2>1, Zenon
<1> HIDE DEF h
<1>7. Makes(h, s, doc, n)
  <2>1. \A k \in 0 .. n : h[k] = IF k = 0 THEN s
                                  ELSE Logger(doc.format, h[k - 1], doc.elements[k])
    BY <1>6
  <2>2. 0 \in 0 .. n /\ \A k \in 1 .. n : k \in 0 .. n /\ k # 0
    BY <1>1
  <2> HIDE DEF Is
  <2> QED BY <2>1, <2>2 DEF Makes
<1> QED BY <1>2, <1>7 DEF n

LEMMA FollowsIsTransitive ==
  ASSUME NEW r \in States, NEW s, NEW t, Follows(r, s), Follows(s, t)
  PROVE  Follows(r, t)
<1>1. Len(r.roots) \in Nat /\ Len(s.roots) \in Nat /\ Len(t.roots) \in Nat
  BY DEF Follows, States
<1>2. t.roots = <<>> => s.roots = <<>>
  <2>1. s.roots \in Seq(LoggerStates) /\ t.roots \in Seq(LoggerStates)
    BY DEF Follows, States
  <2>2. t.roots = <<>> => Len(s.roots) = 0
    BY <1>1 DEF Follows
  <2> QED BY <2>1, <2>2
<1>3. Len(t.roots) >= Len(r.roots)
  BY <1>1 DEF Follows
<1> QED BY <1>2, <1>3 DEF Follows

\* What holds after every element.
LEMMA StepsFollow ==
  ASSUME DocumentAssumption, NEW s \in States, NEW doc, IsDocument(doc), NEW f,
         Makes(f, s, doc, Len(doc.elements)), NEW k \in 0 .. Len(doc.elements)
  PROVE  Follows(s, f[k])
<1> DEFINE n == Len(doc.elements)
           P == {i \in Nat : i <= n => Follows(s, f[i])}
<1>1. n \in Nat /\ doc.format \in Formats /\ \A i \in 1 .. n : doc.elements[i] \in Elements
  BY DocumentFacts
<1> HIDE DEF n
<1>2. 0 \in P
  BY UntouchedFacts DEF Makes
<1>3. ASSUME NEW i \in Nat, i \in P PROVE i + 1 \in P
  <2> SUFFICES ASSUME i + 1 <= n PROVE Follows(s, f[i + 1])
    OBVIOUS
  <2> DEFINE j == i + 1
  <2>1. Follows(s, f[i]) /\ j \in 1 .. n /\ j - 1 = i
    BY <1>1, <1>3
  <2> HIDE DEF j
  <2>2. f[j] = Logger(doc.format, f[i], doc.elements[j]) /\ f[i] \in States
    BY <2>1 DEF Makes, n, Follows
  <2>3. Follows(f[i], f[j])
    BY <1>1, <2>1, <2>2, LoggerFacts DEF Handles
  <2> QED BY <2>1, <2>3, FollowsIsTransitive DEF j
<1> HIDE DEF P
<1>4. k \in Nat /\ k <= n
  BY <1>1 DEF n
<1>5. k \in P
  BY <1>2, <1>3, <1>4, Induction
<1> QED BY <1>4, <1>5 DEF P

\* Where the elements at the places are made and the others are not, a logger that had no
\* writers has what they give it.
LEMMA GivenByMaking ==
  ASSUME NEW elements \in Seq(Elements), NEW f, NEW m, NEW places,
         NamesOf(Writers(f[0], m)) = <<>>,
         \A k \in 1 .. Len(elements) : /\ k \in places => MakesAll(f[k - 1], f[k], elements[k])
                                       /\ k \notin places => MakesNone(f[k - 1], f[k])
  PROVE  NamesOf(Writers(f[Len(elements)], m)) = Given(elements, m, places)
<1> DEFINE n == Len(elements)
<1>1. n \in Nat
  OBVIOUS
<1>2. PICK g : Gives(g, elements, m, places, n) /\ Given(elements, m, places) = g[n]
  BY GivenBySteps
<1> HIDE DEF n
<1> DEFINE P == {i \in Nat : i <= n => NamesOf(Writers(f[i], m)) = g[i]}
<1>3. 0 \in P
  BY <1>2 DEF Gives
<1>4. ASSUME NEW i \in Nat, i \in P PROVE i + 1 \in P
  <2> SUFFICES ASSUME i + 1 <= n PROVE NamesOf(Writers(f[i + 1], m)) = g[i + 1]
    OBVIOUS
  <2> DEFINE j == i + 1
  <2>1. NamesOf(Writers(f[i], m)) = g[i] /\ j \in 1 .. n /\ j - 1 = i
    BY <1>1, <1>4
  <2> HIDE DEF j
  <2>2. g[j] = IF j \in places /\ elements[j].name = m
               THEN g[i] \o WritersIn(elements[j].entries) ELSE g[i]
    BY <1>2, <2>1 DEF Gives
  <2>3. /\ j \in places => MakesAll(f[i], f[j], elements[j])
        /\ j \notin places => MakesNone(f[i], f[j])
    BY <2>1 DEF n
  <2>4. NamesOf(Writers(f[j], m)) = g[j]
    BY <2>1, <2>2, <2>3 DEF MakesAll, MakesNone
  <2> QED BY <2>4 DEF j
<1> HIDE DEF P
<1>5. n \in P
  BY <1>1, <1>3, <1>4, Induction
<1> QED BY <1>1, <1>2, <1>5 DEF P, n

\* Nothing is left of what there was before.
IsEmpty(s) == \A n : Writers(s, n) = <<>>

\* The loggers have what a document without an error gives them; what the elements have
\* that were made whole.
HasAll(s, doc) == \A n : NamesOf(Writers(s, n)) = Given(doc.elements, n, DOMAIN doc.elements)
IsWhole(s, doc) ==
  \A n : \E places \in SUBSET DOMAIN doc.elements :
    /\ NamesOf(Writers(s, n)) = Given(doc.elements, n, places)
    /\ \A k \in places : ~Has(doc.elements[k].entries, "bad")

LEMMA EmptyFacts ==
  ASSUME NEW s, IsEmpty(s)
  PROVE  AllNew(s) /\ \A n : NamesOf(Writers(s, n)) = <<>>
<1>1. \A i : i \notin DOMAIN <<>>
  OBVIOUS
<1>2. NamesOf(<<>>) = <<>>
  BY <1>1 DEF NamesOf
<1>3. \A n : Writers(s, n) = <<>>
  BY DEF IsEmpty
<1> QED BY <1>1, <1>2, <1>3 DEF AllNew, AllOf

LEMMA EndedFacts ==
  ASSUME NEW t \in States, NEW doc, doc.malformed \in BOOLEAN
  PROVE  LET r == Ended(t, doc)
         IN  /\ r \in States
             /\ r.roots = t.roots /\ r.loggers = t.loggers /\ r.operation = t.operation
             /\ IsValid(doc) /\ ~t.threw => r.good /\ ~r.threw
<1> DEFINE threw == t.threw \/ doc.malformed
           good == ~(t.threw \/ doc.malformed \/ doc.format = "unknown")
           r == Ended(t, doc)
<1>1. threw \in BOOLEAN /\ good \in BOOLEAN
  BY DEF States
<1>2. r = [t EXCEPT !.threw = threw, !.good = good]
  BY Zenon DEF Ended
<1>3. IsValid(doc) /\ ~t.threw => good /\ ~threw
  BY DEF IsValid
<1> HIDE DEF threw, good, r
<1>4. /\ r \in States /\ r.roots = t.roots /\ r.loggers = t.loggers
      /\ r.operation = t.operation /\ r.good = good /\ r.threw = threw
  BY <1>1, <1>2 DEF States
<1> QED BY <1>3, <1>4 DEF r

\* What a configuration of the loggers comes to.
LEMMA ConfigureFacts ==
  ASSUME DocumentAssumption, NEW s \in States, NEW doc, IsDocument(doc)
  PROVE  LET t == Configure(s, doc)
         IN  /\ Follows(s, t)
             /\ IsEmpty(s) /\ doc.format \in Structured => IsWhole(t, doc)
             /\ ~s.over /\ ~s.threw /\ IsText(doc) /\ IsValid(doc) =>
                  t.good /\ ~t.threw /\ (IsEmpty(s) => HasAll(t, doc))
<1> DEFINE n == Len(doc.elements)
           t == Configure(s, doc)
<1>1. /\ n \in Nat /\ doc.format \in Formats /\ doc.elements \in Seq(Elements)
      /\ doc.malformed \in BOOLEAN /\ DOMAIN doc.elements = 1 .. n
      /\ \A k \in 1 .. n : doc.elements[k] \in Elements
  BY DocumentFacts
<1>2. PICK f : Makes(f, s, doc, n) /\ t = Ended(f[n], doc)
  BY MadeBySteps
<1> HIDE DEF n, t
<1>3. \A k \in 0 .. n : Follows(s, f[k]) /\ f[k] \in States
  BY <1>2, StepsFollow DEF n, Follows
<1>4. f[n] \in States /\ Follows(s, f[n])
  BY <1>1, <1>3
<1>5. /\ t \in States
      /\ t.roots = f[n].roots /\ t.loggers = f[n].loggers /\ t.operation = f[n].operation
      /\ IsValid(doc) /\ ~f[n].threw => t.good /\ ~t.threw
  BY <1>1, <1>2, <1>4, EndedFacts
<1>6. \A m : Writers(t, m) = Writers(f[n], m)
  BY <1>5 DEF Writers
<1>7. Follows(s, t)
  BY <1>4, <1>5, <1>6 DEF Follows, AllNew
<1>8. \A k \in 1 .. n : Handles(doc.format, doc.elements[k], f[k - 1], f[k])
  <2> TAKE k \in 1 .. n
  <2>1. k - 1 \in 0 .. n
    BY <1>1
  <2>2. f[k] = Logger(doc.format, f[k - 1], doc.elements[k]) /\ f[k - 1] \in States
    BY <1>2, <1>3, <2>1 DEF Makes
  <2> QED BY <1>1, <2>2, LoggerFacts
<1>9. f[0] = s
  BY <1>2 DEF Makes
<1>10. ASSUME IsEmpty(s), doc.format \in Structured PROVE IsWhole(t, doc)
  <2> DEFINE places == {k \in 1 .. n : /\ MakesAll(f[k - 1], f[k], doc.elements[k])
                                        /\ ~Has(doc.elements[k].entries, "bad")}
  <2>1. \A k \in 1 .. n : /\ k \in places => MakesAll(f[k - 1], f[k], doc.elements[k])
                          /\ k \notin places => MakesNone(f[k - 1], f[k])
    BY <1>8, <1>10 DEF Handles
  <2>2. \A k \in places : ~Has(doc.elements[k].entries, "bad")
    OBVIOUS
  <2>3. places \in SUBSET DOMAIN doc.elements
    BY <1>1
  <2> HIDE DEF places
  <2> SUFFICES ASSUME NEW m PROVE NamesOf(Writers(t, m)) = Given(doc.elements, m, places)
    BY <2>2, <2>3 DEF IsWhole
  <2>4. NamesOf(Writers(f[0], m)) = <<>>
    BY <1>9, <1>10, EmptyFacts
  <2>5. NamesOf(Writers(f[n], m)) = Given(doc.elements, m, places)
    BY <1>1, <2>1, <2>4, GivenByMaking DEF n
  <2> QED BY <1>6, <2>5
<1>11. ASSUME ~s.over, ~s.threw, IsText(doc), IsValid(doc)
       PROVE  t.good /\ ~t.threw /\ (IsEmpty(s) => HasAll(t, doc))
  <2>1. \A k \in 1 .. n : IsGood(doc.format, doc.elements[k])
    <3>1. \A k \in 1 .. n : doc.elements[k] \in ToSet(doc.elements)
      BY <1>1 DEF ToSet
    <3>2. doc.format \in Structured \cup InYaml
      BY <1>1, <1>11 DEF IsText, IsValid, Formats, Structured, InYaml
    <3> QED BY <1>11, <3>1, <3>2 DEF IsValid, IsGood, InYaml
  <2> DEFINE P == {k \in Nat : k <= n => ~f[k].over /\ ~f[k].threw}
  <2>2. \A k \in 1 .. n : ~f[k - 1].over /\ ~f[k - 1].threw =>
                            /\ MakesAll(f[k - 1], f[k], doc.elements[k])
                            /\ ~f[k].over /\ ~f[k].threw
    BY <1>8, <2>1 DEF Handles
  <2>3. 0 \in P
    BY <1>9, <1>11
  <2>4. ASSUME NEW k \in Nat, k \in P PROVE k + 1 \in P
    <3> SUFFICES ASSUME k + 1 <= n PROVE ~f[k + 1].over /\ ~f[k + 1].threw
      OBVIOUS
    <3>1. ~f[k].over /\ ~f[k].threw /\ k + 1 \in 1 .. n /\ k + 1 - 1 = k
      BY <1>1, <2>4
    <3> QED BY <2>2, <3>1
  <2> HIDE DEF P
  <2>5. \A k \in Nat : k \in P
    BY <2>3, <2>4, Induction
  <2>6. \A k \in 1 .. n : k \in 1 .. n /\ MakesAll(f[k - 1], f[k], doc.elements[k])
    <3> TAKE k \in 1 .. n
    <3>1. k - 1 \in Nat /\ k - 1 <= n
      BY <1>1
    <3>2. ~f[k - 1].over /\ ~f[k - 1].threw
      BY <2>5, <3>1 DEF P
    <3> QED BY <2>2, <3>2
  <2>7. ~f[n].threw
    BY <1>1, <2>5 DEF P
  <2> SUFFICES ASSUME IsEmpty(s), NEW m
               PROVE  NamesOf(Writers(t, m)) = Given(doc.elements, m, DOMAIN doc.elements)
    BY <1>5, <1>11, <2>7 DEF HasAll
  <2>8. NamesOf(Writers(f[0], m)) = <<>>
    BY <1>9, EmptyFacts
  <2> DEFINE all == 1 .. n
  <2>9. \A k \in 1 .. n : /\ k \in all => MakesAll(f[k - 1], f[k], doc.elements[k])
                          /\ k \notin all => MakesNone(f[k - 1], f[k])
    BY <2>6
  <2> HIDE DEF all
  <2>10. NamesOf(Writers(f[n], m)) = Given(doc.elements, m, all)
    BY <1>1, <2>8, <2>9, GivenByMaking DEF n
  <2> QED BY <1>1, <1>6, <2>10 DEF all
<1> QED BY <1>7, <1>10, <1>11 DEF t

LEMMA GivenNothing ==
  ASSUME NEW elements \in Seq(Elements), NEW m
  PROVE  Given(elements, m, {}) = <<>>
<1> DEFINE n == Len(elements)
<1>1. n \in Nat
  OBVIOUS
<1>2. PICK g : Gives(g, elements, m, {}, n) /\ Given(elements, m, {}) = g[n]
  BY GivenBySteps
<1> HIDE DEF n
<1> DEFINE P == {i \in Nat : i <= n => g[i] = <<>>}
<1>3. 0 \in P
  BY <1>2 DEF Gives
<1>4. ASSUME NEW i \in Nat, i \in P PROVE i + 1 \in P
  BY <1>1, <1>2, <1>4 DEF Gives
<1> HIDE DEF P
<1>5. n \in P
  BY <1>1, <1>3, <1>4, Induction
<1> QED BY <1>1, <1>2, <1>5 DEF P

-----------------------------------------------------------------------------
(* The invariant.                                                          *)

\* The registered loggers have writers of the operation o only; what the document gives
\* them, if it has no error and they are not gone; and what whole elements of it give.
IsLatest(rs, ls, o, doc, gone) ==
  \A n \in Names \cup {Root} :
    /\ AllOf(WritersAt(rs, ls, n), o)
    /\ IsText(doc) /\ IsValid(doc) /\ n \notin gone =>
         NamesOf(WritersAt(rs, ls, n)) = Given(doc.elements, n, DOMAIN doc.elements)
    /\ doc.format \in Structured =>
         \E places \in SUBSET DOMAIN doc.elements :
           /\ NamesOf(WritersAt(rs, ls, n)) = Given(doc.elements, n, places)
           /\ \A k \in places : ~Has(doc.elements[k].entries, "bad")

TypeOK ==
  /\ fallback \in Fallbacks /\ files \in [{"environment", "named"} -> Contents]
  /\ loadedFile \in {"none", "environment", "named"}
  /\ initialized \in BOOLEAN /\ stuck \in BOOLEAN
  /\ roots \in Seq(LoggerStates) /\ loggers \in Maps /\ held \in SUBSET Names
  /\ operations \in Nat /\ IsDocument(document)

\* Who has a logger has a registered one, but for a get that is stuck; and a get is stuck
\* only after an error.
RegistryOK ==
  /\ roots = <<>> => DOMAIN loggers = {}
  /\ ~initialized => held = {}
  /\ ~stuck => held \subseteq DOMAIN loggers
  /\ stuck /\ IsText(document) => ~IsValid(document)

LatestOK == ~SetEarly => IsLatest(roots, loggers, operations, document, forgotten)

IInv == TypeOK /\ RegistryOK /\ LatestOK

LEMMA IsTextFacts ==
  ASSUME NEW doc
  PROVE  doc.format \in Structured => IsText(doc)
BY DEF Structured, IsText

LEMMA EmptyNow ==
  ASSUME DocumentAssumption, roots = <<>>, DOMAIN loggers = {}
  PROVE  IsEmpty(Now)
BY DEF IsEmpty, Now, Writers, WritersAt

LEMMA NowFacts ==
  ASSUME TypeOK
  PROVE  /\ Now \in States /\ Now.roots = roots /\ Now.loggers = loggers
         /\ Now.operation = operations + 1 /\ ~Now.over /\ ~Now.threw
BY DEF TypeOK, Now, States

\* A text has been read, of which the loggers have what it made, but for those that were
\* removed after an exception.
LEMMA ReadLatest ==
  ASSUME DocumentAssumption, NEW s \in States, ~s.over, ~s.threw, IsEmpty(s),
         NEW doc, IsDocument(doc), NEW rs, NEW ls,
         \A n : \/ WritersAt(rs, ls, n) = Writers(Configure(s, doc), n)
                \/ WritersAt(rs, ls, n) = <<>> /\ Configure(s, doc).threw
  PROVE  IsLatest(rs, ls, s.operation, doc, {})
<1> DEFINE t == Configure(s, doc)
<1>1. /\ Follows(s, t)
      /\ doc.format \in Structured => IsWhole(t, doc)
      /\ IsText(doc) /\ IsValid(doc) => HasAll(t, doc) /\ ~t.threw
  BY ConfigureFacts
<1>2. \A n : WritersAt(rs, ls, n) = Writers(t, n) \/ (WritersAt(rs, ls, n) = <<>> /\ t.threw)
  OBVIOUS
<1> HIDE DEF t
<1>3. AllNew(t) /\ t.operation = s.operation
  BY <1>1, EmptyFacts DEF Follows
<1>4. NamesOf(<<>>) = <<>> /\ AllOf(<<>>, s.operation)
  <2>1. \A i : i \notin DOMAIN <<>>
    OBVIOUS
  <2> QED BY <2>1 DEF NamesOf, AllOf
<1> SUFFICES ASSUME NEW n \in Names \cup {Root}
             PROVE  /\ AllOf(WritersAt(rs, ls, n), s.operation)
                    /\ IsText(doc) /\ IsValid(doc) =>
                         NamesOf(WritersAt(rs, ls, n)) =
                           Given(doc.elements, n, DOMAIN doc.elements)
                    /\ doc.format \in Structured =>
                         \E places \in SUBSET DOMAIN doc.elements :
                           /\ NamesOf(WritersAt(rs, ls, n)) = Given(doc.elements, n, places)
                           /\ \A k \in places : ~Has(doc.elements[k].entries, "bad")
  BY DEF IsLatest
<1>5. CASE WritersAt(rs, ls, n) = Writers(t, n)
  BY <1>1, <1>3, <1>5 DEF AllNew, HasAll, IsWhole
<1>6. CASE WritersAt(rs, ls, n) = <<>> /\ t.threw
  <2>1. Given(doc.elements, n, {}) = <<>>
    BY DocumentFacts, GivenNothing
  <2>2. {} \in SUBSET DOMAIN doc.elements
    OBVIOUS
  <2> QED BY <1>1, <1>4, <1>6, <2>1, <2>2
<1> QED BY <1>2, <1>5, <1>6

\* Nothing has been read, and the loggers have the writers they had or are removed.
LEMMA KeptLatest ==
  ASSUME DocumentAssumption, NEW rs, NEW ls, NEW o, NEW doc, IsDocument(doc), NEW gone,
         IsLatest(rs, ls, o, doc, gone), NEW qs, NEW ms, NEW lost, gone \subseteq lost,
         \A n \in Names \cup {Root} : \/ WritersAt(qs, ms, n) = WritersAt(rs, ls, n)
                                      \/ WritersAt(qs, ms, n) = <<>> /\ n \in lost
  PROVE  IsLatest(qs, ms, o, doc, lost)
<1>1. NamesOf(<<>>) = <<>> /\ AllOf(<<>>, o)
  <2>1. \A i : i \notin DOMAIN <<>>
    OBVIOUS
  <2> QED BY <2>1 DEF NamesOf, AllOf
<1> SUFFICES ASSUME NEW n \in Names \cup {Root}
             PROVE  /\ AllOf(WritersAt(qs, ms, n), o)
                    /\ IsText(doc) /\ IsValid(doc) /\ n \notin lost =>
                         NamesOf(WritersAt(qs, ms, n)) =
                           Given(doc.elements, n, DOMAIN doc.elements)
                    /\ doc.format \in Structured =>
                         \E places \in SUBSET DOMAIN doc.elements :
                           /\ NamesOf(WritersAt(qs, ms, n)) = Given(doc.elements, n, places)
                           /\ \A k \in places : ~Has(doc.elements[k].entries, "bad")
  BY DEF IsLatest
<1>2. CASE WritersAt(qs, ms, n) = WritersAt(rs, ls, n)
  BY <1>2 DEF IsLatest
<1>3. CASE WritersAt(qs, ms, n) = <<>> /\ n \in lost
  <2>1. Given(doc.elements, n, {}) = <<>>
    BY DocumentFacts, GivenNothing
  <2>2. {} \in SUBSET DOMAIN doc.elements
    OBVIOUS
  <2> QED BY <1>1, <1>3, <2>1, <2>2
<1> QED BY <1>2, <1>3

-----------------------------------------------------------------------------
(* The steps.                                                              *)

LEMMA DefaultFacts ==
  ASSUME DocumentAssumption, NEW s \in States
  PROVE  LET t == DefaultConfig(s) IN Keeps(s, t) /\ (IsEmpty(s) => AllNew(t))
<1> DEFINE w == [name |-> "console", of |-> s.operation]
           m == [name |-> Root, level |-> "none", writers |-> <<w>>]
           t == DefaultConfig(s)
<1>1. /\ m \in Mementos /\ m.writers = <<w>> /\ <<w>> \in Seq(WriterStates)
      /\ AllOf(<<w>>, s.operation)
  <2>1. w \in WriterStates /\ w.of = s.operation
    BY DEF WriterStates, States
  <2> HIDE DEF w
  <2>2. <<w>> \in Seq(WriterStates) /\ \A i \in DOMAIN <<w>> : <<w>>[i] = w
    BY <2>1
  <2> QED BY <2>1, <2>2 DEF Mementos, Levels, AllOf
<1>2. t = s \/ t = Create(s, m)
  BY DEF DefaultConfig
<1> HIDE DEF m, w, t
<1>3. CASE t = s
  <2>1. Len(s.roots) \in Nat
    BY DEF States
  <2> QED BY <1>3, <2>1, EmptyFacts DEF Keeps, t
<1>4. CASE t = Create(s, m)
  <2>1. /\ Keeps(s, t)
        /\ \A n : WritersAt(t.roots, t.loggers, n) =
                    IF n = m.name THEN WritersAt(s.roots, s.loggers, n) \o m.writers
                    ELSE WritersAt(s.roots, s.loggers, n)
    BY <1>1, <1>4, CreateFacts
  <2>2. ASSUME IsEmpty(s), NEW n PROVE AllOf(Writers(t, n), s.operation)
    <3>1. Writers(s, n) = <<>> /\ AllOf(<<>>, s.operation)
      BY <2>2, EmptyFacts DEF IsEmpty, AllNew
    <3>2. <<>> \o m.writers = m.writers
      BY <1>1
    <3> QED BY <1>1, <2>1, <3>1, <3>2 DEF Writers
  <2> QED BY <2>1, <2>2 DEF AllNew, Keeps, t
<1> QED BY <1>2, <1>3, <1>4

\* The state that the first get begins with.
LEMMA FirstRootFacts ==
  ASSUME DocumentAssumption, TypeOK, RegistryOK
  PROVE  LET s == NewRoot(Now, "INFO")
         IN  /\ s \in States /\ s.operation = operations + 1 /\ ~s.over /\ ~s.threw
             /\ s.loggers = loggers /\ Len(s.roots) = Len(roots) + 1 /\ s.roots # <<>>
             /\ roots = <<>> => IsEmpty(s)
<1> DEFINE s == NewRoot(Now, "INFO")
<1>1. "INFO" \in Levels
  BY DEF Levels
<1>2. /\ Keeps(Now, s) /\ s.loggers = Now.loggers /\ Len(s.roots) = Len(Now.roots) + 1
      /\ WritersAt(s.roots, s.loggers, Root) = <<>>
  BY <1>1, NowFacts, NewRootFacts
<1> HIDE DEF s
<1>3. /\ s \in States /\ s.operation = operations + 1 /\ ~s.over /\ ~s.threw
      /\ s.loggers = loggers /\ Len(s.roots) = Len(roots) + 1
  BY <1>2, NowFacts DEF Keeps
<1>4. s.roots # <<>>
  <2>1. Len(roots) \in Nat
    BY DEF TypeOK
  <2>2. Len(s.roots) # 0
    BY <1>3, <2>1
  <2> QED BY <2>2
<1>5. ASSUME roots = <<>> PROVE IsEmpty(s)
  <2>1. DOMAIN loggers = {}
    BY <1>5 DEF RegistryOK
  <2> QED BY <1>2, <1>3, <2>1 DEF IsEmpty, Writers, WritersAt
<1> QED BY <1>3, <1>4, <1>5 DEF s

\* A new root is the only one after the first get only if it is the first.
LEMMA OnlyRoot ==
  ASSUME TypeOK, NEW s \in States, NEW t \in States, Len(s.roots) = Len(roots) + 1,
         Len(t.roots) >= Len(s.roots)
  PROVE  Len(t.roots) > 1 \/ roots = <<>>
<1>1. Len(roots) \in Nat /\ Len(t.roots) \in Nat /\ (Len(roots) = 0 => roots = <<>>)
  BY DEF TypeOK, States
<1> QED BY <1>1

LEMMA NoTextFacts == IsDocument(NoText("default")) /\ ~IsText(NoText("default"))
<1>1. <<>> \in Seq(Elements) /\ "default" \in Formats
  BY DEF Formats
<1> QED BY <1>1 DEF IsDocument, NoText, IsText

LEMMA FirstGetStep ==
  ASSUME DocumentAssumption, IInv, ~stuck, NEW n \in Names, FirstGet(n)
  PROVE  IInv'
<1> DEFINE s == NewRoot(Now, "INFO")
<1>1. /\ s \in States /\ s.operation = operations + 1 /\ ~s.over /\ ~s.threw
      /\ s.loggers = loggers /\ Len(s.roots) = Len(roots) + 1 /\ s.roots # <<>>
      /\ roots = <<>> => IsEmpty(s)
  BY FirstRootFacts DEF IInv
<1>2. /\ initialized' /\ initialized' \in BOOLEAN /\ held' = held \cup {n}
      /\ fallback' = fallback /\ files' = files
      /\ style # "AUTOMATIC" => /\ Leave(GetImpl(s, n))
                                /\ UNCHANGED <<stuck, loadedFile, operations, document, forgotten>>
      /\ style = "AUTOMATIC" => Perform(s, n)
  BY DEF FirstGet, settings
<1> HIDE DEF s
<1>3. Len(roots) \in Nat /\ operations \in Nat /\ held \subseteq DOMAIN loggers
      /\ held' \in SUBSET Names
  BY <1>2 DEF IInv, TypeOK, RegistryOK
<1>4. ASSUME NEW r \in States, Len(r.roots) >= Len(s.roots), Leave(r)
      PROVE  /\ roots' \in Seq(LoggerStates) /\ loggers' \in Maps /\ roots' # <<>>
             /\ SetEarly' \/ roots = <<>>
  <2>1. roots' = r.roots /\ loggers' = r.loggers
    BY <1>4 DEF Leave
  <2>2. Len(r.roots) > 1 \/ roots = <<>>
    BY <1>1, <1>4, OnlyRoot DEF IInv
  <2>3. r.roots \in Seq(LoggerStates) /\ Len(r.roots) # 0
    BY <1>1, <1>3, <1>4 DEF States
  <2>4. r.roots # <<>>
    BY <2>3
  <2> QED BY <2>1, <2>2, <2>3, <2>4 DEF SetEarly, States
<1>5. CASE style # "AUTOMATIC"
  <2> DEFINE r == GetImpl(s, n)
  <2>1. /\ Keeps(s, r) /\ n \in DOMAIN r.loggers
        /\ \A m : WritersAt(r.roots, r.loggers, m) = WritersAt(s.roots, s.loggers, m)
    <3>1. n # Root
      BY DEF DocumentAssumption
    <3> QED BY <1>1, <3>1, GetImplFacts
  <2>2. Leave(r) /\ UNCHANGED <<stuck, loadedFile, operations, document, forgotten>>
    BY <1>2, <1>5
  <2> HIDE DEF r
  <2>3. /\ r \in States /\ Len(r.roots) >= Len(s.roots)
        /\ DOMAIN s.loggers \subseteq DOMAIN r.loggers
        /\ roots' = r.roots /\ loggers' = r.loggers
    BY <2>1, <2>2 DEF Keeps, Leave
  <2>4. TypeOK'
    BY <1>2, <1>3, <1>4, <2>2, <2>3 DEF IInv, TypeOK
  <2>5. RegistryOK'
    BY <1>1, <1>2, <1>3, <1>4, <2>1, <2>2, <2>3 DEF RegistryOK
  <2>6. LatestOK'
    <3> SUFFICES ASSUME roots = <<>>, ~SetEarly
                 PROVE  IsLatest(roots', loggers', operations, document, forgotten)
      <4>1. roots = <<>> => ~SetEarly
        BY DEF SetEarly
      <4> QED BY <1>4, <2>2, <2>3, <4>1 DEF LatestOK
    <3>1. IsLatest(roots, loggers, operations, document, forgotten) /\ IsDocument(document)
      BY DEF IInv, LatestOK, TypeOK
    <3>2. \A m : WritersAt(roots, loggers, m) = <<>>
      BY EmptyNow DEF IInv, RegistryOK, IsEmpty, Now, Writers
    <3>3. \A m : WritersAt(roots', loggers', m) = <<>>
      BY <1>1, <2>1, <2>3 DEF IsEmpty, Writers
    <3> QED BY <3>1, <3>2, <3>3, KeptLatest
  <2> QED BY <2>4, <2>5, <2>6 DEF IInv
<1>6. CASE style = "AUTOMATIC"
  <2> DEFINE file == files[FileToTry]
             text == IF IsText(file) THEN file ELSE fallback
             t == Configure(s, text)
             r == IF t.good THEN GetImpl(t, n) ELSE t
  <2>1. FileToTry \in {"environment", "named"}
    BY DEF FileToTry
  <2>2. IsDocument(text)
    BY <2>1 DEF IInv, TypeOK, DocumentAssumption
  <2>3. CASE IsText(text)
    <3>1. /\ operations' = operations + 1 /\ document' = text /\ forgotten' = {}
          /\ Leave(r) /\ stuck' = ~t.good
          /\ loadedFile' \in {loadedFile, FileToTry}
      BY <1>2, <1>6, <2>3, Zenon DEF Perform, Read
    <3> HIDE DEF text
    <3>2. /\ Follows(s, t) /\ t \in States
          /\ IsValid(text) => t.good
      BY <1>1, <2>2, <2>3, ConfigureFacts DEF Follows
    <3> HIDE DEF t
    <3>3. /\ Len(r.roots) >= Len(s.roots) /\ r \in States
          /\ DOMAIN s.loggers \subseteq DOMAIN r.loggers
          /\ t.good => n \in DOMAIN r.loggers
          /\ \A m : WritersAt(r.roots, r.loggers, m) = Writers(t, m)
      <4>1. n # Root
        BY DEF DocumentAssumption
      <4>2. CASE t.good
        <5>1. /\ Keeps(t, r) /\ n \in DOMAIN r.loggers
              /\ \A m : WritersAt(r.roots, r.loggers, m) = WritersAt(t.roots, t.loggers, m)
          BY <3>2, <4>1, <4>2, GetImplFacts
        <5>2. Len(r.roots) \in Nat /\ Len(t.roots) \in Nat /\ Len(s.roots) \in Nat
          BY <1>1, <3>2, <5>1 DEF Keeps, States
        <5> HIDE DEF r
        <5> QED BY <3>2, <5>1, <5>2 DEF Keeps, Follows, Writers
      <4>3. CASE ~t.good
        BY <3>2, <4>3 DEF Follows, Writers
      <4> QED BY <4>2, <4>3
    <3> HIDE DEF r
    <3>4. roots' = r.roots /\ loggers' = r.loggers
      BY <3>1 DEF Leave
    <3>5. TypeOK'
      <4>1. stuck' \in BOOLEAN
        BY <3>1, <3>2 DEF States
      <4> QED BY <1>2, <1>3, <1>4, <2>1, <2>2, <3>1, <3>3, <4>1 DEF IInv, TypeOK
    <3>6. RegistryOK'
      BY <1>1, <1>2, <1>3, <1>4, <3>1, <3>2, <3>3, <3>4 DEF RegistryOK
    <3>7. LatestOK'
      <4> SUFFICES ASSUME roots = <<>>
                   PROVE  IsLatest(r.roots, r.loggers, s.operation, text, {})
        BY <1>1, <1>4, <3>1, <3>3, <3>4 DEF LatestOK
      <4> QED BY <1>1, <2>2, <3>3, ReadLatest DEF t
    <3> QED BY <3>5, <3>6, <3>7 DEF IInv
  <2>4. CASE ~IsText(text)
    <3> DEFINE d == IF allowDefault THEN DefaultConfig(s) ELSE s
               q == GetImpl(d, n)
    <3>1. /\ operations' = operations + 1 /\ document' = NoText("default")
          /\ Leave(q) /\ stuck' = stuck /\ loadedFile' = loadedFile
      BY <1>2, <1>6, <2>4, Zenon DEF Perform, Read
    <3>2. Keeps(s, d) /\ (IsEmpty(s) => AllNew(d))
      <4>1. Len(s.roots) \in Nat
        BY <1>1 DEF States
      <4>2. Keeps(s, s)
        BY <1>1, <4>1 DEF Keeps
      <4> QED BY <1>1, <4>2, DefaultFacts, EmptyFacts
    <3> HIDE DEF d
    <3>3. d \in States /\ d.operation = operations + 1
      BY <1>1, <3>2 DEF Keeps
    <3>4. /\ Keeps(d, q) /\ n \in DOMAIN q.loggers
          /\ \A m : WritersAt(q.roots, q.loggers, m) = WritersAt(d.roots, d.loggers, m)
      <4>1. n # Root
        BY DEF DocumentAssumption
      <4> QED BY <3>3, <4>1, GetImplFacts
    <3> HIDE DEF q
    <3>5. /\ q \in States /\ Len(q.roots) >= Len(s.roots)
          /\ DOMAIN s.loggers \subseteq DOMAIN q.loggers
      <4>1. q \in States
        BY <3>4 DEF Keeps
      <4>2. Len(q.roots) \in Nat /\ Len(d.roots) \in Nat /\ Len(s.roots) \in Nat
        BY <1>1, <3>3, <4>1 DEF States
      <4> QED BY <3>2, <3>4, <4>1, <4>2 DEF Keeps
    <3>6. roots' = q.roots /\ loggers' = q.loggers
      BY <3>1 DEF Leave
    <3>7. TypeOK'
      BY <1>2, <1>3, <1>4, <3>1, <3>5, NoTextFacts DEF IInv, TypeOK
    <3>8. RegistryOK'
      BY <1>1, <1>2, <1>3, <1>4, <3>1, <3>4, <3>5, <3>6 DEF RegistryOK
    <3>9. LatestOK'
      <4> SUFFICES ASSUME roots = <<>>, NEW m
                   PROVE  AllOf(WritersAt(q.roots, q.loggers, m), operations + 1)
        BY <1>4, <3>1, <3>5, <3>6, NoTextFacts, IsTextFacts DEF LatestOK, IsLatest
      <4> QED BY <1>1, <3>2, <3>3, <3>4 DEF AllNew, Writers
    <3> QED BY <3>7, <3>8, <3>9 DEF IInv
  <2> QED BY <2>3, <2>4
<1> QED BY <1>5, <1>6

LEMMA GetStep ==
  ASSUME DocumentAssumption, IInv, ~stuck, NEW n \in Names, Get(n)
  PROVE  IInv'
<1> DEFINE s == Now
           r == GetImpl(s, n)
<1>1. /\ s \in States /\ s.roots = roots /\ s.loggers = loggers /\ n # Root
  BY NowFacts DEF IInv, DocumentAssumption
<1>2. /\ initialized /\ held' = held \cup {n} /\ Leave(r)
      /\ UNCHANGED <<fallback, files, initialized, loadedFile, stuck, operations, document,
                     forgotten>>
  BY DEF Get, settings
<1> HIDE DEF s
<1>3. /\ Keeps(s, r) /\ n \in DOMAIN r.loggers /\ r.roots # <<>>
      /\ \A m : WritersAt(r.roots, r.loggers, m) = WritersAt(s.roots, s.loggers, m)
  BY <1>1, GetImplFacts
<1> HIDE DEF r
<1>4. /\ roots' = r.roots /\ loggers' = r.loggers /\ r \in States
      /\ Len(r.roots) \in Nat /\ Len(roots) \in Nat /\ Len(r.roots) >= Len(roots)
      /\ DOMAIN loggers \subseteq DOMAIN r.loggers
  BY <1>1, <1>2, <1>3 DEF Leave, Keeps, States
<1>5. TypeOK'
  BY <1>2, <1>4 DEF IInv, TypeOK, States
<1>6. RegistryOK'
  BY <1>2, <1>3, <1>4 DEF IInv, RegistryOK
<1>7. LatestOK'
  <2> SUFFICES ASSUME ~SetEarly
               PROVE  IsLatest(r.roots, r.loggers, operations, document, forgotten)
    BY <1>2, <1>4 DEF LatestOK, SetEarly
  <2>1. IsLatest(roots, loggers, operations, document, forgotten) /\ IsDocument(document)
    BY DEF IInv, LatestOK, TypeOK
  <2> QED BY <1>1, <1>3, <2>1, KeptLatest
<1> QED BY <1>5, <1>6, <1>7 DEF IInv

LEMMA ReleaseStep ==
  ASSUME IInv, ~stuck, NEW n \in Names, Release(n)
  PROVE  IInv'
<1>1. TypeOK'
  BY DEF IInv, TypeOK, Release, settings
<1>2. RegistryOK'
  BY DEF IInv, RegistryOK, Release
<1>3. LatestOK'
  BY DEF IInv, LatestOK, SetEarly, Release
<1> QED BY <1>1, <1>2, <1>3 DEF IInv

\* A map without some of its loggers.
LEMMA RestrictFacts ==
  ASSUME NEW ls \in Maps, NEW D, D \subseteq DOMAIN ls
  PROVE  /\ Restrict(ls, D) \in Maps /\ DOMAIN Restrict(ls, D) = D
         /\ \A n \in D : Restrict(ls, D)[n] = ls[n]
<1>1. PICK E \in SUBSET Names : ls \in [E -> LoggerStates]
  BY DEF Maps
<1>2. Restrict(ls, D) \in [D -> LoggerStates] /\ D \in SUBSET Names
  BY <1>1 DEF Restrict
<1> QED BY <1>2 DEF Maps, Restrict

LEMMA RemoveUnusedStep ==
  ASSUME DocumentAssumption, IInv, ~stuck, RemoveUnused
  PROVE  IInv'
<1> DEFINE kept == DOMAIN loggers \cap held
           ls == Restrict(loggers, kept)
<1>1. /\ loggers' = ls /\ forgotten' = forgotten \cup (DOMAIN loggers \ held)
      /\ UNCHANGED <<fallback, files, initialized, loadedFile, roots, held, stuck, operations,
                     document>>
  BY DEF RemoveUnused, settings
<1>2. ls \in Maps /\ DOMAIN ls = kept /\ \A n \in kept : ls[n] = loggers[n]
  BY RestrictFacts DEF IInv, TypeOK
<1> HIDE DEF ls
<1>3. TypeOK'
  BY <1>1, <1>2 DEF IInv, TypeOK
<1>4. RegistryOK'
  BY <1>1, <1>2 DEF IInv, RegistryOK
<1>5. LatestOK'
  <2> SUFFICES ASSUME ~SetEarly
               PROVE  IsLatest(roots, ls, operations, document, forgotten')
    BY <1>1 DEF LatestOK, SetEarly
  <2>1. IsLatest(roots, loggers, operations, document, forgotten) /\ IsDocument(document)
    BY DEF IInv, LatestOK, TypeOK
  <2>2. \A n : \/ WritersAt(roots, ls, n) = WritersAt(roots, loggers, n)
               \/ WritersAt(roots, ls, n) = <<>> /\ n \in forgotten'
    BY <1>1, <1>2 DEF WritersAt
  <2>3. forgotten \subseteq forgotten'
    BY <1>1
  <2> DEFINE lost == forgotten'
  <2> HIDE DEF lost
  <2> QED BY <2>1, <2>2, <2>3, KeptLatest DEF lost
<1> QED BY <1>3, <1>4, <1>5 DEF IInv

\* A text that is read after a reset of the registered loggers.
LEMMA ResetAndRead ==
  ASSUME DocumentAssumption, TypeOK, RegistryOK, NEW doc, IsDocument(doc)
  PROVE  LET s == Reset(Now)
             t == Configure(s, doc)
         IN  /\ s \in States /\ IsEmpty(s) /\ s.operation = operations + 1 /\ ~s.over /\ ~s.threw
             /\ t \in States /\ DOMAIN loggers \subseteq DOMAIN t.loggers
             /\ t.roots = <<>> => DOMAIN t.loggers = {}
<1> DEFINE s == Reset(Now)
           t == Configure(s, doc)
<1>1. /\ Keeps(Now, s) /\ Len(s.roots) = Len(roots) /\ DOMAIN s.loggers = DOMAIN loggers
      /\ \A n : WritersAt(s.roots, s.loggers, n) = <<>>
  BY NowFacts, ResetFacts
<1> HIDE DEF s
<1>2. s \in States /\ IsEmpty(s) /\ s.operation = operations + 1 /\ ~s.over /\ ~s.threw
  BY <1>1, NowFacts DEF Keeps, IsEmpty, Writers
<1>3. Follows(s, t) /\ t \in States
  BY <1>2, ConfigureFacts DEF Follows
<1> HIDE DEF t
<1>4. ASSUME t.roots = <<>> PROVE DOMAIN t.loggers = {}
  <2>1. Len(t.roots) = 0 /\ Len(roots) \in Nat
    BY <1>4 DEF TypeOK
  <2>2. Len(roots) = 0
    BY <1>1, <1>3, <2>1 DEF Follows
  <2>3. roots = <<>>
    BY <2>2 DEF TypeOK
  <2> QED BY <1>1, <1>3, <1>4, <2>3 DEF Follows, RegistryOK
<1> QED BY <1>1, <1>2, <1>3, <1>4 DEF s, t, Follows

LEMMA SetStep ==
  ASSUME DocumentAssumption, IInv, ~stuck, NEW doc \in Documents, Set(doc)
  PROVE  IInv'
<1> DEFINE s == Reset(Now)
           t == Configure(s, doc)
           kept == DOMAIN loggers \cup (DOMAIN t.loggers \cap held)
           ls == Restrict(t.loggers, kept)
           r == IF t.threw THEN [t EXCEPT !.loggers = ls] ELSE t
<1>1. IsDocument(doc)
  BY DEF DocumentAssumption
<1>2. /\ operations' = operations + 1 /\ document' = doc /\ forgotten' = {}
      /\ Leave(r)
      /\ UNCHANGED <<fallback, files, initialized, loadedFile, held, stuck>>
  BY Zenon DEF Set, Read, settings
<1>3. /\ s \in States /\ IsEmpty(s) /\ s.operation = operations + 1 /\ ~s.over /\ ~s.threw
      /\ t \in States /\ DOMAIN loggers \subseteq DOMAIN t.loggers
      /\ t.roots = <<>> => DOMAIN t.loggers = {}
  BY <1>1, ResetAndRead DEF IInv
<1> HIDE DEF s
<1> HIDE DEF t
<1>4. ls \in Maps /\ DOMAIN ls = kept /\ \A n \in kept : ls[n] = t.loggers[n]
  <2>1. t.loggers \in Maps /\ kept \subseteq DOMAIN t.loggers
    BY <1>3 DEF States
  <2> HIDE DEF kept
  <2> QED BY <2>1, RestrictFacts
<1> HIDE DEF ls
<1>5. /\ r \in States /\ r.roots = t.roots
      /\ r.loggers = IF t.threw THEN ls ELSE t.loggers
  BY <1>3, <1>4 DEF States
<1>6. roots' = r.roots /\ loggers' = r.loggers
  BY <1>2 DEF Leave
<1> HIDE DEF r
<1>7. TypeOK'
  BY <1>1, <1>2, <1>5, <1>6 DEF IInv, TypeOK, States
<1>8. RegistryOK'
  BY <1>2, <1>3, <1>4, <1>5, <1>6 DEF IInv, RegistryOK
<1>9. LatestOK'
  <2> SUFFICES IsLatest(r.roots, r.loggers, s.operation, doc, {})
    BY <1>2, <1>3, <1>6 DEF LatestOK
  <2>1. \A n : \/ WritersAt(r.roots, r.loggers, n) = Writers(t, n)
               \/ WritersAt(r.roots, r.loggers, n) = <<>> /\ t.threw
    BY <1>3, <1>4, <1>5 DEF WritersAt, Writers
  <2> QED BY <1>1, <1>3, <2>1, ReadLatest DEF t
<1> QED BY <1>7, <1>8, <1>9 DEF IInv

LEMMA ReconfigureStep ==
  ASSUME DocumentAssumption, IInv, ~stuck, Reconfigure
  PROVE  IInv'
<1> DEFINE file == IF loadedFile = "none" THEN "named" ELSE loadedFile
           doc == files[file]
           s == Reset(Now)
           t == Configure(s, doc)
<1>1. file \in {"environment", "named"} /\ IsDocument(doc)
  BY DEF IInv, TypeOK, DocumentAssumption
<1>2. /\ operations' = operations + 1 /\ document' = doc /\ forgotten' = {}
      /\ Leave(t) /\ loadedFile' \in {file, loadedFile}
      /\ UNCHANGED <<fallback, files, initialized, held, stuck>>
  BY Zenon DEF Reconfigure, Read, settings
<1> HIDE DEF doc
<1>3. /\ s \in States /\ IsEmpty(s) /\ s.operation = operations + 1 /\ ~s.over /\ ~s.threw
      /\ t \in States /\ DOMAIN loggers \subseteq DOMAIN t.loggers
      /\ t.roots = <<>> => DOMAIN t.loggers = {}
  BY <1>1, ResetAndRead DEF IInv
<1> HIDE DEF s
<1>4. IsLatest(t.roots, t.loggers, s.operation, doc, {})
  <2>1. \A n : WritersAt(t.roots, t.loggers, n) = Writers(t, n)
    BY DEF Writers
  <2> QED BY <1>1, <1>3, <2>1, ReadLatest
<1> HIDE DEF t
<1>5. roots' = t.roots /\ loggers' = t.loggers
  BY <1>2 DEF Leave
<1>6. TypeOK'
  BY <1>1, <1>2, <1>3, <1>5 DEF IInv, TypeOK, States
<1>7. RegistryOK'
  BY <1>2, <1>3, <1>5 DEF IInv, RegistryOK
<1>8. LatestOK'
  BY <1>2, <1>3, <1>4, <1>5 DEF LatestOK
<1> QED BY <1>6, <1>7, <1>8 DEF IInv

LEMMA ChangeFileStep ==
  ASSUME IInv, ~stuck, NEW file \in DOMAIN files, NEW content \in Contents,
         ChangeFile(file, content)
  PROVE  IInv'
<1>1. TypeOK'
  BY DEF IInv, TypeOK, ChangeFile, settings
<1>2. RegistryOK'
  BY DEF IInv, RegistryOK, ChangeFile
<1>3. LatestOK'
  BY DEF IInv, LatestOK, SetEarly, ChangeFile
<1> QED BY <1>1, <1>2, <1>3 DEF IInv

LEMMA Initially == DocumentAssumption /\ Init => IInv
<1> SUFFICES ASSUME DocumentAssumption, Init PROVE IInv
  OBVIOUS
<1>1. IsDocument(NoText("none")) /\ ~IsText(NoText("none"))
  <2>1. <<>> \in Seq(Elements) /\ "none" \in Formats
    BY DEF Formats
  <2> QED BY <2>1 DEF IsDocument, NoText, IsText
<1>2. <<>> \in Maps /\ DOMAIN <<>> = {} /\ <<>> \in Seq(LoggerStates)
  <2>1. DOMAIN <<>> = {} /\ <<>> \in Seq(LoggerStates)
    OBVIOUS
  <2>2. <<>> \in [{} -> LoggerStates]
    OBVIOUS
  <2>3. {} \in SUBSET Names
    OBVIOUS
  <2>4. <<>> \in Maps
    BY <2>2, <2>3, Zenon DEF Maps
  <2> QED BY <2>1, <2>4
<1>3. TypeOK
  BY <1>1, <1>2 DEF Init, TypeOK
<1>4. RegistryOK
  BY <1>2 DEF Init, RegistryOK
<1>5. LatestOK
  <2>1. \A n : WritersAt(<<>>, <<>>, n) = <<>>
    BY <1>2 DEF WritersAt
  <2>2. AllOf(<<>>, 0)
    BY <1>2 DEF AllOf
  <2> QED BY <1>1, <2>1, <2>2, IsTextFacts DEF Init, LatestOK, IsLatest
<1> QED BY <1>3, <1>4, <1>5 DEF IInv

\* What the configurations of any number of texts, with gets, releases and removals in any
\* order between them, leave of the registry.
THEOREM Invariance == Spec => []IInv
<1>1. Init => IInv
  BY DocumentAssumption, Initially
<1>2. IInv /\ [Next]_vars => IInv'
  <2> SUFFICES ASSUME IInv, [Next]_vars PROVE IInv'
    OBVIOUS
  <2> USE DocumentAssumption
  <2>1. ASSUME NEW n \in Names, ~stuck, FirstGet(n) PROVE IInv'
    BY <2>1, FirstGetStep
  <2>2. ASSUME NEW n \in Names, ~stuck, Get(n) PROVE IInv'
    BY <2>2, GetStep
  <2>3. ASSUME NEW n \in Names, ~stuck, Release(n) PROVE IInv'
    BY <2>3, ReleaseStep
  <2>4. ASSUME NEW doc \in Documents, ~stuck, Set(doc) PROVE IInv'
    BY <2>4, SetStep
  <2>5. ASSUME ~stuck, RemoveUnused PROVE IInv'
    BY <2>5, RemoveUnusedStep
  <2>6. ASSUME ~stuck, Reconfigure PROVE IInv'
    BY <2>6, ReconfigureStep
  <2>7. ASSUME NEW file \in DOMAIN files, NEW content \in Contents, ~stuck,
               ChangeFile(file, content)
        PROVE  IInv'
    BY <2>7, ChangeFileStep
  <2>8. ASSUME UNCHANGED vars PROVE IInv'
    BY <2>8 DEF IInv, TypeOK, RegistryOK, LatestOK, SetEarly, vars, settings
  <2> QED BY <2>1, <2>2, <2>3, <2>4, <2>5, <2>6, <2>7, <2>8 DEF Next
<1> QED BY <1>1, <1>2, PTL DEF Spec

-----------------------------------------------------------------------------
(* What follows from it.                                                   *)

LEMMA RegisteredFacts ==
  ASSUME DocumentAssumption, TypeOK, roots # <<>>, NEW n \in DOMAIN Registered
  PROVE  /\ n \in Names \cup {Root}
         /\ Registered[n].writers = WritersAt(roots, loggers, n)
         /\ WriterNames(n) = NamesOf(WritersAt(roots, loggers, n))
<1>1. DOMAIN Registered = DOMAIN loggers \cup {Root}
  BY DEF Registered
<1>2. DOMAIN loggers \subseteq Names
  BY DEF TypeOK, Maps
<1>3. Registered[n].writers = WritersAt(roots, loggers, n)
  BY <1>1 DEF Registered, WritersAt, Last
<1>4. n \in Names \cup {Root}
  BY <1>1, <1>2
<1> QED BY <1>3, <1>4 DEF WriterNames, NamesOf

\* No registered logger has a writer of an earlier configuration.
THEOREM OldWritersStayGone == Spec => []OldWritersAreGone
<1>1. IInv => OldWritersAreGone
  <2> SUFFICES ASSUME IInv, roots # <<>>, ~SetEarly, NEW n \in DOMAIN Registered,
                      NEW w \in ToSet(Registered[n].writers)
               PROVE  w.of = operations
    BY DEF OldWritersAreGone
  <2>1. n \in Names \cup {Root} /\ Registered[n].writers = WritersAt(roots, loggers, n)
    BY DocumentAssumption, RegisteredFacts DEF IInv
  <2>2. AllOf(WritersAt(roots, loggers, n), operations)
    BY <2>1 DEF IInv, LatestOK, IsLatest
  <2> QED BY <2>1, <2>2 DEF AllOf, ToSet
<1> QED BY <1>1, Invariance, PTL

\* A document without an error replaces what there was.
THEOREM ConfigurationStaysReplaced == Spec => []ConfigurationReplaces
<1>1. IInv => ConfigurationReplaces
  <2> SUFFICES ASSUME IInv, roots # <<>>, ~SetEarly, IsText(document), IsValid(document)
               PROVE  /\ \A n \in DOMAIN Registered \ forgotten :
                           WriterNames(n) =
                             Given(document.elements, n, DOMAIN document.elements)
                      /\ held \subseteq DOMAIN loggers
    BY DEF ConfigurationReplaces
  <2>1. held \subseteq DOMAIN loggers
    BY DEF IInv, RegistryOK
  <2>2. ASSUME NEW n \in DOMAIN Registered \ forgotten
        PROVE  WriterNames(n) = Given(document.elements, n, DOMAIN document.elements)
    <3>1. n \in Names \cup {Root} /\ WriterNames(n) = NamesOf(WritersAt(roots, loggers, n))
      BY DocumentAssumption, RegisteredFacts DEF IInv
    <3> QED BY <3>1 DEF IInv, LatestOK, IsLatest
  <2> QED BY <2>1, <2>2
<1> QED BY <1>1, Invariance, PTL

\* In JSON and configuration files an error never leaves a logger half made.
THEOREM LoggersStayWhole == Spec => []LoggersAreMadeWhole
<1>1. IInv => LoggersAreMadeWhole
  <2> SUFFICES ASSUME IInv, roots # <<>>, ~SetEarly, IsText(document),
                      document.format \in Structured, NEW n \in DOMAIN Registered
               PROVE  \E places \in SUBSET DOMAIN document.elements :
                        /\ WriterNames(n) = Given(document.elements, n, places)
                        /\ \A k \in places : ~Has(document.elements[k].entries, "bad")
    BY DEF LoggersAreMadeWhole, Structured
  <2>1. n \in Names \cup {Root} /\ WriterNames(n) = NamesOf(WritersAt(roots, loggers, n))
    BY DocumentAssumption, RegisteredFacts DEF IInv
  <2> QED BY <2>1 DEF IInv, LatestOK, IsLatest
<1> QED BY <1>1, Invariance, PTL
=============================================================================

------------------------ MODULE LoggerRegistryProofs ------------------------
(***************************************************************************)
(* What module LoggerRegistry promises, proved for any names, addresses    *)
(* and levels.                                                             *)
(*                                                                         *)
(* A parent has fewer parts in its name than its child, so every chain     *)
(* ends (WellFormed).  remove_unused_loggers may take a parent from the    *)
(* map while its one child is alive: ParentsInv says that the links stay   *)
(* all the same, and UnregisteredInv that such a logger has exactly one    *)
(* child, so that it goes when the child goes.  The chain and the          *)
(* effective level are recursive functions; that they exist and what they  *)
(* are is proved by induction over the depth of a name.                    *)
(***************************************************************************)
EXTENDS LoggerRegistry, FiniteSetTheorems, WellFoundedInduction, TLAPS

-----------------------------------------------------------------------------
(* Names.                                                                  *)

\* Induction over the numbers, from the well-foundedness of the finite sets: a least
\* number outside P would be the successor of one inside.
LEMMA Induction ==
  ASSUME NEW P, 0 \in P, \A n \in Nat : n \in P => n + 1 \in P
  PROVE  \A n \in Nat : n \in P
<1> SUFFICES ASSUME NEW n \in Nat, n \notin P PROVE FALSE
  OBVIOUS
<1> DEFINE Missing == {k \in 0 .. n : k \notin P}
           Below == {0 .. k : k \in Missing}
<1>1. IsWellFoundedOn(StrictSubsetOrdering(0 .. n), SUBSET (0 .. n))
  <2>1. IsFiniteSet(0 .. n)
    BY FS_Interval
  <2>2. FiniteSubsetsOf(0 .. n) = SUBSET (0 .. n)
    BY <2>1, FS_FiniteSubsetsOfFinite
  <2> QED BY <2>2, FS_StrictSubsetOrderingWellFounded
<1>2. Below \subseteq SUBSET (0 .. n) /\ Below # {}
  OBVIOUS
<1>3. PICK least \in Below : \A s \in Below : <<s, least>> \notin StrictSubsetOrdering(0 .. n)
  BY <1>1, <1>2, WFMin
<1>4. PICK k \in Missing : least = 0 .. k
  OBVIOUS
<1>5. k # 0 /\ k - 1 \in Missing
  BY <1>4
<1>6. <<0 .. k - 1, 0 .. k>> \in StrictSubsetOrdering(0 .. n)
  BY <1>5 DEF StrictSubsetOrdering
<1> QED
  BY <1>3, <1>4, <1>5, <1>6

\* A part of a name, a name, and one without empty parts. (The provers do not know that
\* the empty string is a string.)
Texts == STRING \cup {Empty}
Parts == STRING \ {Empty}
IsName(n) == n \in Seq(Texts) /\ n # <<>>
IsWhole(n) == n \in Seq(Parts) /\ n # <<>>

\* The function that AncestorParts defines by recursion.
IsSplit(f, name, n) ==
  f = [k \in 0 .. n |-> IF k = 0 THEN <<>>
                        ELSE IF name[k] = Empty THEN f[k - 1] ELSE Append(f[k - 1], name[k])]

AreParts(name, n) == n \in Nat /\ \A k \in 1 .. n : name[k] \in Texts

LEMMA SplitExists ==
  ASSUME NEW name, NEW N, AreParts(name, N)
  PROVE  \E f \in [0 .. N -> Seq(Parts)] : IsSplit(f, name, N)
<1> DEFINE P == {n \in Nat : n <= N => \E f \in [0 .. n -> Seq(Parts)] : IsSplit(f, name, n)}
<1>0. N \in Nat
  BY DEF AreParts
<1>1. 0 \in P
  <2> DEFINE f == [k \in 0 .. 0 |-> <<>>]
  <2>1. f \in [0 .. 0 -> Seq(Parts)] /\ IsSplit(f, name, 0)
    BY DEF IsSplit
  <2> HIDE DEF f
  <2> QED BY <2>1
<1>2. ASSUME NEW n \in Nat, n \in P PROVE n + 1 \in P
  <2> SUFFICES ASSUME n + 1 <= N
               PROVE  \E f \in [0 .. n + 1 -> Seq(Parts)] : IsSplit(f, name, n + 1)
    OBVIOUS
  <2> PICK f \in [0 .. n -> Seq(Parts)] : IsSplit(f, name, n)
    BY <1>0, <1>2
  <2> DEFINE last == IF name[n + 1] = Empty THEN f[n] ELSE Append(f[n], name[n + 1])
             g == [k \in 0 .. n + 1 |-> IF k <= n THEN f[k] ELSE last]
  <2>1. last \in Seq(Parts)
    <3>1. name[n + 1] \in Texts /\ f[n] \in Seq(Parts)
      BY DEF AreParts
    <3> QED BY <3>1 DEF Parts, Texts
  <2>2. g \in [0 .. n + 1 -> Seq(Parts)]
    <3> HIDE DEF last
    <3> QED BY <2>1
  <2>3. ASSUME NEW k \in 0 .. n + 1
        PROVE  g[k] = IF k = 0 THEN <<>>
                      ELSE IF name[k] = Empty THEN g[k - 1] ELSE Append(g[k - 1], name[k])
    <3>1. CASE k = n + 1
      <4>1. g[k] = last /\ g[k - 1] = f[n]
        BY <3>1
      <4> QED BY <3>1, <4>1
    <3>2. CASE k <= n
      <4>1. g[k] = f[k] /\ (k # 0 => k - 1 \in 0 .. n + 1 /\ k - 1 <= n)
        BY <3>2
      <4>2. k # 0 => g[k - 1] = f[k - 1]
        BY <4>1
      <4>3. k \in 0 .. n
        BY <3>2
      <4>4. f[k] = IF k = 0 THEN <<>>
                   ELSE IF name[k] = Empty THEN f[k - 1] ELSE Append(f[k - 1], name[k])
        BY <4>3 DEF IsSplit
      <4> HIDE DEF g
      <4> QED BY <4>1, <4>2, <4>4
    <3> QED BY <3>1, <3>2
  <2>4. IsSplit(g, name, n + 1)
    BY <2>3 DEF IsSplit
  <2> QED BY <2>2, <2>4
<1> HIDE DEF P
<1>3. N \in P
  BY <1>0, <1>1, <1>2, Induction
<1> QED BY <1>0, <1>3 DEF P

LEMMA SplitGives ==
  ASSUME NEW name, NEW n, AreParts(name, n), Len(name) = n + 1
  PROVE  \E f \in [0 .. n -> Seq(Parts)] : IsSplit(f, name, n) /\ AncestorParts(name) = f[n]
<1> DEFINE h == CHOOSE f : f = [k \in 0 .. n |->
                  IF k = 0 THEN <<>>
                  ELSE IF name[k] = Empty THEN f[k - 1] ELSE Append(f[k - 1], name[k])]
<1>1. PICK f \in [0 .. n -> Seq(Parts)] : IsSplit(f, name, n)
  BY SplitExists
<1>2. IsSplit(h, name, n)
  <2>1. \E g : g = [k \in 0 .. n |->
                  IF k = 0 THEN <<>>
                  ELSE IF name[k] = Empty THEN g[k - 1] ELSE Append(g[k - 1], name[k])]
    BY <1>1, Zenon DEF IsSplit
  <2> QED BY <2>1, Zenon DEF IsSplit
<1>3. Len(name) - 1 = n
  BY DEF AreParts
<1>4. AncestorParts(name) = h[n]
  BY <1>3, Zenon DEF AncestorParts
<1> HIDE DEF h
<1> DEFINE P == {k \in Nat : k <= n => h[k] = f[k] /\ h[k] \in Seq(Parts)}
<1>5. n \in Nat
  BY DEF AreParts
<1>6. 0 \in P
  BY <1>1, <1>2, <1>5 DEF IsSplit
<1>7. ASSUME NEW k \in Nat, k \in P PROVE k + 1 \in P
  <2> SUFFICES ASSUME k + 1 <= n PROVE h[k + 1] = f[k + 1] /\ h[k + 1] \in Seq(Parts)
    OBVIOUS
  <2>1. h[k] = f[k] /\ k + 1 \in 0 .. n /\ k + 1 # 0 /\ (k + 1) - 1 = k
    BY <1>5, <1>7
  <2>2. h[k + 1] = IF name[k + 1] = Empty THEN h[k] ELSE Append(h[k], name[k + 1])
    BY <1>2, <2>1 DEF IsSplit
  <2>3. f[k + 1] = IF name[k + 1] = Empty THEN f[k] ELSE Append(f[k], name[k + 1])
    BY <1>1, <2>1 DEF IsSplit
  <2>4. f[k + 1] \in Seq(Parts)
    BY <1>1, <2>1
  <2> QED BY <2>1, <2>2, <2>3, <2>4
<1> HIDE DEF P
<1>8. n \in P
  BY <1>5, <1>6, <1>7, Induction
<1>9. h[n] = f[n]
  BY <1>5, <1>8 DEF P
<1> QED BY <1>1, <1>4, <1>9, Zenon

\* The ancestors of a name have no empty parts.
LEMMA AncestorPartsAreWhole ==
  ASSUME NEW name, IsName(name)
  PROVE  AncestorParts(name) \in Seq(Parts)
<1>1. PICK n \in Nat : Len(name) = n + 1 /\ \A k \in 1 .. n : name[k] \in Texts
  <2>1. Len(name) \in Nat /\ Len(name) # 0 /\ \A k \in 1 .. Len(name) : name[k] \in Texts
    BY DEF IsName
  <2>2. PICK m \in Nat : m = Len(name) /\ m # 0
    BY <2>1, Zenon
  <2>3. PICK n \in Nat : m = n + 1
    <3> HIDE <2>1, <2>2
    <3>1. m # 0
      BY <2>2, Zenon
    <3>2. m - 1 \in Nat /\ m = (m - 1) + 1
      BY <3>1
    <3> QED BY <3>2
  <2>4. \A k \in 1 .. n : k \in 1 .. m
    BY <2>3
  <2> QED BY <2>1, <2>2, <2>3, <2>4
<1>2. AreParts(name, n)
  BY <1>1 DEF AreParts
<1>3. PICK f \in [0 .. n -> Seq(Parts)] : AncestorParts(name) = f[n]
  BY <1>1, <1>2, SplitGives
<1> QED BY <1>3

Prefix(name, k) == [i \in 1 .. k |-> name[i]]

LEMMA PrefixExtends ==
  ASSUME NEW S, NEW name, NEW k \in Nat, \A i \in 1 .. k + 1 : name[i] \in S
  PROVE  /\ Prefix(name, k) \in Seq(S)
         /\ Append(Prefix(name, k), name[k + 1]) = Prefix(name, k + 1)
<1> DEFINE p == Prefix(name, k)
           a == Append(p, name[k + 1])
<1>1. p \in [1 .. k -> S]
  BY DEF Prefix
<1>2. p \in Seq(S) /\ Len(p) = k
  <2> HIDE DEF p
  <2> QED BY <1>1
<1>3. name[k + 1] \in S
  OBVIOUS
<1>4. /\ DOMAIN a = 1 .. k + 1 /\ a \in Seq(S)
      /\ a[k + 1] = name[k + 1] /\ \A i \in 1 .. k : a[i] = p[i]
  <2> HIDE DEF p
  <2> QED BY <1>2, <1>3
<1>5. \A i \in 1 .. k : p[i] = name[i]
  BY DEF Prefix
<1>6. a = [i \in 1 .. k + 1 |-> name[i]]
  <2>1. \A i \in 1 .. k + 1 : a[i] = name[i]
    <3> HIDE DEF p, a
    <3>1. \A i \in 1 .. k + 1 : i = k + 1 \/ i \in 1 .. k
      OBVIOUS
    <3> QED BY <3>1, <1>4, <1>5
  <2>2. a = [i \in DOMAIN a |-> a[i]]
    <3> HIDE DEF a
    <3> QED BY <1>4
  <2> HIDE DEF a
  <2> QED BY <1>4, <2>1, <2>2
<1> QED BY <1>2, <1>6 DEF Prefix

\* A name without empty parts has all that precedes its last part as its parent's.
LEMMA PartsOfWhole ==
  ASSUME NEW name, NEW n \in Nat, Len(name) = n + 1, IsWhole(name)
  PROVE  AncestorParts(name) = Prefix(name, n)
<1>1. \A k \in 1 .. n : name[k] \in Parts
  BY DEF IsWhole
<1>2. PICK f : IsSplit(f, name, n) /\ AncestorParts(name) = f[n]
  <2>1. AreParts(name, n)
    BY <1>1 DEF AreParts, Parts, Texts
  <2> QED BY <2>1, SplitGives
<1> DEFINE P == {k \in Nat : k <= n => f[k] = Prefix(name, k)}
<1>3. 0 \in P
  <2>1. f[0] = <<>>
    BY <1>2 DEF IsSplit
  <2>2. Prefix(name, 0) = <<>>
    BY DEF Prefix
  <2> QED BY <2>1, <2>2
<1>4. ASSUME NEW k \in Nat, k \in P PROVE k + 1 \in P
  <2> SUFFICES ASSUME k + 1 <= n PROVE f[k + 1] = Prefix(name, k + 1)
    OBVIOUS
  <2>1. f[k] = Prefix(name, k) /\ k + 1 \in 0 .. n /\ k + 1 # 0 /\ (k + 1) - 1 = k
    BY <1>4
  <2>2. f[k + 1] = IF name[k + 1] = Empty THEN f[k] ELSE Append(f[k], name[k + 1])
    BY <1>2, <2>1 DEF IsSplit
  <2>3. \A i \in 1 .. k + 1 : name[i] \in Parts
    BY <1>1
  <2>4. name[k + 1] # Empty
    BY <2>3 DEF Parts
  <2> QED BY <2>1, <2>2, <2>3, <2>4, PrefixExtends
<1> HIDE DEF P
<1>5. n \in P
  BY <1>3, <1>4, Induction
<1> QED BY <1>2, <1>5 DEF P

\* How far down in the hierarchy a name is.
Depth(n) == IF n = Root THEN 0 ELSE Len(AncestorParts(n)) + 1

LEMMA RootIsName ==
  IsName(Root)
<1>1. <<Empty>> \in Seq({Empty})
  OBVIOUS
<1>2. {Empty} \subseteq Texts
  BY DEF Texts
<1> QED BY <1>1, <1>2 DEF IsName, Root

LEMMA WholeIsName ==
  ASSUME NEW n, IsWhole(n)
  PROVE  IsName(n) /\ n # Root
<1>1. n \in Seq(Texts)
  BY DEF IsWhole, Parts, Texts
<1>2. n # Root
  <2>1. n[1] \in Parts
    BY DEF IsWhole
  <2>2. n[1] # Empty
    BY <2>1 DEF Parts
  <2> QED BY <2>2 DEF Root
<1> QED BY <1>1, <1>2 DEF IsName, IsWhole

LEMMA PrefixIsSubSeq ==
  ASSUME NEW S, NEW s \in Seq(S), NEW k \in 1 .. Len(s)
  PROVE  SubSeq(s, 1, k) = Prefix(s, k)
<1>1. SubSeq(s, 1, k) = [i \in 1 .. k |-> s[i]]
  OBVIOUS
<1> QED BY <1>1 DEF Prefix

\* The parent of a name that has one is a name without empty parts, or the root.
LEMMA ParentIsName ==
  ASSUME NEW n, IsName(n)
  PROVE  /\ Depth(n) \in Nat
         /\ ParentName(n) = Root \/ IsWhole(ParentName(n))
         /\ IsName(ParentName(n))
<1>1. AncestorParts(n) \in Seq(Parts)
  BY AncestorPartsAreWhole
<1>2. Depth(n) \in Nat
  BY <1>1 DEF Depth
<1>3. ParentName(n) = Root \/ IsWhole(ParentName(n))
  BY <1>1 DEF ParentName, IsWhole
<1> QED BY <1>2, <1>3, WholeIsName, RootIsName

LEMMA PrefixOfWhole ==
  ASSUME NEW s \in Seq(Parts), NEW k \in Nat, k <= Len(s)
  PROVE  Prefix(s, k) \in Seq(Parts) /\ Len(Prefix(s, k)) = k
<1>1. \A i \in 1 .. k : s[i] \in Parts
  OBVIOUS
<1>2. Prefix(s, k) \in [1 .. k -> Parts]
  BY <1>1 DEF Prefix
<1> DEFINE p == Prefix(s, k)
<1> HIDE DEF p
<1>3. p \in Seq(Parts) /\ Len(p) = k
  BY <1>2 DEF p
<1> QED BY <1>3 DEF p

LEMMA ParentOfPrefix ==
  ASSUME NEW s \in Seq(Parts), NEW k \in Nat, k + 1 <= Len(s)
  PROVE  AncestorParts(Prefix(s, k + 1)) = Prefix(s, k)
<1> DEFINE p == Prefix(s, k + 1)
<1>1. p \in Seq(Parts) /\ Len(p) = k + 1
  BY PrefixOfWhole
<1>2. IsWhole(p)
  <2> HIDE DEF p
  <2> QED BY <1>1 DEF IsWhole
<1>3. AncestorParts(p) = Prefix(p, k)
  <2> HIDE DEF p
  <2> QED BY <1>1, <1>2, PartsOfWhole
<1>4. Prefix(p, k) = Prefix(s, k)
  BY DEF Prefix
<1> QED BY <1>3, <1>4

LEMMA AncestorIs ==
  ASSUME NEW n, IsName(n)
  PROVE  LET s == AncestorParts(n)
         IN  /\ s \in Seq(Parts)
             /\ Ancestors(n) = {Prefix(s, k) : k \in 1 .. Len(s)}
<1>1. AncestorParts(n) \in Seq(Parts)
  BY AncestorPartsAreWhole
<1> DEFINE s == AncestorParts(n)
<1> HIDE DEF s
<1>2. s \in Seq(Parts)
  BY <1>1 DEF s
<1>3. \A k \in 1 .. Len(s) : SubSeq(s, 1, k) = Prefix(s, k)
  BY <1>2, PrefixIsSubSeq
<1>4. {SubSeq(s, 1, k) : k \in 1 .. Len(s)} = {Prefix(s, k) : k \in 1 .. Len(s)}
  <2> DEFINE A == {SubSeq(s, 1, k) : k \in 1 .. Len(s)}
             B == {Prefix(s, k) : k \in 1 .. Len(s)}
  <2>1. A \subseteq B
    BY <1>3
  <2>2. B \subseteq A
    BY <1>3
  <2> QED BY <2>1, <2>2
<1> QED BY <1>1, <1>4 DEF Ancestors, s

LEMMA AncestorFacts ==
  ASSUME NEW n, IsName(n)
  PROVE  /\ \A a \in Ancestors(n) : IsWhole(a) /\ ParentName(a) \in Ancestors(n) \cup {Root}
         /\ ParentName(n) \in Ancestors(n) \cup {Root}
         /\ IsFiniteSet(Ancestors(n))
<1> DEFINE s == AncestorParts(n)
<1>1. s \in Seq(Parts) /\ Ancestors(n) = {Prefix(s, k) : k \in 1 .. Len(s)}
  BY AncestorIs
<1> HIDE DEF s
<1>2. Len(s) \in Nat
  BY <1>1
<1>3. ASSUME NEW a \in Ancestors(n)
      PROVE  IsWhole(a) /\ ParentName(a) \in Ancestors(n) \cup {Root}
  <2>1. PICK j \in 1 .. Len(s) : a = Prefix(s, j)
    BY <1>1
  <2>2. PICK k \in Nat : j = k + 1 /\ k + 1 <= Len(s) /\ k <= Len(s)
    <3>1. j - 1 \in Nat /\ j = (j - 1) + 1
      OBVIOUS
    <3> QED BY <1>2, <3>1
  <2>3. a \in Seq(Parts) /\ Len(a) = k + 1
    BY <1>1, <2>1, <2>2, PrefixOfWhole
  <2>4. IsWhole(a)
    BY <2>3 DEF IsWhole
  <2>5. AncestorParts(a) = Prefix(s, k)
    BY <1>1, <2>1, <2>2, ParentOfPrefix
  <2>6. CASE k = 0
    <3>1. Prefix(s, k) = <<>>
      BY <2>6 DEF Prefix
    <3> QED BY <2>4, <2>5, <3>1 DEF ParentName
  <2>7. CASE k # 0
    <3>1. Prefix(s, k) \in Ancestors(n)
      BY <1>1, <1>2, <2>2, <2>7
    <3> QED BY <2>4, <2>5, <3>1 DEF ParentName
  <2> QED BY <2>6, <2>7
<1>4. ParentName(n) \in Ancestors(n) \cup {Root}
  <2>1. CASE s = <<>>
    BY <2>1 DEF ParentName, s
  <2>2. CASE s # <<>>
    <3>1. Len(s) \in 1 .. Len(s) /\ s = SubSeq(s, 1, Len(s))
      BY <1>1, <2>2
    <3>2. s = Prefix(s, Len(s))
      BY <1>1, <3>1, PrefixIsSubSeq
    <3>3. s \in Ancestors(n)
      BY <1>1, <3>1, <3>2
    <3> QED BY <2>2, <3>3 DEF ParentName, s
  <2> QED BY <2>1, <2>2
<1>5. IsFiniteSet(Ancestors(n))
  <2> DEFINE f == [k \in 1 .. Len(s) |-> Prefix(s, k)]
  <2>1. f \in Surjection(1 .. Len(s), Ancestors(n))
    BY <1>1 DEF Surjection
  <2>2. IsFiniteSet(1 .. Len(s))
    BY <1>2, FS_Interval
  <2> QED BY <2>1, <2>2, FS_Surjection
<1> QED BY <1>3, <1>4, <1>5

\* A parent's name is higher than that of its child.
LEMMA ParentIsHigher ==
  ASSUME NEW n, IsName(n), n # Root
  PROVE  Depth(ParentName(n)) < Depth(n)
<1> DEFINE s == AncestorParts(n)
<1>1. s \in Seq(Parts)
  BY AncestorPartsAreWhole
<1>2. Depth(n) = Len(s) + 1
  BY DEF Depth
<1> HIDE DEF s
<1>3. CASE s = <<>>
  <2>1. Depth(ParentName(n)) = 0
    BY <1>3 DEF ParentName, Depth, s
  <2> QED BY <1>1, <1>2, <2>1
<1>4. CASE s # <<>>
  <2>1. ParentName(n) = s
    BY <1>4 DEF ParentName, s
  <2>2. IsWhole(s)
    BY <1>1, <1>4 DEF IsWhole
  <2>3. PICK m \in Nat : m = Len(s)
    BY <1>1
  <2>4. PICK k \in Nat : m = k + 1
    <3>1. m # 0
      BY <1>1, <1>4, <2>3
    <3>2. m - 1 \in Nat /\ m = (m - 1) + 1
      BY <3>1
    <3> QED BY <3>2
  <2>5. AncestorParts(s) = Prefix(s, k)
    BY <2>2, <2>3, <2>4, PartsOfWhole
  <2>6. Len(Prefix(s, k)) = k
    <3>1. s \in Seq(Parts) /\ k <= Len(s)
      BY <1>1, <2>3, <2>4
    <3> QED BY <3>1, PrefixOfWhole
  <2>7. s # Root
    BY <2>2, WholeIsName
  <2>8. Depth(s) = k + 1
    BY <2>5, <2>6, <2>7 DEF Depth
  <2> QED BY <1>2, <2>1, <2>3, <2>4, <2>8
<1> QED BY <1>3, <1>4

-----------------------------------------------------------------------------
(* Chains of parents.                                                      *)

Rank(ls, x) == Depth(ls[x].name)
IsAbove(ls, p, x) == p \in DOMAIN ls /\ Rank(ls, p) < Rank(ls, x)
WellFormed(ls) ==
  \A x \in DOMAIN ls : /\ Rank(ls, x) \in Nat
                       /\ ls[x].parent = NoLogger \/ IsAbove(ls, ls[x].parent, x)

\* What a logger has if its parent has it, all have.
LEMMA FromTheTop ==
  ASSUME NEW ls, NEW P, WellFormed(ls),
         \A x \in DOMAIN ls : ls[x].parent = NoLogger \/ ls[x].parent \in P => x \in P
  PROVE  DOMAIN ls \subseteq P
<1> DEFINE Q == {k \in Nat : \A x \in DOMAIN ls : Rank(ls, x) <= k => x \in P}
<1>1. \A x \in DOMAIN ls : Rank(ls, x) \in Nat
  BY DEF WellFormed
<1>2. 0 \in Q
  <2> SUFFICES ASSUME NEW x \in DOMAIN ls, Rank(ls, x) <= 0 PROVE x \in P
    OBVIOUS
  <2>1. ~IsAbove(ls, ls[x].parent, x)
    BY <1>1 DEF IsAbove
  <2> QED BY <2>1 DEF WellFormed
<1>3. ASSUME NEW k \in Nat, k \in Q PROVE k + 1 \in Q
  <2> SUFFICES ASSUME NEW x \in DOMAIN ls, Rank(ls, x) <= k + 1 PROVE x \in P
    OBVIOUS
  <2>1. CASE ls[x].parent = NoLogger
    BY <2>1
  <2>2. CASE IsAbove(ls, ls[x].parent, x)
    <3>1. ls[x].parent \in DOMAIN ls /\ Rank(ls, ls[x].parent) <= k
      BY <1>1, <2>2 DEF IsAbove
    <3> QED BY <1>3, <3>1
  <2> QED BY <2>1, <2>2 DEF WellFormed
<1>4. \A k \in Nat : k \in Q
  <2> HIDE DEF Q
  <2> QED BY <1>2, <1>3, Induction
<1>5. ASSUME NEW x \in DOMAIN ls PROVE x \in P
  <2>1. Rank(ls, x) \in Q /\ Rank(ls, x) <= Rank(ls, x)
    BY <1>1, <1>4
  <2> QED BY <2>1
<1> QED BY <1>5

IsClosed(ls, S) == \A z \in S : ls[z].parent = NoLogger \/ ls[z].parent \in S

\* The function that Chain defines by recursion.
IsChain(c, ls) ==
  c = [x \in DOMAIN ls |->
         {x} \cup (IF ls[x].parent = NoLogger THEN {} ELSE c[ls[x].parent])]

\* There is one: the least set that has a logger and the parents of those in it.
LEMMA ChainExists ==
  ASSUME NEW ls, WellFormed(ls)
  PROVE  \E c : IsChain(c, ls)
<1> DEFINE InAll(x, y) == \A S \in SUBSET DOMAIN ls : x \in S /\ IsClosed(ls, S) => y \in S
           u == [x \in DOMAIN ls |-> {y \in DOMAIN ls : InAll(x, y)}]
<1>1. ASSUME NEW x \in DOMAIN ls, ls[x].parent # NoLogger
      PROVE  u[x] = {x} \cup u[ls[x].parent]
  <2> DEFINE p == ls[x].parent
             T == {x} \cup u[p]
  <2>1. p \in DOMAIN ls
    BY <1>1 DEF WellFormed, IsAbove
  <2>2. ASSUME NEW z \in u[p], ls[z].parent # NoLogger PROVE ls[z].parent \in u[p]
    <3>1. z \in DOMAIN ls /\ ls[z].parent \in DOMAIN ls
      BY <2>1, <2>2 DEF WellFormed, IsAbove
    <3>2. \A S \in SUBSET DOMAIN ls : p \in S /\ IsClosed(ls, S) => ls[z].parent \in S
      BY <2>1, <2>2 DEF IsClosed
    <3> QED BY <2>1, <3>1, <3>2
  <2>3. p \in u[p]
    BY <2>1
  <2>4. T \in SUBSET DOMAIN ls /\ x \in T /\ IsClosed(ls, T)
    <3>1. T \in SUBSET DOMAIN ls
      BY <2>1
    <3> HIDE DEF u
    <3> QED BY <2>2, <2>3, <3>1 DEF IsClosed
  <2>5. u[x] \subseteq T
    <3> HIDE DEF T
    <3> QED BY <2>4
  <2>6. ASSUME NEW y \in u[p] PROVE y \in u[x]
    <3>1. \A S \in SUBSET DOMAIN ls : x \in S /\ IsClosed(ls, S) => p \in S
      BY <1>1 DEF IsClosed
    <3>2. y \in DOMAIN ls /\ InAll(p, y)
      BY <2>1, <2>6
    <3> QED BY <3>1, <3>2
  <2>7. x \in u[x]
    OBVIOUS
  <2> QED BY <2>5, <2>6, <2>7
<1>2. ASSUME NEW x \in DOMAIN ls, ls[x].parent = NoLogger
      PROVE  u[x] = {x}
  <2>1. {x} \in SUBSET DOMAIN ls /\ IsClosed(ls, {x})
    BY <1>2 DEF IsClosed
  <2> QED BY <2>1
<1>3. IsChain(u, ls)
  <2>1. u = [x \in DOMAIN ls |-> u[x]]
    OBVIOUS
  <2>2. \A x \in DOMAIN ls :
          u[x] = {x} \cup (IF ls[x].parent = NoLogger THEN {} ELSE u[ls[x].parent])
    <3> HIDE DEF u
    <3> QED BY <1>1, <1>2
  <2> HIDE DEF u
  <2> QED BY <2>1, <2>2 DEF IsChain
<1> QED BY <1>3

LEMMA ChainIs ==
  ASSUME NEW ls, WellFormed(ls), NEW x \in DOMAIN ls
  PROVE  Chain(ls)[x] = {x} \cup (IF ls[x].parent = NoLogger THEN {}
                                                     ELSE Chain(ls)[ls[x].parent])
<1> DEFINE h == CHOOSE c : c = [z \in DOMAIN ls |->
                  {z} \cup (IF ls[z].parent = NoLogger THEN {} ELSE c[ls[z].parent])]
<1>1. IsChain(h, ls)
  <2>1. \E c : c = [z \in DOMAIN ls |->
                  {z} \cup (IF ls[z].parent = NoLogger THEN {} ELSE c[ls[z].parent])]
    BY ChainExists, Zenon DEF IsChain
  <2> QED BY <2>1, Zenon DEF IsChain
<1>2. Chain(ls) = h
  BY Zenon DEF Chain
<1> HIDE DEF h
<1>3. h[x] = {x} \cup (IF ls[x].parent = NoLogger THEN {} ELSE h[ls[x].parent])
  BY <1>1 DEF IsChain
<1> QED BY <1>2, <1>3

\* A chain leads upwards, from parent to parent.
LeadsUp(ls, x, S) ==
  /\ x \in S /\ S \subseteq DOMAIN ls /\ IsClosed(ls, S)
  /\ \A y \in S : y # x => Rank(ls, y) < Rank(ls, x) /\ \E w \in S : ls[w].parent = y

LEMMA ChainFacts ==
  ASSUME NEW ls, WellFormed(ls), NEW x \in DOMAIN ls
  PROVE  LeadsUp(ls, x, Chain(ls)[x])
<1> DEFINE P == {z \in DOMAIN ls : LeadsUp(ls, z, Chain(ls)[z])}
<1>1. ASSUME NEW z \in DOMAIN ls, ls[z].parent = NoLogger
      PROVE  z \in P
  <2>1. Chain(ls)[z] = {z}
    BY <1>1, ChainIs
  <2> QED BY <1>1, <2>1 DEF LeadsUp, IsClosed
<1>2. ASSUME NEW z \in DOMAIN ls, ls[z].parent # NoLogger, ls[z].parent \in P
      PROVE  z \in P
  <2> DEFINE p == ls[z].parent
             C == Chain(ls)[z]
             D == Chain(ls)[p]
  <2>1. C = {z} \cup D
    BY <1>2, ChainIs
  <2>2. LeadsUp(ls, p, D) /\ IsAbove(ls, p, z)
    BY <1>2 DEF WellFormed
  <2>3. \A y \in DOMAIN ls : Rank(ls, y) \in Nat
    BY DEF WellFormed
  <2> HIDE DEF C, D
  <2>4. z \in C /\ C \subseteq DOMAIN ls /\ IsClosed(ls, C)
    BY <2>1, <2>2 DEF LeadsUp, IsClosed
  <2>5. ASSUME NEW y \in C, y # z
        PROVE  Rank(ls, y) < Rank(ls, z) /\ \E w \in C : ls[w].parent = y
    <3>1. y \in D
      BY <2>1, <2>5
    <3>2. CASE y = p
      BY <2>1, <2>2, <3>2 DEF IsAbove
    <3>3. CASE y # p
      <4>1. Rank(ls, y) < Rank(ls, p) /\ \E w \in D : ls[w].parent = y
        BY <2>2, <3>1, <3>3 DEF LeadsUp
      <4>2. {y, p, z} \subseteq DOMAIN ls /\ Rank(ls, p) < Rank(ls, z)
        BY <2>2, <3>1 DEF LeadsUp, IsAbove
      <4> QED BY <2>1, <2>3, <4>1, <4>2
    <3> QED BY <3>2, <3>3
  <2>6. LeadsUp(ls, z, C)
    BY <2>4, <2>5 DEF LeadsUp
  <2> QED BY <2>6 DEF C
<1> HIDE DEF P
<1>3. DOMAIN ls \subseteq P
  BY <1>1, <1>2, FromTheTop
<1> QED BY <1>3 DEF P

-----------------------------------------------------------------------------
(* The invariant.                                                          *)

AllNames == Seq(Texts) \ {<<>>}
Logger == [name : AllNames, parent : Objects \cup {NoLogger},
           level : Levels \cup {NoLevel, "INFO"}]

TypeInv ==
  /\ IsFiniteSet(DOMAIN loggers) /\ DOMAIN loggers \subseteq Objects
  /\ loggers \in [DOMAIN loggers -> Logger]
  /\ held \subseteq DOMAIN loggers

Registered(x) == loggers[x].name \in DOMAIN registry /\ registry[loggers[x].name] = x

RegistryInv ==
  /\ \A n \in DOMAIN registry : registry[n] \in DOMAIN loggers /\ loggers[registry[n]].name = n
  /\ HeldIsRegistered
  /\ DOMAIN loggers # {} => Root \in DOMAIN registry

\* The root alone has no parent.
ParentsInv ==
  \A x \in DOMAIN loggers :
    \/ loggers[x].parent = NoLogger /\ Root \in DOMAIN registry /\ x = registry[Root]
    \/ /\ loggers[x].parent \in DOMAIN loggers /\ loggers[x].name # Root
       /\ loggers[loggers[x].parent].name = ParentName(loggers[x].name)

\* What is no longer registered lives on as the parent of one logger.
UnregisteredInv ==
  \A x \in DOMAIN loggers : ~Registered(x) => \E y : Children(x) = {y}

IInv == TypeInv /\ RegistryInv /\ ParentsInv /\ UnregisteredInv

LEMMA NamesOfLoggers ==
  ASSUME TypeInv, NEW x \in DOMAIN loggers
  PROVE  IsName(loggers[x].name)
BY DEF TypeInv, Logger, AllNames, IsName

LEMMA LoggersAreWellFormed ==
  ASSUME IInv
  PROVE  WellFormed(loggers)
<1>1. ASSUME NEW x \in DOMAIN loggers
      PROVE  /\ Rank(loggers, x) \in Nat
             /\ loggers[x].parent = NoLogger \/ IsAbove(loggers, loggers[x].parent, x)
  <2>1. IsName(loggers[x].name)
    BY NamesOfLoggers DEF IInv
  <2>2. Rank(loggers, x) \in Nat
    BY <2>1, ParentIsName DEF Rank
  <2>3. ASSUME loggers[x].parent # NoLogger PROVE IsAbove(loggers, loggers[x].parent, x)
    <3>1. /\ loggers[x].parent \in DOMAIN loggers /\ loggers[x].name # Root
          /\ loggers[loggers[x].parent].name = ParentName(loggers[x].name)
      BY <2>3 DEF IInv, ParentsInv
    <3> QED BY <2>1, <3>1, ParentIsHigher DEF IsAbove, Rank
  <2> QED BY <2>2, <2>3
<1> QED BY <1>1 DEF WellFormed

-----------------------------------------------------------------------------
(* Making loggers.                                                         *)

NewNames == DOMAIN registry' \ DOMAIN registry

Grown ==
  /\ \A m \in DOMAIN registry : m \in DOMAIN registry' /\ registry'[m] = registry[m]
  /\ DOMAIN loggers' = DOMAIN loggers \cup {registry'[m] : m \in NewNames}
  /\ loggers' = [x \in DOMAIN loggers' |-> loggers'[x]]
  /\ \A x \in DOMAIN loggers : loggers'[x] = loggers[x]
  /\ \A m \in NewNames : /\ registry'[m] \in Objects \ DOMAIN loggers
                         /\ loggers'[registry'[m]] = Made(m, registry')
                         /\ m # Root => ParentName(m) \in DOMAIN registry'
  /\ \A m \in NewNames : IsName(m)
  /\ Root \in DOMAIN registry'
  /\ IsFiniteSet(NewNames)
  /\ \E m \in DOMAIN registry' : held' = held \cup {registry'[m]}

LEMMA GetFacts ==
  ASSUME IInv, NEW name \in Names, Get(name)
  PROVE  Grown
<1> DEFINE makes == name \notin DOMAIN registry
           missing == ({Root} \cup (IF makes THEN Ancestors(name) \cup {name} ELSE {}))
                        \ DOMAIN registry
           free == Objects \ DOMAIN loggers
           reg(at) == [n \in DOMAIN registry \cup missing |->
                         IF n \in missing THEN at[n] ELSE registry[n]]
<1>0. IsName(name)
  BY NamesAssumption DEF IsName, Texts
<1>1. /\ \A a \in Ancestors(name) : IsWhole(a) /\ ParentName(a) \in Ancestors(name) \cup {Root}
      /\ ParentName(name) \in Ancestors(name) \cup {Root}
      /\ IsFiniteSet(Ancestors(name))
  BY <1>0, AncestorFacts
<1>2. PICK at \in [missing -> free] :
        /\ IsInjective(at)
        /\ registry' = reg(at)
        /\ loggers' = [x \in DOMAIN loggers \cup Range(at) |->
             IF x \in Range(at)
             THEN Made(CHOOSE n \in missing : at[n] = x, reg(at))
             ELSE IF makes THEN Adopted(x, name, reg(at)) ELSE loggers[x]]
        /\ held' = held \cup {reg(at)[name]}
  BY Zenon DEF Get
<1>3. missing \cap DOMAIN registry = {} /\ Root \in DOMAIN registry \cup missing
  OBVIOUS
<1>4. name \in DOMAIN registry \cup missing
  OBVIOUS
<1>5. \A m \in missing : IsName(m) /\ (m # Root => ParentName(m) \in DOMAIN registry \cup missing)
  BY <1>0, <1>1, RootIsName, WholeIsName
<1>6. IsFiniteSet(missing)
  <2>1. IsFiniteSet(Ancestors(name) \cup {name} \cup {Root})
    BY <1>1, FS_AddElement
  <2>2. missing \subseteq Ancestors(name) \cup {name} \cup {Root}
    OBVIOUS
  <2> QED BY <2>1, <2>2, FS_Subset
<1>7. ASSUME NEW x \in DOMAIN loggers PROVE Adopted(x, name, reg(at)) = loggers[x]
  <2>1. ASSUME Adopts(x), NEW n \in Ancestors(name) \cap DOMAIN registry, registry[n] = x
        PROVE  FALSE
    <3>1. Root \in DOMAIN registry /\ x = registry[Root]
      BY <2>1, NullAssumption DEF Adopts, IInv, ParentsInv, TypeInv
    <3>2. loggers[x].name = Root /\ loggers[x].name = n
      BY <2>1, <3>1 DEF IInv, RegistryInv
    <3> QED BY <1>1, <3>2, WholeIsName
  <2> QED BY <2>1 DEF Adopted
<1> HIDE DEF missing
<1>8. DOMAIN registry' = DOMAIN registry \cup missing /\ NewNames = missing
  BY <1>2, <1>3 DEF NewNames
<1>9. /\ \A m \in DOMAIN registry : registry'[m] = registry[m]
      /\ \A m \in missing : registry'[m] = at[m] /\ at[m] \in free
  BY <1>2, <1>3
<1>10. Range(at) = {registry'[m] : m \in NewNames}
  BY <1>2, <1>8, <1>9 DEF Range
<1>11. /\ DOMAIN loggers' = DOMAIN loggers \cup {registry'[m] : m \in NewNames}
       /\ loggers' = [x \in DOMAIN loggers' |-> loggers'[x]]
  <2> DEFINE value(x) == IF x \in Range(at)
                         THEN Made(CHOOSE n \in missing : at[n] = x, reg(at))
                         ELSE IF makes THEN Adopted(x, name, reg(at)) ELSE loggers[x]
  <2>1. loggers' = [x \in DOMAIN loggers \cup Range(at) |-> value(x)]
    BY <1>2, Zenon
  <2> HIDE DEF value
  <2> QED BY <1>10, <2>1
<1>12. ASSUME NEW x \in DOMAIN loggers PROVE loggers'[x] = loggers[x]
  <2>1. x \notin Range(at)
    BY <1>9 DEF Range
  <2> QED BY <1>2, <1>7, <2>1
<1>13. ASSUME NEW m \in missing PROVE loggers'[registry'[m]] = Made(m, registry')
  <2>1. registry'[m] = at[m] /\ at[m] \in Range(at)
    BY <1>9 DEF Range
  <2>2. (CHOOSE n \in missing : at[n] = at[m]) = m
    <3>1. \A n \in missing : at[n] = at[m] => n = m
      BY <1>2 DEF IsInjective
    <3> QED BY <3>1
  <2> HIDE DEF reg, makes
  <2>3. loggers'[at[m]] = Made(CHOOSE n \in missing : at[n] = at[m], reg(at))
    BY <1>2, <2>1
  <2> QED BY <1>2, <2>1, <2>2, <2>3
<1>14. held' = held \cup {registry'[name]} /\ name \in DOMAIN registry'
  BY <1>2, <1>4, <1>8
<1> HIDE DEF reg, free, makes
<1> QED BY <1>3, <1>5, <1>6, <1>8, <1>9, <1>11, <1>12, <1>13, <1>14 DEF Grown, free

\* A name that is registered afterwards has its logger.
LEMMA GrownRegistry ==
  ASSUME IInv, Grown
  PROVE  /\ \A n \in DOMAIN registry' : /\ registry'[n] \in DOMAIN loggers'
                                        /\ loggers'[registry'[n]].name = n
         /\ \A x \in DOMAIN loggers' \ DOMAIN loggers :
              \E m \in NewNames : x = registry'[m] /\ loggers'[x] = Made(m, registry')
<1>1. ASSUME NEW n \in DOMAIN registry'
      PROVE  registry'[n] \in DOMAIN loggers' /\ loggers'[registry'[n]].name = n
  <2>1. CASE n \in DOMAIN registry
    BY <2>1 DEF Grown, IInv, RegistryInv
  <2>2. CASE n \notin DOMAIN registry
    <3>1. n \in NewNames
      BY <2>2 DEF NewNames
    <3>2. registry'[n] \in DOMAIN loggers' /\ loggers'[registry'[n]] = Made(n, registry')
      BY <3>1 DEF Grown
    <3> QED BY <3>2 DEF Made
  <2> QED BY <2>1, <2>2
<1>2. ASSUME NEW x \in DOMAIN loggers' \ DOMAIN loggers
      PROVE  \E m \in NewNames : x = registry'[m] /\ loggers'[x] = Made(m, registry')
  BY DEF Grown
<1> QED BY <1>1, <1>2

LEMMA GrownType ==
  ASSUME IInv, Grown
  PROVE  TypeInv'
<1> DEFINE new == {registry'[m] : m \in NewNames}
<1>1. DOMAIN loggers' = DOMAIN loggers \cup new /\ new \subseteq Objects
  BY DEF Grown
<1>2. IsFiniteSet(DOMAIN loggers')
  <2> DEFINE f == [m \in NewNames |-> registry'[m]]
  <2>1. f \in Surjection(NewNames, new)
    BY DEF Surjection
  <2>2. IsFiniteSet(new)
    <3> HIDE DEF f, new
    <3> QED BY <2>1, FS_Surjection DEF Grown
  <2> HIDE DEF new
  <2> QED BY <1>1, <2>2, FS_Union DEF IInv, TypeInv
<1>3. DOMAIN loggers' \subseteq Objects
  BY <1>1 DEF IInv, TypeInv
<1>4. ASSUME NEW x \in DOMAIN loggers' PROVE loggers'[x] \in Logger
  <2>1. CASE x \in DOMAIN loggers
    BY <2>1 DEF Grown, IInv, TypeInv
  <2>2. CASE x \notin DOMAIN loggers
    <3>1. PICK m \in NewNames : loggers'[x] = Made(m, registry')
      BY <2>2, GrownRegistry
    <3>2. m \in AllNames /\ (m # Root => ParentName(m) \in DOMAIN registry')
      BY DEF Grown, IsName, AllNames
    <3>3. m # Root => registry'[ParentName(m)] \in Objects
      BY <1>3, <3>2, GrownRegistry
    <3> QED BY <3>1, <3>2, <3>3 DEF Made, Logger
  <2> QED BY <2>1, <2>2
<1>5. loggers' \in [DOMAIN loggers' -> Logger]
  <2> HIDE DEF new
  <2>1. loggers' = [x \in DOMAIN loggers' |-> loggers'[x]]
    BY DEF Grown
  <2> QED BY <1>4, <2>1
<1>6. held' \subseteq DOMAIN loggers'
  <2>1. PICK m \in DOMAIN registry' : held' = held \cup {registry'[m]}
    BY DEF Grown
  <2>2. held \subseteq DOMAIN loggers'
    BY <1>1 DEF IInv, TypeInv
  <2> QED BY <2>1, <2>2, GrownRegistry
<1> QED BY <1>2, <1>3, <1>5, <1>6 DEF TypeInv

LEMMA GrownKeeps ==
  ASSUME IInv, Grown
  PROVE  IInv'
<1>1. TypeInv'
  BY GrownType
<1>2. RegistryInv'
  <2>1. \A n \in DOMAIN registry' : /\ registry'[n] \in DOMAIN loggers'
                                    /\ loggers'[registry'[n]].name = n
    BY GrownRegistry
  <2>2. HeldIsRegistered'
    <3>1. PICK m \in DOMAIN registry' : held' = held \cup {registry'[m]}
      BY DEF Grown
    <3>2. ASSUME NEW x \in held
          PROVE  loggers'[x].name \in DOMAIN registry' /\ registry'[loggers'[x].name] = x
      BY DEF Grown, IInv, TypeInv, RegistryInv, HeldIsRegistered
    <3> QED BY <2>1, <3>1, <3>2 DEF HeldIsRegistered
  <2> QED BY <2>1, <2>2 DEF RegistryInv, Grown
<1>3. ParentsInv'
  <2> SUFFICES ASSUME NEW x \in DOMAIN loggers'
               PROVE  \/ /\ loggers'[x].parent = NoLogger
                         /\ Root \in DOMAIN registry' /\ x = registry'[Root]
                      \/ /\ loggers'[x].parent \in DOMAIN loggers'
                         /\ loggers'[x].name # Root
                         /\ loggers'[loggers'[x].parent].name = ParentName(loggers'[x].name)
    BY DEF ParentsInv
  <2>1. CASE x \in DOMAIN loggers
    BY <2>1 DEF Grown, IInv, ParentsInv
  <2>2. CASE x \notin DOMAIN loggers
    <3>1. PICK m \in NewNames : x = registry'[m] /\ loggers'[x] = Made(m, registry')
      BY <2>2, GrownRegistry
    <3>2. CASE m = Root
      BY <3>1, <3>2 DEF Made, Grown
    <3>3. CASE m # Root
      <4>1. ParentName(m) \in DOMAIN registry'
        BY <3>3 DEF Grown
      <4>2. loggers'[x].name = m /\ loggers'[x].parent = registry'[ParentName(m)]
        BY <3>1, <3>3 DEF Made
      <4> QED BY <3>3, <4>1, <4>2, GrownRegistry
    <3> QED BY <3>2, <3>3
  <2> QED BY <2>1, <2>2
<1>4. UnregisteredInv'
  <2> SUFFICES ASSUME NEW x \in DOMAIN loggers', ~Registered(x)'
               PROVE  \E y : Children(x)' = {y}
    BY DEF UnregisteredInv
  <2>1. x \in DOMAIN loggers
    <3> SUFFICES ASSUME x \notin DOMAIN loggers PROVE FALSE
      OBVIOUS
    <3>1. PICK m \in NewNames : x = registry'[m]
      BY GrownRegistry
    <3> QED BY <3>1, GrownRegistry DEF Registered, NewNames
  <2>2. ~Registered(x)
    BY <2>1 DEF Registered, Grown
  <2>3. ASSUME NEW y \in DOMAIN loggers' PROVE y \in Children(x)' <=> y \in Children(x)
    <3>1. CASE y \in DOMAIN loggers
      BY <3>1 DEF Children, Grown
    <3>2. CASE y \notin DOMAIN loggers
      <4>1. PICK m \in NewNames : loggers'[y] = Made(m, registry')
        BY <3>2, GrownRegistry
      <4>2. CASE m = Root
        <5>1. loggers'[y].parent = NoLogger /\ x # NoLogger
          BY <2>1, <4>1, <4>2, NullAssumption DEF Made, IInv, TypeInv
        <5> QED BY <3>2, <5>1 DEF Children
      <4>3. CASE m # Root
        <5>1. ParentName(m) \in DOMAIN registry' /\ loggers'[y].parent = registry'[ParentName(m)]
          BY <4>1, <4>3 DEF Made, Grown
        <5>2. registry'[ParentName(m)] # x
          BY <5>1, GrownRegistry DEF Registered
        <5> QED BY <3>2, <5>1, <5>2 DEF Children
      <4> QED BY <4>2, <4>3
    <3> QED BY <3>1, <3>2
  <2>4. Children(x)' = Children(x)
    BY <2>3 DEF Children, Grown
  <2> QED BY <2>1, <2>2, <2>4 DEF IInv, UnregisteredInv
<1> QED BY <1>1, <1>2, <1>3, <1>4 DEF IInv

-----------------------------------------------------------------------------
(* Letting loggers go.                                                     *)

\* The root and what the application holds stay registered, and what does not has at
\* most one child.
Shrunk(reg, hld) ==
  /\ \A n \in DOMAIN reg : n \in DOMAIN registry /\ reg[n] = registry[n]
  /\ Root \in DOMAIN registry => Root \in DOMAIN reg
  /\ hld \subseteq held /\ \A x \in hld : loggers[x].name \in DOMAIN reg
  /\ \A n \in DOMAIN registry \ DOMAIN reg : \E y : Children(registry[n]) \subseteq {y}

LEMMA ReferencedFacts ==
  ASSUME IInv, NEW reg, NEW hld, Shrunk(reg, hld)
  PROVE  LET R == Referenced(reg, hld)
         IN  /\ R \subseteq DOMAIN loggers /\ IsClosed(loggers, R)
             /\ Range(reg) \subseteq R /\ hld \subseteq R
             /\ \A y \in R : \/ y \in Range(reg) \cup hld
                             \/ \E w \in R : loggers[w].parent = y
<1> DEFINE S == Range(reg) \cup hld
           R == UNION {Chain(loggers)[x] : x \in S}
<1>1. S \subseteq DOMAIN loggers
  BY DEF Shrunk, Range, IInv, TypeInv, RegistryInv
<1> HIDE DEF S
<1>2. \A x \in S : LeadsUp(loggers, x, Chain(loggers)[x])
  BY <1>1, LoggersAreWellFormed, ChainFacts
<1>3. R \subseteq DOMAIN loggers /\ IsClosed(loggers, R)
  BY <1>2 DEF LeadsUp, IsClosed
<1>4. S \subseteq R
  BY <1>2 DEF LeadsUp
<1>5. \A y \in R : y \in S \/ \E w \in R : loggers[w].parent = y
  <2> SUFFICES ASSUME NEW x \in S, NEW y \in Chain(loggers)[x], y # x
               PROVE  \E w \in Chain(loggers)[x] : loggers[w].parent = y
    OBVIOUS
  <2> QED BY <1>2 DEF LeadsUp
<1> QED BY <1>3, <1>4, <1>5 DEF Referenced, S

LEMMA ReleaseKeeps ==
  ASSUME IInv, NEW reg, NEW hld, Shrunk(reg, hld), ReleaseTo(reg, hld)
  PROVE  IInv'
<1> DEFINE R == Referenced(reg, hld)
<1>1. /\ R \subseteq DOMAIN loggers /\ IsClosed(loggers, R)
      /\ Range(reg) \subseteq R /\ hld \subseteq R
      /\ \A y \in R : y \in Range(reg) \cup hld \/ \E w \in R : loggers[w].parent = y
  BY ReferencedFacts
<1>2. /\ registry' = reg /\ held' = hld
      /\ loggers' = [x \in R |-> loggers[x]]
  BY DEF ReleaseTo, Restrict
<1> HIDE DEF R
<1>3. DOMAIN loggers' = R /\ \A x \in R : loggers'[x] = loggers[x]
  BY <1>2
<1>4. \A n \in DOMAIN reg : n \in DOMAIN registry /\ reg[n] = registry[n] /\ reg[n] \in R
  BY <1>1 DEF Shrunk, Range
<1>5. TypeInv'
  <2>1. IsFiniteSet(R)
    BY <1>1, FS_Subset DEF IInv, TypeInv
  <2>2. R \subseteq Objects /\ \A x \in R : loggers[x] \in Logger
    BY <1>1 DEF IInv, TypeInv
  <2> QED BY <1>1, <1>2, <1>3, <2>1, <2>2 DEF TypeInv
<1>6. \A n \in DOMAIN registry' : /\ registry'[n] \in DOMAIN loggers'
                                  /\ loggers'[registry'[n]].name = n
  BY <1>2, <1>3, <1>4 DEF IInv, RegistryInv
<1>7. HeldIsRegistered'
  <2> SUFFICES ASSUME NEW x \in hld
               PROVE  loggers[x].name \in DOMAIN reg /\ reg[loggers[x].name] = x
    BY <1>1, <1>2, <1>3 DEF HeldIsRegistered
  <2>1. x \in held /\ loggers[x].name \in DOMAIN reg
    BY DEF Shrunk
  <2> QED BY <1>4, <2>1 DEF IInv, RegistryInv, HeldIsRegistered
<1>8. RegistryInv'
  <2>1. DOMAIN loggers' # {} => Root \in DOMAIN registry'
    BY <1>1, <1>2, <1>3 DEF IInv, RegistryInv, Shrunk
  <2> QED BY <1>6, <1>7, <2>1 DEF RegistryInv
<1>9. ParentsInv'
  <2> SUFFICES ASSUME NEW x \in R
               PROVE  \/ loggers[x].parent = NoLogger /\ Root \in DOMAIN reg /\ x = reg[Root]
                      \/ /\ loggers[x].parent \in R /\ loggers[x].name # Root
                         /\ loggers[loggers[x].parent].name = ParentName(loggers[x].name)
    BY <1>2, <1>3 DEF ParentsInv
  <2>1. CASE loggers[x].parent = NoLogger
    <3>1. Root \in DOMAIN registry /\ x = registry[Root]
      BY <1>1, <2>1, NullAssumption DEF IInv, ParentsInv, TypeInv
    <3>2. Root \in DOMAIN reg
      BY <3>1 DEF Shrunk
    <3> QED BY <1>4, <2>1, <3>1, <3>2
  <2>2. CASE loggers[x].parent # NoLogger
    <3>1. loggers[x].parent \in R
      BY <1>1, <2>2 DEF IsClosed
    <3> QED BY <1>1, <2>2, <3>1 DEF IInv, ParentsInv
  <2> QED BY <2>1, <2>2
<1>10. UnregisteredInv'
  <2> SUFFICES ASSUME NEW x \in R, ~Registered(x)'
               PROVE  \E y : Children(x)' = {y}
    BY <1>3 DEF UnregisteredInv
  <2>1. Children(x)' = {y \in R : loggers[y].parent = x}
    BY <1>3 DEF Children
  <2>2. x \notin Range(reg) /\ x \notin hld
    <3>1. x \notin Range(reg)
      BY <1>2, <1>6 DEF Registered, Range
    <3>2. x \notin hld
      BY <1>2, <1>7 DEF Registered, HeldIsRegistered
    <3> QED BY <3>1, <3>2
  <2>3. \E w \in R : loggers[w].parent = x
    BY <1>1, <2>2
  <2>4. \E y : Children(x) \subseteq {y}
    <3>1. CASE Registered(x)
      <4>1. loggers[x].name \in DOMAIN registry /\ registry[loggers[x].name] = x
        BY <3>1 DEF Registered
      <4>2. loggers[x].name \notin DOMAIN reg
        BY <1>4, <2>2, <4>1 DEF Range
      <4> QED BY <4>1, <4>2 DEF Shrunk
    <3>2. CASE ~Registered(x)
      BY <1>1, <3>2 DEF IInv, UnregisteredInv
    <3> QED BY <3>1, <3>2
  <2>5. Children(x)' \subseteq Children(x)
    BY <1>1, <2>1 DEF Children
  <2> QED BY <2>1, <2>3, <2>4, <2>5
<1> QED BY <1>5, <1>8, <1>9, <1>10 DEF IInv

-----------------------------------------------------------------------------
(* What remove_unused_loggers erases.                                      *)

LEMMA UseCountIs ==
  ASSUME IInv, NEW x \in DOMAIN loggers
  PROVE  /\ IsFiniteSet(Children(x)) /\ Cardinality(Children(x)) \in Nat
         /\ UseCount(x) = (IF Registered(x) THEN 1 ELSE 0) + Cardinality(Children(x))
                          + (IF x \in held THEN 1 ELSE 0)
<1>1. IsFiniteSet(Children(x)) /\ Cardinality(Children(x)) \in Nat
  BY FS_Subset, FS_CardinalityType DEF IInv, TypeInv, Children
<1> DEFINE Entries == {n \in DOMAIN registry : registry[n] = x}
<1>2. CASE Registered(x)
  <2>1. Entries = {loggers[x].name}
    BY <1>2 DEF Registered, IInv, RegistryInv
  <2>2. Cardinality(Entries) = 1
    BY <2>1, FS_Singleton
  <2> QED BY <1>1, <1>2, <2>2 DEF UseCount
<1>3. CASE ~Registered(x)
  <2>1. Entries = {}
    BY <1>3 DEF Registered, IInv, RegistryInv
  <2>2. Cardinality(Entries) = 0
    BY <2>1, FS_EmptySet
  <2> QED BY <1>1, <1>3, <2>2 DEF UseCount
<1> QED BY <1>1, <1>2, <1>3

\* Only an entry of the registry, and never that of the root or of a logger in use, is
\* erased, and its logger has at most one child.
LEMMA EraseFacts ==
  ASSUME IInv, NEW n \in ToErase, n \in DOMAIN registry
  PROVE  /\ n # Root /\ registry[n] \notin held
         /\ \E y : Children(registry[n]) \subseteq {y}
<1> DEFINE r == registry[n]
<1>0. r \in DOMAIN loggers /\ loggers[r].name = n /\ Registered(r)
  BY DEF IInv, RegistryInv, Registered
<1>1. ASSUME HasParent(r) PROVE n # Root
  BY <1>0, <1>1, NullAssumption DEF HasParent, IInv, ParentsInv
<1>2. CASE ~NeverErased(r) /\ Alone(r)
  <2>1. HasParent(r) /\ UseCount(r) = 1
    BY <1>2 DEF NeverErased, Alone
  <2>2. Cardinality(Children(r)) = 0 /\ r \notin held
    <3> HIDE DEF r
    <3> QED BY <1>0, <2>1, UseCountIs
  <2>3. Children(r) = {}
    <3> HIDE DEF r
    <3> QED BY <1>0, <2>2, UseCountIs, FS_EmptySet
  <2> QED BY <1>1, <2>1, <2>2, <2>3
<1>3. CASE ~(~NeverErased(r) /\ Alone(r))
  <2>1. PICK y \in Range(registry) :
          /\ HasParent(y) /\ HasOneChild(loggers[y].parent) /\ ~NeverErased(loggers[y].parent)
          /\ n = loggers[loggers[y].parent].name
    BY <1>3 DEF ToErase
  <2> DEFINE p == loggers[y].parent
  <2>2. y \in DOMAIN loggers /\ p \in DOMAIN loggers /\ y \in Children(p)
    BY <2>1 DEF Range, HasParent, Children, IInv, RegistryInv, ParentsInv
  <2> HIDE DEF p
  <2>3. UseCount(p) = 2 /\ HasParent(p) /\ n = loggers[p].name
    BY <2>1 DEF HasOneChild, NeverErased, p
  <2>4. Cardinality(Children(p)) \in Nat \ {0}
    <3>1. Children(p) # {}
      BY <2>2
    <3> QED BY <2>2, <3>1, UseCountIs, FS_EmptySet
  <2>5. Registered(p)
    <3> SUFFICES ASSUME ~Registered(p) PROVE FALSE
      OBVIOUS
    <3>1. \E z : Children(p) = {z}
      BY <2>2 DEF IInv, UnregisteredInv
    <3>2. Cardinality(Children(p)) = 1
      BY <3>1, FS_Singleton
    <3>3. p \notin held
      BY DEF Registered, IInv, RegistryInv, HeldIsRegistered
    <3> QED BY <2>2, <2>3, <3>2, <3>3, UseCountIs
  <2>6. p = r
    BY <2>3, <2>5 DEF Registered
  <2>7. Cardinality(Children(p)) = 1 /\ p \notin held
    BY <2>2, <2>3, <2>4, <2>5, UseCountIs
  <2>8. \E z : Children(p) = {z}
    BY <2>2, <2>7, UseCountIs, FS_Singleton
  <2> QED BY <1>1, <2>3, <2>6, <2>7, <2>8
<1> QED BY <1>2, <1>3

-----------------------------------------------------------------------------
LEMMA IInvHolds == Init => IInv
<1> SUFFICES ASSUME Init PROVE IInv
  OBVIOUS
<1>1. DOMAIN loggers = {} /\ DOMAIN registry = {} /\ held = {}
  BY DEF Init
<1>2. TypeInv
  BY <1>1, FS_EmptySet DEF TypeInv, Init
<1> QED BY <1>1, <1>2 DEF IInv, RegistryInv, HeldIsRegistered, ParentsInv, UnregisteredInv

LEMMA SetLevelKeeps ==
  ASSUME IInv, NEW x, NEW lvl \in Levels \cup {NoLevel}, SetLevel(x, lvl)
  PROVE  IInv'
<1>1. UNCHANGED <<registry, held>> /\ x \in DOMAIN loggers
  BY DEF SetLevel, IInv, TypeInv
<1>2. /\ DOMAIN loggers' = DOMAIN loggers /\ loggers' \in [DOMAIN loggers -> Logger]
      /\ \A y \in DOMAIN loggers : /\ loggers'[y].name = loggers[y].name
                                   /\ loggers'[y].parent = loggers[y].parent
  BY <1>1 DEF SetLevel, IInv, TypeInv, Logger
<1>3. \A y : Children(y)' = Children(y)
  BY <1>2 DEF Children
<1>4. TypeInv'
  BY <1>1, <1>2 DEF IInv, TypeInv
<1>5. RegistryInv'
  BY <1>1, <1>2 DEF IInv, TypeInv, RegistryInv, HeldIsRegistered
<1>6. ParentsInv'
  BY <1>1, <1>2 DEF IInv, ParentsInv
<1>7. UnregisteredInv'
  BY <1>1, <1>2, <1>3 DEF IInv, UnregisteredInv, Registered
<1> QED BY <1>4, <1>5, <1>6, <1>7 DEF IInv

LEMMA RemoveShrinks ==
  ASSUME IInv
  PROVE  Shrunk(Restrict(registry, DOMAIN registry \ ToErase), held)
<1> DEFINE reg == Restrict(registry, DOMAIN registry \ ToErase)
<1>1. DOMAIN reg = DOMAIN registry \ ToErase /\ \A n \in DOMAIN reg : reg[n] = registry[n]
  BY DEF Restrict
<1>2. Root \in DOMAIN registry => Root \notin ToErase
  BY EraseFacts
<1>3. ASSUME NEW x \in held PROVE loggers[x].name \in DOMAIN registry \ ToErase
  BY EraseFacts DEF IInv, RegistryInv, HeldIsRegistered
<1>4. \A n \in DOMAIN registry \ DOMAIN reg : \E y : Children(registry[n]) \subseteq {y}
  BY <1>1, EraseFacts
<1> HIDE DEF reg
<1>5. Shrunk(reg, held)
  BY <1>1, <1>2, <1>3, <1>4 DEF Shrunk
<1> QED BY <1>5 DEF reg

LEMMA IInvKept ==
  ASSUME IInv, [Next]_vars
  PROVE  IInv'
<1>1. ASSUME NEW n \in Names, Get(n) PROVE IInv'
  BY <1>1, GetFacts, GrownKeeps
<1>2. CASE GetExistingLoggers
  <2>1. UNCHANGED <<registry, loggers>> /\ held' = held \cup Range(registry)
    BY <1>2 DEF GetExistingLoggers
  <2>2. TypeInv'
    BY <2>1 DEF IInv, TypeInv, RegistryInv, Range
  <2>3. HeldIsRegistered'
    BY <2>1 DEF IInv, RegistryInv, Range, HeldIsRegistered
  <2>4. RegistryInv'
    BY <2>1, <2>3 DEF IInv, RegistryInv
  <2>5. ParentsInv' /\ UnregisteredInv'
    BY <2>1 DEF IInv, ParentsInv, UnregisteredInv, Registered, Children
  <2> QED BY <2>2, <2>4, <2>5 DEF IInv
<1>3. CASE RemoveUnusedLoggers
  <2>1. ReleaseTo(Restrict(registry, DOMAIN registry \ ToErase), held)
    BY <1>3 DEF RemoveUnusedLoggers
  <2> QED BY <2>1, RemoveShrinks, ReleaseKeeps
<1>4. ASSUME NEW x \in Objects, Release(x) PROVE IInv'
  <2>1. ReleaseTo(registry, held \ {x})
    BY <1>4 DEF Release
  <2>2. Shrunk(registry, held \ {x})
    BY DEF Shrunk, IInv, RegistryInv, HeldIsRegistered
  <2> QED BY <2>1, <2>2, ReleaseKeeps
<1>5. ASSUME NEW x \in Objects, NEW lvl \in Levels, SetLevel(x, lvl) PROVE IInv'
  BY <1>5, SetLevelKeeps
<1>6. ASSUME NEW x \in Objects, Reset(x) PROVE IInv'
  BY <1>6, SetLevelKeeps DEF Reset
<1>7. CASE UNCHANGED vars
  <2>1. UNCHANGED <<registry, loggers, held>>
    BY <1>7 DEF vars
  <2>2. TypeInv' /\ RegistryInv'
    BY <2>1 DEF IInv, TypeInv, RegistryInv, HeldIsRegistered
  <2>3. ParentsInv' /\ UnregisteredInv'
    BY <2>1 DEF IInv, ParentsInv, UnregisteredInv, Registered, Children
  <2> QED BY <2>2, <2>3 DEF IInv
<1> QED BY <1>1, <1>2, <1>3, <1>4, <1>5, <1>6, <1>7 DEF Next

\* The hierarchy is whole, for any names, addresses and levels: names and loggers go with
\* each other, each logger has the parent that its name says, and one that is no longer
\* registered is kept by its only child.
THEOREM Invariance == Spec => []IInv
BY IInvHolds, IInvKept, PTL DEF Spec

\* remove_unused_loggers never takes the name from a logger in use.
THEOREM HeldStayRegistered == Spec => []HeldIsRegistered
<1>1. IInv => HeldIsRegistered
  BY DEF IInv, RegistryInv
<1> QED BY <1>1, Invariance, PTL

\* From every logger the pointers to the parents lead to the root that is registered.
THEOREM ChainsStayWhole == Spec => []ChainsEndInRoot
<1>1. IInv => ChainsEndInRoot
  <2> SUFFICES ASSUME IInv PROVE ChainsEndInRoot
    OBVIOUS
  <2> DEFINE P == {x \in DOMAIN loggers : registry[Root] \in Chain(loggers)[x]}
  <2>1. WellFormed(loggers)
    BY LoggersAreWellFormed
  <2>2. ASSUME NEW x \in DOMAIN loggers, loggers[x].parent = NoLogger PROVE x \in P
    <3>1. x = registry[Root]
      BY <2>2, NullAssumption DEF IInv, ParentsInv, TypeInv
    <3> QED BY <2>1, <3>1, ChainIs
  <2>3. ASSUME NEW x \in DOMAIN loggers, loggers[x].parent # NoLogger, loggers[x].parent \in P
        PROVE  x \in P
    BY <2>1, <2>3, ChainIs
  <2> HIDE DEF P
  <2>4. DOMAIN loggers \subseteq P
    BY <2>1, <2>2, <2>3, FromTheTop
  <2> QED BY <2>4 DEF P, ChainsEndInRoot, IInv, RegistryInv
<1> QED BY <1>1, Invariance, PTL

-----------------------------------------------------------------------------
(* Removal is complete.                                                    *)

\* Below a logger there is one without children.
LEMMA LeafBelow ==
  ASSUME IInv, NEW r \in DOMAIN loggers
  PROVE  \E d \in DOMAIN loggers : r \in Chain(loggers)[d] /\ Children(d) = {}
<1> SUFFICES ASSUME \A d \in DOMAIN loggers : r \in Chain(loggers)[d] => Children(d) # {}
             PROVE  FALSE
  OBVIOUS
<1> DEFINE D == DOMAIN loggers
           Under(d) == {e \in D : d \in Chain(loggers)[e]}
           Unders == {Under(d) : d \in Under(r)}
<1>1. \A d \in D : LeadsUp(loggers, d, Chain(loggers)[d])
  BY LoggersAreWellFormed, ChainFacts
<1>2. \A d \in D : Rank(loggers, d) \in Nat
  BY LoggersAreWellFormed DEF WellFormed
<1>3. IsWellFoundedOn(StrictSubsetOrdering(D), SUBSET D)
  <2>1. FiniteSubsetsOf(D) = SUBSET D
    BY FS_FiniteSubsetsOfFinite DEF IInv, TypeInv
  <2> QED BY <2>1, FS_StrictSubsetOrderingWellFounded
<1>4. Unders \subseteq SUBSET D /\ Unders # {}
  <2>1. r \in Under(r)
    BY <1>1 DEF LeadsUp
  <2>2. \A d : Under(d) \in SUBSET D
    OBVIOUS
  <2>3. Unders # {}
    <3> HIDE DEF Under
    <3> QED BY <2>1
  <2>4. Unders \subseteq SUBSET D
    <3> HIDE DEF Under
    <3> QED BY <2>2
  <2> QED BY <2>3, <2>4
<1>5. PICK least \in Unders : \A s \in Unders : <<s, least>> \notin StrictSubsetOrdering(D)
  <2> HIDE DEF Unders
  <2> QED BY <1>3, <1>4, WFMin
<1>6. PICK d \in Under(r) : least = Under(d)
  OBVIOUS
<1>7. PICK c \in D : loggers[c].parent = d
  BY <1>6 DEF Children
<1>8. d # NoLogger /\ d \in D
  BY <1>6, NullAssumption DEF IInv, TypeInv
<1>9. \A e \in Under(c) : d \in Chain(loggers)[e]
  BY <1>1, <1>7, <1>8 DEF LeadsUp, IsClosed
<1>10. Under(c) \subseteq Under(d)
  BY <1>9
<1>11. c \in Under(r)
  <2>1. d \in Chain(loggers)[c]
    BY <1>1, <1>7, <1>8 DEF LeadsUp, IsClosed
  <2>2. Chain(loggers)[c] = {c} \cup Chain(loggers)[d]
    BY <1>7, <1>8, ChainIs, LoggersAreWellFormed
  <2> QED BY <1>6, <2>2
<1>12. d \in Under(d) /\ d \notin Under(c)
  <2>1. d \in Under(d)
    BY <1>1, <1>8 DEF LeadsUp
  <2>2. ASSUME c \in Chain(loggers)[d] PROVE FALSE
    <3>1. Rank(loggers, c) <= Rank(loggers, d)
      BY <1>1, <1>2, <1>8, <2>2 DEF LeadsUp
    <3>2. Rank(loggers, d) < Rank(loggers, c)
      BY <1>7, <1>8, LoggersAreWellFormed DEF WellFormed, IsAbove
    <3> QED BY <1>2, <1>8, <3>1, <3>2
  <2> QED BY <2>1, <2>2
<1>13. <<Under(c), Under(d)>> \in StrictSubsetOrdering(D)
  BY <1>10, <1>12 DEF StrictSubsetOrdering
<1> QED BY <1>5, <1>6, <1>11, <1>13

\* When remove_unused_loggers finds nothing to erase, every logger but the root is in use
\* or above one in use.
THEOREM RemovalCompletes == Spec => []RemovalIsComplete
<1>1. IInv => RemovalIsComplete
  <2> SUFFICES ASSUME IInv, ToErase = {}, NEW n \in DOMAIN registry \ {Root}
               PROVE  \E x \in held : registry[n] \in Chain(loggers)[x]
    BY DEF RemovalIsComplete
  <2> DEFINE r == registry[n]
  <2>1. r \in DOMAIN loggers /\ loggers[r].name = n
    BY DEF IInv, RegistryInv
  <2> HIDE DEF r
  <2>2. PICK d \in DOMAIN loggers : r \in Chain(loggers)[d] /\ Children(d) = {}
    BY <2>1, LeafBelow
  <2>3. Registered(d)
    <3> SUFFICES ASSUME ~Registered(d) PROVE FALSE
      OBVIOUS
    <3> QED BY <2>2 DEF IInv, UnregisteredInv
  <2>4. HasParent(d)
    <3> SUFFICES ASSUME loggers[d].parent = NoLogger PROVE FALSE
      BY DEF HasParent
    <3>1. Chain(loggers)[d] = {d}
      BY ChainIs, LoggersAreWellFormed
    <3>2. d = registry[Root]
      BY NullAssumption DEF IInv, ParentsInv, TypeInv
    <3>3. loggers[d].name = Root
      BY <3>2 DEF IInv, ParentsInv, RegistryInv, TypeInv
    <3> QED BY <2>1, <2>2, <3>1, <3>3
  <2>5. d \in held
    <3> SUFFICES ASSUME d \notin held PROVE FALSE
      OBVIOUS
    <3>1. Cardinality(Children(d)) = 0
      BY <2>2, FS_EmptySet
    <3>2. UseCount(d) = 1
      BY <2>3, <3>1, UseCountIs
    <3>3. loggers[d].name \in ToErase
      BY <2>3, <2>4, <3>2 DEF ToErase, Registered, NeverErased, Alone
    <3> QED BY <3>3
  <2> QED BY <2>2, <2>5 DEF r
<1> QED BY <1>1, Invariance, PTL

-----------------------------------------------------------------------------
(* Effective levels.                                                       *)

\* The function that EffectiveLevel defines by recursion.
IsEffective(e, ls) ==
  e = [x \in DOMAIN ls |->
         IF ls[x].level # NoLevel THEN ls[x].level
         ELSE IF ls[x].parent = NoLogger THEN "OFF"
         ELSE e[ls[x].parent]]

\* There is one: the level of the lowest logger of the chain that has one.
LEMMA EffectiveExists ==
  ASSUME NEW ls, WellFormed(ls)
  PROVE  \E e : IsEffective(e, ls)
<1> DEFINE Levelled(x) == {y \in Chain(ls)[x] : ls[y].level # NoLevel}
           Lowest(S) == CHOOSE y \in S : \A z \in S : z # y => Rank(ls, z) < Rank(ls, y)
           value(x) == IF Levelled(x) = {} THEN "OFF" ELSE ls[Lowest(Levelled(x))].level
           e == [x \in DOMAIN ls |-> value(x)]
<1>1. ASSUME NEW x \in DOMAIN ls, ls[x].level # NoLevel PROVE value(x) = ls[x].level
  <2>1. LeadsUp(ls, x, Chain(ls)[x])
    BY ChainFacts
  <2>2. x \in Levelled(x) /\ \A z \in Levelled(x) : z # x => Rank(ls, z) < Rank(ls, x)
    BY <1>1, <2>1 DEF LeadsUp
  <2>3. \A y \in Levelled(x) : Rank(ls, y) \in Nat
    BY <2>1 DEF LeadsUp, WellFormed
  <2> DEFINE S == Levelled(x)
  <2> HIDE DEF Levelled, S
  <2>4. ASSUME NEW y \in S, \A z \in S : z # y => Rank(ls, z) < Rank(ls, y) PROVE y = x
    <3> SUFFICES ASSUME y # x PROVE FALSE
      OBVIOUS
    <3>1. Rank(ls, x) < Rank(ls, y) /\ Rank(ls, y) < Rank(ls, x)
      BY <2>2, <2>4 DEF S
    <3> QED BY <2>2, <2>3, <3>1 DEF S
  <2>5. Lowest(S) = x
    BY <2>2, <2>4 DEF S
  <2> QED BY <2>2, <2>5 DEF S
<1>2. ASSUME NEW x \in DOMAIN ls, ls[x].level = NoLevel, ls[x].parent = NoLogger
      PROVE  value(x) = "OFF"
  <2>1. Chain(ls)[x] = {x}
    BY <1>2, ChainIs
  <2>2. Levelled(x) = {}
    BY <1>2, <2>1
  <2> HIDE DEF Levelled, Lowest
  <2> QED BY <2>2
<1>3. ASSUME NEW x \in DOMAIN ls, ls[x].level = NoLevel, ls[x].parent # NoLogger
      PROVE  value(x) = value(ls[x].parent) /\ ls[x].parent \in DOMAIN ls
  <2>1. ls[x].parent \in DOMAIN ls
    BY <1>3 DEF WellFormed, IsAbove
  <2>2. Chain(ls)[x] = {x} \cup Chain(ls)[ls[x].parent]
    BY <1>3, ChainIs
  <2>3. Levelled(x) = Levelled(ls[x].parent)
    BY <1>3, <2>2
  <2> HIDE DEF Levelled, Lowest
  <2> QED BY <2>1, <2>3
<1> HIDE DEF value
<1>4. \A x \in DOMAIN ls : e[x] = IF ls[x].level # NoLevel THEN ls[x].level
                                  ELSE IF ls[x].parent = NoLogger THEN "OFF"
                                  ELSE e[ls[x].parent]
  BY <1>1, <1>2, <1>3
<1>5. e = [x \in DOMAIN ls |-> e[x]]
  OBVIOUS
<1>6. IsEffective(e, ls)
  <2> HIDE DEF e
  <2> QED BY <1>4, <1>5 DEF IsEffective
<1> QED BY <1>6

LEMMA EffectiveIs ==
  ASSUME NEW ls, WellFormed(ls), NEW x \in DOMAIN ls
  PROVE  EffectiveLevel(ls)[x] = IF ls[x].level # NoLevel THEN ls[x].level
                                 ELSE IF ls[x].parent = NoLogger THEN "OFF"
                                 ELSE EffectiveLevel(ls)[ls[x].parent]
<1> DEFINE h == CHOOSE e : e = [z \in DOMAIN ls |->
                  IF ls[z].level # NoLevel THEN ls[z].level
                  ELSE IF ls[z].parent = NoLogger THEN "OFF"
                  ELSE e[ls[z].parent]]
<1>1. IsEffective(h, ls)
  <2>1. \E e : e = [z \in DOMAIN ls |->
                  IF ls[z].level # NoLevel THEN ls[z].level
                  ELSE IF ls[z].parent = NoLogger THEN "OFF"
                  ELSE e[ls[z].parent]]
    BY EffectiveExists, Zenon DEF IsEffective
  <2> QED BY <2>1, Zenon DEF IsEffective
<1>2. EffectiveLevel(ls) = h
  BY Zenon DEF EffectiveLevel
<1> HIDE DEF h
<1>3. h[x] = IF ls[x].level # NoLevel THEN ls[x].level
             ELSE IF ls[x].parent = NoLogger THEN "OFF"
             ELSE h[ls[x].parent]
  BY <1>1 DEF IsEffective
<1> QED BY <1>2, <1>3

LEMMA EffectiveAgrees ==
  ASSUME NEW ls, NEW ms, WellFormed(ls), WellFormed(ms),
         \A x \in DOMAIN ls \cap DOMAIN ms : ms[x].level = ls[x].level
                                             /\ ms[x].parent = ls[x].parent
  PROVE  \A x \in DOMAIN ls \cap DOMAIN ms : EffectiveLevel(ms)[x] = EffectiveLevel(ls)[x]
<1> DEFINE P == {x \in DOMAIN ls : x \in DOMAIN ms =>
                                     EffectiveLevel(ms)[x] = EffectiveLevel(ls)[x]}
<1>1. ASSUME NEW x \in DOMAIN ls, ls[x].parent = NoLogger \/ ls[x].parent \in P
      PROVE  x \in P
  <2> SUFFICES ASSUME x \in DOMAIN ms PROVE EffectiveLevel(ms)[x] = EffectiveLevel(ls)[x]
    OBVIOUS
  <2>1. ms[x].level = ls[x].level /\ ms[x].parent = ls[x].parent
    OBVIOUS
  <2>2. CASE ls[x].parent = NoLogger
    BY <2>1, <2>2, EffectiveIs
  <2>3. CASE ls[x].parent # NoLogger
    <3>1. ls[x].parent \in DOMAIN ms
      BY <2>1, <2>3 DEF WellFormed, IsAbove
    <3>2. EffectiveLevel(ms)[ls[x].parent] = EffectiveLevel(ls)[ls[x].parent]
      BY <1>1, <2>3, <3>1
    <3> QED BY <2>1, <3>2, EffectiveIs
  <2> QED BY <2>2, <2>3
<1> HIDE DEF P
<1>2. DOMAIN ls \subseteq P
  BY <1>1, FromTheTop
<1> QED BY <1>2 DEF P

LEMMA ParentsAreKept ==
  ASSUME IInv, [Next]_vars
  PROVE  \A x \in DOMAIN loggers \cap DOMAIN loggers' : loggers'[x].parent = loggers[x].parent
<1>1. ASSUME NEW n \in Names, Get(n), NEW x \in DOMAIN loggers
      PROVE  loggers'[x].parent = loggers[x].parent
  BY <1>1, GetFacts DEF Grown
<1>2. ASSUME NEW reg, NEW hld, ReleaseTo(reg, hld), NEW x \in DOMAIN loggers'
      PROVE  loggers'[x].parent = loggers[x].parent
  BY <1>2 DEF ReleaseTo, Restrict
<1>3. ASSUME NEW y, NEW lvl, SetLevel(y, lvl), NEW x \in DOMAIN loggers
      PROVE  loggers'[x].parent = loggers[x].parent
  BY <1>3 DEF SetLevel, IInv, TypeInv, Logger
<1>4. CASE UNCHANGED loggers
  BY <1>4
<1> QED BY <1>1, <1>2, <1>3, <1>4
        DEF Next, GetExistingLoggers, RemoveUnusedLoggers, Release, Reset, vars

HierarchyIsWellFormed == WellFormed(loggers)

LEMMA HierarchyIs == IInv => HierarchyIsWellFormed
BY LoggersAreWellFormed DEF HierarchyIsWellFormed

\* Making and removing loggers changes no effective level, in any hierarchy.
THEOREM EffectiveLevelStays == Spec => EffectiveLevelIsKept
<1>1. ASSUME IInv, IInv', [Next]_vars
      PROVE  [(\A x \in DOMAIN loggers \cap DOMAIN loggers' :
                  loggers'[x].level = loggers[x].level)
              => \A x \in held \cap held' :
                   EffectiveLevel(loggers')[x] = EffectiveLevel(loggers)[x]]_vars
  <2> SUFFICES ASSUME \A x \in DOMAIN loggers \cap DOMAIN loggers' :
                        loggers'[x].level = loggers[x].level
               PROVE  \A x \in held \cap held' :
                        EffectiveLevel(loggers')[x] = EffectiveLevel(loggers)[x]
    OBVIOUS
  <2>1. WellFormed(loggers)
    BY <1>1, LoggersAreWellFormed
  <2>2. WellFormed(loggers')
    <3>1. HierarchyIsWellFormed'
      BY <1>1, HierarchyIs, PTL
    <3> QED BY <3>1 DEF HierarchyIsWellFormed
  <2>3. held \cap held' \subseteq DOMAIN loggers \cap DOMAIN loggers'
    BY <1>1 DEF IInv, TypeInv
  <2>4. \A x \in DOMAIN loggers \cap DOMAIN loggers' :
          EffectiveLevel(loggers')[x] = EffectiveLevel(loggers)[x]
    BY <1>1, <2>1, <2>2, ParentsAreKept, EffectiveAgrees
  <2> QED BY <2>3, <2>4
<1> QED BY <1>1, Invariance, PTL DEF Spec, EffectiveLevelIsKept
=============================================================================

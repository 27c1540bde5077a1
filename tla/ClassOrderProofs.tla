-------------------------- MODULE ClassOrderProofs --------------------------
(***************************************************************************)
(* Proofs about ClassOrder, for every package and every hierarchy: the     *)
(* classes are declared once, after the classes of their chains of first   *)
(* super types, and none is missing when the function returns; and about   *)
(* TSModule and TSImports: what that order is for, the loading of          *)
(* internal.ts, and what the files import from it.                         *)
(***************************************************************************)
EXTENDS TSImports, SequenceTheorems, FiniteSetTheorems, WellFoundedInduction, TLAPS

(***************************************************************************)
(* The classes above a class                                               *)
(***************************************************************************)

\* The first super type of a class is above it.
LEMMA SuperIsAbove ==
  ASSUME NEW c \in Classes, super[c] \in Classes
  PROVE  super[c] \in Above(c)
BY HierarchyAssumption DEF Above

\* What is above a class above c is above c.
LEMMA AboveIsTransitive ==
  ASSUME NEW c \in Classes, NEW a \in Above(c)
  PROVE  Above(a) \subseteq Above(c)
<1> SUFFICES ASSUME NEW b \in Above(a),
                    NEW S \in SUBSET Classes, Closed(S), super[c] \in S \cup {None}
             PROVE  b \in S
  BY DEF Above
<1>1. a \in S
  BY DEF Above
<1>2. super[a] \in S \cup {None}
  BY <1>1 DEF Closed
<1> QED BY <1>2 DEF Above

\* A closed set holds what is above each of its classes.
LEMMA ClosedHoldsAbove ==
  ASSUME NEW S \in SUBSET Classes, Closed(S), NEW c \in S
  PROVE  Above(c) \subseteq S
BY DEF Above, Closed

(***************************************************************************)
(* Sequences of classes                                                    *)
(***************************************************************************)

Distinct(s) == \A i, j \in 1 .. Len(s) : i # j => s[i] # s[j]

\* What a concatenation holds, and where.
LEMMA ConcatNames ==
  ASSUME NEW T, NEW s \in Seq(T), NEW t \in Seq(T)
  PROVE  NamesOf(s \o t) = NamesOf(s) \cup NamesOf(t)
<1>1. /\ Len(s \o t) = Len(s) + Len(t)
      /\ \A i \in 1 .. Len(s) + Len(t) : (s \o t)[i] = IF i <= Len(s) THEN s[i] ELSE t[i - Len(s)]
  BY ConcatProperties
<1>2. Len(s) \in Nat /\ Len(t) \in Nat
  BY LenProperties
<1>3. ASSUME NEW i \in 1 .. Len(t) PROVE t[i] \in NamesOf(s \o t)
  <2>1. Len(s) + i \in 1 .. Len(s) + Len(t)
    BY <1>2
  <2>2. (s \o t)[Len(s) + i] = t[i]
    BY <1>1, <1>2, <2>1
  <2> QED BY <2>1, <2>2, <1>1 DEF NamesOf
<1>4. ASSUME NEW i \in 1 .. Len(s) PROVE s[i] \in NamesOf(s \o t)
  BY <1>1, <1>2 DEF NamesOf
<1>5. ASSUME NEW i \in 1 .. Len(s \o t) PROVE (s \o t)[i] \in NamesOf(s) \cup NamesOf(t)
  BY <1>1, <1>2 DEF NamesOf
<1> QED BY <1>3, <1>4, <1>5 DEF NamesOf

\* Two sequences without repetitions and without a common element make one
\* without repetitions.
LEMMA ConcatDistinct ==
  ASSUME NEW T, NEW s \in Seq(T), NEW t \in Seq(T),
         Distinct(s), Distinct(t), NamesOf(s) \cap NamesOf(t) = {}
  PROVE  Distinct(s \o t)
<1>1. /\ Len(s \o t) = Len(s) + Len(t)
      /\ \A i \in 1 .. Len(s) + Len(t) : (s \o t)[i] = IF i <= Len(s) THEN s[i] ELSE t[i - Len(s)]
  BY ConcatProperties
<1>2. Len(s) \in Nat /\ Len(t) \in Nat
  BY LenProperties
<1> SUFFICES ASSUME NEW i \in 1 .. Len(s) + Len(t), NEW j \in 1 .. Len(s) + Len(t), i # j
             PROVE  (s \o t)[i] # (s \o t)[j]
  BY <1>1 DEF Distinct
<1>3. CASE i <= Len(s) /\ j <= Len(s)
  BY <1>1, <1>2, <1>3 DEF Distinct
<1>7. ASSUME NEW k \in 1 .. Len(s) + Len(t)
      PROVE  /\ k <= Len(s) => (s \o t)[k] \in NamesOf(s)
             /\ k > Len(s) => (s \o t)[k] \in NamesOf(t)
  <2>1. k <= Len(s) => k \in 1 .. Len(s) /\ (s \o t)[k] = s[k]
    BY <1>1, <1>2
  <2>2. k > Len(s) => k - Len(s) \in 1 .. Len(t) /\ (s \o t)[k] = t[k - Len(s)]
    BY <1>1, <1>2
  <2> QED BY <2>1, <2>2 DEF NamesOf
<1>4. CASE i <= Len(s) /\ j > Len(s)
  BY <1>4, <1>7
<1>5. CASE i > Len(s) /\ j <= Len(s)
  BY <1>5, <1>7
<1>6. CASE i > Len(s) /\ j > Len(s)
  BY <1>1, <1>2, <1>6 DEF Distinct
<1> QED BY <1>2, <1>3, <1>4, <1>5, <1>6

\* The elements of <<c>> \o s.
LEMMA Prepended ==
  ASSUME NEW T, NEW c \in T, NEW s \in Seq(T)
  PROVE  /\ <<c>> \o s \in Seq(T)
         /\ Len(<<c>> \o s) = Len(s) + 1
         /\ (<<c>> \o s)[1] = c
         /\ \A i \in 2 .. Len(s) + 1 : (<<c>> \o s)[i] = s[i - 1]
         /\ NamesOf(<<c>> \o s) = {c} \cup NamesOf(s)
<1>1. <<c>> \in Seq(T) /\ Len(<<c>>) = 1 /\ <<c>>[1] = c
  OBVIOUS
<1>2. NamesOf(<<c>>) = {c}
  BY <1>1 DEF NamesOf
<1>3. Len(s) \in Nat
  BY LenProperties
<1>4. /\ <<c>> \o s \in Seq(T)
      /\ Len(<<c>> \o s) = 1 + Len(s)
      /\ \A i \in 1 .. 1 + Len(s) : (<<c>> \o s)[i] = IF i <= 1 THEN <<c>>[i] ELSE s[i - 1]
  BY <1>1, ConcatProperties
<1>5. NamesOf(<<c>> \o s) = NamesOf(<<c>>) \cup NamesOf(s)
  BY <1>1, ConcatNames
<1>6. (<<c>> \o s)[1] = c
  BY <1>1, <1>3, <1>4
<1>7. \A i \in 2 .. Len(s) + 1 : (<<c>> \o s)[i] = s[i - 1]
  BY <1>3, <1>4
<1>8. Len(<<c>> \o s) = Len(s) + 1
  BY <1>3, <1>4
<1> QED BY <1>2, <1>4, <1>5, <1>6, <1>7, <1>8

(***************************************************************************)
(* The inductive invariant                                                 *)
(***************************************************************************)

\* What the walk up a chain knows: the classes visited so far lead to cur.
Walk ==
  walking =>
    /\ at \in 1 .. Len(Classifiers)
    /\ Classifiers[at] \in Classes
    /\ Classifiers[at] \in visited \cup {cur}
    /\ \A d \in visited : super[d] \in visited \cup {cur, None}
    /\ cur # None => \A d \in visited : cur \in Above(d)

\* What is placed is in the result or in the chain, once.
Places ==
  /\ placed = NamesOf(result) \cup NamesOf(chain)
  /\ NamesOf(result) \cap NamesOf(chain) = {}
  /\ Distinct(result)
  /\ Distinct(chain)
  /\ visited \cap Package \subseteq placed
  /\ NamesOf(chain) \subseteq visited
  /\ ~walking => chain = <<>>

\* The chain goes down, and the result holds what is above its classes.
Ordering ==
  /\ \A i, j \in 1 .. Len(chain) : i < j => chain[i] \in Above(chain[j])
  /\ \A d \in NamesOf(result) : Above(d) \cap Package \subseteq NamesOf(result)
  /\ NoInversion(result)

\* The classes of the classifiers already taken are placed.
Progress ==
  \A k \in 1 .. at :
    Classifiers[k] \in Classes => Classifiers[k] \in placed \/ (walking /\ k = at)

IInv == TypeOK /\ Walk /\ Places /\ Ordering /\ Progress

\* The order holds of what is placed, by the conjuncts of the invariant.
LEMMA InOrder ==
  ASSUME TypeOK, Places, Ordering
  PROVE  NoInversion(result \o chain)
<1>1. result \in Seq(Package) /\ chain \in Seq(Package)
  BY DEF TypeOK
<1>2. /\ Len(result \o chain) = Len(result) + Len(chain)
      /\ \A i \in 1 .. Len(result) + Len(chain) :
           (result \o chain)[i] = IF i <= Len(result) THEN result[i] ELSE chain[i - Len(result)]
  BY <1>1, ConcatProperties
<1>3. Len(result) \in Nat /\ Len(chain) \in Nat
  BY <1>1, LenProperties
<1> DEFINE s == result \o chain
<1> SUFFICES ASSUME NEW i \in 1 .. Len(result) + Len(chain),
                    NEW j \in 1 .. Len(result) + Len(chain),
                    i < j, s[j] \in Above(s[i])
             PROVE  s[i] \in Above(s[j])
  BY <1>2 DEF NoInversion
<1>4. CASE j <= Len(result)
  BY <1>2, <1>3, <1>4 DEF Ordering, NoInversion
<1>5. CASE i > Len(result)
  <2>1. i - Len(result) \in 1 .. Len(chain) /\ j - Len(result) \in 1 .. Len(chain)
    BY <1>3, <1>5
  <2>2. s[i] = chain[i - Len(result)] /\ s[j] = chain[j - Len(result)]
    BY <1>2, <1>3, <1>5
  <2>3. i - Len(result) < j - Len(result)
    BY <1>3
  <2> QED BY <2>1, <2>2, <2>3 DEF Ordering
<1>6. CASE i <= Len(result) /\ j > Len(result)
  <2>1. s[i] \in NamesOf(result)
    BY <1>2, <1>3, <1>6 DEF NamesOf
  <2>2. j - Len(result) \in 1 .. Len(chain) /\ s[j] = chain[j - Len(result)]
    BY <1>2, <1>3, <1>6
  <2>3. s[j] \in NamesOf(chain) /\ s[j] \in Package
    BY <2>2, <1>1, ElementOfSeq DEF NamesOf
  <2>4. s[j] \in NamesOf(result)
    BY <2>1, <2>3 DEF Ordering
  <2> QED BY <2>3, <2>4 DEF Places
<1> QED BY <1>3, <1>4, <1>5, <1>6

\* The initial state satisfies the invariant.
LEMMA InitInv == Init => IInv
<1> SUFFICES ASSUME Init PROVE IInv
  OBVIOUS
<1>1. Len(Classifiers) \in Nat
  BY HierarchyAssumption, LenProperties
<1>2. NamesOf(<<>>) = {} /\ Len(<<>>) = 0 /\ <<>> \in Seq(Package)
  BY EmptySeq DEF NamesOf
<1>3. TypeOK
  <2>1. at \in 0 .. Len(Classifiers)
    BY <1>1 DEF Init
  <2>2. chain \in Seq(Package) /\ result \in Seq(Package)
    BY <1>2 DEF Init
  <2>3. walking \in BOOLEAN
    BY DEF Init
  <2> QED BY <2>1, <2>2, <2>3 DEF Init, TypeOK
<1>4. Walk
  BY DEF Init, Walk
<1>5. Places
  BY <1>2 DEF Init, Places, Distinct
<1>6. Ordering
  BY <1>2 DEF Init, Ordering, NoInversion
<1>7. Progress
  BY DEF Init, Progress
<1> QED BY <1>3, <1>4, <1>5, <1>6, <1>7 DEF IInv

\* A classifier is taken.
LEMMA TakeInv == IInv /\ TakeClassifier => IInv'
<1> SUFFICES ASSUME IInv, TakeClassifier PROVE IInv'
  OBVIOUS
<1> USE DEF IInv, TakeClassifier
<1>1. Len(Classifiers) \in Nat /\ at \in Nat /\ at' = at + 1 /\ at' \in 1 .. Len(Classifiers)
  BY HierarchyAssumption, LenProperties DEF TypeOK
<1>2. Classifiers[at'] \in Classes => Classifiers[at'] \in Package
  BY <1>1 DEF Package, NamesOf
<1>3. NamesOf(<<>>) = {} /\ Len(<<>>) = 0 /\ <<>> \in Seq(Package)
  BY EmptySeq DEF NamesOf
<1>4. chain = <<>> /\ chain' = <<>>
  BY DEF Places
<1>5. TypeOK'
  <2>1. at' \in 0 .. Len(Classifiers)
    BY <1>1
  <2>2. chain' \in Seq(Package) /\ result' \in Seq(Package)
    BY <1>3, <1>4 DEF TypeOK
  <2>3. walking' \in BOOLEAN
    BY DEF TypeOK
  <2>4. cur' \in Classes \cup {None}
    BY DEF TypeOK
  <2> QED BY <2>1, <2>2, <2>3, <2>4 DEF TypeOK
<1>6. Walk'
  BY <1>1 DEF Walk
<1>7. Places'
  BY <1>3, <1>4 DEF Places, Distinct
<1>8. Ordering'
  BY <1>3, <1>4 DEF Ordering, NoInversion, Above, Closed
<1>9. Progress'
  <2> SUFFICES ASSUME NEW k \in 1 .. at', Classifiers[k] \in Classes
               PROVE  Classifiers[k] \in placed' \/ (walking' /\ k = at')
    BY DEF Progress
  <2>1. CASE k = at'
    BY <2>1
  <2>2. CASE k # at'
    BY <1>1, <2>2 DEF Progress
  <2> QED BY <2>1, <2>2
<1> QED BY <1>5, <1>6, <1>7, <1>8, <1>9

\* A class of the chain is visited.
LEMMA ClimbInv == IInv /\ Climb => IInv'
<1> SUFFICES ASSUME IInv, Climb PROVE IInv'
  OBVIOUS
<1> USE DEF IInv, Climb, CanClimb, firstSuperType, AlreadyPlaced
<1>1. /\ cur \in Classes
      /\ super[cur] \in Classes \cup {None}
      /\ chain \in Seq(Package)
      /\ Len(chain) \in Nat
  BY LenProperties DEF TypeOK
<1>2. \A d \in Classes : Above(d)' = Above(d)
  BY DEF Above, Closed
<1>3. visited \subseteq Classes /\ Package \subseteq Classes
  BY DEF TypeOK, Package
<1>4. Walk'
  <2>1. ASSUME super[cur] # None, NEW d \in visited \cup {cur}
        PROVE  super[cur] \in Above(d)
    <3>1. super[cur] \in Above(cur)
      BY <1>1, <2>1, SuperIsAbove
    <3>2. CASE d = cur
      BY <3>1, <3>2
    <3>3. CASE d \in visited
      <4>1. cur \in Above(d)
        BY <3>3 DEF Walk
      <4> QED BY <3>1, <3>3, <1>3, <4>1, AboveIsTransitive
    <3> QED BY <3>2, <3>3
  <2>2. \A d \in visited' : super'[d] \in visited' \cup {cur', None}
    BY DEF Walk
  <2>3. cur' # None => \A d \in visited' : cur' \in Above(d)'
    BY <1>1, <1>2, <1>3, <2>1
  <2> QED BY <2>2, <2>3 DEF Walk
<1>5. CASE cur \in Package /\ cur \notin placed
  <2>1. /\ chain' = <<cur>> \o chain
        /\ chain' \in Seq(Package)
        /\ Len(chain') = Len(chain) + 1
        /\ chain'[1] = cur
        /\ \A i \in 2 .. Len(chain) + 1 : chain'[i] = chain[i - 1]
        /\ NamesOf(chain') = {cur} \cup NamesOf(chain)
    <3>1. chain' = <<cur>> \o chain
      BY <1>5 DEF ChainWith
    <3>2. cur \in Package
      BY <1>5
    <3> QED BY <1>1, <3>1, <3>2, Prepended
  <2>2. cur \notin NamesOf(chain) /\ cur \notin NamesOf(result)
    BY <1>5 DEF Places
  <2>3. TypeOK'
    BY <1>1, <1>5, <2>1 DEF TypeOK
  <2>4. Distinct(chain')
    <3> SUFFICES ASSUME NEW i \in 1 .. Len(chain) + 1, NEW j \in 1 .. Len(chain) + 1, i < j
                 PROVE  chain'[i] # chain'[j]
      BY <1>1, <2>1 DEF Distinct
    <3>1. j - 1 \in 1 .. Len(chain) /\ chain'[j] = chain[j - 1]
      BY <1>1, <2>1
    <3>2. CASE i = 1
      BY <2>1, <2>2, <3>1, <3>2 DEF NamesOf
    <3>3. CASE i # 1
      <4>1. i - 1 \in 1 .. Len(chain) /\ chain'[i] = chain[i - 1] /\ i - 1 # j - 1
        BY <1>1, <2>1, <3>3
      <4> QED BY <3>1, <4>1 DEF Places, Distinct
    <3> QED BY <3>2, <3>3
  <2>5. Places'
    BY <1>5, <2>1, <2>2, <2>4 DEF Places
  <2>6. ASSUME NEW i \in 1 .. Len(chain'), NEW j \in 1 .. Len(chain'), i < j
        PROVE  chain'[i] \in Above(chain'[j])
    <3>1. j - 1 \in 1 .. Len(chain) /\ chain'[j] = chain[j - 1]
      BY <1>1, <2>1, <2>6
    <3>2. chain[j - 1] \in visited
      BY <3>1 DEF Places, NamesOf
    <3>3. CASE i = 1
      BY <2>1, <3>1, <3>2, <3>3 DEF Walk
    <3>4. CASE i # 1
      <4>1. i - 1 \in 1 .. Len(chain) /\ chain'[i] = chain[i - 1] /\ i - 1 < j - 1
        BY <1>1, <2>1, <2>6, <3>4
      <4> QED BY <3>1, <4>1 DEF Ordering
    <3> QED BY <3>3, <3>4
  <2>7. \A c \in Package : Above(c)' = Above(c)
    BY <1>2, <1>3
  <2>8. \A i \in 1 .. Len(chain') : chain'[i] \in Package
    BY <2>1, ElementOfSeq
  <2>9. \A i, j \in 1 .. Len(chain') : i < j => chain'[i] \in Above(chain[j])'
    BY <2>6, <2>7, <2>8
  <2>10. /\ \A d \in NamesOf(result') : Above(d)' \cap Package \subseteq NamesOf(result')
         /\ NoInversion(result)'
    BY DEF Ordering, NoInversion, Above, Closed
  <2>11. Ordering'
    BY <2>9, <2>10 DEF Ordering
  <2>12. Progress'
    BY <1>5 DEF Progress
  <2> QED BY <1>4, <2>3, <2>5, <2>11, <2>12
<1>6. CASE ~(cur \in Package /\ cur \notin placed)
  <2>1. placed' = placed /\ chain' = chain
    BY <1>6
  <2>2. TypeOK'
    BY <1>1, <2>1 DEF TypeOK
  <2>3. Places'
    BY <1>6, <2>1 DEF Places
  <2>4. Ordering'
    BY <2>1 DEF Ordering, NoInversion, Above, Closed
  <2>5. Progress'
    BY <2>1 DEF Progress
  <2> QED BY <1>4, <2>2, <2>3, <2>4, <2>5
<1> QED BY <1>5, <1>6

\* The chain is added to the result.
LEMMA EndInv == IInv /\ EndChain => IInv'
<1> SUFFICES ASSUME IInv, EndChain PROVE IInv'
  OBVIOUS
<1> USE DEF IInv, EndChain, CanClimb, ResultWithChain
<1>1. /\ result \in Seq(Package) /\ chain \in Seq(Package)
      /\ visited \in SUBSET Classes
      /\ Package \subseteq Classes
  BY DEF TypeOK, Package
<1>2. NamesOf(<<>>) = {} /\ Len(<<>>) = 0 /\ <<>> \in Seq(Package)
  BY EmptySeq DEF NamesOf
<1>3. NamesOf(result') = NamesOf(result) \cup NamesOf(chain)
  BY <1>1, ConcatNames
<1>4. cur = None \/ cur \in visited
  OBVIOUS
<1>5. Closed(visited)
  BY <1>4 DEF Walk, Closed
<1>6. TypeOK'
  BY <1>1, <1>2, ConcatProperties DEF TypeOK
<1>7. Walk'
  BY DEF Walk
<1>8. Places'
  <2>1. Distinct(result')
    BY <1>1, ConcatDistinct DEF Places
  <2> QED BY <1>2, <1>3, <2>1 DEF Places, Distinct
<1>9. Ordering'
  <2>1. ASSUME NEW d \in NamesOf(result')
        PROVE  Above(d) \cap Package \subseteq NamesOf(result')
    <3>1. CASE d \in NamesOf(result)
      BY <1>3, <3>1 DEF Ordering
    <3>2. CASE d \in NamesOf(chain)
      <4>1. Above(d) \subseteq visited
        BY <1>1, <1>5, <3>2, ClosedHoldsAbove DEF Places
      <4> QED BY <1>3, <4>1 DEF Places
    <3> QED BY <1>3, <3>1, <3>2
  <2>2. NoInversion(result')
    BY InOrder
  <2>3. /\ \A d \in NamesOf(result') : Above(d)' \cap Package \subseteq NamesOf(result')
        /\ NoInversion(result)'
    BY <2>1, <2>2 DEF NoInversion, Above, Closed
  <2> QED BY <1>2, <2>3 DEF Ordering
<1>10. Progress'
  <2> SUFFICES ASSUME NEW k \in 1 .. at, Classifiers[k] \in Classes
               PROVE  Classifiers[k] \in placed
    BY DEF Progress
  <2>1. CASE k = at
    <3>1. Classifiers[at] \in visited
      BY <1>4, HierarchyAssumption, <2>1 DEF Walk
    <3>2. Classifiers[at] \in Package
      BY <2>1 DEF Package, NamesOf, Walk
    <3> QED BY <2>1, <3>1, <3>2 DEF Places
  <2>2. CASE k # at
    BY <2>2 DEF Progress
  <2> QED BY <2>1, <2>2
<1> QED BY <1>6, <1>7, <1>8, <1>9, <1>10

\* Every step keeps the invariant.
LEMMA StepInv == IInv /\ [Next]_vars => IInv'
<1> SUFFICES ASSUME IInv, [Next]_vars PROVE IInv'
  OBVIOUS
<1>1. CASE TakeClassifier
  BY <1>1, TakeInv
<1>2. CASE Climb
  BY <1>2, ClimbInv
<1>3. CASE EndChain
  BY <1>3, EndInv
<1>4. CASE UNCHANGED vars
  <2>1. TypeOK' /\ Walk'
    BY <1>4 DEF vars, IInv, TypeOK, Walk, Above, Closed
  <2>2. Places' /\ Progress'
    BY <1>4 DEF vars, IInv, Places, Progress
  <2>3. Ordering'
    BY <1>4 DEF vars, IInv, Ordering, NoInversion, Above, Closed
  <2> QED BY <2>1, <2>2, <2>3 DEF IInv
<1> QED BY <1>1, <1>2, <1>3, <1>4 DEF Next

\* The invariant holds in every state.
THEOREM Invariance == Spec => []IInv
BY InitInv, StepInv, PTL DEF Spec

\* No class comes before a class that is above it, unless they are on a cycle,
\* whatever the hierarchy and the order of the classifiers.
THEOREM ClassesAreOrdered == Spec => []ChainsPrecede
<1>1. IInv => ChainsPrecede
  BY InOrder DEF IInv, ChainsPrecede
<1> QED BY <1>1, Invariance, PTL

\* A class that several chains go through is declared once.
THEOREM ClassesArePlacedOnce == Spec => []PlacedOnce
<1>1. ASSUME IInv PROVE Distinct(result \o chain)
  <2>1. result \in Seq(Package) /\ chain \in Seq(Package)
    BY <1>1 DEF IInv, TypeOK
  <2> QED BY <1>1, <2>1, ConcatDistinct DEF IInv, Places
<1>2. IInv => PlacedOnce
  BY <1>1 DEF PlacedOnce, Distinct
<1> QED BY <1>2, Invariance, PTL

\* When the function has taken every classifier, no class is missing.
LEMMA NoneIsMissing ==
  ASSUME IInv, Returned
  PROVE  NamesOf(result) = Package
<1>1. placed = NamesOf(result)
  BY EmptySeq DEF IInv, Places, Returned, NamesOf
<1>2. ASSUME NEW c \in Package PROVE c \in placed
  <2>1. PICK k \in 1 .. Len(Classifiers) : Classifiers[k] = c
    BY DEF Package, NamesOf
  <2> QED BY <2>1 DEF IInv, Progress, Returned, Package
<1> QED BY <1>1, <1>2 DEF IInv, TypeOK

\* When the function returns, every class of the package is declared and
\* nothing else is.
THEOREM ClassesAreAllPlaced == Spec => []EveryClassPlaced
BY NoneIsMissing, ClassesArePlacedOnce, Invariance, PTL DEF EveryClassPlaced

(***************************************************************************)
(* The class that an implementation extends                                *)
(***************************************************************************)

\* What a climb goes through holds the first super type of each interface in it.
LEMMA ClimbGoesUp ==
  ASSUME super \in [Classes -> Classes \cup {None}], interfaces \subseteq Classes, NEW c \in Classes
  PROVE  /\ super[c] \in Climbed(c)
         /\ \A b \in Climbed(c) : b \in interfaces => super[b] \in Climbed(c)
<1> SUFFICES ASSUME NEW S \in SUBSET (Classes \cup {None}), super[c] \in S,
                    \A a \in S \cap interfaces : super[a] \in S,
                    NEW b \in Climbed(c), b \in interfaces
             PROVE  super[b] \in S
  BY DEF Climbed
<1>1. b \in S
  BY DEF Climbed
<1> QED BY <1>1

\* A climb stays among the classes above the one it leaves.
LEMMA ClimbIsAbove ==
  ASSUME super \in [Classes -> Classes \cup {None}], interfaces \subseteq Classes,
         NEW c \in Classes, NEW b \in Climbed(c), b # None
  PROVE  b \in Above(c)
<1> DEFINE S == Above(c) \cup {None}
<1>1. S \in SUBSET (Classes \cup {None})
  BY DEF Above
<1>2. super[c] \in S
  BY SuperIsAbove
<1>3. ASSUME NEW a \in Above(c) PROVE super[a] \in S
  <2>1. a \in Classes /\ super[a] \in Classes \cup {None}
    BY DEF Above
  <2>2. super[a] \in Classes => super[a] \in Above(a)
    BY <2>1, SuperIsAbove
  <2> QED BY <2>1, <2>2, AboveIsTransitive
<1>4. \A a \in S \cap interfaces : super[a] \in S
  BY <1>3, HierarchyAssumption
<1> HIDE DEF S
<1>5. b \in S
  BY <1>1, <1>2, <1>4 DEF Climbed
<1> QED BY <1>5 DEF S

\* A set that is not empty and holds the first super type of each of its classes.
Endless(T) == T # {} /\ T \subseteq Classes /\ \A a \in T : super[a] \in T

\* A finite one has a cycle.
LEMMA EndlessIsCyclic ==
  ASSUME super \in [Classes -> Classes \cup {None}], NEW S, Endless(S)
  PROVE  ~Acyclic
<1> DEFINE K == {Cardinality(T) : T \in {T \in SUBSET Classes : Endless(T)}}
<1>1. \A T \in SUBSET Classes : IsFiniteSet(T) /\ Cardinality(T) \in Nat
  BY ModuleAssumption, FS_Subset, FS_CardinalityType
<1>2. K \subseteq Nat /\ K # {}
  BY <1>1 DEF Endless
<1>3. PICK x \in K : \A y \in K : ~(y < x)
  <2> HIDE DEF K
  <2>1. PICK x \in K : \A y \in K : ~(<<y, x>> \in OpToRel(<, Nat))
    BY <1>2, NatLessThanWellFounded, WFMin, Zenon
  <2> QED BY <1>2, <2>1, Zenon DEF OpToRel
<1>4. PICK T \in SUBSET Classes : Endless(T) /\ x = Cardinality(T)
  OBVIOUS
<1>5. PICK a \in T : TRUE
  BY <1>4 DEF Endless
<1>6. Above(a) \subseteq T
  <2>1. Closed(T) /\ super[a] \in T
    BY <1>4, <1>5 DEF Endless, Closed
  <2> QED BY <2>1 DEF Above
<1>7. Endless(Above(a))
  <2>1. super[a] \in Above(a)
    BY <1>4, <1>5, SuperIsAbove DEF Endless
  <2>2. ASSUME NEW b \in Above(a) PROVE super[b] \in Above(a)
    <3>1. b \in T /\ super[b] \in T /\ b \in Classes /\ super[b] \in Classes
      BY <1>4, <1>6 DEF Endless
    <3>2. super[b] \in Above(b)
      BY <3>1, SuperIsAbove
    <3> QED BY <1>4, <1>5, <3>2, AboveIsTransitive
  <2>3. Above(a) \subseteq Classes
    BY DEF Above
  <2> QED BY <2>1, <2>2, <2>3 DEF Endless
<1>8. Cardinality(Above(a)) \in K
  BY <1>7 DEF Endless
<1>9. Above(a) = T
  <2>1. Cardinality(Above(a)) <= Cardinality(T) /\ (Cardinality(T) = Cardinality(Above(a)) => T = Above(a))
    BY <1>1, <1>6, FS_Subset
  <2>2. ~(Cardinality(Above(a)) < Cardinality(T))
    BY <1>3, <1>4, <1>8
  <2>3. Cardinality(Above(a)) \in Nat /\ Cardinality(T) \in Nat
    BY <1>1, <1>6
  <2> QED BY <2>1, <2>2, <2>3
<1> QED BY <1>4, <1>5, <1>9 DEF Acyclic

\* So a climb comes to a class that is no interface, or to the end of the chain.
LEMMA ClimbEnds ==
  ASSUME super \in [Classes -> Classes \cup {None}], interfaces \subseteq Classes, Acyclic,
         NEW c \in Classes
  PROVE  ExtendsClass(c) \in Climbed(c) /\ ExtendsClass(c) \notin interfaces
<1> SUFFICES \E b \in Climbed(c) : b \notin interfaces
  BY DEF ExtendsClass
<1> SUFFICES ASSUME Climbed(c) \subseteq interfaces
             PROVE  FALSE
  OBVIOUS
<1>1. super[c] \in Climbed(c) /\ \A b \in Climbed(c) : super[b] \in Climbed(c)
  BY ClimbGoesUp
<1>2. Endless(Climbed(c))
  BY <1>1 DEF Endless
<1> QED BY <1>2, EndlessIsCyclic

\* The class that an implementation extends is before it in the order.
LEMMA BaseIsBefore ==
  ASSUME IInv, Returned, Acyclic, interfaces \subseteq Classes,
         NEW n \in 1 .. Len(result), ExtendsClass(result[n]) \in Package
  PROVE  /\ ExtendsClass(result[n]) \notin interfaces
         /\ \E k \in 1 .. n - 1 : result[k] = ExtendsClass(result[n])
<1> DEFINE c == result[n]
           b == ExtendsClass(c)
<1>1. /\ super \in [Classes -> Classes \cup {None}] /\ result \in Seq(Package) /\ Len(result) \in Nat
      /\ Package \subseteq Classes /\ c \in Package
  BY LenProperties, ElementOfSeq DEF IInv, TypeOK, Package
<1>2. b \in Climbed(c) /\ b \notin interfaces
  BY <1>1, ClimbEnds
<1>3. b \in Above(c)
  <2>1. b # None
    BY <1>1, HierarchyAssumption
  <2> HIDE DEF b, c
  <2> QED BY <1>1, <1>2, <2>1, ClimbIsAbove
<1>4. NoInversion(result)
  BY DEF IInv, Ordering
<1>5. b \in NamesOf(result)
  <2>1. n \in 1 .. Len(result) => c \in NamesOf(result)
    BY DEF NamesOf
  <2>2. Above(c) \cap Package \subseteq NamesOf(result)
    BY <2>1 DEF IInv, Ordering
  <2> QED BY <1>3, <2>2
<1> HIDE DEF b
<1>6. PICK k \in 1 .. Len(result) : result[k] = b
  BY <1>5 DEF NamesOf
<1>7. k < n
  <2> SUFFICES ASSUME ~(k < n) PROVE FALSE
    OBVIOUS
  <2>1. CASE k = n
    BY <1>1, <1>3, <1>6, <2>1 DEF Acyclic
  <2>2. CASE n < k
    <3>1. c \in Above(b)
      BY <1>3, <1>4, <1>6, <2>2 DEF NoInversion
    <3>2. c \in Above(c)
      BY <1>1, <1>3, <3>1, AboveIsTransitive
    <3> QED BY <1>1, <3>2 DEF Acyclic
  <2>3. k \in Nat /\ n \in Nat
    BY <1>1
  <2> QED BY <2>1, <2>2, <2>3
<1> QED BY <1>1, <1>2, <1>6, <1>7 DEF b
(***************************************************************************)
(* The inductive invariant of the module                                   *)
(***************************************************************************)

FileKinds == {"interface", "implementation", "extension", "enum", "constants"}

ModuleFiles == FileKinds \X (Classes \cup NamesOf(Enums) \cup {"Package", Factory})

\* The files that ClassExports lists.
ClassFiles(c) ==
  {File("implementation", c)} \cup {f \in {File("extension", c)} : c \in extended}

\* The files that interfaceExports and exportsBefore list.
FilesOfInterfaces == InterfacesOf(NamesOf(result)) \cup EnumFiles \cup PackageInterfaceFiles

FilesBefore == IF mode = "implementations" THEN {} ELSE FilesOfInterfaces

\* The files that exportsAfter lists.
FilesAfter ==
  IF mode = "implementations" THEN {File("implementation", Factory)}
  ELSE PackageImplementationFiles \cup {f \in {File("extension", Factory)} : Factory \in extended}

\* The files of the classes that the loop has taken, interfaces excluded.
FilesTaken(n) == UNION {ClassFiles(result[i]) : i \in {i \in 1 .. n : result[i] \notin interfaces}}

\* The files that can be evaluated in the order of the sequence.
Sound(s) == \A k \in 1 .. Len(s) : Needs(s[k]) \subseteq {s[m] : m \in 1 .. k - 1}

StageOK ==
  /\ interfaces \subseteq Classes
  /\ mode \in {"model", "interfaces", "implementations"}
  /\ stage \in {"none", "exporting", "written"}
  /\ exported \in 0 .. Len(result)
  /\ stage = "none" => exported = 0 /\ internal = <<>>
  /\ stage # "none" => Returned /\ Acyclic
  /\ stage # "none" /\ mode = "interfaces" => exported = 0
  /\ stage = "written" /\ mode # "interfaces" => exported = Len(result)

\* The exports listed so far.
ExportsOK ==
  /\ internal \in Seq(ModuleFiles)
  /\ stage = "exporting" => NamesOf(internal) = FilesBefore \cup FilesTaken(exported)
  /\ stage = "written" => NamesOf(internal) = FilesBefore \cup FilesTaken(exported) \cup FilesAfter
  /\ SubClasses = {} => Sound(internal)

LoadedOK ==
  /\ loaded \in Seq(ModuleFiles)
  /\ Len(loaded) <= Len(internal)
  /\ \A k \in 1 .. Len(loaded) : loaded[k] = internal[k]
  /\ stage # "written" => loaded = <<>>
  /\ SubClasses = {} => ~failed

ModuleInv == IInv /\ StageOK /\ ExportsOK /\ LoadedOK
(***************************************************************************)
(* What the exports list                                                   *)
(***************************************************************************)

\* The files of one kind, of each element of a sequence.
FileOfEach(kind, s) == [i \in DOMAIN s |-> File(kind, s[i])]

\* It is a sequence of files, one for each element.
LEMMA FilesOfEach ==
  ASSUME NEW T, NEW s \in Seq(T), NEW kind, NEW U, {kind} \X T \subseteq U
  PROVE  /\ FileOfEach(kind, s) \in Seq(U)
         /\ NamesOf(FileOfEach(kind, s)) = {File(kind, x) : x \in NamesOf(s)}
<1> DEFINE t == FileOfEach(kind, s)
<1>1. DOMAIN s = 1 .. Len(s) /\ Len(s) \in Nat /\ \A i \in 1 .. Len(s) : s[i] \in T
  BY LenProperties, ElementOfSeq
<1>2. t \in [1 .. Len(s) -> U]
  BY <1>1 DEF FileOfEach, File
<1>3. t \in Seq(U)
  BY <1>1, <1>2, IsASeq
<1>4. Len(t) = Len(s)
  BY <1>1, <1>2, <1>3, LenProperties
<1>5. \A i \in 1 .. Len(s) : t[i] = File(kind, s[i])
  BY <1>1 DEF FileOfEach
<1> HIDE DEF t
<1>6. NamesOf(t) = {File(kind, x) : x \in NamesOf(s)}
  BY <1>4, <1>5 DEF NamesOf
<1> QED BY <1>3, <1>6 DEF t

\* A short sequence of files.
LEMMA OneFile ==
  ASSUME NEW T, NEW f \in T
  PROVE  /\ <<f>> \in Seq(T) /\ Len(<<f>>) = 1 /\ <<f>>[1] = f
         /\ NamesOf(<<f>>) = {f}
<1>1. <<f>> \in Seq(T) /\ Len(<<f>>) = 1 /\ <<f>>[1] = f
  OBVIOUS
<1> QED BY <1>1 DEF NamesOf

LEMMA TwoFiles ==
  ASSUME NEW T, NEW f \in T, NEW g \in T
  PROVE  /\ <<f, g>> \in Seq(T) /\ Len(<<f, g>>) = 2 /\ <<f, g>>[1] = f /\ <<f, g>>[2] = g
         /\ NamesOf(<<f, g>>) = {f, g}
<1>1. <<f, g>> \in Seq(T) /\ Len(<<f, g>>) = 2 /\ <<f, g>>[1] = f /\ <<f, g>>[2] = g
  OBVIOUS
<1> QED BY <1>1 DEF NamesOf

LEMMA ThreeFiles ==
  ASSUME NEW T, NEW f \in T, NEW g \in T, NEW h \in T
  PROVE  /\ <<f, g, h>> \in Seq(T) /\ Len(<<f, g, h>>) = 3
         /\ NamesOf(<<f, g, h>>) = {f, g, h}
<1>1. /\ <<f, g, h>> \in Seq(T) /\ Len(<<f, g, h>>) = 3
      /\ <<f, g, h>>[1] = f /\ <<f, g, h>>[2] = g /\ <<f, g, h>>[3] = h
  OBVIOUS
<1> QED BY <1>1 DEF NamesOf

\* The elements of a concatenation, by their places.
LEMMA ConcatFiles ==
  ASSUME NEW T, NEW s \in Seq(T), NEW t \in Seq(T)
  PROVE  /\ s \o t \in Seq(T)
         /\ Len(s) \in Nat /\ Len(t) \in Nat
         /\ Len(s \o t) = Len(s) + Len(t)
         /\ \A i \in 1 .. Len(s) : (s \o t)[i] = s[i]
         /\ \A i \in 1 .. Len(t) : (s \o t)[Len(s) + i] = t[i]
         /\ NamesOf(s \o t) = NamesOf(s) \cup NamesOf(t)
<1>1. Len(s) \in Nat /\ Len(t) \in Nat
  BY LenProperties
<1>2. s \o t \in Seq(T) /\ Len(s \o t) = Len(s) + Len(t)
  BY ConcatProperties
<1>3. \A i \in 1 .. Len(s) + Len(t) : (s \o t)[i] = IF i <= Len(s) THEN s[i] ELSE t[i - Len(s)]
  BY ConcatProperties
<1>4. \A i \in 1 .. Len(s) : (s \o t)[i] = s[i]
  BY <1>1, <1>3
<1>5. ASSUME NEW i \in 1 .. Len(t) PROVE (s \o t)[Len(s) + i] = t[i]
  <2>1. Len(s) + i \in 1 .. Len(s) + Len(t) /\ ~(Len(s) + i <= Len(s)) /\ Len(s) + i - Len(s) = i
    BY <1>1
  <2> QED BY <1>3, <2>1
<1>6. NamesOf(s \o t) = NamesOf(s) \cup NamesOf(t)
  BY ConcatNames
<1> QED BY <1>1, <1>2, <1>4, <1>5, <1>6

\* The exports of a class.
LEMMA ExportsOfClass ==
  ASSUME NEW c \in Classes
  PROVE  /\ ClassExports(c) \in Seq(ModuleFiles)
         /\ NamesOf(ClassExports(c)) = ClassFiles(c)
         /\ ClassExports(c)[1] = File("implementation", c)
         /\ Len(ClassExports(c)) \in {1, 2}
         /\ Len(ClassExports(c)) = 2 => ClassExports(c)[2] = File("extension", c)
<1>1. File("implementation", c) \in ModuleFiles /\ File("extension", c) \in ModuleFiles
  BY DEF File, ModuleFiles, FileKinds
<1>2. CASE c \in extended
  BY <1>1, <1>2, TwoFiles DEF ClassExports, ClassFiles
<1>3. CASE c \notin extended
  BY <1>1, <1>3, OneFile DEF ClassExports, ClassFiles
<1> QED BY <1>2, <1>3

\* The exports that come first.
LEMMA InterfacesAreListed ==
  ASSUME result \in Seq(Package)
  PROVE  interfaceExports \in Seq(ModuleFiles) /\ NamesOf(interfaceExports) = FilesOfInterfaces
<1> DEFINE r == FileOfEach("interface", result)
           e == FileOfEach("enum", Enums)
           p == <<File("interface", "Package"), File("interface", Factory), File("constants", "Package")>>
<1>1. {"interface"} \X Package \subseteq ModuleFiles /\ {"enum"} \X NamesOf(Enums) \subseteq ModuleFiles
  BY DEF ModuleFiles, FileKinds, Package
<1>2. r \in Seq(ModuleFiles) /\ NamesOf(r) = InterfacesOf(NamesOf(result))
  BY <1>1, FilesOfEach DEF InterfacesOf
<1>3. e \in Seq(ModuleFiles) /\ NamesOf(e) = EnumFiles
  BY <1>1, ModuleAssumption, FilesOfEach DEF EnumFiles
<1>4. p \in Seq(ModuleFiles) /\ NamesOf(p) = PackageInterfaceFiles
  <2>1. /\ File("interface", "Package") \in ModuleFiles
        /\ File("interface", Factory) \in ModuleFiles
        /\ File("constants", "Package") \in ModuleFiles
    BY DEF File, ModuleFiles, FileKinds
  <2> QED BY <2>1, ThreeFiles DEF PackageInterfaceFiles
<1>5. interfaceExports = (r \o e) \o p
  BY DEF interfaceExports, FileOfEach
<1> HIDE DEF r, e, p
<1> DEFINE s == r \o e
<1>6. s \in Seq(ModuleFiles) /\ NamesOf(s) = NamesOf(r) \cup NamesOf(e)
  BY <1>2, <1>3, ConcatFiles
<1>7. interfaceExports = s \o p
  BY <1>5
<1> HIDE DEF s
<1>8. interfaceExports \in Seq(ModuleFiles) /\ NamesOf(interfaceExports) = NamesOf(s) \cup NamesOf(p)
  BY <1>4, <1>6, <1>7, ConcatFiles
<1> QED BY <1>2, <1>3, <1>4, <1>6, <1>8 DEF FilesOfInterfaces

\* They are no classes.
LEMMA InterfacesNeedNothing ==
  ASSUME NEW f \in FilesOfInterfaces
  PROVE  f[1] \in {"interface", "enum", "constants"}
BY DEF FilesOfInterfaces, InterfacesOf, EnumFiles, PackageInterfaceFiles, File

\* The exports that come last: the extension of the factory after the factory.
LEMMA ExportsAfter ==
  /\ exportsAfter \in Seq(ModuleFiles)
  /\ NamesOf(exportsAfter) = FilesAfter
  /\ \A k \in 1 .. Len(exportsAfter) : Needs(exportsAfter[k]) \subseteq {exportsAfter[m] : m \in 1 .. k - 1}
<1> DEFINE p == File("implementation", "Package")
           q == File("implementation", Factory)
           x == File("extension", Factory)
<1>1. p \in ModuleFiles /\ q \in ModuleFiles /\ x \in ModuleFiles
  BY DEF File, ModuleFiles, FileKinds
<1>2. Needs(p) = {} /\ Needs(q) = {} /\ Needs(x) = {q}
  BY ModuleAssumption DEF File, Needs
<1> HIDE DEF p, q, x
<1>3. CASE mode = "implementations"
  <2>1. exportsAfter = <<q>> /\ FilesAfter = {q}
    BY <1>3 DEF exportsAfter, FilesAfter, q
  <2> QED BY <1>1, <1>2, <2>1, OneFile
<1>4. CASE mode # "implementations" /\ Factory \notin extended
  <2>1. exportsAfter = <<p, q>> \o <<>> /\ FilesAfter = {p, q}
    BY <1>4 DEF exportsAfter, packageImplementationExports, FilesAfter, PackageImplementationFiles, p, q
  <2>2. exportsAfter = <<p, q>>
    BY <1>1, <2>1, TwoFiles, ConcatEmptySeq
  <2> QED BY <1>1, <1>2, <2>1, <2>2, TwoFiles
<1>5. CASE mode # "implementations" /\ Factory \in extended
  <2>1. exportsAfter = <<p, q>> \o <<x>> /\ FilesAfter = {p, q, x}
    BY <1>5 DEF exportsAfter, packageImplementationExports, FilesAfter, PackageImplementationFiles, p, q, x
  <2>2. /\ <<p, q>> \in Seq(ModuleFiles) /\ Len(<<p, q>>) = 2 /\ NamesOf(<<p, q>>) = {p, q}
        /\ <<p, q>>[1] = p /\ <<p, q>>[2] = q
        /\ <<x>> \in Seq(ModuleFiles) /\ Len(<<x>>) = 1 /\ NamesOf(<<x>>) = {x} /\ <<x>>[1] = x
    BY <1>1, OneFile, TwoFiles
  <2>3. /\ exportsAfter \in Seq(ModuleFiles) /\ Len(exportsAfter) = 3 /\ NamesOf(exportsAfter) = {p, q, x}
        /\ exportsAfter[1] = p /\ exportsAfter[2] = q /\ exportsAfter[3] = x
    <3> DEFINE s == <<p, q>>
               u == <<x>>
    <3>1. s \in Seq(ModuleFiles) /\ u \in Seq(ModuleFiles) /\ exportsAfter = s \o u
      BY <2>1, <2>2
    <3>2. Len(s) = 2 /\ Len(u) = 1 /\ s[1] = p /\ s[2] = q /\ u[1] = x
      BY <2>2
    <3>5. NamesOf(s) = {p, q} /\ NamesOf(u) = {x}
      BY <2>2
    <3> HIDE DEF s, u
    <3>3. /\ exportsAfter \in Seq(ModuleFiles) /\ Len(exportsAfter) = Len(s) + Len(u)
          /\ NamesOf(exportsAfter) = NamesOf(s) \cup NamesOf(u)
      BY <3>1, ConcatFiles
    <3>4. /\ \A i \in 1 .. Len(s) : exportsAfter[i] = s[i]
          /\ \A i \in 1 .. Len(u) : exportsAfter[Len(s) + i] = u[i]
      BY <3>1, ConcatFiles
    <3>6. exportsAfter[1] = p /\ exportsAfter[2] = q /\ exportsAfter[2 + 1] = x
      BY <3>2, <3>4
    <3> QED BY <3>2, <3>3, <3>5, <3>6
  <2>4. ASSUME NEW k \in 1 .. 3 PROVE Needs(exportsAfter[k]) \subseteq {exportsAfter[m] : m \in 1 .. k - 1}
    <3>1. CASE k = 3
      <4>1. 2 \in 1 .. k - 1
        BY <3>1
      <4> QED BY <1>2, <2>3, <3>1, <4>1
    <3>2. CASE k \in {1, 2}
      BY <1>2, <2>3, <3>2
    <3> QED BY <3>1, <3>2
  <2> QED BY <2>1, <2>3, <2>4
<1> QED BY <1>3, <1>4, <1>5

\* What needs only the files before it can follow them.
LEMMA SoundConcat ==
  ASSUME NEW T, NEW s \in Seq(T), NEW t \in Seq(T), Sound(s),
         \A k \in 1 .. Len(t) : Needs(t[k]) \subseteq NamesOf(s) \cup {t[m] : m \in 1 .. k - 1}
  PROVE  Sound(s \o t)
<1> DEFINE u == s \o t
<1>1. /\ Len(s) \in Nat /\ Len(t) \in Nat
      /\ Len(u) = Len(s) + Len(t)
      /\ \A i \in 1 .. Len(s) : u[i] = s[i]
      /\ \A i \in 1 .. Len(t) : u[Len(s) + i] = t[i]
  BY ConcatFiles
<1> HIDE DEF u
<1> SUFFICES ASSUME NEW k \in 1 .. Len(s) + Len(t), NEW f \in Needs(u[k])
             PROVE  \E m \in 1 .. k - 1 : u[m] = f
  BY <1>1 DEF Sound, u
<1>2. CASE k <= Len(s)
  <2>1. k \in 1 .. Len(s) /\ u[k] = s[k]
    BY <1>1, <1>2
  <2>2. PICK m \in 1 .. k - 1 : s[m] = f
    BY <2>1 DEF Sound
  <2>3. m \in 1 .. Len(s)
    BY <1>1, <1>2
  <2> QED BY <1>1, <2>2, <2>3
<1>3. CASE k > Len(s)
  <2>1. PICK j \in 1 .. Len(t) : k = Len(s) + j
    <3>1. k - Len(s) \in 1 .. Len(t) /\ k = Len(s) + (k - Len(s))
      BY <1>1, <1>3
    <3> QED BY <3>1
  <2>2. f \in NamesOf(s) \cup {t[m] : m \in 1 .. j - 1}
    BY <1>1, <2>1
  <2>3. CASE f \in NamesOf(s)
    <3>1. PICK m \in 1 .. Len(s) : s[m] = f
      BY <2>3 DEF NamesOf
    <3>2. m \in 1 .. k - 1
      BY <1>1, <1>3
    <3> QED BY <1>1, <3>1, <3>2
  <2>4. CASE \E m \in 1 .. j - 1 : t[m] = f
    <3>1. PICK m \in 1 .. j - 1 : t[m] = f
      BY <2>4
    <3>2. m \in 1 .. Len(t) /\ Len(s) + m \in 1 .. k - 1
      BY <1>1, <2>1
    <3> QED BY <1>1, <3>1, <3>2
  <2> QED BY <2>2, <2>3, <2>4
<1> QED BY <1>1, <1>2, <1>3
(***************************************************************************)
(* The steps of the module                                                 *)
(***************************************************************************)

\* What a file needs depends on the hierarchy and on the annotations.
LEMMA NeedsStay ==
  UNCHANGED <<super, interfaces, extended>> => \A f : Needs(f)' = Needs(f)
BY DEF Needs, ExtendsClass, Climbed, File

\* So does the order in which files can be evaluated.
LEMMA SoundStays ==
  UNCHANGED <<super, interfaces, extended, internal>> => (Sound(internal)' <=> Sound(internal))
<1> SUFFICES ASSUME UNCHANGED <<super, interfaces, extended, internal>>
             PROVE  Sound(internal)' <=> Sound(internal)
  OBVIOUS
<1>1. Sound(internal)' <=> Sound(internal')
  BY NeedsStay DEF Sound
<1>2. internal' = internal
  OBVIOUS
<1>3. Sound(internal') <=> Sound(internal)
  BY <1>2
<1> QED BY <1>1, <1>3

\* A function that has returned takes no step.
LEMMA ReturnedStays == Returned => ~Next
BY DEF Returned, Next, TakeClassifier, Climb, CanClimb, EndChain

\* Taking one class more.
LEMMA TakenNext ==
  ASSUME NEW n \in Nat
  PROVE  /\ result[n + 1] \in interfaces => FilesTaken(n + 1) = FilesTaken(n)
         /\ result[n + 1] \notin interfaces => FilesTaken(n + 1) = FilesTaken(n) \cup ClassFiles(result[n + 1])
<1>1. 1 .. n + 1 = (1 .. n) \cup {n + 1}
  OBVIOUS
<1> QED BY <1>1 DEF FilesTaken

\* The files of a class that was taken.
LEMMA Taken ==
  ASSUME NEW n, NEW k \in 1 .. n, result[k] \notin interfaces
  PROVE  ClassFiles(result[k]) \subseteq FilesTaken(n)
BY DEF FilesTaken

\* The exports of a class need those of a class before it, or its own.
LEMMA ClassNeeds ==
  ASSUME IInv, Returned, Acyclic, interfaces \subseteq Classes, SubClasses = {},
         NEW n \in Nat, n < Len(result),
         NEW k \in 1 .. Len(ClassExports(result[n + 1]))
  PROVE  Needs(ClassExports(result[n + 1])[k])
           \subseteq FilesTaken(n) \cup {ClassExports(result[n + 1])[m] : m \in 1 .. k - 1}
<1> DEFINE c == result[n + 1]
<1>1. result \in Seq(Package) /\ Len(result) \in Nat /\ n + 1 \in 1 .. Len(result)
  BY LenProperties DEF IInv, TypeOK
<1>2. c \in Package /\ c \in Classes /\ AllClasses = Package
  BY <1>1, ElementOfSeq DEF Package, AllClasses
<1> HIDE DEF c
<1>3. /\ ClassExports(c)[1] = File("implementation", c)
      /\ Len(ClassExports(c)) \in {1, 2}
      /\ Len(ClassExports(c)) = 2 => ClassExports(c)[2] = File("extension", c)
  BY <1>2, ExportsOfClass
<1>4. k \in 1 .. Len(ClassExports(c))
  BY DEF c
<1>5. CASE k = 1
  <2> DEFINE b == ExtendsClass(c)
  <2>1. b \notin Package => Needs(File("implementation", c)) = {}
    BY <1>2 DEF Needs, File
  <2>2. b \in Package => Needs(File("implementation", c)) \subseteq ClassFiles(b)
    BY <1>2 DEF Needs, File, ClassFiles
  <2>3. b \in Package => ClassFiles(b) \subseteq FilesTaken(n)
    <3> SUFFICES ASSUME b \in Package PROVE ClassFiles(b) \subseteq FilesTaken(n)
      OBVIOUS
    <3>1. b \notin interfaces /\ \E i \in 1 .. (n + 1) - 1 : result[i] = b
      BY <1>1, BaseIsBefore DEF c
    <3>2. PICK i \in 1 .. n : result[i] = b
      BY <3>1
    <3> QED BY <3>1, <3>2, Taken
  <2> HIDE DEF b
  <2> QED BY <1>3, <1>5, <2>1, <2>2, <2>3 DEF c
<1>6. CASE k = 2
  <2>1. ClassExports(c)[2] = File("extension", c)
    BY <1>3, <1>4, <1>6
  <2>2. Needs(File("extension", c)) = {File("implementation", c)}
    BY DEF Needs, File
  <2>3. 1 \in 1 .. k - 1
    BY <1>6
  <2> QED BY <1>3, <1>6, <2>1, <2>2, <2>3 DEF c
<1>7. k = 1 \/ k = 2
  <2> DEFINE l == Len(ClassExports(c))
  <2>1. l \in {1, 2} /\ k \in 1 .. l
    BY <1>3, <1>4
  <2> HIDE DEF l
  <2> QED BY <2>1
<1> QED BY <1>5, <1>6, <1>7

\* The initial state satisfies the invariant.
LEMMA InitModuleInv == ModuleInit => ModuleInv
<1> SUFFICES ASSUME ModuleInit PROVE ModuleInv
  OBVIOUS
<1> USE DEF ModuleInit
<1>1. IInv
  BY InitInv
<1>2. <<>> \in Seq(ModuleFiles) /\ Len(<<>>) = 0 /\ Len(result) = 0
  BY EmptySeq DEF Init
<1>3. StageOK
  BY <1>2 DEF StageOK
<1>4. ExportsOK
  BY <1>2 DEF ExportsOK, Sound
<1>5. LoadedOK
  BY <1>2 DEF LoadedOK
<1> QED BY <1>1, <1>3, <1>4, <1>5 DEF ModuleInv

\* A step of the function that orders the classes.
LEMMA OrderInv == ModuleInv /\ Order => ModuleInv'
<1> SUFFICES ASSUME ModuleInv, Order PROVE ModuleInv'
  OBVIOUS
<1>1. stage = "none"
  BY ReturnedStays DEF ModuleInv, StageOK, Order
<1>2. IInv'
  BY StepInv DEF ModuleInv, Order
<1>3. Len(result') \in Nat
  BY <1>2, LenProperties DEF IInv, TypeOK
<1>4. internal = <<>> /\ exported = 0 /\ Len(<<>>) = 0
  BY <1>1 DEF ModuleInv, StageOK
<1>5. StageOK'
  BY <1>1, <1>3, <1>4 DEF ModuleInv, StageOK, Order, moduleVars
<1>6. ExportsOK'
  BY <1>1, <1>4 DEF ModuleInv, ExportsOK, Sound, Order, moduleVars
<1>7. LoadedOK'
  BY <1>1 DEF ModuleInv, LoadedOK, Order, moduleVars
<1> QED BY <1>2, <1>5, <1>6, <1>7 DEF ModuleInv

\* What the steps after it leave alone.
LEMMA OrderStays ==
  ASSUME UNCHANGED vars, IInv
  PROVE  IInv' /\ Returned' = Returned /\ Acyclic' = Acyclic
<1>1. IInv'
  BY StepInv
<1>2. Returned' = Returned /\ Acyclic' = Acyclic
  BY DEF vars, Returned, Acyclic, Above, Closed
<1> QED BY <1>1, <1>2

\* The views start to write internal.ts.
LEMMA GenerateInv == ModuleInv /\ Generate => ModuleInv'
<1> SUFFICES ASSUME ModuleInv, Generate PROVE ModuleInv'
  OBVIOUS
<1>1. UNCHANGED vars /\ IInv /\ IInv' /\ Returned' /\ Acyclic'
  BY OrderStays DEF ModuleInv, Generate
<1>2. result' = result /\ result \in Seq(Package) /\ Len(result) \in Nat
  BY <1>1, LenProperties DEF vars, IInv, TypeOK
<1>3. /\ interfaces' \subseteq Classes /\ stage' = "exporting" /\ exported' = 0
      /\ mode' \in {"model", "interfaces", "implementations"}
      /\ internal = <<>> /\ loaded' = <<>>
  BY DEF ModuleInv, Generate, StageOK, LoadedOK
<1>4. StageOK'
  BY <1>1, <1>2, <1>3 DEF StageOK
<1>5. interfaceExports' = interfaceExports /\ FilesOfInterfaces' = FilesOfInterfaces
  BY <1>2 DEF interfaceExports, FilesOfInterfaces, InterfacesOf
<1>6. /\ internal' \in Seq(ModuleFiles)
      /\ NamesOf(internal') = FilesBefore'
  <2>1. <<>> \in Seq(ModuleFiles) /\ NamesOf(<<>>) = {}
    BY EmptySeq DEF NamesOf
  <2>2. internal' = IF mode' = "implementations" THEN <<>> ELSE interfaceExports
    BY <1>5 DEF Generate, exportsBefore
  <2>3. FilesBefore' = IF mode' = "implementations" THEN {} ELSE FilesOfInterfaces
    BY <1>5 DEF FilesBefore
  <2>4. interfaceExports \in Seq(ModuleFiles) /\ NamesOf(interfaceExports) = FilesOfInterfaces
    BY <1>2, InterfacesAreListed
  <2> QED BY <2>1, <2>2, <2>3, <2>4
<1>7. FilesTaken(exported)' = {}
  BY <1>3 DEF FilesTaken
<1>8. Sound(internal)'
  <2>1. \A f \in FilesOfInterfaces : Needs(f)' = {}
    BY InterfacesNeedNothing DEF Needs
  <2>2. \A k \in 1 .. Len(internal') : internal'[k] \in FilesOfInterfaces
    BY <1>5, <1>6 DEF NamesOf, FilesBefore
  <2>3. \A k \in 1 .. Len(internal') : Needs(internal[k])' = {}
    BY <2>1, <2>2
  <2> QED BY <2>3 DEF Sound
<1>9. ExportsOK'
  BY <1>3, <1>6, <1>7, <1>8 DEF ExportsOK
<1>10. LoadedOK'
  <2>1. <<>> \in Seq(ModuleFiles) /\ Len(<<>>) = 0 /\ Len(internal') \in Nat
    BY <1>6, EmptySeq, LenProperties
  <2>2. failed' = failed
    BY DEF Generate
  <2> QED BY <1>3, <2>1, <2>2 DEF ModuleInv, LoadedOK
<1> QED BY <1>1, <1>4, <1>9, <1>10 DEF ModuleInv
\* An interface has no implementation to export.
LEMMA SkipInv == ModuleInv /\ SkipInterface => ModuleInv'
<1> SUFFICES ASSUME ModuleInv, SkipInterface PROVE ModuleInv'
  OBVIOUS
<1>1. UNCHANGED vars /\ IInv /\ IInv' /\ Returned' = Returned /\ Acyclic' = Acyclic
  BY OrderStays DEF ModuleInv, SkipInterface
<1>2. /\ result' = result /\ Len(result) \in Nat /\ stage = "exporting" /\ mode # "interfaces"
      /\ exported \in Nat /\ exported < Len(result) /\ exported' = exported + 1
      /\ result[exported + 1] \in interfaces
      /\ UNCHANGED <<super, interfaces, extended, mode, stage, internal, loaded, failed>>
  <2>1. Len(result) \in Nat
    BY <1>1, LenProperties DEF IInv, TypeOK
  <2> QED BY <1>1, <2>1 DEF vars, ModuleInv, StageOK, SkipInterface, Exporting
<1>3. StageOK'
  BY <1>1, <1>2 DEF ModuleInv, StageOK
<1>4. FilesTaken(exported)' = FilesTaken(exported)
  <2>1. FilesTaken(exported)' = FilesTaken(exported + 1)
    BY <1>2 DEF FilesTaken, ClassFiles
  <2> QED BY <1>2, <2>1, TakenNext
<1>5. FilesBefore' = FilesBefore
  BY <1>2 DEF FilesBefore, FilesOfInterfaces, InterfacesOf
<1>6. Sound(internal)' <=> Sound(internal)
  BY <1>2, SoundStays
<1>7. ExportsOK'
  BY <1>2, <1>4, <1>5, <1>6 DEF ModuleInv, ExportsOK
<1>8. LoadedOK'
  BY <1>2 DEF ModuleInv, LoadedOK
<1> QED BY <1>1, <1>3, <1>7, <1>8 DEF ModuleInv

\* The exports of a class follow those of the class it extends.
LEMMA ExportInv == ModuleInv /\ ExportClass => ModuleInv'
<1> SUFFICES ASSUME ModuleInv, ExportClass PROVE ModuleInv'
  OBVIOUS
<1> DEFINE c == result[exported + 1]
<1>1. UNCHANGED vars /\ IInv /\ IInv' /\ Returned' = Returned /\ Acyclic' = Acyclic
  BY OrderStays DEF ModuleInv, ExportClass
<1>2. /\ result' = result /\ Len(result) \in Nat /\ stage = "exporting" /\ mode # "interfaces"
      /\ exported \in Nat /\ exported < Len(result) /\ exported' = exported + 1
      /\ c \notin interfaces
      /\ internal' = internal \o ClassExports(c)
      /\ UNCHANGED <<super, interfaces, extended, mode, stage, loaded, failed>>
  <2>1. Len(result) \in Nat
    BY <1>1, LenProperties DEF IInv, TypeOK
  <2> QED BY <1>1, <2>1 DEF vars, ModuleInv, StageOK, ExportClass, Exporting
<1>3. StageOK'
  BY <1>1, <1>2 DEF ModuleInv, StageOK
<1>4. c \in Classes
  <2>1. result \in Seq(Package) /\ exported + 1 \in 1 .. Len(result)
    BY <1>1, <1>2 DEF IInv, TypeOK
  <2> QED BY <2>1, ElementOfSeq DEF Package
<1>5. ClassExports(c) \in Seq(ModuleFiles) /\ NamesOf(ClassExports(c)) = ClassFiles(c)
  BY <1>4, ExportsOfClass
<1>6. /\ internal \in Seq(ModuleFiles)
      /\ NamesOf(internal) = FilesBefore \cup FilesTaken(exported)
  BY <1>2 DEF ModuleInv, ExportsOK
<1>7. FilesTaken(exported)' = FilesTaken(exported) \cup ClassFiles(c)
  <2>1. FilesTaken(exported)' = FilesTaken(exported + 1)
    BY <1>2 DEF FilesTaken, ClassFiles
  <2> QED BY <1>2, <2>1, TakenNext
<1>8. FilesBefore' = FilesBefore
  BY <1>2 DEF FilesBefore, FilesOfInterfaces, InterfacesOf
<1>9. /\ internal' \in Seq(ModuleFiles)
      /\ NamesOf(internal') = NamesOf(internal) \cup ClassFiles(c)
      /\ Len(internal) \in Nat /\ Len(internal') \in Nat /\ Len(internal) <= Len(internal')
      /\ \A k \in 1 .. Len(internal) : internal'[k] = internal[k]
  <2> DEFINE t == ClassExports(c)
  <2>1. t \in Seq(ModuleFiles) /\ NamesOf(t) = ClassFiles(c) /\ internal' = internal \o t
    BY <1>2, <1>5
  <2> HIDE DEF t
  <2>2. /\ internal' \in Seq(ModuleFiles)
        /\ NamesOf(internal') = NamesOf(internal) \cup NamesOf(t)
    BY <1>6, <2>1, ConcatFiles
  <2>3. /\ Len(internal) \in Nat /\ Len(t) \in Nat /\ Len(internal') = Len(internal) + Len(t)
        /\ \A k \in 1 .. Len(internal) : internal'[k] = internal[k]
    BY <1>6, <2>1, ConcatFiles
  <2> QED BY <2>1, <2>2, <2>3
<1>10. SubClasses = {} => Sound(internal')
  <2> SUFFICES ASSUME SubClasses = {} PROVE Sound(internal')
    OBVIOUS
  <2>1. Sound(internal) /\ Acyclic /\ Returned /\ interfaces \subseteq Classes
    BY <1>2 DEF ModuleInv, ExportsOK, StageOK
  <2>2. \A k \in 1 .. Len(ClassExports(c)) :
          Needs(ClassExports(c)[k]) \subseteq FilesTaken(exported) \cup {ClassExports(c)[m] : m \in 1 .. k - 1}
    BY <1>1, <1>2, <2>1, ClassNeeds
  <2>3. \A k \in 1 .. Len(ClassExports(c)) :
          Needs(ClassExports(c)[k]) \subseteq NamesOf(internal) \cup {ClassExports(c)[m] : m \in 1 .. k - 1}
    BY <1>6, <2>2
  <2> DEFINE t == ClassExports(c)
  <2>4. /\ t \in Seq(ModuleFiles)
        /\ \A k \in 1 .. Len(t) : Needs(t[k]) \subseteq NamesOf(internal) \cup {t[m] : m \in 1 .. k - 1}
        /\ internal' = internal \o t
    BY <1>2, <1>5, <2>3
  <2> HIDE DEF t
  <2> QED BY <1>6, <2>1, <2>4, SoundConcat
<1>11. SubClasses = {} => Sound(internal)'
  <2>1. Sound(internal)' <=> Sound(internal')
    BY <1>2, NeedsStay DEF Sound
  <2> QED BY <1>10, <2>1
<1>12. ExportsOK'
  BY <1>2, <1>6, <1>7, <1>8, <1>9, <1>11 DEF ExportsOK
<1>13. LoadedOK'
  <2>1. loaded = <<>>
    BY <1>2 DEF ModuleInv, LoadedOK
  <2>2. Len(<<>>) = 0 /\ <<>> \in Seq(ModuleFiles)
    BY EmptySeq
  <2> QED BY <1>2, <1>9, <2>1, <2>2 DEF ModuleInv, LoadedOK
<1> QED BY <1>1, <1>3, <1>12, <1>13 DEF ModuleInv

\* The exports of the package follow those of the classes.
LEMMA WriteInv == ModuleInv /\ WriteModule => ModuleInv'
<1> SUFFICES ASSUME ModuleInv, WriteModule PROVE ModuleInv'
  OBVIOUS
<1>1. UNCHANGED vars /\ IInv /\ IInv' /\ Returned' = Returned /\ Acyclic' = Acyclic
  BY OrderStays DEF ModuleInv, WriteModule
<1>2. /\ result' = result /\ Len(result) \in Nat /\ stage = "exporting" /\ stage' = "written"
      /\ exported \in 0 .. Len(result) /\ (mode # "interfaces" => exported = Len(result))
      /\ internal' = internal \o exportsAfter
      /\ UNCHANGED <<super, interfaces, extended, mode, exported, loaded, failed>>
  <2>1. Len(result) \in Nat
    BY <1>1, LenProperties DEF IInv, TypeOK
  <2> QED BY <1>1, <2>1 DEF vars, ModuleInv, StageOK, WriteModule, Exporting
<1>3. StageOK'
  BY <1>1, <1>2 DEF ModuleInv, StageOK
<1>4. /\ internal \in Seq(ModuleFiles)
      /\ NamesOf(internal) = FilesBefore \cup FilesTaken(exported)
  BY <1>2 DEF ModuleInv, ExportsOK
<1>5. FilesTaken(exported)' = FilesTaken(exported)
  BY <1>2 DEF FilesTaken, ClassFiles
<1>6. FilesBefore' = FilesBefore /\ FilesAfter' = FilesAfter
  BY <1>2 DEF FilesBefore, FilesOfInterfaces, InterfacesOf, FilesAfter
<1>7. /\ internal' \in Seq(ModuleFiles)
      /\ NamesOf(internal') = NamesOf(internal) \cup FilesAfter
      /\ Len(internal) \in Nat /\ Len(internal') \in Nat /\ Len(internal) <= Len(internal')
  <2>1. exportsAfter \in Seq(ModuleFiles) /\ NamesOf(exportsAfter) = FilesAfter
    BY ExportsAfter
  <2>2. /\ internal' \in Seq(ModuleFiles)
        /\ NamesOf(internal') = NamesOf(internal) \cup NamesOf(exportsAfter)
    BY <1>2, <1>4, <2>1, ConcatFiles
  <2>3. Len(internal) \in Nat /\ Len(exportsAfter) \in Nat /\ Len(internal') = Len(internal) + Len(exportsAfter)
    BY <1>2, <1>4, <2>1, ConcatFiles
  <2> QED BY <2>1, <2>2, <2>3
<1>8. SubClasses = {} => Sound(internal')
  <2>1. /\ exportsAfter \in Seq(ModuleFiles)
        /\ \A k \in 1 .. Len(exportsAfter) : Needs(exportsAfter[k])
             \subseteq NamesOf(internal) \cup {exportsAfter[m] : m \in 1 .. k - 1}
    BY ExportsAfter
  <2>2. SubClasses = {} => Sound(internal)
    BY DEF ModuleInv, ExportsOK
  <2> QED BY <1>2, <1>4, <2>1, <2>2, SoundConcat
<1>9. SubClasses = {} => Sound(internal)'
  <2>1. Sound(internal)' <=> Sound(internal')
    BY <1>2, NeedsStay DEF Sound
  <2> QED BY <1>8, <2>1
<1>10. ExportsOK'
  BY <1>2, <1>4, <1>5, <1>6, <1>7, <1>9 DEF ExportsOK
<1>11. LoadedOK'
  <2>1. loaded = <<>>
    BY <1>2 DEF ModuleInv, LoadedOK
  <2>2. Len(<<>>) = 0 /\ <<>> \in Seq(ModuleFiles)
    BY EmptySeq
  <2> QED BY <1>2, <1>7, <2>1, <2>2 DEF ModuleInv, LoadedOK
<1> QED BY <1>1, <1>3, <1>10, <1>11 DEF ModuleInv

\* The next file is evaluated, after the files it needs.
LEMMA LoadInv == ModuleInv /\ Load => ModuleInv'
<1> SUFFICES ASSUME ModuleInv, Load PROVE ModuleInv'
  OBVIOUS
<1> DEFINE n == Len(loaded) + 1
<1>1. UNCHANGED vars /\ IInv /\ IInv' /\ Returned' = Returned /\ Acyclic' = Acyclic
  BY OrderStays DEF ModuleInv, Load
<1>2. /\ result' = result
      /\ UNCHANGED <<super, interfaces, extended, mode, stage, exported, internal>>
  BY <1>1 DEF vars, Load
<1>3. StageOK'
  BY <1>1, <1>2 DEF ModuleInv, StageOK
<1>4. FilesTaken(exported)' = FilesTaken(exported)
  BY <1>2 DEF FilesTaken, ClassFiles
<1>5. FilesBefore' = FilesBefore /\ FilesAfter' = FilesAfter
  BY <1>2 DEF FilesBefore, FilesOfInterfaces, InterfacesOf, FilesAfter
<1>6. Sound(internal)' <=> Sound(internal)
  BY <1>2, SoundStays
<1>7. ExportsOK'
  BY <1>2, <1>4, <1>5, <1>6 DEF ModuleInv, ExportsOK
<1>8. /\ loaded \in Seq(ModuleFiles) /\ internal \in Seq(ModuleFiles)
      /\ Len(loaded) \in Nat /\ Len(internal) \in Nat /\ n \in 1 .. Len(internal)
      /\ \A k \in 1 .. Len(loaded) : loaded[k] = internal[k]
  <2>1. loaded \in Seq(ModuleFiles) /\ internal \in Seq(ModuleFiles)
    BY DEF ModuleInv, LoadedOK, ExportsOK
  <2>2. Len(loaded) \in Nat /\ Len(internal) \in Nat
    BY <2>1, LenProperties
  <2> QED BY <2>1, <2>2 DEF ModuleInv, LoadedOK, Load
<1>9. internal[n] \in ModuleFiles
  BY <1>8, ElementOfSeq
<1>10. /\ loaded' \in Seq(ModuleFiles) /\ Len(loaded') = n
       /\ \A k \in 1 .. n : loaded'[k] = internal[k]
  <2>1. loaded' = Append(loaded, internal[n])
    BY DEF Load
  <2>2. /\ loaded' \in Seq(ModuleFiles) /\ Len(loaded') = Len(loaded) + 1
        /\ \A k \in 1 .. Len(loaded) : loaded'[k] = loaded[k]
        /\ loaded'[Len(loaded) + 1] = internal[n]
    BY <1>8, <1>9, <2>1, AppendProperties
  <2>3. \A k \in 1 .. n : k \in 1 .. Len(loaded) \/ k = n
    BY <1>8
  <2> QED BY <1>8, <2>2, <2>3
<1>11. SubClasses = {} => ~failed'
  <2> SUFFICES ASSUME SubClasses = {} PROVE Needs(internal[n]) \subseteq NamesOf(loaded)
    BY DEF Load
  <2>1. Needs(internal[n]) \subseteq {internal[m] : m \in 1 .. n - 1}
    BY <1>8 DEF ModuleInv, ExportsOK, Sound
  <2>2. \A m \in 1 .. n - 1 : m \in 1 .. Len(loaded)
    BY <1>8
  <2> QED BY <1>8, <2>1, <2>2 DEF NamesOf
<1>12. LoadedOK'
  <2>1. stage' = "written"
    BY DEF Load
  <2> QED BY <1>2, <1>8, <1>10, <1>11, <2>1 DEF LoadedOK
<1> QED BY <1>1, <1>3, <1>7, <1>12 DEF ModuleInv

\* The invariant of the module holds in every state.
THEOREM ModuleInvariance == ModuleSpec => []ModuleInv
<1>1. ModuleInv /\ [ModuleNext]_<<vars, moduleVars>> => ModuleInv'
  <2> SUFFICES ASSUME ModuleInv, [ModuleNext]_<<vars, moduleVars>> PROVE ModuleInv'
    OBVIOUS
  <2>1. CASE Order
    BY <2>1, OrderInv
  <2>2. CASE Generate
    BY <2>2, GenerateInv
  <2>3. CASE SkipInterface
    BY <2>3, SkipInv
  <2>4. CASE ExportClass
    BY <2>4, ExportInv
  <2>5. CASE WriteModule
    BY <2>5, WriteInv
  <2>6. CASE Load
    BY <2>6, LoadInv
  <2>7. CASE UNCHANGED <<vars, moduleVars>>
    <3>1. UNCHANGED vars /\ UNCHANGED moduleVars
      BY <2>7
    <3>2. UNCHANGED <<super, result, interfaces, extended, mode, stage, exported, internal, loaded, failed>>
      BY <3>1 DEF vars, moduleVars
    <3>3. IInv' /\ Returned' = Returned /\ Acyclic' = Acyclic
      BY <3>1, OrderStays DEF ModuleInv
    <3>4. StageOK'
      BY <3>2, <3>3 DEF ModuleInv, StageOK
    <3>5. /\ FilesTaken(exported)' = FilesTaken(exported)
          /\ FilesBefore' = FilesBefore /\ FilesAfter' = FilesAfter
      BY <3>2 DEF FilesTaken, ClassFiles, FilesBefore, FilesOfInterfaces, InterfacesOf, FilesAfter
    <3>6. Sound(internal)' <=> Sound(internal)
      BY <3>2, SoundStays
    <3>7. ExportsOK'
      BY <3>2, <3>5, <3>6 DEF ModuleInv, ExportsOK
    <3>8. LoadedOK'
      BY <3>2 DEF ModuleInv, LoadedOK
    <3> QED BY <3>3, <3>4, <3>7, <3>8 DEF ModuleInv
  <2> QED BY <2>1, <2>2, <2>3, <2>4, <2>5, <2>6, <2>7 DEF ModuleNext
<1> QED BY <1>1, InitModuleInv, PTL DEF ModuleSpec

\* Loading internal.ts never stops: every class is evaluated after the class it
\* extends, whatever the hierarchy, the interfaces and the extensions. The exports
\* leave out the sub-packages (view_module.go:29), so that there must be none.
THEOREM LoadingNeverFails ==
  ASSUME SubClasses = {}
  PROVE  ModuleSpec => []BasesAreLoaded
<1>1. ModuleInv => BasesAreLoaded
  BY DEF ModuleInv, LoadedOK, BasesAreLoaded
<1> QED BY <1>1, ModuleInvariance, PTL

\* Without the files of the sub-packages, which have none in common with the others,
\* the files of the classes are those of the classes of the package.
LEMMA FilesWithoutSubPackages ==
  /\ InterfacesOf(AllClasses) \ SubPackageFiles = InterfacesOf(Package)
  /\ ImplementationsOf(AllClasses) \ SubPackageFiles = ImplementationsOf(Package)
  /\ (EnumFiles \cup PackageInterfaceFiles \cup PackageImplementationFiles) \cap SubPackageFiles = {}
<1>1. \A c \in Package : c \notin SubClasses
  BY ModuleAssumption
<1>2. "Package" \notin SubClasses /\ Factory \notin SubClasses
  BY ModuleAssumption
<1>3. ASSUME NEW kind, NEW c
      PROVE  /\ File(kind, c) \in InterfacesOf(SubClasses) <=> kind = "interface" /\ c \in SubClasses
             /\ File(kind, c) \in ImplementationsOf(SubClasses)
                  <=> kind = "implementation" /\ c \in SubClasses \ interfaces
  BY DEF InterfacesOf, ImplementationsOf, File
<1>4. InterfacesOf(AllClasses) \ SubPackageFiles = InterfacesOf(Package)
  BY <1>1, <1>3 DEF SubPackageFiles, InterfacesOf, AllClasses
<1>5. ImplementationsOf(AllClasses) \ SubPackageFiles = ImplementationsOf(Package)
  BY <1>1, <1>3 DEF SubPackageFiles, ImplementationsOf, AllClasses
<1>6. EnumFiles \cap SubPackageFiles = {}
  BY <1>3 DEF SubPackageFiles, EnumFiles
<1>7. PackageInterfaceFiles \cap SubPackageFiles = {} /\ PackageImplementationFiles \cap SubPackageFiles = {}
  BY <1>2, <1>3 DEF SubPackageFiles, PackageInterfaceFiles, PackageImplementationFiles
<1> QED BY <1>4, <1>5, <1>6, <1>7

\* For any sub-packages, internal.ts exports the files that the entry point
\* generates, but those of the classes of the sub-packages: what it leaves out, and
\* it alone, is not every file of the package (view_module.go:9-11).
THEOREM SubPackagesAreLeftOut == ModuleSpec => []OwnFilesExported
<1>1. ModuleInv => OwnFilesExported
  <2> SUFFICES ASSUME ModuleInv, stage = "written"
               PROVE  {f \in NamesOf(internal) : f[1] # "extension"} = Generated \ SubPackageFiles
    BY DEF OwnFilesExported
  <2>1. NamesOf(result) = Package
    BY NoneIsMissing DEF ModuleInv, StageOK
  <2>2. NamesOf(internal) = FilesBefore \cup FilesTaken(exported) \cup FilesAfter
    BY DEF ModuleInv, ExportsOK
  <2>3. mode \in {"model", "interfaces", "implementations"}
    BY DEF ModuleInv, StageOK
  <2>4. mode = "interfaces" => FilesTaken(exported) = {}
    BY DEF ModuleInv, StageOK, FilesTaken
  <2>5. mode # "interfaces" =>
          {f \in FilesTaken(exported) : f[1] # "extension"} = ImplementationsOf(Package)
    <3> SUFFICES ASSUME mode # "interfaces"
                 PROVE  {f \in FilesTaken(exported) : f[1] # "extension"} = ImplementationsOf(Package)
      OBVIOUS
    <3>1. exported = Len(result)
      BY DEF ModuleInv, StageOK
    <3>2. ASSUME NEW f \in FilesTaken(exported), f[1] # "extension"
          PROVE  f \in ImplementationsOf(Package)
      <4>1. PICK i \in 1 .. Len(result) : result[i] \notin interfaces /\ f \in ClassFiles(result[i])
        BY <3>1 DEF FilesTaken
      <4>2. f = File("implementation", result[i])
        BY <3>2, <4>1 DEF ClassFiles, File
      <4>3. result[i] \in Package
        BY <2>1 DEF NamesOf
      <4> QED BY <4>1, <4>2, <4>3 DEF ImplementationsOf
    <3>3. ASSUME NEW c \in Package \ interfaces
          PROVE  File("implementation", c) \in {f \in FilesTaken(exported) : f[1] # "extension"}
      <4>1. PICK i \in 1 .. Len(result) : result[i] = c
        BY <2>1 DEF NamesOf
      <4>2. ClassFiles(c) \subseteq FilesTaken(exported)
        BY <3>1, <4>1, Taken
      <4> QED BY <4>2 DEF ClassFiles, File
    <3> QED BY <3>2, <3>3 DEF ImplementationsOf
  <2>6. \A f \in FilesOfInterfaces : f[1] # "extension"
    BY InterfacesNeedNothing
  <2>7. FilesOfInterfaces = InterfacesOf(Package) \cup EnumFiles \cup PackageInterfaceFiles
    BY <2>1 DEF FilesOfInterfaces
  <2>8. /\ mode = "implementations" =>
             {f \in FilesAfter : f[1] # "extension"} = {File("implementation", Factory)}
        /\ mode # "implementations" =>
             {f \in FilesAfter : f[1] # "extension"} = PackageImplementationFiles
    BY DEF FilesAfter, PackageImplementationFiles, File
  <2>9. {f \in FilesBefore : f[1] # "extension"} = IF mode = "implementations" THEN {} ELSE FilesOfInterfaces
    BY <2>6 DEF FilesBefore
  <2>10. {f \in NamesOf(internal) : f[1] # "extension"}
           = {f \in FilesBefore : f[1] # "extension"} \cup {f \in FilesTaken(exported) : f[1] # "extension"}
               \cup {f \in FilesAfter : f[1] # "extension"}
    BY <2>2
  <2>11. CASE mode = "model"
    BY <2>5, <2>7, <2>8, <2>9, <2>10, <2>11, FilesWithoutSubPackages DEF Generated, modelFiles
  <2>12. CASE mode = "interfaces"
    BY <2>4, <2>7, <2>8, <2>9, <2>10, <2>12, FilesWithoutSubPackages DEF Generated, interfaceFiles
  <2>13. CASE mode = "implementations"
    <3>1. {File("implementation", Factory)} \cap SubPackageFiles = {}
      BY FilesWithoutSubPackages DEF PackageImplementationFiles
    <3> QED BY <2>5, <2>8, <2>9, <2>10, <2>13, <3>1, FilesWithoutSubPackages DEF Generated, implementationFiles
  <2> QED BY <2>3, <2>11, <2>12, <2>13
<1> QED BY <1>1, ModuleInvariance, PTL

(***************************************************************************)
(* The imports                                                             *)
(***************************************************************************)

\* The modules of the package.
LEMMA ModulesOfThePackage ==
  /\ interfaceModule = "own"
  /\ implementationModule = IF Shared THEN "implementation" ELSE "own"
<1>1. ASSUME NEW x, NEW y
      PROVE  Len(<<x>>) = 1 /\ <<x>>[1] = x /\ Len(<<x, y>>) = 2 /\ <<x, y>>[1] = x /\ <<x, y>>[2] = y
  OBVIOUS
<1>2. moduleParts = IF Shared THEN <<"own", "implementation">> ELSE <<"own">>
  BY DEF moduleParts
<1>3. CASE Shared
  BY <1>1, <1>2, <1>3 DEF interfaceModule, implementationModule, indexModule
<1>4. CASE ~Shared
  BY <1>1, <1>2, <1>4 DEF interfaceModule, implementationModule, indexModule
<1> QED BY <1>3, <1>4

\* The paths that the modules get.
LEMMA PathsOfTheModules ==
  ASSUME NEW paths \in Paths
  PROVE  /\ modulePath("other", paths) = <<"other", IF paths["other"] = "" THEN "index" ELSE paths["other"]>>
         /\ modulePath("own", paths) =
              IF ~Shared \/ paths["own"] = "" THEN Internal ELSE <<"own", paths["own"]>>
         /\ Shared => modulePath("implementation", paths) = Internal
<1>1. DOMAIN paths = {"own", "other"}
  BY DEF Paths
<1>2. InternalModules(paths) =
        IF Shared THEN {"implementation"} \cup {m \in {"own"} : paths[m] = ""} ELSE {"own"}
  BY <1>1, ModulesOfThePackage DEF InternalModules, Given
<1>3. /\ "own" \in InternalModules(paths) <=> ~Shared \/ paths["own"] = ""
      /\ "other" \notin InternalModules(paths)
      /\ Shared => "implementation" \in InternalModules(paths)
  <2>1. CASE Shared
    <3>1. InternalModules(paths) = {"implementation"} \cup {m \in {"own"} : paths[m] = ""}
      BY <1>2, <2>1
    <3> QED BY <2>1, <3>1
  <2>2. CASE ~Shared
    <3>1. InternalModules(paths) = {"own"}
      BY <1>2, <2>2
    <3> QED BY <2>2, <3>1
  <2> QED BY <2>1, <2>2
<1>4. /\ "own" \in Given(paths) <=> paths["own"] # ""
      /\ "other" \in Given(paths) <=> paths["other"] # ""
  BY <1>1 DEF Given
<1>5. ASSUME NEW m
      PROVE  modulePath(m, paths) = IF m \in InternalModules(paths) THEN Internal
                                    ELSE IF m \in Given(paths) THEN <<m, paths[m]>> ELSE <<m, "index">>
  BY DEF modulePath, modulePaths
<1> QED BY <1>3, <1>4, <1>5

\* What the files import from the other package.
OtherNames == InterfacesOf(Foreign) \cup {Getter("Package")} \cup {BuiltClass(c) : c \in Foreign}

\* What is imported from the module of the classes of a shared package.
ImplementationNames ==
  IF mode = "implementations"
  THEN {BuiltClass(c) : c \in AllClasses \ interfaces} \cup {<<"function", "getFactory">>} ELSE {}

AllConversions == UNION {Conversions(e) : e \in NamesOf(Enums)}

\* What is imported from the module of the interfaces of the package.
OwnTypes ==
  InterfacesOf(AllClasses) \cup EnumFiles \cup PackageInterfaceFiles \cup {Getter("Package")}

OwnNames ==
  CASE mode = "implementations" -> OwnTypes
    [] mode = "interfaces" ->
         OwnTypes \cup {File("implementation", "Package"), BuiltClass(Factory)} \cup AllConversions
    [] mode = "model" ->
         OwnTypes \cup {File("implementation", "Package"), BuiltClass(Factory), Getter(Factory)}
         \cup AllConversions \cup {BuiltClass(c) : c \in AllClasses \ interfaces}

\* The names that the files of the package use.
Known == Of("own", OwnNames) \cup Of("other", OtherNames) \cup Of("implementation", ImplementationNames)

\* More names of a module.
LEMMA OfMonotonic ==
  ASSUME NEW m, NEW S, NEW T, S \subseteq T
  PROVE  Of(m, S) \subseteq Of(m, T)
BY DEF Of

\* The names that come with the files of a module.
LEMMA KnownTypes ==
  ASSUME mode \in {"model", "interfaces", "implementations"}
  PROVE  Types \subseteq Known /\ Packages \subseteq Known /\ constants \subseteq Known
<1>1. OwnTypes \subseteq OwnNames
  BY DEF OwnNames
<1>2. /\ InterfacesOf(AllClasses) \cup EnumFiles \subseteq OwnNames
      /\ {Getter("Package")} \subseteq OwnNames
      /\ {File("constants", "Package")} \subseteq OwnNames
  BY <1>1 DEF OwnTypes, PackageInterfaceFiles
<1>3. InterfacesOf(Foreign) \subseteq OtherNames /\ {Getter("Package")} \subseteq OtherNames
  BY DEF OtherNames
<1>4. Of("own", InterfacesOf(AllClasses) \cup EnumFiles) \subseteq Known
  BY <1>2, OfMonotonic DEF Known
<1>5. Of("own", {Getter("Package")}) \subseteq Known
  BY <1>2, OfMonotonic DEF Known
<1>6. Of("own", {File("constants", "Package")}) \subseteq Known
  BY <1>2, OfMonotonic DEF Known
<1>7. Of("other", InterfacesOf(Foreign)) \subseteq Known
  BY <1>3, OfMonotonic DEF Known
<1>8. Of("other", {Getter("Package")}) \subseteq Known
  BY <1>3, OfMonotonic DEF Known
<1> QED BY <1>4, <1>5, <1>6, <1>7, <1>8, ModulesOfThePackage DEF Types, Packages, constants
\* The class that the implementation of a class extends.
LEMMA KnownBase ==
  ASSUME ModuleInv, stage # "none", SubClasses = {}, mode # "interfaces", NEW c \in AllClasses
  PROVE  classExtends(c) \subseteq Known
<1> DEFINE b == ExtendsClass(c)
<1>1. /\ super \in [Classes -> Classes \cup {None}] /\ interfaces \subseteq Classes /\ Acyclic
      /\ c \in Classes /\ AllClasses = Package
      /\ mode = "model" \/ mode = "implementations"
  BY DEF ModuleInv, IInv, TypeOK, StageOK, AllClasses, Package
<1>2. b \in Climbed(c) /\ b \notin interfaces
  BY <1>1, ClimbEnds
<1>3. b \in Classes \cup {None}
  BY <1>2 DEF Climbed
<1>4. classExtends(c) =
        IF b = None THEN {} ELSE IF b \in Foreign THEN Of("other", {BuiltClass(b)})
        ELSE Of(implementationModule, {BuiltClass(b)})
  <2>1. CASE b = None
    <3>1. b \notin Foreign
      BY <2>1, HierarchyAssumption DEF Foreign
    <3> QED BY <2>1, <3>1 DEF classExtends
  <2>2. CASE b \in Foreign
    <3>1. b # None
      BY <2>2, HierarchyAssumption DEF Foreign
    <3> QED BY <2>2, <3>1 DEF classExtends
  <2>3. CASE b # None /\ b \notin Foreign
    BY <2>3 DEF classExtends
  <2> QED BY <2>1, <2>2, <2>3
<1> HIDE DEF b
<1>5. b \in Foreign => Of("other", {BuiltClass(b)}) \subseteq Known
  <2>1. b \in Foreign => {BuiltClass(b)} \subseteq OtherNames
    BY DEF OtherNames
  <2> QED BY <2>1, OfMonotonic DEF Known
<1>6. b # None /\ b \notin Foreign => Of(implementationModule, {BuiltClass(b)}) \subseteq Known
  <2> SUFFICES ASSUME b # None, b \notin Foreign
               PROVE  Of(implementationModule, {BuiltClass(b)}) \subseteq Known
    OBVIOUS
  <2>1. b \in AllClasses \ interfaces
    BY <1>2, <1>3 DEF Foreign
  <2>2. CASE mode = "model"
    <3>1. {BuiltClass(b)} \subseteq OwnNames
      BY <2>1, <2>2 DEF OwnNames
    <3>2. implementationModule = "own"
      BY <2>2, ModulesOfThePackage DEF Shared
    <3> QED BY <3>1, <3>2, OfMonotonic DEF Known
  <2>3. CASE mode = "implementations"
    <3>1. {BuiltClass(b)} \subseteq ImplementationNames
      BY <2>1, <2>3 DEF ImplementationNames
    <3>2. implementationModule = "implementation"
      BY <2>3, ModulesOfThePackage DEF Shared
    <3> QED BY <3>1, <3>2, OfMonotonic DEF Known
  <2> QED BY <1>1, <2>2, <2>3
<1> QED BY <1>4, <1>5, <1>6

\* The implementation of a class.
LEMMA KnownImplementation ==
  ASSUME ModuleInv, stage # "none", SubClasses = {}, mode # "interfaces", NEW c \in AllClasses
  PROVE  implementationUses(c) \subseteq Known
<1>1. Types \subseteq Known /\ Packages \subseteq Known /\ constants \subseteq Known
  BY KnownTypes DEF ModuleInv, StageOK
<1>2. Shared => Of(implementationModule, {<<"function", "getFactory">>}) \subseteq Known
  <2> SUFFICES ASSUME Shared
               PROVE  Of(implementationModule, {<<"function", "getFactory">>}) \subseteq Known
    OBVIOUS
  <2>1. mode = "implementations"
    BY DEF ModuleInv, StageOK, Shared
  <2>2. {<<"function", "getFactory">>} \subseteq ImplementationNames
    BY <2>1 DEF ImplementationNames
  <2> QED BY <2>2, ModulesOfThePackage, OfMonotonic DEF Known
<1> QED BY <1>1, <1>2, KnownBase DEF implementationUses

\* The package and the factories.
LEMMA KnownPackage ==
  ASSUME mode \in {"model", "interfaces"}
  PROVE  /\ packageInterfaceUses \subseteq Known
         /\ factoryInterfaceUses \subseteq Known
         /\ packageImplementationUses \subseteq Known
         /\ mode = "interfaces" => dataTypeFactoryUses \subseteq Known
<1>1. Types \subseteq Known /\ Packages \subseteq Known /\ constants \subseteq Known
  BY KnownTypes
<1>2. /\ {File("implementation", "Package")} \subseteq OwnNames
      /\ {BuiltClass(Factory)} \subseteq OwnNames
      /\ {File("interface", "Package")} \subseteq OwnNames
      /\ mode = "model" => {Getter(Factory), File("interface", Factory)} \subseteq OwnNames
  BY DEF OwnNames, OwnTypes, PackageInterfaceFiles
<1>3. Of("own", {File("implementation", "Package")}) \subseteq Known
  BY <1>2, OfMonotonic DEF Known
<1>4. Of("own", {BuiltClass(Factory)}) \subseteq Known
  BY <1>2, OfMonotonic DEF Known
<1>5. Of("own", {File("interface", "Package")}) \subseteq Known
  BY <1>2, OfMonotonic DEF Known
<1>6. mode = "model" => Of("own", {Getter(Factory), File("interface", Factory)}) \subseteq Known
  BY <1>2, OfMonotonic DEF Known
<1>7. packageInterfaceUses \subseteq Known
  BY <1>3, ModulesOfThePackage DEF packageInterfaceUses
<1>8. factoryInterfaceUses \subseteq Known
  BY <1>1, <1>4, ModulesOfThePackage DEF factoryInterfaceUses
<1>9. packageImplementationUses \subseteq Known
  <2>1. CASE mode = "interfaces"
    BY <1>1, <1>4, <1>5, <2>1, ModulesOfThePackage DEF packageImplementationUses, Shared
  <2>2. CASE mode = "model"
    BY <1>1, <1>5, <1>6, <2>2, ModulesOfThePackage DEF packageImplementationUses, Shared
  <2> QED BY <2>1, <2>2
<1>10. mode = "interfaces" => dataTypeFactoryUses \subseteq Known
  <2>1. mode = "interfaces" => EnumFiles \cup AllConversions \subseteq OwnNames
    BY DEF OwnNames, OwnTypes
  <2>2. mode = "interfaces" => Of("own", EnumFiles \cup AllConversions) \subseteq Known
    BY <2>1, OfMonotonic DEF Known
  <2> QED BY <1>1, <2>2, ModulesOfThePackage DEF dataTypeFactoryUses, dataTypeConversions, AllConversions
<1> QED BY <1>7, <1>8, <1>9, <1>10

\* The factory of the objects.
LEMMA KnownFactory ==
  ASSUME mode \in {"model", "implementations"}
  PROVE  factoryImplementationUses \subseteq Known
<1> DEFINE built == {BuiltClass(c) : c \in AllClasses \ interfaces}
<1>1. Types \subseteq Known /\ Packages \subseteq Known /\ constants \subseteq Known
  BY KnownTypes
<1>2. Of(interfaceModule, {File("interface", Factory)}) \subseteq Known
  <2>1. {File("interface", Factory)} \subseteq OwnNames
    BY DEF OwnNames, OwnTypes, PackageInterfaceFiles
  <2> QED BY <2>1, ModulesOfThePackage, OfMonotonic DEF Known
<1>3. Of(implementationModule, built) \subseteq Known
  <2>1. CASE mode = "model"
    <3>1. built \subseteq OwnNames /\ implementationModule = "own"
      BY <2>1, ModulesOfThePackage DEF OwnNames, Shared
    <3> HIDE DEF built
    <3> QED BY <3>1, OfMonotonic DEF Known
  <2>2. CASE mode = "implementations"
    <3>1. built \subseteq ImplementationNames /\ implementationModule = "implementation"
      BY <2>2, ModulesOfThePackage DEF ImplementationNames, Shared
    <3> HIDE DEF built
    <3> QED BY <3>1, OfMonotonic DEF Known
  <2> QED BY <2>1, <2>2
<1>4. ~Shared => dataTypeConversions \subseteq Known
  <2>1. ~Shared => EnumFiles \cup AllConversions \subseteq OwnNames
    BY DEF OwnNames, OwnTypes, Shared
  <2>2. ~Shared => Of("own", EnumFiles \cup AllConversions) \subseteq Known
    BY <2>1, OfMonotonic DEF Known
  <2> QED BY <2>2, ModulesOfThePackage DEF dataTypeConversions, AllConversions
<1> HIDE DEF built
<1>5. factoryImplementationUses =
        Types \cup constants \cup Of(interfaceModule, {File("interface", Factory)})
        \cup Of(implementationModule, built) \cup (IF Shared THEN Packages ELSE dataTypeConversions)
  BY DEF factoryImplementationUses, built
<1> QED BY <1>1, <1>2, <1>3, <1>4, <1>5

\* Every file of the package.
LEMMA KnownUses ==
  ASSUME ModuleInv, stage # "none", SubClasses = {}, NEW f \in Generated
  PROVE  Uses(f) \subseteq Known
<1>1. mode \in {"model", "interfaces", "implementations"} /\ Types \subseteq Known
  BY KnownTypes DEF ModuleInv, StageOK
<1>2. "Package" \notin AllClasses /\ Factory \notin AllClasses /\ Factory # "Package"
  BY ModuleAssumption DEF AllClasses, Package, Factory
<1>3. CASE f \in InterfacesOf(AllClasses)
  <2>1. PICK c \in AllClasses : f = <<"interface", c>>
    BY <1>3 DEF InterfacesOf, File
  <2>2. Uses(f) = Types
    BY <1>2, <2>1 DEF Uses, File
  <2> QED BY <1>1, <2>2
<1>4. CASE f \in ImplementationsOf(AllClasses) /\ mode # "interfaces"
  <2>1. PICK c \in AllClasses : f = <<"implementation", c>>
    BY <1>4 DEF ImplementationsOf, File
  <2>2. Uses(f) = implementationUses(c)
    BY <1>2, <2>1 DEF Uses, File
  <2> QED BY <1>4, <2>2, KnownImplementation
<1>5. CASE f \in EnumFiles \/ f = File("constants", "Package")
  <2>1. f[1] \in {"enum", "constants"}
    BY <1>5 DEF EnumFiles, File
  <2>2. Uses(f) = {}
    BY <2>1 DEF Uses, File
  <2> QED BY <2>2
<1>6. CASE f = File("interface", "Package") /\ mode # "implementations"
  <2>1. Uses(f) = packageInterfaceUses
    BY <1>2, <1>6 DEF Uses, File
  <2> QED BY <1>1, <1>6, <2>1, KnownPackage
<1>7. CASE f = File("interface", Factory) /\ mode # "implementations"
  <2>1. Uses(f) = factoryInterfaceUses
    BY <1>2, <1>7 DEF Uses, File
  <2> QED BY <1>1, <1>7, <2>1, KnownPackage
<1>8. CASE f = File("implementation", "Package") /\ mode # "implementations"
  <2>1. Uses(f) = packageImplementationUses
    BY <1>2, <1>8 DEF Uses, File
  <2> QED BY <1>1, <1>8, <2>1, KnownPackage
<1>9. CASE f = File("implementation", Factory)
  <2>1. Uses(f) = IF mode = "interfaces" THEN dataTypeFactoryUses ELSE factoryImplementationUses
    BY <1>2, <1>9 DEF Uses, File
  <2> QED BY <1>1, <1>9, <2>1, KnownPackage, KnownFactory
<1>10. \/ mode = "model" /\ f \in modelFiles
       \/ mode = "interfaces" /\ f \in interfaceFiles
       \/ mode = "implementations" /\ f \in implementationFiles
  BY <1>1 DEF Generated
<1> QED BY <1>3, <1>4, <1>5, <1>6, <1>7, <1>8, <1>9, <1>10
        DEF modelFiles, interfaceFiles, implementationFiles, PackageInterfaceFiles, PackageImplementationFiles
\* A file of a sequence is exported, with the names it declares.
LEMMA FilesAreExported ==
  ASSUME NEW files, NEW run, NEW f \in NamesOf(files)
  PROVE  f \in Exports(files, run) /\ Declares(f, run) \subseteq Exports(files, run)
BY DEF Exports, Declares

\* The types of the package, from a sequence that has the files of its interfaces.
LEMMA TypesAreExported ==
  ASSUME NEW files, NEW run, FilesOfInterfaces \subseteq NamesOf(files),
         NamesOf(result) = AllClasses, AllClasses \subseteq Classes
  PROVE  /\ OwnTypes \subseteq Exports(files, run)
         /\ AllConversions \subseteq Exports(files, run)
         /\ run = "model" => Getter(Factory) \in Exports(files, run)
<1>1. FilesOfInterfaces = InterfacesOf(AllClasses) \cup EnumFiles \cup PackageInterfaceFiles
  BY DEF FilesOfInterfaces
<1>2. InterfacesOf(AllClasses) \cup EnumFiles \cup PackageInterfaceFiles \subseteq Exports(files, run)
  BY <1>1, FilesAreExported
<1>3. Getter("Package") \in Exports(files, run)
  <2>1. File("interface", "Package") \in NamesOf(files)
    BY <1>1 DEF PackageInterfaceFiles
  <2>2. Getter("Package") \in Declares(File("interface", "Package"), run)
    BY DEF Declares, File, Factory
  <2> QED BY <2>1, <2>2, FilesAreExported
<1>4. AllConversions \subseteq Exports(files, run)
  <2> SUFFICES ASSUME NEW e \in NamesOf(Enums) PROVE Conversions(e) \subseteq Exports(files, run)
    BY DEF AllConversions
  <2>1. File("enum", e) \in NamesOf(files)
    BY <1>1 DEF EnumFiles
  <2>2. Conversions(e) \subseteq Declares(File("enum", e), run)
    BY DEF Declares, File
  <2> QED BY <2>1, <2>2, FilesAreExported
<1>5. run = "model" => Getter(Factory) \in Exports(files, run)
  <2>1. File("interface", Factory) \in NamesOf(files)
    BY <1>1 DEF PackageInterfaceFiles
  <2>2. run = "model" => Getter(Factory) \in Declares(File("interface", Factory), run)
    BY DEF Declares, File, Factory
  <2> QED BY <2>1, <2>2, FilesAreExported
<1> QED BY <1>2, <1>3, <1>4, <1>5 DEF OwnTypes

\* A module whose files are written, in a package without sub-packages.
WrittenModule == ModuleInv /\ stage = "written" /\ SubClasses = {}

\* The files that it lists.
LEMMA WrittenFiles ==
  ASSUME WrittenModule
  PROVE  /\ NamesOf(result) = AllClasses /\ AllClasses = Package /\ AllClasses \subseteq Classes
         /\ mode \in {"model", "interfaces", "implementations"}
         /\ NamesOf(internal) = FilesBefore \cup FilesTaken(exported) \cup FilesAfter
         /\ mode # "interfaces" => \A c \in AllClasses \ interfaces : BuiltClass(c) \in NamesOf(internal)
         /\ \A f \in FilesTaken(exported) : f[1] \in {"implementation", "extension"} /\ f[2] \in AllClasses
<1>1. ModuleInv /\ IInv /\ Returned /\ SubClasses = {}
  BY DEF WrittenModule, ModuleInv, StageOK
<1>2. NamesOf(result) = Package /\ AllClasses = Package /\ Package \subseteq Classes
  BY <1>1, NoneIsMissing DEF AllClasses, Package
<1>3. mode \in {"model", "interfaces", "implementations"}
  BY <1>1 DEF ModuleInv, StageOK
<1>4. NamesOf(internal) = FilesBefore \cup FilesTaken(exported) \cup FilesAfter
  BY DEF WrittenModule, ModuleInv, ExportsOK
<1>5. ASSUME mode # "interfaces", NEW c \in AllClasses \ interfaces
      PROVE  BuiltClass(c) \in NamesOf(internal)
  <2>1. exported = Len(result)
    BY <1>5 DEF WrittenModule, ModuleInv, StageOK
  <2>2. PICK i \in 1 .. Len(result) : result[i] = c
    BY <1>2 DEF NamesOf
  <2>3. ClassFiles(c) \subseteq FilesTaken(exported)
    BY <2>1, <2>2, Taken
  <2>4. BuiltClass(c) \in ClassFiles(c)
    BY DEF BuiltClass, ClassFiles
  <2> QED BY <1>4, <2>3, <2>4
<1>6. ASSUME NEW f \in FilesTaken(exported)
      PROVE  f[1] \in {"implementation", "extension"} /\ f[2] \in AllClasses
  <2>1. PICK i \in 1 .. exported : f \in ClassFiles(result[i])
    BY DEF FilesTaken
  <2>2. i \in 1 .. Len(result)
    <3>1. exported \in 0 .. Len(result) /\ Len(result) \in Nat
      BY <1>1, LenProperties DEF ModuleInv, StageOK, IInv, TypeOK
    <3> QED BY <3>1
  <2>3. result[i] \in AllClasses
    BY <1>2, <2>2 DEF NamesOf
  <2> QED BY <2>1, <2>3 DEF ClassFiles, File
<1> QED BY <1>2, <1>3, <1>4, <1>5, <1>6

\* What internal.ts exports with the interfaces: all that the package uses of itself.
LEMMA InternalHasAll ==
  ASSUME WrittenModule, mode # "implementations"
  PROVE  OwnNames \subseteq Exports(internal, mode)
<1>1. /\ NamesOf(result) = AllClasses /\ AllClasses \subseteq Classes
      /\ mode \in {"model", "interfaces"}
      /\ NamesOf(internal) = FilesBefore \cup FilesTaken(exported) \cup FilesAfter
      /\ mode # "interfaces" => \A c \in AllClasses \ interfaces : BuiltClass(c) \in NamesOf(internal)
  BY WrittenFiles
<1>2. FilesOfInterfaces \subseteq NamesOf(internal)
  BY <1>1 DEF FilesBefore
<1>3. /\ OwnTypes \subseteq Exports(internal, mode)
      /\ AllConversions \subseteq Exports(internal, mode)
      /\ mode = "model" => Getter(Factory) \in Exports(internal, mode)
  BY <1>1, <1>2, TypesAreExported
<1>4. /\ File("implementation", "Package") \in NamesOf(internal)
      /\ BuiltClass(Factory) \in NamesOf(internal)
  BY <1>1 DEF FilesAfter, PackageImplementationFiles, BuiltClass
<1>5. /\ File("implementation", "Package") \in Exports(internal, mode)
      /\ BuiltClass(Factory) \in Exports(internal, mode)
      /\ mode = "model" => {BuiltClass(c) : c \in AllClasses \ interfaces} \subseteq Exports(internal, mode)
  BY <1>1, <1>4, FilesAreExported
<1> QED BY <1>1, <1>3, <1>5 DEF OwnNames

\* What it exports with the implementations of a shared package only: the classes and
\* the functions of the factory, none of the types.
LEMMA InternalHasClasses ==
  ASSUME WrittenModule, mode = "implementations"
  PROVE  /\ ImplementationNames \subseteq Exports(internal, mode)
         /\ {File("implementation", Factory)} \cup SharedFunctions \subseteq Exports(internal, mode)
         /\ \A n \in OwnTypes : n \notin Exports(internal, mode)
<1>1. /\ NamesOf(internal) = FilesTaken(exported) \cup {File("implementation", Factory)}
      /\ \A c \in AllClasses \ interfaces : BuiltClass(c) \in NamesOf(internal)
      /\ \A f \in FilesTaken(exported) : f[1] \in {"implementation", "extension"} /\ f[2] \in AllClasses
      /\ AllClasses \subseteq Classes
  BY WrittenFiles DEF FilesBefore, FilesAfter
<1>2. File("implementation", Factory) \in Exports(internal, mode)
  BY <1>1, FilesAreExported
<1>3. SharedFunctions \subseteq Exports(internal, mode)
  <2>1. SharedFunctions \subseteq Declares(File("implementation", Factory), mode)
    BY DEF Declares, File, Factory
  <2> QED BY <1>1, <2>1, FilesAreExported
<1>4. ImplementationNames \subseteq Exports(internal, mode)
  <2>1. {BuiltClass(c) : c \in AllClasses \ interfaces} \subseteq Exports(internal, mode)
    BY <1>1, FilesAreExported
  <2> QED BY <1>3, <2>1 DEF ImplementationNames, SharedFunctions
<1>5. ASSUME NEW n \in Exports(internal, mode)
      PROVE  n[1] \in {"implementation", "extension", "function"}
  <2>1. PICK f \in NamesOf(internal) : n \in Declares(f, mode)
    BY DEF Exports
  <2>2. f[1] \in {"implementation", "extension"}
    BY <1>1 DEF File
  <2>3. n = f \/ n \in SharedFunctions
    BY <2>1, <2>2 DEF Declares, File
  <2> QED BY <2>2, <2>3 DEF SharedFunctions
<1>6. ASSUME NEW n \in OwnTypes
      PROVE  n[1] \in {"interface", "enum", "constants", "get"}
  BY DEF OwnTypes, InterfacesOf, EnumFiles, PackageInterfaceFiles, Getter, File
<1> QED BY <1>2, <1>3, <1>4, <1>5, <1>6
\* The files of the package and of its factory.
LEMMA PackageFiles ==
  /\ packageImplementationExports \in Seq(ModuleFiles)
  /\ PackageImplementationFiles \cup {BuiltClass(Factory)} \subseteq NamesOf(packageImplementationExports)
<1> DEFINE p == File("implementation", "Package")
           q == File("implementation", Factory)
           x == File("extension", Factory)
<1>1. p \in ModuleFiles /\ q \in ModuleFiles /\ x \in ModuleFiles
  BY DEF File, ModuleFiles, FileKinds
<1>2. /\ packageImplementationExports = <<p, q>> \o (IF Factory \in extended THEN <<x>> ELSE <<>>)
      /\ PackageImplementationFiles = {p, q}
      /\ BuiltClass(Factory) = IF Factory \in extended THEN x ELSE q
  BY DEF packageImplementationExports, PackageImplementationFiles, BuiltClass
<1> HIDE DEF p, q, x
<1>3. <<p, q>> \in Seq(ModuleFiles) /\ NamesOf(<<p, q>>) = {p, q}
  BY <1>1, TwoFiles
<1>4. CASE Factory \in extended
  <2>1. <<x>> \in Seq(ModuleFiles) /\ NamesOf(<<x>>) = {x}
    BY <1>1, OneFile
  <2> DEFINE s == <<p, q>>
             u == <<x>>
  <2>2. s \in Seq(ModuleFiles) /\ u \in Seq(ModuleFiles) /\ packageImplementationExports = s \o u
    BY <1>2, <1>3, <1>4, <2>1
  <2>3. NamesOf(s) = {p, q} /\ NamesOf(u) = {x}
    BY <1>3, <2>1
  <2> HIDE DEF s, u
  <2>4. /\ packageImplementationExports \in Seq(ModuleFiles)
        /\ NamesOf(packageImplementationExports) = NamesOf(s) \cup NamesOf(u)
    BY <2>2, ConcatFiles
  <2> QED BY <1>2, <1>4, <2>3, <2>4
<1>5. CASE Factory \notin extended
  <2>1. packageImplementationExports = <<p, q>>
    BY <1>2, <1>3, <1>5, ConcatEmptySeq
  <2> QED BY <1>2, <1>3, <1>5, <2>1
<1> QED BY <1>4, <1>5

\* The internal.ts of the interfaces of a shared package, for their implementations too.
LEMMA SharedHasAll ==
  ASSUME WrittenModule, mode # "model"
  PROVE  OwnNames \subseteq Exported(<<"own", "internal">>)
<1> DEFINE files == interfaceExports \o packageImplementationExports
<1>1. /\ NamesOf(result) = AllClasses /\ AllClasses \subseteq Classes /\ AllClasses = Package
      /\ mode \in {"interfaces", "implementations"}
      /\ result \in Seq(Package)
  BY WrittenFiles DEF WrittenModule, ModuleInv, IInv, TypeOK
<1>2. NamesOf(files) = NamesOf(interfaceExports) \cup NamesOf(packageImplementationExports)
  BY <1>1, InterfacesAreListed, PackageFiles, ConcatFiles
<1>3. Exported(<<"own", "internal">>) = Exports(files, "interfaces")
  BY DEF Exported, Internal
<1> HIDE DEF files
<1>4. FilesOfInterfaces \subseteq NamesOf(files)
  BY <1>1, <1>2, InterfacesAreListed
<1>5. OwnTypes \cup AllConversions \subseteq Exports(files, "interfaces")
  BY <1>1, <1>4, TypesAreExported
<1>6. {File("implementation", "Package"), BuiltClass(Factory)} \subseteq NamesOf(files)
  BY <1>2, PackageFiles DEF PackageImplementationFiles
<1>7. {File("implementation", "Package"), BuiltClass(Factory)} \subseteq Exports(files, "interfaces")
  BY <1>6, FilesAreExported
<1> QED BY <1>1, <1>3, <1>5, <1>7 DEF OwnNames

\* The kinds of the names that only a class, the factory or an enum of a package has.
HiddenKinds == {"implementation", "extension", "fromString", "toString"}

\* Its index.ts: the types and nothing else.
LEMMA IndexHasTypes ==
  ASSUME WrittenModule, mode # "model"
  PROVE  /\ Exported(<<"own", "index">>) = OwnTypes
         /\ \A n \in OwnNames : n \notin OwnTypes <=> n[1] \in HiddenKinds
<1>1. /\ NamesOf(result) = AllClasses
      /\ mode \in {"interfaces", "implementations"}
  BY WrittenFiles
<1>2. Exported(<<"own", "index">>) = OwnTypes
  BY <1>1 DEF Exported, Internal, publicNames, OwnTypes
<1>3. ASSUME NEW n \in OwnTypes
      PROVE  n[1] \in {"interface", "enum", "constants", "get"}
  BY DEF OwnTypes, InterfacesOf, EnumFiles, PackageInterfaceFiles, Getter, File
<1>4. ASSUME NEW n \in OwnNames
      PROVE  n \in OwnTypes \/ n[1] \in HiddenKinds
  <2>1. \/ n \in OwnTypes
        \/ n \in {File("implementation", "Package"), BuiltClass(Factory)}
        \/ n \in AllConversions
    BY <1>1 DEF OwnNames
  <2> QED BY <2>1 DEF HiddenKinds, File, BuiltClass, AllConversions, Conversions
<1>5. \A n \in OwnNames : n \notin OwnTypes <=> n[1] \in HiddenKinds
  BY <1>3, <1>4 DEF HiddenKinds
<1> QED BY <1>2, <1>5

\* What the paths of the other package reach.
LEMMA OtherHas ==
  /\ OtherNames \subseteq Exported(<<"other", "internal">>)
  /\ \A n \in OtherNames :
       n \notin Exported(<<"other", "index">>) <=> n[1] \in {"implementation", "extension"}
<1>1. /\ Exported(<<"other", "internal">>) = OtherNames
      /\ Exported(<<"other", "index">>) = InterfacesOf(Foreign) \cup {Getter("Package")}
  BY DEF Exported, Internal, OtherNames
<1>2. ASSUME NEW n \in InterfacesOf(Foreign) \cup {Getter("Package")}
      PROVE  n[1] \in {"interface", "get"}
  BY DEF InterfacesOf, Getter, File
<1>3. ASSUME NEW n \in {BuiltClass(c) : c \in Foreign}
      PROVE  n[1] \in {"implementation", "extension"}
  BY DEF BuiltClass, File
<1> QED BY <1>1, <1>2, <1>3 DEF OtherNames

\* The imports that reach nothing, from one of the modules.
LEMMA OneImport ==
  ASSUME WrittenModule, NEW f \in Generated, NEW paths \in Paths, NEW id \in imports(f)
  PROVE  id \in Unresolved(f, paths) <=> id \in Unexported(f, paths)
<1>1. PICK m \in {"own", "other", "implementation"} :
        /\ id[1] = m
        /\ m = "own" => id[2] \in OwnNames
        /\ m = "other" => id[2] \in OtherNames
        /\ m = "implementation" => id[2] \in ImplementationNames
  <2>1. id \in Known
    BY KnownUses DEF WrittenModule, imports
  <2> QED BY <2>1 DEF Known, Of
<1>2. id \in Unresolved(f, paths) <=> id[2] \notin Exported(modulePath(m, paths))
  BY <1>1 DEF Unresolved
<1>3. id \in Unexported(f, paths) <=>
        \/ mode = "implementations" /\ paths["own"] = "" /\ m = "own"
        \/ mode = "interfaces" /\ paths["own"] = "index" /\ m = "own" /\ id[2][1] \in HiddenKinds
        \/ m = "other" /\ paths["other"] # "internal" /\ id[2][1] \in {"implementation", "extension"}
  BY <1>1 DEF Unexported, HiddenKinds
<1>4. /\ mode \in {"model", "interfaces", "implementations"}
      /\ paths["own"] \in {"", "index", "internal"} /\ paths["other"] \in {"", "index", "internal"}
      /\ Exported(Internal) = Exports(internal, mode)
      /\ Shared <=> mode # "model"
  <2>1. mode \in {"model", "interfaces", "implementations"} /\ (Shared <=> mode # "model")
    BY WrittenFiles DEF Shared
  <2>2. paths["own"] \in {"", "index", "internal"} /\ paths["other"] \in {"", "index", "internal"}
    BY DEF Paths
  <2>3. Exported(Internal) = Exports(internal, mode)
    BY DEF Exported, Internal
  <2> QED BY <2>1, <2>2, <2>3
<1>5. CASE m = "other"
  <2>1. CASE paths["other"] = "internal"
    <3>1. modulePath(m, paths) = <<"other", "internal">>
      BY <1>5, <2>1, PathsOfTheModules
    <3> QED BY <1>1, <1>2, <1>3, <1>5, <2>1, <3>1, OtherHas
  <2>2. CASE paths["other"] # "internal"
    <3>1. modulePath(m, paths) = <<"other", "index">>
      BY <1>4, <1>5, <2>2, PathsOfTheModules
    <3> QED BY <1>1, <1>2, <1>3, <1>5, <2>2, <3>1, OtherHas
  <2> QED BY <2>1, <2>2
<1>6. CASE m = "implementation"
  <2>1. mode = "implementations"
    BY <1>1, <1>6 DEF ImplementationNames
  <2>2. modulePath(m, paths) = Internal
    BY <1>4, <1>6, <2>1, PathsOfTheModules
  <2>3. id[2] \in Exported(modulePath(m, paths))
    BY <1>1, <1>4, <1>6, <2>1, <2>2, InternalHasClasses
  <2> QED BY <1>2, <1>3, <1>6, <2>3
<1>7. CASE m = "own"
  <2>1. CASE mode = "model" \/ (mode = "interfaces" /\ paths["own"] = "")
    <3>1. modulePath(m, paths) = Internal
      BY <1>4, <1>7, <2>1, PathsOfTheModules
    <3>2. id[2] \in Exported(modulePath(m, paths))
      BY <1>1, <1>4, <1>7, <2>1, <3>1, InternalHasAll
    <3> QED BY <1>2, <1>3, <1>7, <2>1, <3>2
  <2>2. CASE mode = "implementations" /\ paths["own"] = ""
    <3>1. modulePath(m, paths) = Internal
      BY <1>4, <1>7, <2>2, PathsOfTheModules
    <3>2. id[2] \notin Exported(modulePath(m, paths))
      BY <1>1, <1>4, <1>7, <2>2, <3>1, InternalHasClasses DEF OwnNames
    <3> QED BY <1>2, <1>3, <1>7, <2>2, <3>2
  <2>3. CASE mode # "model" /\ paths["own"] = "index"
    <3>1. modulePath(m, paths) = <<"own", "index">>
      BY <1>4, <1>7, <2>3, PathsOfTheModules
    <3>2. id[2] \notin Exported(modulePath(m, paths)) <=> id[2][1] \in HiddenKinds
      BY <1>1, <1>7, <2>3, <3>1, IndexHasTypes
    <3>3. mode = "implementations" => id[2] \in OwnTypes
      BY <1>1, <1>7 DEF OwnNames
    <3>4. mode = "implementations" => id[2][1] \notin HiddenKinds
      BY <1>1, <1>7, <2>3, <3>3, IndexHasTypes
    <3> QED BY <1>2, <1>3, <1>4, <1>7, <2>3, <3>2, <3>4
  <2>4. CASE mode # "model" /\ paths["own"] = "internal"
    <3>1. modulePath(m, paths) = <<"own", "internal">>
      BY <1>4, <1>7, <2>4, PathsOfTheModules
    <3>2. id[2] \in Exported(modulePath(m, paths))
      BY <1>1, <1>7, <2>4, <3>1, SharedHasAll
    <3> QED BY <1>2, <1>3, <1>7, <2>4, <3>2
  <2>5. \/ mode = "model"
        \/ mode = "interfaces" /\ paths["own"] = ""
        \/ mode = "implementations" /\ paths["own"] = ""
        \/ mode # "model" /\ paths["own"] = "index"
        \/ mode # "model" /\ paths["own"] = "internal"
    BY <1>4
  <2> QED BY <2>1, <2>2, <2>3, <2>4, <2>5
<1> QED BY <1>1, <1>5, <1>6, <1>7

\* What index.ts exports, internal.ts exports.
LEMMA IndexIsInternal ==
  ASSUME WrittenModule
  PROVE  indexNames \subseteq Exports(internal, mode)
<1>1. mode \in {"model", "interfaces", "implementations"} /\ NamesOf(result) = AllClasses
  BY WrittenFiles
<1>2. publicNames = OwnTypes
  BY <1>1 DEF publicNames, OwnTypes
<1>3. CASE mode # "implementations"
  <2>1. indexNames \subseteq OwnNames
    BY <1>1, <1>2, <1>3 DEF indexNames, OwnNames
  <2> QED BY <1>3, <2>1, InternalHasAll
<1>4. CASE mode = "implementations"
  BY <1>4, InternalHasClasses DEF indexNames
<1> QED BY <1>3, <1>4

\* Every import of a generated file reaches a file that exports the name, for every
\* path that the modules are given, every hierarchy, the interfaces, the extensions and
\* the entry points; the ones that do not are those that Unexported lists.
THEOREM ImportsReachTheirNames ==
  ASSUME SubClasses = {}
  PROVE  ModuleSpec => []ImportsResolve
<1>1. ModuleInv => ImportsResolve
  <2> SUFFICES ASSUME ModuleInv, stage = "written"
               PROVE  /\ indexNames \subseteq Exports(internal, mode)
                      /\ \A paths \in Paths : \A f \in Generated : Unresolved(f, paths) = Unexported(f, paths)
    BY DEF ImportsResolve
  <2>1. WrittenModule
    BY DEF WrittenModule
  <2>2. ASSUME NEW paths \in Paths, NEW f \in Generated
        PROVE  Unresolved(f, paths) = Unexported(f, paths)
    <3>1. Unresolved(f, paths) \subseteq imports(f) /\ Unexported(f, paths) \subseteq imports(f)
      BY DEF Unresolved, Unexported
    <3>2. \A id \in imports(f) : id \in Unresolved(f, paths) <=> id \in Unexported(f, paths)
      BY <2>1, OneImport
    <3> QED BY <3>1, <3>2
  <2> QED BY <2>1, <2>2, IndexIsInternal
<1> QED BY <1>1, ModuleInvariance, PTL
=============================================================================

-------------------------- MODULE ReflectionProofs --------------------------
(***************************************************************************)
(* Theorems about the facts of a class and the generated reflection, for   *)
(* every number of classes, every acyclic hierarchy and every choice of    *)
(* interfaces: the constants of a class are the positions of its members,  *)
(* a member is implemented once along the implementations that a class     *)
(* embeds, and reading a feature calls its getter.                         *)
(***************************************************************************)
EXTENDS Reflection, FiniteSetTheorems, WellFoundedInduction, TLAPS

(***************************************************************************)
(* Recursion                                                               *)
(***************************************************************************)

\* A set that holds a number whenever it holds the smaller ones holds them all.
LEMMA StrongInduction ==
  ASSUME NEW S, \A n \in Nat : (\A m \in Nat : m < n => m \in S) => n \in S
  PROVE  \A n \in Nat : n \in S
<1> DEFINE Out == Nat \ S
<1>1. SUFFICES ASSUME Out # {} PROVE FALSE
  OBVIOUS
<1>2. Out \subseteq Nat
  OBVIOUS
<1>3. PICK x \in Out : \A y \in Out : ~(y < x)
  <2> HIDE DEF Out
  <2>1. PICK x \in Out : \A y \in Out : ~(<<y, x>> \in OpToRel(<, Nat))
    BY <1>1, <1>2, NatLessThanWellFounded, WFMin, Zenon
  <2> QED BY <1>2, <2>1, Zenon DEF OpToRel
<1>4. \A m \in Nat : m < x => m \in S
  BY <1>3
<1> QED BY <1>3, <1>4

\* The functions on an interval with values in V.
Over(a, b, V) == [a .. b -> V]

\* A step gives the value at c from a function, whose values below c it reads.
IsStep(a, b, V, step) ==
  /\ step \in [Over(a, b, V) \X (a .. b) -> V]
  /\ \A g, h \in Over(a, b, V) : \A c \in a .. b :
       (\A d \in a .. c - 1 : g[d] = h[d]) => step[<<g, c>>] = step[<<h, c>>]

\* The values of a function are those of the step.
Follows(g, a, b, step) == \A c \in a .. b : g[c] = step[<<g, c>>]

\* A step defines a function.
LEMMA Recursion ==
  ASSUME NEW a \in Nat, NEW b \in Nat, NEW V, NEW v \in V, NEW step, IsStep(a, b, V, step)
  PROVE  \E g \in Over(a, b, V) : Follows(g, a, b, step)
<1> USE DEF IsStep, Over, Follows
<1> DEFINE F == [a .. b -> V]
           Upto(n) == \E g \in F : \A c \in a .. b : c < n => g[c] = step[<<g, c>>]
           S == {n \in Nat : Upto(n)}
<1>1. ASSUME NEW n \in Nat, \A m \in Nat : m < n => m \in S
      PROVE  n \in S
  <2>1. CASE n = 0
    <3>1. [c \in a .. b |-> v] \in F
      OBVIOUS
    <3>2. \A c \in a .. b : ~(c < n)
      BY <2>1
    <3>3. Upto(n)
      BY <3>1, <3>2
    <3> QED BY <3>3
  <2>2. CASE n # 0
    <3>1. n - 1 \in Nat /\ n - 1 < n
      BY <2>2
    <3>2. PICK g \in F : \A c \in a .. b : c < n - 1 => g[c] = step[<<g, c>>]
      BY <1>1, <3>1
    <3>3. CASE n - 1 \notin a .. b
      <4>1. \A c \in a .. b : c < n => c < n - 1
        BY <3>3
      <4> QED BY <3>2, <4>1
    <3>4. CASE n - 1 \in a .. b
      <4> DEFINE h == [g EXCEPT ![n - 1] = step[<<g, n - 1>>]]
      <4>1. h \in F /\ h[n - 1] = step[<<g, n - 1>>] /\ \A d \in a .. b : d # n - 1 => h[d] = g[d]
        BY <3>4
      <4> HIDE DEF h
      <4>2. ASSUME NEW c \in a .. b, c < n PROVE h[c] = step[<<h, c>>]
        <5>1. \A d \in a .. c - 1 : d \in a .. b /\ d # n - 1
          BY <4>2
        <5>2. step[<<g, c>>] = step[<<h, c>>]
          BY <4>1, <5>1
        <5>3. CASE c = n - 1
          BY <4>1, <5>2, <5>3
        <5>4. CASE c # n - 1
          BY <3>2, <4>1, <4>2, <5>2, <5>4
        <5> QED BY <5>3, <5>4
      <4> QED BY <4>1, <4>2
    <3> QED BY <3>3, <3>4
  <2> QED BY <2>1, <2>2
<1>2. b + 1 \in S
  <2> HIDE DEF S
  <2>1. \A n \in Nat : n \in S
    BY <1>1, StrongInduction
  <2> QED BY <2>1
<1>3. \A c \in a .. b : c < b + 1
  OBVIOUS
<1> QED BY <1>2, <1>3

(***************************************************************************)
(* Lists                                                                   *)
(***************************************************************************)

\* A list without an element twice.
Distinct(s) == \A i, j \in 1 .. Len(s) : s[i] = s[j] => i = j

\* t begins with s.
Begins(s, t) == Len(s) <= Len(t) /\ \A i \in 1 .. Len(s) : t[i] = s[i]

\* The elements of a list are those at its positions.
LEMMA NamesAtPositions ==
  ASSUME NEW V, NEW s \in Seq(V)
  PROVE  /\ \A x : x \in NamesOf(s) <=> \E i \in 1 .. Len(s) : s[i] = x
         /\ NamesOf(s) \subseteq V
BY DEF NamesOf

\* What a list begins with is the beginning of what the list begins.
LEMMA BeginsIsTransitive ==
  ASSUME NEW V, NEW r \in Seq(V), NEW s \in Seq(V), NEW t \in Seq(V), Begins(r, s), Begins(s, t)
  PROVE  Begins(r, t)
<1>1. Len(r) \in Nat /\ Len(s) \in Nat /\ Len(t) \in Nat
  OBVIOUS
<1> QED BY <1>1 DEF Begins

\* A list has the elements of what it begins with.
LEMMA BeginsHasNames ==
  ASSUME NEW V, NEW s \in Seq(V), NEW t \in Seq(V), Begins(s, t)
  PROVE  NamesOf(s) \subseteq NamesOf(t)
<1>1. Len(s) \in Nat /\ Len(t) \in Nat
  OBVIOUS
<1>2. 1 .. Len(s) \subseteq 1 .. Len(t)
  BY <1>1 DEF Begins
<1> QED BY <1>2, NamesAtPositions DEF Begins

\* An element appended once.
LEMMA AppendedOnceExtends ==
  ASSUME NEW V, NEW s \in Seq(V), NEW x \in V
  PROVE  /\ AppendedOnce(s, x) \in Seq(V)
         /\ Begins(s, AppendedOnce(s, x))
         /\ NamesOf(AppendedOnce(s, x)) = NamesOf(s) \cup {x}
         /\ Distinct(s) => Distinct(AppendedOnce(s, x))
<1>1. CASE x \in NamesOf(s)
  BY <1>1 DEF AppendedOnce, Begins
<1>2. CASE x \notin NamesOf(s)
  <2> DEFINE t == Append(s, x)
  <2>1. AppendedOnce(s, x) = t
    BY <1>2 DEF AppendedOnce
  <2>2. t \in Seq(V) /\ Len(t) = Len(s) + 1 /\ Len(s) \in Nat /\ t[Len(s) + 1] = x
        /\ \A i \in 1 .. Len(s) : t[i] = s[i]
    OBVIOUS
  <2> HIDE DEF t
  <2>3. Begins(s, t)
    BY <2>2 DEF Begins
  <2>4. NamesOf(t) = NamesOf(s) \cup {x}
    <3>1. 1 .. Len(t) = (1 .. Len(s)) \cup {Len(s) + 1}
      BY <2>2
    <3> QED BY <2>2, <3>1, NamesAtPositions
  <2>5. ASSUME Distinct(s) PROVE Distinct(t)
    <3>1. \A i \in 1 .. Len(s) : s[i] # x
      BY <1>2, NamesAtPositions
    <3> QED BY <2>2, <2>5, <3>1 DEF Distinct
  <2> QED BY <2>1, <2>2, <2>3, <2>4, <2>5
<1> QED BY <1>1, <1>2
\* appendUnique appends the elements of a list, each once.
LEMMA AppendUniqueExtends ==
  ASSUME NEW V, NEW dst \in Seq(V), NEW src \in Seq(V)
  PROVE  /\ appendUnique(dst, src) \in Seq(V)
         /\ Begins(dst, appendUnique(dst, src))
         /\ NamesOf(appendUnique(dst, src)) = NamesOf(dst) \cup NamesOf(src)
         /\ Distinct(dst) => Distinct(appendUnique(dst, src))
         /\ dst = <<>> /\ Distinct(src) => appendUnique(dst, src) = src
<1> DEFINE n == Len(src)
           Result(p) == IF p[2] = 0 THEN dst ELSE AppendedOnce(p[1][p[2] - 1], src[p[2]])
           F == [0 .. n -> Seq(V)]
           step == [p \in F \X (0 .. n) |-> Result(p)]
           IsUpTo(g) == g = [k \in 0 .. n |-> IF k = 0 THEN dst ELSE AppendedOnce(g[k - 1], src[k])]
<1>1. n \in Nat /\ \A k \in 1 .. n : src[k] \in V
  OBVIOUS
<1>2. \A g \in F, k \in 0 .. n : k # 0 => k - 1 \in 0 .. n /\ k \in 1 .. n /\ g[k - 1] \in Seq(V)
  <2> HIDE DEF n
  <2> QED BY <1>1
<1>3. ASSUME NEW g \in F, NEW k \in 0 .. n
      PROVE  Result(<<g, k>>) \in Seq(V)
  <2> HIDE DEF F
  <2>1. CASE k = 0
    BY <2>1
  <2>2. CASE k # 0
    <3>1. g[k - 1] \in Seq(V) /\ src[k] \in V
      BY <1>1, <1>2, <2>2
    <3> QED BY <2>2, <3>1, AppendedOnceExtends
  <2> QED BY <2>1, <2>2
<1>4. IsStep(0, n, Seq(V), step)
  <2>1. step \in [F \X (0 .. n) -> Seq(V)]
    <3> HIDE DEF Result, F
    <3> QED BY <1>3
  <2>2. ASSUME NEW g \in F, NEW h \in F, NEW c \in 0 .. n, \A d \in 0 .. c - 1 : g[d] = h[d]
        PROVE  step[<<g, c>>] = step[<<h, c>>]
    <3>1. c # 0 => g[c - 1] = h[c - 1]
      BY <1>1, <2>2
    <3>2. Result(<<g, c>>) = Result(<<h, c>>)
      BY <3>1
    <3> HIDE DEF Result, F
    <3> QED BY <3>2
  <2> HIDE DEF step
  <2> QED BY <2>1, <2>2 DEF IsStep, Over
<1>5. PICK g \in Over(0, n, Seq(V)) : Follows(g, 0, n, step)
  <2> HIDE DEF step, n
  <2> QED BY <1>1, <1>4, Recursion
<1>6. IsUpTo(g)
  <2>1. g \in F /\ \A k \in 0 .. n : g[k] = Result(<<g, k>>)
    <3> HIDE DEF Result
    <3> QED BY <1>5 DEF Over, Follows
  <2> QED BY <2>1
<1> DEFINE r == CHOOSE r : IsUpTo(r)
<1>7. IsUpTo(r)
  <2> HIDE DEF IsUpTo
  <2> QED BY <1>6
<1>8. appendUnique(dst, src) = r[n]
  BY DEF appendUnique
<1>9. r[0] = dst /\ \A k \in 1 .. n : r[k] = AppendedOnce(r[k - 1], src[k])
  <2> HIDE DEF r
  <2>1. \A k \in 1 .. n : k \in 0 .. n /\ k # 0
    BY <1>1
  <2>2. 0 \in 0 .. n
    BY <1>1
  <2> QED BY <1>7, <2>1, <2>2
<1> HIDE DEF r, step, F, IsUpTo
<1> DEFINE Good(k) ==
             /\ r[k] \in Seq(V)
             /\ Begins(dst, r[k])
             /\ NamesOf(r[k]) = NamesOf(dst) \cup {src[i] : i \in 1 .. k}
             /\ Distinct(dst) => Distinct(r[k])
             /\ dst = <<>> /\ Distinct(src) => r[k] = SubSeq(src, 1, k)
           S == {k \in Nat : k <= n => Good(k)}
<1>10. ASSUME NEW k \in Nat, \A m \in Nat : m < k => m \in S
       PROVE  k \in S
  <2>1. CASE k = 0
    <3>1. {src[i] : i \in 1 .. k} = {}
      BY <2>1
    <3>2. Begins(dst, dst)
      BY DEF Begins
    <3>3. SubSeq(src, 1, 0) = <<>>
      OBVIOUS
    <3> QED BY <1>9, <2>1, <3>1, <3>2, <3>3
  <2>2. CASE k # 0 /\ k <= n
    <3> DEFINE q == r[k - 1]
               x == src[k]
    <3>1. k - 1 \in Nat /\ k - 1 < k /\ k - 1 <= n /\ k \in 1 .. n
      BY <1>1, <2>2
    <3>2. Good(k - 1)
      BY <1>10, <3>1
    <3>3. r[k] = AppendedOnce(q, x) /\ x \in V
      BY <1>1, <1>9, <3>1
    <3>4. /\ r[k] \in Seq(V)
          /\ Begins(q, r[k])
          /\ NamesOf(r[k]) = NamesOf(q) \cup {x}
          /\ Distinct(q) => Distinct(r[k])
      <4>1. q \in Seq(V)
        BY <3>2
      <4> HIDE DEF q, x
      <4> QED BY <3>3, <4>1, AppendedOnceExtends
    <3>5. Begins(dst, r[k])
      BY <3>2, <3>4, BeginsIsTransitive
    <3>6. {src[i] : i \in 1 .. k} = {src[i] : i \in 1 .. k - 1} \cup {x}
      <4>1. 1 .. k = (1 .. k - 1) \cup {k}
        BY <3>1
      <4> QED BY <4>1
    <3>7. ASSUME dst = <<>>, Distinct(src) PROVE r[k] = SubSeq(src, 1, k)
      <4>1. q = SubSeq(src, 1, k - 1)
        BY <3>2, <3>7
      <4>2. x \notin NamesOf(q)
        <5>1. \A i \in 1 .. k - 1 : i \in 1 .. n /\ i # k
          BY <1>1, <3>1
        <5>2. \A i \in 1 .. k - 1 : src[i] # x
          BY <3>1, <3>7, <5>1 DEF Distinct
        <5>3. NamesOf(q) = {src[i] : i \in 1 .. k - 1}
          <6>1. NamesOf(dst) = {}
            BY <3>7 DEF NamesOf
          <6> QED BY <3>2, <6>1
        <5> QED BY <5>2, <5>3
      <4>3. r[k] = Append(q, x)
        BY <3>3, <4>2 DEF AppendedOnce
      <4>4. Append(SubSeq(src, 1, k - 1), src[k]) = SubSeq(src, 1, k)
        BY <1>1, <3>1
      <4> QED BY <4>1, <4>3, <4>4
    <3> HIDE DEF q, x
    <3>8. Good(k)
      BY <3>2, <3>4, <3>5, <3>6, <3>7 DEF q
    <3> QED BY <3>8
  <2> HIDE DEF Good
  <2>3. CASE ~(k <= n)
    BY <2>3
  <2> QED BY <2>1, <2>2, <2>3
<1>11. Good(n)
  <2> HIDE DEF Good
  <2>1. \A k \in Nat : k \in S
    <3> HIDE DEF S
    <3> QED BY <1>10, StrongInduction
  <2> QED BY <1>1, <2>1
<1>12. SubSeq(src, 1, n) = src
  OBVIOUS
<1>13. NamesOf(src) = {src[i] : i \in 1 .. n}
  BY DEF NamesOf
<1> QED BY <1>8, <1>11, <1>12, <1>13
\* Merged lists: every element of the lists once, the first list first.
LEMMA MergedLists ==
  ASSUME NEW V, NEW lists \in Seq(Seq(V))
  PROVE  /\ Merged(lists) \in Seq(V)
         /\ Distinct(Merged(lists))
         /\ \A x : x \in NamesOf(Merged(lists)) <=> \E i \in 1 .. Len(lists) : x \in NamesOf(lists[i])
         /\ lists # <<>> /\ Distinct(lists[1]) => Begins(lists[1], Merged(lists))
<1> DEFINE n == Len(lists)
           Result(p) == IF p[2] = 0 THEN <<>> ELSE appendUnique(p[1][p[2] - 1], lists[p[2]])
           F == [0 .. n -> Seq(V)]
           step == [p \in F \X (0 .. n) |-> Result(p)]
           IsUpTo(g) == g = [k \in 0 .. n |-> IF k = 0 THEN <<>> ELSE appendUnique(g[k - 1], lists[k])]
<1>1. n \in Nat /\ \A k \in 1 .. n : lists[k] \in Seq(V)
  OBVIOUS
<1>2. \A g \in F, k \in 0 .. n : k # 0 => k - 1 \in 0 .. n /\ k \in 1 .. n /\ g[k - 1] \in Seq(V)
  <2> HIDE DEF n
  <2> QED BY <1>1
<1>3. ASSUME NEW g \in F, NEW k \in 0 .. n
      PROVE  Result(<<g, k>>) \in Seq(V)
  <2> HIDE DEF F
  <2>1. CASE k = 0
    BY <2>1
  <2>2. CASE k # 0
    <3>1. g[k - 1] \in Seq(V) /\ lists[k] \in Seq(V)
      BY <1>1, <1>2, <2>2
    <3> QED BY <2>2, <3>1, AppendUniqueExtends
  <2> QED BY <2>1, <2>2
<1>4. IsStep(0, n, Seq(V), step)
  <2>1. step \in [F \X (0 .. n) -> Seq(V)]
    <3> HIDE DEF Result, F
    <3> QED BY <1>3
  <2>2. ASSUME NEW g \in F, NEW h \in F, NEW c \in 0 .. n, \A d \in 0 .. c - 1 : g[d] = h[d]
        PROVE  step[<<g, c>>] = step[<<h, c>>]
    <3>1. c # 0 => g[c - 1] = h[c - 1]
      BY <1>1, <2>2
    <3>2. Result(<<g, c>>) = Result(<<h, c>>)
      BY <3>1
    <3> HIDE DEF Result, F
    <3> QED BY <3>2
  <2> HIDE DEF step
  <2> QED BY <2>1, <2>2 DEF IsStep, Over
<1>5. PICK g \in Over(0, n, Seq(V)) : Follows(g, 0, n, step)
  <2>1. <<>> \in Seq(V)
    OBVIOUS
  <2> HIDE DEF step, n
  <2> QED BY <1>1, <1>4, <2>1, Recursion
<1>6. IsUpTo(g)
  <2>1. g \in F /\ \A k \in 0 .. n : g[k] = Result(<<g, k>>)
    <3> HIDE DEF Result
    <3> QED BY <1>5 DEF Over, Follows
  <2> QED BY <2>1
<1> DEFINE r == CHOOSE r : IsUpTo(r)
<1>7. IsUpTo(r)
  <2> HIDE DEF IsUpTo
  <2> QED BY <1>6
<1>8. Merged(lists) = r[n]
  BY DEF Merged
<1>9. r[0] = <<>> /\ \A k \in 1 .. n : r[k] = appendUnique(r[k - 1], lists[k])
  <2> HIDE DEF r
  <2>1. \A k \in 1 .. n : k \in 0 .. n /\ k # 0
    BY <1>1
  <2>2. 0 \in 0 .. n
    BY <1>1
  <2> QED BY <1>7, <2>1, <2>2
<1> HIDE DEF r, step, F, IsUpTo
<1> DEFINE Good(k) ==
             /\ r[k] \in Seq(V)
             /\ Distinct(r[k])
             /\ \A x : x \in NamesOf(r[k]) <=> \E i \in 1 .. k : x \in NamesOf(lists[i])
             /\ k # 0 /\ Distinct(lists[1]) => Begins(lists[1], r[k])
           S == {k \in Nat : k <= n => Good(k)}
<1>10. ASSUME NEW k \in Nat, \A m \in Nat : m < k => m \in S
       PROVE  k \in S
  <2>1. CASE k = 0
    <3>1. r[k] = <<>>
      BY <1>9, <2>1
    <3>2. <<>> \in Seq(V) /\ Distinct(<<>>) /\ NamesOf(<<>>) = {}
      BY DEF Distinct, NamesOf
    <3>3. \A i \in 1 .. k : FALSE
      BY <2>1
    <3>4. Good(k)
      BY <2>1, <3>1, <3>2, <3>3
    <3> QED BY <3>4
  <2>2. CASE k # 0 /\ k <= n
    <3> DEFINE q == r[k - 1]
               x == lists[k]
    <3>1. k - 1 \in Nat /\ k - 1 < k /\ k - 1 <= n /\ k \in 1 .. n
      BY <1>1, <2>2
    <3>2. Good(k - 1)
      BY <1>10, <3>1
    <3>3. r[k] = appendUnique(q, x) /\ x \in Seq(V)
      BY <1>1, <1>9, <3>1
    <3>4. q \in Seq(V) /\ Distinct(q)
      BY <3>2
    <3>5. /\ r[k] \in Seq(V)
          /\ Begins(q, r[k])
          /\ NamesOf(r[k]) = NamesOf(q) \cup NamesOf(x)
          /\ Distinct(r[k])
          /\ q = <<>> /\ Distinct(x) => r[k] = x
      <4> HIDE DEF q, x
      <4> QED BY <3>3, <3>4, AppendUniqueExtends
    <3>6. \A y : y \in NamesOf(r[k]) <=> \E i \in 1 .. k : y \in NamesOf(lists[i])
      <4>1. 1 .. k = (1 .. k - 1) \cup {k}
        BY <3>1
      <4>2. \A y : y \in NamesOf(q) <=> \E i \in 1 .. k - 1 : y \in NamesOf(lists[i])
        BY <3>2
      <4>3. \A y : y \in NamesOf(r[k]) <=> y \in NamesOf(q) \/ y \in NamesOf(lists[k])
        BY <3>5
      <4> QED BY <4>1, <4>2, <4>3
    <3>7. ASSUME Distinct(lists[1]) PROVE Begins(lists[1], r[k])
      <4>1. CASE k = 1
        <5>1. q = <<>>
          BY <1>9, <4>1
        <5>2. r[k] = lists[1]
          BY <3>5, <3>7, <4>1, <5>1
        <5>3. Begins(lists[1], lists[1])
          BY DEF Begins
        <5> QED BY <5>2, <5>3
      <4>2. CASE k # 1
        <5>1. k - 1 # 0 /\ 1 \in 1 .. n
          BY <1>1, <3>1, <4>2
        <5>2. Begins(lists[1], q)
          BY <3>2, <3>7, <5>1
        <5>3. lists[1] \in Seq(V)
          BY <1>1, <5>1
        <5> HIDE DEF q
        <5> QED BY <3>4, <3>5, <5>2, <5>3, BeginsIsTransitive
      <4> QED BY <4>1, <4>2
    <3>8. Good(k)
      BY <3>5, <3>6, <3>7
    <3> QED BY <3>8
  <2>3. CASE ~(k <= n)
    BY <2>3
  <2> HIDE DEF Good
  <2> QED BY <2>1, <2>2, <2>3
<1>11. Good(n)
  <2> HIDE DEF Good
  <2>1. \A k \in Nat : k \in S
    <3> HIDE DEF S
    <3> QED BY <1>10, StrongInduction
  <2> QED BY <1>1, <2>1
<1>12. lists # <<>> => n # 0
  OBVIOUS
<1> QED BY <1>8, <1>11, <1>12
(***************************************************************************)
(* The hierarchy                                                           *)
(***************************************************************************)

\* A class is above its super types.
HierarchyOK ==
  /\ superTypes \in [Classes -> Seq(Classes)]
  /\ \A c \in Classes : \A k \in 1 .. Len(superTypes[c]) : superTypes[c][k] < c
  /\ isInterface \in [Classes -> BOOLEAN]

\* A super type of a class.
SuperTypeOf(c, k) == superTypes[c][k]

\* The super types of a class are classes below it.
LEMMA SuperTypesAreBelow ==
  ASSUME HierarchyOK, NEW c \in Classes
  PROVE  /\ superTypes[c] \in Seq(Classes)
         /\ DOMAIN superTypes[c] = 1 .. Len(superTypes[c])
         /\ Len(superTypes[c]) \in Nat
         /\ \A k \in 1 .. Len(superTypes[c]) :
              SuperTypeOf(c, k) \in Classes /\ SuperTypeOf(c, k) \in 1 .. c - 1
<1>1. superTypes[c] \in Seq(Classes)
  BY DEF HierarchyOK
<1> DEFINE s == superTypes[c]
<1>2. DOMAIN s = 1 .. Len(s) /\ Len(s) \in Nat /\ \A k \in 1 .. Len(s) : s[k] \in Classes
  <2> HIDE DEF s
  <2>1. s \in Seq(Classes)
    BY <1>1 DEF s
  <2> QED BY <2>1
<1>3. \A k \in 1 .. Len(s) : s[k] \in Int /\ s[k] < c /\ s[k] >= 1 /\ c \in Int
  BY <1>2, BoundsAssumption DEF HierarchyOK, Classes
<1>4. \A k \in 1 .. Len(s) : s[k] \in 1 .. c - 1
  <2> HIDE DEF s
  <2> QED BY <1>3
<1> QED BY <1>1, <1>2, <1>4 DEF SuperTypeOf

\* What holds of a class whenever it holds of the classes below it holds of all.
LEMMA ClassInduction ==
  ASSUME NEW S, \A c \in Classes : (\A d \in 1 .. c - 1 : d \in S) => c \in S
  PROVE  \A c \in Classes : c \in S
<1> DEFINE T == {n \in Nat : n \in Classes => n \in S}
<1>1. \A c \in Classes : c \in Nat
  BY BoundsAssumption DEF Classes
<1>2. ASSUME NEW n \in Nat, \A m \in Nat : m < n => m \in T
      PROVE  n \in T
  <2>1. CASE n \notin Classes
    BY <2>1
  <2>2. CASE n \in Classes
    <3>1. ASSUME NEW d \in 1 .. n - 1 PROVE d \in S
      <4>1. d \in Nat /\ d < n /\ d \in Classes
        BY <2>2, BoundsAssumption DEF Classes
      <4> QED BY <1>2, <4>1
    <3> QED BY <2>2, <3>1
  <2> QED BY <2>1, <2>2
<1>3. \A n \in Nat : n \in T
  <2> HIDE DEF T
  <2> QED BY <1>2, StrongInduction
<1> QED BY <1>1, <1>3

\* The functions on the classes that a step defines.
LEMMA ClassRecursion ==
  ASSUME NEW V, NEW v \in V, NEW step, IsStep(1, MaxClass, V, step)
  PROVE  \E g \in [Classes -> V] : \A c \in Classes : g[c] = step[<<g, c>>]
<1>1. MaxClass \in Nat /\ 1 \in Nat
  BY BoundsAssumption
<1>2. PICK g \in Over(1, MaxClass, V) : Follows(g, 1, MaxClass, step)
  BY <1>1, Recursion
<1> QED BY <1>2 DEF Over, Follows, Classes

\* A step reads the function at the super types of a class.
LEMMA ClassStep ==
  ASSUME NEW V, NEW step \in [[Classes -> V] \X Classes -> V],
         \A g, h \in [Classes -> V] : \A c \in Classes :
           (\A d \in 1 .. c - 1 : g[d] = h[d]) => step[<<g, c>>] = step[<<h, c>>]
  PROVE  IsStep(1, MaxClass, V, step)
BY DEF IsStep, Over, Classes

(***************************************************************************)
(* Super types                                                             *)
(***************************************************************************)

\* The lists that the super types above a class are merged from, from a function
\* that has those of its super types.
ListsAbove(g, c) == [k \in DOMAIN superTypes[c] |-> Append(g[superTypes[c][k]], superTypes[c][k])]

\* They are lists of classes, as the function has.
LEMMA ListsAboveType ==
  ASSUME HierarchyOK, NEW c \in Classes, NEW g, \A d \in 1 .. c - 1 : g[d] \in Seq(Classes)
  PROVE  /\ ListsAbove(g, c) \in Seq(Seq(Classes))
         /\ Len(ListsAbove(g, c)) = Len(superTypes[c])
         /\ \A k \in 1 .. Len(superTypes[c]) :
              ListsAbove(g, c)[k] = Append(g[SuperTypeOf(c, k)], SuperTypeOf(c, k))
<1> DEFINE n == Len(superTypes[c])
<1>1. n \in Nat /\ DOMAIN superTypes[c] = 1 .. n
  BY SuperTypesAreBelow
<1>2. \A k \in 1 .. n : Append(g[SuperTypeOf(c, k)], SuperTypeOf(c, k)) \in Seq(Classes)
  <2> HIDE DEF n
  <2> TAKE k \in 1 .. n
  <2>1. SuperTypeOf(c, k) \in Classes /\ g[SuperTypeOf(c, k)] \in Seq(Classes)
    BY SuperTypesAreBelow DEF n
  <2> QED BY <2>1
<1>3. ListsAbove(g, c) = [k \in 1 .. n |-> Append(g[SuperTypeOf(c, k)], SuperTypeOf(c, k))]
  BY <1>1 DEF ListsAbove, SuperTypeOf
<1> HIDE DEF n
<1>4. ListsAbove(g, c) \in [1 .. n -> Seq(Classes)]
  BY <1>2, <1>3
<1>5. ListsAbove(g, c) \in Seq(Seq(Classes))
  BY <1>1, <1>4
<1>6. Len(ListsAbove(g, c)) = n
  BY <1>1, <1>3
<1> QED BY <1>3, <1>5, <1>6 DEF n
\* eAllSuperTypes is the function that its definition describes.
LEMMA AllSuperTypesEquation ==
  ASSUME HierarchyOK
  PROVE  \A c \in Classes : eAllSuperTypes[c] = Merged(ListsAbove(eAllSuperTypes, c))
<1> DEFINE V == Seq(Classes)
           F == [Classes -> V]
           step == [p \in F \X Classes |-> Merged(ListsAbove(p[1], p[2]))]
           Is(g) == g = [c \in Classes |-> Merged(ListsAbove(g, c))]
<1>1. ASSUME NEW g \in F, NEW c \in Classes
      PROVE  /\ ListsAbove(g, c) \in Seq(Seq(Classes))
             /\ Merged(ListsAbove(g, c)) \in V
  <2>1. \A d \in 1 .. c - 1 : d \in Classes
    BY BoundsAssumption DEF Classes
  <2>2. \A d \in 1 .. c - 1 : g[d] \in Seq(Classes)
    BY <2>1
  <2>3. ListsAbove(g, c) \in Seq(Seq(Classes))
    BY <2>2, ListsAboveType
  <2> QED BY <2>3, MergedLists
<1>2. step \in [F \X Classes -> V]
  <2> HIDE DEF V, F
  <2> QED BY <1>1
<1>3. ASSUME NEW g \in F, NEW h \in F, NEW c \in Classes, \A d \in 1 .. c - 1 : g[d] = h[d]
      PROVE  step[<<g, c>>] = step[<<h, c>>]
  <2>1. \A k \in DOMAIN superTypes[c] : superTypes[c][k] \in 1 .. c - 1
    BY SuperTypesAreBelow DEF SuperTypeOf
  <2>2. ListsAbove(g, c) = ListsAbove(h, c)
    BY <1>3, <2>1 DEF ListsAbove
  <2> HIDE DEF F
  <2> QED BY <2>2
<1>4. IsStep(1, MaxClass, V, step)
  <2> HIDE DEF step, V
  <2> QED BY <1>2, <1>3, ClassStep
<1>5. PICK g \in F : \A c \in Classes : g[c] = step[<<g, c>>]
  <2>1. <<>> \in V
    OBVIOUS
  <2> HIDE DEF step, V
  <2> QED BY <1>4, <2>1, ClassRecursion
<1>6. Is(g)
  <2>1. \A c \in Classes : g[c] = Merged(ListsAbove(g, c))
    BY <1>5
  <2> QED BY <2>1
<1> DEFINE r == CHOOSE r : Is(r)
<1>7. Is(r)
  <2> HIDE DEF Is
  <2> QED BY <1>6
<1>8. eAllSuperTypes = r
  BY DEF eAllSuperTypes, ListsAbove
<1> HIDE DEF r
<1> QED BY <1>7, <1>8

\* What the super types above a class are.
SuperSet(c) == NamesOf(eAllSuperTypes[c])

\* The super types above a class are the ones of its super types, and these.
LEMMA AllSuperTypes ==
  ASSUME HierarchyOK, NEW c \in Classes
  PROVE  /\ eAllSuperTypes[c] \in Seq(Classes)
         /\ Distinct(eAllSuperTypes[c])
         /\ \A x : x \in SuperSet(c) <=>
              \E k \in 1 .. Len(superTypes[c]) : x \in SuperSet(SuperTypeOf(c, k)) \cup {SuperTypeOf(c, k)}
         /\ superTypes[c] # <<>> /\ Distinct(Append(eAllSuperTypes[SuperTypeOf(c, 1)], SuperTypeOf(c, 1))) =>
              Begins(Append(eAllSuperTypes[SuperTypeOf(c, 1)], SuperTypeOf(c, 1)), eAllSuperTypes[c])
<1> DEFINE S == {d \in Classes : eAllSuperTypes[d] \in Seq(Classes)}
<1>1. ASSUME NEW d \in Classes, \A e \in 1 .. d - 1 : e \in S
      PROVE  d \in S
  <2>1. \A e \in 1 .. d - 1 : eAllSuperTypes[e] \in Seq(Classes)
    BY <1>1
  <2>2. ListsAbove(eAllSuperTypes, d) \in Seq(Seq(Classes))
    BY <2>1, ListsAboveType
  <2>3. Merged(ListsAbove(eAllSuperTypes, d)) \in Seq(Classes)
    BY <2>2, MergedLists
  <2> QED BY <2>3, AllSuperTypesEquation
<1>2. \A d \in Classes : eAllSuperTypes[d] \in Seq(Classes)
  <2>1. \A d \in Classes : d \in S
    <3> HIDE DEF S
    <3> QED BY <1>1, ClassInduction
  <2> QED BY <2>1
<1> DEFINE lists == ListsAbove(eAllSuperTypes, c)
           n == Len(superTypes[c])
<1>3. \A d \in 1 .. c - 1 : d \in Classes
  BY BoundsAssumption DEF Classes
<1>4. /\ lists \in Seq(Seq(Classes))
      /\ Len(lists) = n
      /\ \A k \in 1 .. n : lists[k] = Append(eAllSuperTypes[SuperTypeOf(c, k)], SuperTypeOf(c, k))
  BY <1>2, <1>3, ListsAboveType
<1>5. eAllSuperTypes[c] = Merged(lists)
  BY AllSuperTypesEquation
<1>6. \A k \in 1 .. n : SuperTypeOf(c, k) \in Classes /\ eAllSuperTypes[SuperTypeOf(c, k)] \in Seq(Classes)
  BY <1>2, SuperTypesAreBelow
<1>7. ASSUME NEW s \in Seq(Classes), NEW x \in Classes
      PROVE  NamesOf(Append(s, x)) = NamesOf(s) \cup {x}
  <2> DEFINE t == Append(s, x)
  <2>1. t \in Seq(Classes) /\ Len(t) = Len(s) + 1 /\ Len(s) \in Nat /\ t[Len(s) + 1] = x
        /\ \A i \in 1 .. Len(s) : t[i] = s[i]
    OBVIOUS
  <2> HIDE DEF t
  <2>2. 1 .. Len(t) = (1 .. Len(s)) \cup {Len(s) + 1}
    BY <2>1
  <2>3. NamesOf(t) = NamesOf(s) \cup {x}
    BY <2>1, <2>2, NamesAtPositions
  <2> QED BY <2>3 DEF t
<1> HIDE DEF lists, n
<1>8. /\ Merged(lists) \in Seq(Classes)
      /\ Distinct(Merged(lists))
      /\ \A x : x \in NamesOf(Merged(lists)) <=> \E i \in 1 .. Len(lists) : x \in NamesOf(lists[i])
      /\ lists # <<>> /\ Distinct(lists[1]) => Begins(lists[1], Merged(lists))
  BY <1>4, MergedLists
<1>9. \A k \in 1 .. n : NamesOf(lists[k]) = SuperSet(SuperTypeOf(c, k)) \cup {SuperTypeOf(c, k)}
  BY <1>4, <1>6, <1>7 DEF SuperSet
<1>10. ASSUME superTypes[c] # <<>>
       PROVE  lists # <<>> /\ lists[1] = Append(eAllSuperTypes[SuperTypeOf(c, 1)], SuperTypeOf(c, 1))
  <2>1. n \in Nat /\ n # 0
    BY <1>10, SuperTypesAreBelow DEF n
  <2> QED BY <1>4, <2>1
<1>11. \A x : x \in SuperSet(c) <=>
         \E k \in 1 .. n : x \in SuperSet(SuperTypeOf(c, k)) \cup {SuperTypeOf(c, k)}
  BY <1>4, <1>5, <1>8, <1>9 DEF SuperSet
<1> QED BY <1>2, <1>5, <1>8, <1>10, <1>11 DEF n

\* The super types above a class are below it.
LEMMA SuperSetIsBelow ==
  ASSUME HierarchyOK
  PROVE  \A c \in Classes : \A d \in SuperSet(c) : d \in Classes /\ d \in 1 .. c - 1
<1> DEFINE S == {c \in Classes : \A d \in SuperSet(c) : d \in Classes /\ d \in 1 .. c - 1}
<1>1. ASSUME NEW c \in Classes, \A d \in 1 .. c - 1 : d \in S
      PROVE  c \in S
  <2>1. ASSUME NEW x \in SuperSet(c)
        PROVE  x \in Classes /\ x \in 1 .. c - 1
    <3>1. PICK k \in 1 .. Len(superTypes[c]) : x \in SuperSet(SuperTypeOf(c, k)) \cup {SuperTypeOf(c, k)}
      BY AllSuperTypes
    <3> DEFINE s == SuperTypeOf(c, k)
    <3>2. s \in Classes /\ s \in 1 .. c - 1
      BY SuperTypesAreBelow
    <3>3. s \in S
      BY <1>1, <3>2
    <3> HIDE DEF s
    <3>4. c \in Int /\ s \in Int
      BY <3>2, BoundsAssumption DEF Classes
    <3>5. x = s \/ (x \in Classes /\ x \in 1 .. s - 1)
      BY <3>1, <3>3 DEF s
    <3> QED BY <3>2, <3>4, <3>5
  <2> QED BY <2>1
<1>2. \A c \in Classes : c \in S
  <2> HIDE DEF S
  <2> QED BY <1>1, ClassInduction
<1> QED BY <1>2
(***************************************************************************)
(* Members                                                                 *)
(***************************************************************************)

\* The lists that the inherited members of a class are merged from.
ListsInherited(g, c) == [k \in DOMAIN superTypes[c] |-> g[superTypes[c][k]]]

\* The members of a class, from a function that has those of its super types.
MembersFrom(g, c) ==
  IF c \in owns THEN Append(Merged(ListsInherited(g, c)), c) ELSE Merged(ListsInherited(g, c))

\* They are lists of classes, as the function has.
LEMMA ListsInheritedType ==
  ASSUME HierarchyOK, NEW c \in Classes, NEW g, \A d \in 1 .. c - 1 : g[d] \in Seq(Classes)
  PROVE  /\ ListsInherited(g, c) \in Seq(Seq(Classes))
         /\ Len(ListsInherited(g, c)) = Len(superTypes[c])
         /\ \A k \in 1 .. Len(superTypes[c]) : ListsInherited(g, c)[k] = g[SuperTypeOf(c, k)]
<1> DEFINE n == Len(superTypes[c])
<1>1. n \in Nat /\ DOMAIN superTypes[c] = 1 .. n
  BY SuperTypesAreBelow
<1>2. \A k \in 1 .. n : g[SuperTypeOf(c, k)] \in Seq(Classes)
  BY SuperTypesAreBelow
<1>3. ListsInherited(g, c) = [k \in 1 .. n |-> g[SuperTypeOf(c, k)]]
  BY <1>1 DEF ListsInherited, SuperTypeOf
<1> HIDE DEF n
<1>4. ListsInherited(g, c) \in [1 .. n -> Seq(Classes)]
  BY <1>2, <1>3
<1>5. ListsInherited(g, c) \in Seq(Seq(Classes))
  BY <1>1, <1>4
<1>6. Len(ListsInherited(g, c)) = n
  BY <1>1, <1>3
<1> QED BY <1>3, <1>5, <1>6 DEF n

\* The inherited members are a list of classes.
LEMMA InheritedType ==
  ASSUME HierarchyOK, NEW c \in Classes, NEW g, \A d \in 1 .. c - 1 : g[d] \in Seq(Classes)
  PROVE  /\ Merged(ListsInherited(g, c)) \in Seq(Classes)
         /\ MembersFrom(g, c) \in Seq(Classes)
<1>1. Merged(ListsInherited(g, c)) \in Seq(Classes)
  <2>1. ListsInherited(g, c) \in Seq(Seq(Classes))
    BY ListsInheritedType
  <2> QED BY <2>1, MergedLists
<1> QED BY <1>1 DEF MembersFrom

\* eAllMembers is the function that its definition describes.
LEMMA AllMembersEquation ==
  ASSUME HierarchyOK
  PROVE  \A c \in Classes : eAllMembers[c] = MembersFrom(eAllMembers, c)
<1> DEFINE V == Seq(Classes)
           F == [Classes -> V]
           step == [p \in F \X Classes |-> MembersFrom(p[1], p[2])]
           Is(g) == g = [c \in Classes |-> MembersFrom(g, c)]
<1>1. ASSUME NEW g \in F, NEW c \in Classes
      PROVE  MembersFrom(g, c) \in V
  <2>1. \A d \in 1 .. c - 1 : d \in Classes
    BY BoundsAssumption DEF Classes
  <2>2. \A d \in 1 .. c - 1 : g[d] \in Seq(Classes)
    BY <2>1
  <2> QED BY <2>2, InheritedType
<1>2. step \in [F \X Classes -> V]
  <2> HIDE DEF V, F
  <2> QED BY <1>1
<1>3. ASSUME NEW g \in F, NEW h \in F, NEW c \in Classes, \A d \in 1 .. c - 1 : g[d] = h[d]
      PROVE  step[<<g, c>>] = step[<<h, c>>]
  <2>1. \A k \in DOMAIN superTypes[c] : superTypes[c][k] \in 1 .. c - 1
    BY SuperTypesAreBelow DEF SuperTypeOf
  <2>2. ListsInherited(g, c) = ListsInherited(h, c)
    BY <1>3, <2>1 DEF ListsInherited
  <2>3. MembersFrom(g, c) = MembersFrom(h, c)
    BY <2>2 DEF MembersFrom
  <2> HIDE DEF F
  <2> QED BY <2>3
<1>4. IsStep(1, MaxClass, V, step)
  <2> HIDE DEF step, V
  <2> QED BY <1>2, <1>3, ClassStep
<1>5. PICK g \in F : \A c \in Classes : g[c] = step[<<g, c>>]
  <2>1. <<>> \in V
    OBVIOUS
  <2> HIDE DEF step, V
  <2> QED BY <1>4, <2>1, ClassRecursion
<1>6. Is(g)
  <2>1. \A c \in Classes : g[c] = MembersFrom(g, c)
    BY <1>5
  <2> QED BY <2>1
<1> DEFINE r == CHOOSE r : Is(r)
<1>7. Is(r)
  <2> HIDE DEF Is
  <2> QED BY <1>6
<1>8. eAllMembers = r
  BY DEF eAllMembers, MembersFrom, ListsInherited
<1> HIDE DEF r
<1> QED BY <1>7, <1>8

\* The members of a class are those that it and the classes above it declare,
\* once each, those of its first super type first.
LEMMA AllMembers ==
  ASSUME HierarchyOK, NEW c \in Classes
  PROVE  /\ eAllMembers[c] \in Seq(Classes)
         /\ Distinct(eAllMembers[c])
         /\ \A x : x \in Members(c) <=> x \in owns /\ (x = c \/ x \in SuperSet(c))
         /\ superTypes[c] # <<>> => Begins(eAllMembers[SuperTypeOf(c, 1)], eAllMembers[c])
<1> DEFINE Good(d) ==
             /\ eAllMembers[d] \in Seq(Classes)
             /\ Distinct(eAllMembers[d])
             /\ \A x : x \in Members(d) <=> x \in owns /\ (x = d \/ x \in SuperSet(d))
             /\ superTypes[d] # <<>> => Begins(eAllMembers[SuperTypeOf(d, 1)], eAllMembers[d])
           S == {d \in Classes : Good(d)}
<1>1. ASSUME NEW d \in Classes, \A e \in 1 .. d - 1 : e \in S
      PROVE  Good(d)
  <2> DEFINE lists == ListsInherited(eAllMembers, d)
             m == Merged(lists)
             n == Len(superTypes[d])
  <2>1. \A e \in 1 .. d - 1 : eAllMembers[e] \in Seq(Classes)
    BY <1>1
  <2>2. /\ lists \in Seq(Seq(Classes))
        /\ Len(lists) = n
        /\ \A k \in 1 .. n : lists[k] = eAllMembers[SuperTypeOf(d, k)]
    BY <2>1, ListsInheritedType
  <2>3. n \in Nat /\ \A k \in 1 .. n : SuperTypeOf(d, k) \in 1 .. d - 1
    BY SuperTypesAreBelow
  <2>4. \A k \in 1 .. n : Good(SuperTypeOf(d, k))
    BY <1>1, <2>3
  <2>5. \A x : x \in SuperSet(d) <=> \E k \in 1 .. n : x = SuperTypeOf(d, k) \/ x \in SuperSet(SuperTypeOf(d, k))
    BY AllSuperTypes
  <2>6. eAllMembers[d] = IF d \in owns THEN Append(m, d) ELSE m
    BY AllMembersEquation DEF MembersFrom
  <2> HIDE DEF lists, n
  <2>7. /\ m \in Seq(Classes)
        /\ Distinct(m)
        /\ \A x : x \in NamesOf(m) <=> \E i \in 1 .. Len(lists) : x \in NamesOf(lists[i])
        /\ lists # <<>> /\ Distinct(lists[1]) => Begins(lists[1], m)
    BY <2>2, MergedLists
  <2>8. \A x : x \in NamesOf(m) <=> x \in owns /\ x \in SuperSet(d)
    <3>1. \A k \in 1 .. n : \A x : x \in NamesOf(lists[k]) <=>
            x \in owns /\ (x = SuperTypeOf(d, k) \/ x \in SuperSet(SuperTypeOf(d, k)))
      BY <2>2, <2>4 DEF Members
    <3> QED BY <2>2, <2>5, <2>7, <3>1
  <2>9. ASSUME superTypes[d] # <<>>
        PROVE  Begins(eAllMembers[SuperTypeOf(d, 1)], m) /\ eAllMembers[SuperTypeOf(d, 1)] \in Seq(Classes)
    <3>1. n # 0
      BY <2>9, SuperTypesAreBelow DEF n
    <3>2. 1 \in 1 .. n /\ lists # <<>>
      BY <2>2, <2>3, <3>1
    <3>3. lists[1] = eAllMembers[SuperTypeOf(d, 1)] /\ Distinct(lists[1]) /\ lists[1] \in Seq(Classes)
      BY <2>2, <2>4, <3>2
    <3> QED BY <2>7, <3>2, <3>3
  <2>10. d \notin NamesOf(m)
    <3>1. d \notin SuperSet(d)
      <4>1. d \in Int /\ ~(d \in 1 .. d - 1)
        BY BoundsAssumption DEF Classes
      <4> QED BY <4>1, SuperSetIsBelow
    <3> QED BY <2>8, <3>1
  <2> HIDE DEF m
  <2>11. eAllMembers[d] = IF d \in owns THEN AppendedOnce(m, d) ELSE m
    BY <2>6, <2>10 DEF AppendedOnce
  <2>12. /\ AppendedOnce(m, d) \in Seq(Classes)
         /\ Begins(m, AppendedOnce(m, d))
         /\ NamesOf(AppendedOnce(m, d)) = NamesOf(m) \cup {d}
         /\ Distinct(AppendedOnce(m, d))
    BY <2>7, AppendedOnceExtends
  <2>13. superTypes[d] # <<>> => Begins(eAllMembers[SuperTypeOf(d, 1)], eAllMembers[d])
    BY <2>7, <2>9, <2>11, <2>12, BeginsIsTransitive
  <2>14. \A x : x \in Members(d) <=> x \in owns /\ (x = d \/ x \in SuperSet(d))
    BY <2>8, <2>11, <2>12 DEF Members
  <2> QED BY <2>7, <2>11, <2>12, <2>13, <2>14
<1>2. \A d \in Classes : d \in S
  <2> HIDE DEF Good
  <2>1. \A d \in Classes : (\A e \in 1 .. d - 1 : e \in S) => d \in S
    BY <1>1
  <2> HIDE DEF S
  <2> QED BY <2>1, ClassInduction
<1> QED BY <1>2
\* The first super type of a class is a class below it.
LEMMA FirstSuperType ==
  ASSUME HierarchyOK, NEW c \in Classes
  PROVE  /\ firstSuperType(c) = None <=> superTypes[c] = <<>>
         /\ firstSuperType(c) # None =>
              /\ firstSuperType(c) = SuperTypeOf(c, 1)
              /\ firstSuperType(c) \in Classes
              /\ firstSuperType(c) \in 1 .. c - 1
              /\ 1 \in 1 .. Len(superTypes[c])
<1>1. CASE superTypes[c] = <<>>
  BY <1>1 DEF firstSuperType
<1>2. CASE superTypes[c] # <<>>
  <2>1. superTypes[c] \in Seq(Classes)
    BY SuperTypesAreBelow
  <2>2. 1 \in 1 .. Len(superTypes[c])
    BY <1>2, <2>1
  <2>3. SuperTypeOf(c, 1) \in Classes /\ SuperTypeOf(c, 1) \in 1 .. c - 1
    BY <2>2, SuperTypesAreBelow
  <2>4. firstSuperType(c) = SuperTypeOf(c, 1)
    BY <1>2 DEF firstSuperType, SuperTypeOf
  <2>5. SuperTypeOf(c, 1) # None
    BY <2>3 DEF Classes, None
  <2> QED BY <1>2, <2>2, <2>3, <2>4, <2>5
<1> QED BY <1>1, <1>2

\* The members of a class begin with those of its first super type.
LEMMA BaseMembersFirst ==
  ASSUME HierarchyOK, NEW c \in Classes, firstSuperType(c) # None
  PROVE  /\ Begins(eAllMembers[firstSuperType(c)], eAllMembers[c])
         /\ Members(firstSuperType(c)) \subseteq Members(c)
<1>1. Begins(eAllMembers[firstSuperType(c)], eAllMembers[c])
  BY FirstSuperType, AllMembers
<1>2. eAllMembers[firstSuperType(c)] \in Seq(Classes) /\ eAllMembers[c] \in Seq(Classes)
  BY FirstSuperType, AllMembers
<1> QED BY <1>1, <1>2, BeginsHasNames DEF Members

(***************************************************************************)
(* Positions and constants                                                 *)
(***************************************************************************)

\* IndexOf is the position of an element, from 0, or -1.
LEMMA Position ==
  ASSUME NEW s \in Seq(Classes), Distinct(s), NEW f
  PROVE  /\ f \notin NamesOf(s) => IndexOf(s, f) = -1
         /\ f \in NamesOf(s) =>
              /\ IndexOf(s, f) \in 0 .. Len(s) - 1
              /\ s[IndexOf(s, f) + 1] = f
         /\ \A i \in 1 .. Len(s) : s[i] = f => IndexOf(s, f) = i - 1
<1>1. Len(s) \in Nat /\ DOMAIN s = 1 .. Len(s)
  OBVIOUS
<1>2. CASE f \notin NamesOf(s)
  BY <1>2, NamesAtPositions DEF IndexOf
<1>3. CASE f \in NamesOf(s)
  <2>1. \E i \in DOMAIN s : s[i] = f
    BY <1>1, <1>3, NamesAtPositions
  <2> DEFINE p == CHOOSE i \in DOMAIN s : s[i] = f
  <2>2. p \in DOMAIN s /\ s[p] = f
    BY <2>1
  <2>3. IndexOf(s, f) = p - 1
    BY <1>3 DEF IndexOf
  <2> HIDE DEF p
  <2>4. \A i \in 1 .. Len(s) : s[i] = f => i = p
    BY <1>1, <2>2 DEF Distinct
  <2>5. p \in 1 .. Len(s)
    BY <1>1, <2>2
  <2>6. IndexOf(s, f) \in 0 .. Len(s) - 1 /\ IndexOf(s, f) + 1 = p
    BY <1>1, <2>3, <2>5
  <2> QED BY <1>3, <2>2, <2>3, <2>4, <2>6
<1> QED BY <1>2, <1>3

\* An element that a list begins with has the same position in it.
LEMMA PositionFromTheBeginning ==
  ASSUME NEW s \in Seq(Classes), NEW t \in Seq(Classes), Distinct(s), Distinct(t), Begins(s, t), NEW f
  PROVE  /\ IndexOf(t, f) < Len(s) => IndexOf(t, f) = IndexOf(s, f)
         /\ f \in NamesOf(s) <=> IndexOf(t, f) \in 0 .. Len(s) - 1
<1>1. Len(s) \in Nat /\ Len(t) \in Nat /\ Len(s) <= Len(t) /\ \A i \in 1 .. Len(s) : t[i] = s[i]
  BY DEF Begins
<1>2. CASE f \in NamesOf(s)
  <2>1. IndexOf(s, f) \in 0 .. Len(s) - 1 /\ s[IndexOf(s, f) + 1] = f
    BY <1>2, Position
  <2> DEFINE p == IndexOf(s, f)
  <2>2. p + 1 \in 1 .. Len(s) /\ p + 1 \in 1 .. Len(t) /\ t[p + 1] = f
    BY <1>1, <2>1
  <2>3. IndexOf(t, f) = (p + 1) - 1
    BY <2>2, Position
  <2>4. IndexOf(t, f) = p
    BY <2>1, <2>3
  <2> QED BY <1>2, <2>1, <2>4
<1>3. CASE f \notin NamesOf(s)
  <2>1. IndexOf(s, f) = -1
    BY <1>3, Position
  <2>2. CASE f \notin NamesOf(t)
    <3>1. IndexOf(t, f) = -1
      BY <2>2, Position
    <3> QED BY <1>3, <2>1, <3>1
  <2>3. CASE f \in NamesOf(t)
    <3> DEFINE p == IndexOf(t, f)
    <3>1. p \in 0 .. Len(t) - 1 /\ t[p + 1] = f
      BY <2>3, Position
    <3>2. ~(p < Len(s))
      <4> HIDE DEF p
      <4>1. SUFFICES ASSUME p < Len(s) PROVE FALSE
        OBVIOUS
      <4>2. p + 1 \in 1 .. Len(s)
        BY <1>1, <3>1, <4>1
      <4>3. s[p + 1] = f
        BY <1>1, <3>1, <4>2
      <4> QED BY <1>3, <4>2, <4>3, NamesAtPositions
    <3> HIDE DEF p
    <3>3. ~(p \in 0 .. Len(s) - 1)
      BY <1>1, <3>1, <3>2
    <3> QED BY <1>3, <3>2, <3>3 DEF p
  <2> QED BY <2>2, <2>3
<1> QED BY <1>2, <1>3
\* The positions and the number of members are integers.
LEMMA PositionType ==
  ASSUME HierarchyOK, NEW c \in Classes, NEW f
  PROVE  IndexOf(eAllMembers[c], f) \in Int /\ IndexOf(eAllMembers[c], f) >= -1 /\ MemberCount(c) \in Nat
<1>1. eAllMembers[c] \in Seq(Classes) /\ Distinct(eAllMembers[c])
  BY AllMembers
<1> DEFINE s == eAllMembers[c]
<1> HIDE DEF s
<1>2. s \in Seq(Classes) /\ Distinct(s)
  BY <1>1 DEF s
<1>3. Len(s) \in Nat
  BY <1>2
<1>4. IndexOf(s, f) = -1 \/ IndexOf(s, f) \in 0 .. Len(s) - 1
  BY <1>2, Position
<1>5. IndexOf(s, f) \in Int /\ IndexOf(s, f) >= -1
  BY <1>3, <1>4
<1> QED BY <1>3, <1>5 DEF s, MemberCount

\* The count constant of a class, from a function that has the one of its base class.
CountFrom(g, c) ==
  IF firstSuperType(c) = None THEN MemberCount(c) ELSE g[firstSuperType(c)] + Added(c, firstSuperType(c))

\* CountIDValue is the function that its definition describes.
LEMMA CountEquation ==
  ASSUME HierarchyOK
  PROVE  \A c \in Classes : CountIDValue[c] = CountFrom(CountIDValue, c)
<1> DEFINE F == [Classes -> Int]
           step == [p \in F \X Classes |-> CountFrom(p[1], p[2])]
           Is(g) == g = [c \in Classes |-> CountFrom(g, c)]
<1>1. ASSUME NEW g \in F, NEW c \in Classes
      PROVE  CountFrom(g, c) \in Int
  <2>1. CASE firstSuperType(c) = None
    BY <2>1, PositionType DEF CountFrom
  <2>2. CASE firstSuperType(c) # None
    <3>1. firstSuperType(c) \in Classes
      BY <2>2, FirstSuperType
    <3>2. Added(c, firstSuperType(c)) \in Int
      BY <3>1, PositionType DEF Added
    <3> QED BY <2>2, <3>1, <3>2 DEF CountFrom
  <2> QED BY <2>1, <2>2
<1>2. step \in [F \X Classes -> Int]
  <2> HIDE DEF F
  <2> QED BY <1>1
<1>3. ASSUME NEW g \in F, NEW h \in F, NEW c \in Classes, \A d \in 1 .. c - 1 : g[d] = h[d]
      PROVE  step[<<g, c>>] = step[<<h, c>>]
  <2>1. CountFrom(g, c) = CountFrom(h, c)
    BY <1>3, FirstSuperType DEF CountFrom
  <2> HIDE DEF F
  <2> QED BY <2>1
<1>4. IsStep(1, MaxClass, Int, step)
  <2> HIDE DEF step
  <2> QED BY <1>2, <1>3, ClassStep
<1>5. PICK g \in F : \A c \in Classes : g[c] = step[<<g, c>>]
  <2>1. 0 \in Int
    OBVIOUS
  <2> HIDE DEF step
  <2> QED BY <1>4, <2>1, ClassRecursion
<1>6. Is(g)
  <2>1. \A c \in Classes : g[c] = CountFrom(g, c)
    BY <1>5
  <2> QED BY <2>1
<1> DEFINE r == CHOOSE r : Is(r)
<1>7. Is(r)
  <2> HIDE DEF Is
  <2> QED BY <1>6
<1>8. CountIDValue = r
  BY DEF CountIDValue, CountFrom
<1> HIDE DEF r
<1> QED BY <1>7, <1>8

\* The count constant of a class is the number of its members.
LEMMA CountIsMemberCount ==
  ASSUME HierarchyOK
  PROVE  \A c \in Classes : CountIDValue[c] = MemberCount(c)
<1> DEFINE S == {c \in Classes : CountIDValue[c] = MemberCount(c)}
<1>1. ASSUME NEW c \in Classes, \A d \in 1 .. c - 1 : d \in S
      PROVE  c \in S
  <2>1. CASE firstSuperType(c) = None
    BY <2>1, CountEquation DEF CountFrom
  <2>2. CASE firstSuperType(c) # None
    <3> DEFINE b == firstSuperType(c)
    <3>1. b \in Classes /\ b \in 1 .. c - 1
      BY <2>2, FirstSuperType
    <3>2. CountIDValue[b] = MemberCount(b) /\ MemberCount(b) \in Nat /\ MemberCount(c) \in Nat
      BY <1>1, <3>1, PositionType
    <3>3. CountIDValue[c] = CountIDValue[b] + Added(c, b)
      BY <2>2, CountEquation DEF CountFrom
    <3> HIDE DEF b
    <3> QED BY <3>2, <3>3 DEF Added
  <2> QED BY <2>1, <2>2
<1>2. \A c \in Classes : c \in S
  <2> HIDE DEF S
  <2> QED BY <1>1, ClassInduction
<1> QED BY <1>2

\* The constant of a member in a class, from a function that has those of the
\* members of its base class.
ConstantFrom(g, c, f) ==
  IF firstSuperType(c) = None THEN IndexOf(eAllMembers[c], f)
  ELSE IF OfBase(IndexOf(eAllMembers[c], f), firstSuperType(c)) THEN g[firstSuperType(c)][f]
  ELSE CountIDValue[firstSuperType(c)] + (IndexOf(eAllMembers[c], f) - MemberCount(firstSuperType(c)))

\* IDValue is the function that its definition describes.
LEMMA IDEquation ==
  ASSUME HierarchyOK
  PROVE  \A c \in Classes : \A f \in Classes : IDValue[c][f] = ConstantFrom(IDValue, c, f)
<1> DEFINE V == [Classes -> Int]
           F == [Classes -> V]
           Row(g, c) == [f \in Classes |-> ConstantFrom(g, c, f)]
           step == [p \in F \X Classes |-> Row(p[1], p[2])]
           Is(g) == g = [c \in Classes |-> Row(g, c)]
<1>1. ASSUME NEW g \in F, NEW c \in Classes
      PROVE  Row(g, c) \in V
  <2>1. ASSUME NEW f \in Classes
        PROVE  ConstantFrom(g, c, f) \in Int
    <3>1. IndexOf(eAllMembers[c], f) \in Int
      BY PositionType
    <3>2. CASE firstSuperType(c) = None
      BY <3>1, <3>2 DEF ConstantFrom
    <3>3. CASE firstSuperType(c) # None
      <4>1. firstSuperType(c) \in Classes
        BY <3>3, FirstSuperType
      <4>2. CountIDValue[firstSuperType(c)] \in Int /\ MemberCount(firstSuperType(c)) \in Int
        BY <4>1, CountIsMemberCount, PositionType
      <4>3. g[firstSuperType(c)] \in V
        BY <4>1
      <4>4. g[firstSuperType(c)][f] \in Int
        BY <4>3
      <4> QED BY <3>1, <3>3, <4>2, <4>4 DEF ConstantFrom
    <3> QED BY <3>2, <3>3
  <2> QED BY <2>1
<1>2. step \in [F \X Classes -> V]
  <2> HIDE DEF F, V, Row
  <2> QED BY <1>1
<1>3. ASSUME NEW g \in F, NEW h \in F, NEW c \in Classes, \A d \in 1 .. c - 1 : g[d] = h[d]
      PROVE  step[<<g, c>>] = step[<<h, c>>]
  <2>1. \A f \in Classes : ConstantFrom(g, c, f) = ConstantFrom(h, c, f)
    BY <1>3, FirstSuperType DEF ConstantFrom
  <2>2. Row(g, c) = Row(h, c)
    BY <2>1
  <2> HIDE DEF F, Row
  <2> QED BY <2>2
<1>4. IsStep(1, MaxClass, V, step)
  <2> HIDE DEF step, V
  <2> QED BY <1>2, <1>3, ClassStep
<1>5. PICK g \in F : \A c \in Classes : g[c] = step[<<g, c>>]
  <2>1. [f \in Classes |-> 0] \in V
    OBVIOUS
  <2> HIDE DEF step, V
  <2> QED BY <1>4, <2>1, ClassRecursion
<1>6. Is(g)
  <2>1. \A c \in Classes : g[c] = Row(g, c)
    <3> HIDE DEF Row
    <3> QED BY <1>5
  <2> HIDE DEF Row, V
  <2> QED BY <2>1
<1> DEFINE r == CHOOSE r : Is(r)
<1>7. Is(r)
  <2> HIDE DEF Is
  <2> QED BY <1>6
<1>8. IDValue = r
  BY DEF IDValue, ConstantFrom
<1> HIDE DEF r
<1> QED BY <1>7, <1>8

\* The constant of a member in a class is its position among the members of the class.
LEMMA IDIsPosition ==
  ASSUME HierarchyOK
  PROVE  \A c \in Classes : \A f \in Classes : IDValue[c][f] = IndexOf(eAllMembers[c], f)
<1> DEFINE S == {c \in Classes : \A f \in Classes : IDValue[c][f] = IndexOf(eAllMembers[c], f)}
<1>1. ASSUME NEW c \in Classes, \A d \in 1 .. c - 1 : d \in S
      PROVE  c \in S
  <2>1. ASSUME NEW f \in Classes
        PROVE  IDValue[c][f] = IndexOf(eAllMembers[c], f)
    <3> DEFINE b == firstSuperType(c)
               i == IndexOf(eAllMembers[c], f)
    <3>1. IDValue[c][f] = ConstantFrom(IDValue, c, f)
      BY IDEquation
    <3>2. CASE b = None
      BY <3>1, <3>2 DEF ConstantFrom
    <3>3. CASE b # None /\ OfBase(i, b)
      <4>1. b \in Classes /\ b \in 1 .. c - 1
        BY <3>3, FirstSuperType
      <4>2. IDValue[c][f] = IDValue[b][f]
        BY <3>1, <3>3 DEF ConstantFrom
      <4>3. IDValue[b][f] = IndexOf(eAllMembers[b], f)
        BY <1>1, <4>1
      <4>4. /\ eAllMembers[b] \in Seq(Classes) /\ Distinct(eAllMembers[b])
            /\ eAllMembers[c] \in Seq(Classes) /\ Distinct(eAllMembers[c])
        BY <4>1, AllMembers
      <4>5. Begins(eAllMembers[b], eAllMembers[c])
        BY <3>3, BaseMembersFirst
      <4>6. i < Len(eAllMembers[b])
        BY <3>3 DEF OfBase, MemberCount
      <4>7. i = IndexOf(eAllMembers[b], f)
        BY <4>4, <4>5, <4>6, PositionFromTheBeginning
      <4> QED BY <4>2, <4>3, <4>7
    <3>4. CASE b # None /\ ~OfBase(i, b)
      <4>1. b \in Classes
        BY <3>4, FirstSuperType
      <4>2. IDValue[c][f] = CountIDValue[b] + (i - MemberCount(b))
        BY <3>1, <3>4 DEF ConstantFrom
      <4>3. CountIDValue[b] = MemberCount(b) /\ MemberCount(b) \in Int /\ i \in Int
        BY <4>1, CountIsMemberCount, PositionType
      <4> HIDE DEF i, b
      <4>4. IDValue[c][f] = i
        BY <4>2, <4>3
      <4> QED BY <4>4 DEF i
    <3> QED BY <3>2, <3>3, <3>4
  <2> QED BY <2>1
<1>2. \A c \in Classes : c \in S
  <2> HIDE DEF S
  <2> QED BY <1>1, ClassInduction
<1> QED BY <1>2

\* The constants of a class are the positions of its members and their number.
LEMMA PositionsAreConstants ==
  ASSUME HierarchyOK
  PROVE  ConstantsArePositions
<1>1. ASSUME NEW c \in Classes
      PROVE  Members(c) \subseteq Classes
  <2>1. eAllMembers[c] \in Seq(Classes)
    BY AllMembers
  <2> QED BY <2>1, NamesAtPositions DEF Members
<1> QED BY <1>1, CountIsMemberCount, IDIsPosition DEF ConstantsArePositions, Constants
(***************************************************************************)
(* What a class extends and mixes in                                       *)
(***************************************************************************)

\* The class that a class extends, from a function that has the one of its base class.
ExtendsFrom(g, c) ==
  IF firstSuperType(c) # None /\ isInterface[firstSuperType(c)] THEN g[firstSuperType(c)] ELSE firstSuperType(c)

\* ExtendsClass is the function that its definition describes.
LEMMA ExtendsEquation ==
  ASSUME HierarchyOK
  PROVE  \A c \in Classes : ExtendsClass[c] = ExtendsFrom(ExtendsClass, c)
<1> DEFINE V == Classes \cup {None}
           F == [Classes -> V]
           step == [p \in F \X Classes |-> ExtendsFrom(p[1], p[2])]
           Is(g) == g = [c \in Classes |-> ExtendsFrom(g, c)]
<1>1. ASSUME NEW g \in F, NEW c \in Classes
      PROVE  ExtendsFrom(g, c) \in V
  BY FirstSuperType DEF ExtendsFrom
<1>2. step \in [F \X Classes -> V]
  <2> HIDE DEF F, V
  <2> QED BY <1>1
<1>3. ASSUME NEW g \in F, NEW h \in F, NEW c \in Classes, \A d \in 1 .. c - 1 : g[d] = h[d]
      PROVE  step[<<g, c>>] = step[<<h, c>>]
  <2>1. ExtendsFrom(g, c) = ExtendsFrom(h, c)
    BY <1>3, FirstSuperType DEF ExtendsFrom
  <2> HIDE DEF F
  <2> QED BY <2>1
<1>4. IsStep(1, MaxClass, V, step)
  <2> HIDE DEF step, V
  <2> QED BY <1>2, <1>3, ClassStep
<1>5. PICK g \in F : \A c \in Classes : g[c] = step[<<g, c>>]
  <2>1. None \in V
    OBVIOUS
  <2> HIDE DEF step, V
  <2> QED BY <1>4, <2>1, ClassRecursion
<1>6. Is(g)
  <2>1. \A c \in Classes : g[c] = ExtendsFrom(g, c)
    BY <1>5
  <2> QED BY <2>1
<1> DEFINE r == CHOOSE r : Is(r)
<1>7. Is(r)
  <2> HIDE DEF Is
  <2> QED BY <1>6
<1>8. ExtendsClass = r
  BY DEF ExtendsClass, ExtendsFrom
<1> HIDE DEF r
<1> QED BY <1>7, <1>8

\* The class that a class extends is below it; its members are the first ones of
\* the class.
LEMMA ExtendedClass ==
  ASSUME HierarchyOK
  PROVE  \A c \in Classes : ExtendsClass[c] # None =>
           /\ ExtendsClass[c] \in Classes
           /\ ExtendsClass[c] \in 1 .. c - 1
           /\ Begins(eAllMembers[ExtendsClass[c]], eAllMembers[c])
<1> DEFINE Good(c, e) ==
             /\ e \in Classes
             /\ e \in 1 .. c - 1
             /\ Begins(eAllMembers[e], eAllMembers[c])
           S == {c \in Classes : ExtendsClass[c] # None => Good(c, ExtendsClass[c])}
<1>1. ASSUME NEW c \in Classes, \A d \in 1 .. c - 1 : d \in S
      PROVE  c \in S
  <2> DEFINE b == firstSuperType(c)
             e == ExtendsClass[c]
  <2>1. e = IF b # None /\ isInterface[b] THEN ExtendsClass[b] ELSE b
    BY ExtendsEquation DEF ExtendsFrom
  <2>2. ASSUME e # None
        PROVE  Good(c, e)
    <3>1. b # None
      BY <2>1, <2>2
    <3>2. b \in Classes /\ b \in 1 .. c - 1 /\ Begins(eAllMembers[b], eAllMembers[c])
      BY <3>1, FirstSuperType, BaseMembersFirst
    <3>3. CASE isInterface[b]
      <4>1. e = ExtendsClass[b]
        BY <2>1, <3>1, <3>3
      <4>2. Good(b, e)
        BY <1>1, <2>2, <3>2, <4>1
      <4>3. Begins(eAllMembers[e], eAllMembers[c])
        <5>1. eAllMembers[e] \in Seq(Classes) /\ eAllMembers[b] \in Seq(Classes) /\ eAllMembers[c] \in Seq(Classes)
          BY <3>2, <4>2, AllMembers
        <5>2. Begins(eAllMembers[e], eAllMembers[b]) /\ Begins(eAllMembers[b], eAllMembers[c])
          BY <3>2, <4>2
        <5> QED BY <5>1, <5>2, BeginsIsTransitive
      <4>4. e \in 1 .. c - 1
        <5>1. b \in 1 .. c - 1 /\ e \in 1 .. b - 1 /\ c \in Int
          BY <3>2, <4>2, BoundsAssumption DEF Classes
        <5> HIDE DEF b, e
        <5> QED BY <5>1
      <4> QED BY <4>2, <4>3, <4>4
    <3>4. CASE ~isInterface[b]
      <4>1. e = b
        BY <2>1, <3>4
      <4> QED BY <3>2, <4>1
    <3> QED BY <3>3, <3>4
  <2> QED BY <2>2
<1>2. \A c \in Classes : c \in S
  <2> HIDE DEF S
  <2> QED BY <1>1, ClassInduction
<1> QED BY <1>2

\* The super types listed after the base class of a class are super types, and hold
\* all those that the base class does not have.
LEMMA AfterTheBase ==
  ASSUME HierarchyOK, NEW c \in Classes, firstSuperType(c) # None
  PROVE  /\ After(eAllSuperTypes[c], firstSuperType(c)) \subseteq SuperSet(c)
         /\ \A x \in SuperSet(c) :
              \/ x \in After(eAllSuperTypes[c], firstSuperType(c))
              \/ x = firstSuperType(c)
              \/ x \in SuperSet(firstSuperType(c))
<1> DEFINE b == firstSuperType(c)
           s == eAllSuperTypes[b]
           t == eAllSuperTypes[c]
           u == Append(s, b)
<1>1. b \in Classes /\ b = SuperTypeOf(c, 1) /\ superTypes[c] # <<>>
  BY FirstSuperType
<1>2. s \in Seq(Classes) /\ Distinct(s) /\ t \in Seq(Classes) /\ Distinct(t)
  BY <1>1, AllSuperTypes
<1>3. b \notin NamesOf(s)
  <2>1. ~(b \in 1 .. b - 1)
    BY <1>1, BoundsAssumption DEF Classes
  <2> QED BY <1>1, <2>1, SuperSetIsBelow DEF SuperSet
<1> HIDE DEF b, s, t
<1>4. /\ u \in Seq(Classes)
      /\ Len(s) \in Nat
      /\ Len(u) = Len(s) + 1
      /\ u[Len(s) + 1] = b
      /\ \A i \in 1 .. Len(s) : u[i] = s[i]
  BY <1>1, <1>2
<1>5. Distinct(u)
  <2>1. AppendedOnce(s, b) = u
    BY <1>3 DEF AppendedOnce
  <2>2. Distinct(AppendedOnce(s, b))
    BY <1>1, <1>2, AppendedOnceExtends
  <2> QED BY <2>1, <2>2
<1>6. Begins(u, t)
  BY <1>1, <1>5, AllSuperTypes DEF s, t
<1> HIDE DEF u
<1>7. Len(t) \in Nat /\ Len(s) + 1 <= Len(t) /\ t[Len(s) + 1] = b /\ \A i \in 1 .. Len(s) : t[i] = s[i]
  <2>1. Len(t) \in Nat
    BY <1>2
  <2>2. \A i \in 1 .. Len(u) : t[i] = u[i]
    BY <1>6 DEF Begins
  <2>3. Len(u) <= Len(t)
    BY <1>6 DEF Begins
  <2>4. \A i \in 1 .. Len(s) : i \in 1 .. Len(u)
    BY <1>4
  <2>5. Len(s) + 1 \in 1 .. Len(u)
    BY <1>4
  <2> QED BY <1>4, <2>1, <2>2, <2>3, <2>4, <2>5
<1>8. IndexOf(t, b) = Len(s)
  <2>1. Len(s) + 1 \in 1 .. Len(t)
    BY <1>4, <1>7
  <2>2. IndexOf(t, b) = (Len(s) + 1) - 1
    BY <1>2, <1>7, <2>1, Position
  <2> QED BY <1>4, <2>2
<1>9. After(t, b) = {t[i] : i \in Len(s) + 2 .. Len(t)}
  BY <1>8 DEF After
<1>10. After(t, b) \subseteq NamesOf(t)
  <2>1. \A i \in Len(s) + 2 .. Len(t) : i \in 1 .. Len(t)
    BY <1>4, <1>7
  <2> QED BY <1>2, <1>9, <2>1, NamesAtPositions
<1>11. ASSUME NEW x \in NamesOf(t), x \notin NamesOf(s), x # b
       PROVE  x \in After(t, b)
  <2>1. PICK i \in 1 .. Len(t) : t[i] = x
    BY <1>2, NamesAtPositions
  <2>2. ~(i \in 1 .. Len(s))
    BY <1>2, <1>7, <1>11, <2>1, NamesAtPositions
  <2>3. i # Len(s) + 1
    BY <1>7, <1>11, <2>1
  <2>4. i \in Len(s) + 2 .. Len(t)
    BY <1>4, <1>7, <2>2, <2>3
  <2> QED BY <1>9, <2>1, <2>4
<1> QED BY <1>10, <1>11 DEF SuperSet, b, s, t
\* The classes that a class mixes in, from a function that has those of its base class.
MixinsFrom(g, c) ==
  IF firstSuperType(c) = None \/ (Len(superTypes[c]) = 1 /\ ~isInterface[firstSuperType(c)])
  THEN {}
  ELSE (IF isInterface[firstSuperType(c)] THEN g[firstSuperType(c)] ELSE {})
         \cup After(eAllSuperTypes[c], firstSuperType(c))

\* Mixins is the function that its definition describes.
LEMMA MixinsEquation ==
  ASSUME HierarchyOK
  PROVE  \A c \in Classes : Mixins[c] = MixinsFrom(Mixins, c)
<1> DEFINE V == SUBSET Classes
           F == [Classes -> V]
           step == [p \in F \X Classes |-> MixinsFrom(p[1], p[2])]
           Is(g) == g = [c \in Classes |-> MixinsFrom(g, c)]
<1>1. ASSUME NEW g \in F, NEW c \in Classes
      PROVE  MixinsFrom(g, c) \in V
  <2>1. CASE firstSuperType(c) = None
    BY <2>1 DEF MixinsFrom
  <2>2. CASE firstSuperType(c) # None
    <3>1. firstSuperType(c) \in Classes
      BY <2>2, FirstSuperType
    <3>2. After(eAllSuperTypes[c], firstSuperType(c)) \subseteq Classes
      BY <2>2, AfterTheBase, SuperSetIsBelow
    <3>3. g[firstSuperType(c)] \subseteq Classes
      BY <3>1
    <3> QED BY <3>2, <3>3 DEF MixinsFrom
  <2> QED BY <2>1, <2>2
<1>2. step \in [F \X Classes -> V]
  <2> HIDE DEF F, V
  <2> QED BY <1>1
<1>3. ASSUME NEW g \in F, NEW h \in F, NEW c \in Classes, \A d \in 1 .. c - 1 : g[d] = h[d]
      PROVE  step[<<g, c>>] = step[<<h, c>>]
  <2>1. MixinsFrom(g, c) = MixinsFrom(h, c)
    BY <1>3, FirstSuperType DEF MixinsFrom
  <2> HIDE DEF F
  <2> QED BY <2>1
<1>4. IsStep(1, MaxClass, V, step)
  <2> HIDE DEF step, V
  <2> QED BY <1>2, <1>3, ClassStep
<1>5. PICK g \in F : \A c \in Classes : g[c] = step[<<g, c>>]
  <2>1. {} \in V
    OBVIOUS
  <2> HIDE DEF step, V
  <2> QED BY <1>4, <2>1, ClassRecursion
<1>6. Is(g)
  <2>1. \A c \in Classes : g[c] = MixinsFrom(g, c)
    BY <1>5
  <2> QED BY <2>1
<1> DEFINE r == CHOOSE r : Is(r)
<1>7. Is(r)
  <2> HIDE DEF Is
  <2> QED BY <1>6
<1>8. Mixins = r
  BY DEF Mixins, MixinsFrom
<1> HIDE DEF r
<1> QED BY <1>7, <1>8

\* The mixins of a class are super types of it.
LEMMA MixinsAreSuperTypes ==
  ASSUME HierarchyOK
  PROVE  \A c \in Classes : Mixins[c] \subseteq SuperSet(c)
<1> DEFINE S == {c \in Classes : Mixins[c] \subseteq SuperSet(c)}
<1>1. ASSUME NEW c \in Classes, \A d \in 1 .. c - 1 : d \in S
      PROVE  c \in S
  <2>1. Mixins[c] = MixinsFrom(Mixins, c)
    BY MixinsEquation
  <2>2. CASE firstSuperType(c) = None
    BY <2>1, <2>2 DEF MixinsFrom
  <2>3. CASE firstSuperType(c) # None
    <3> DEFINE b == firstSuperType(c)
    <3>1. b \in 1 .. c - 1 /\ b = SuperTypeOf(c, 1) /\ 1 \in 1 .. Len(superTypes[c])
      BY <2>3, FirstSuperType
    <3>2. Mixins[b] \subseteq SuperSet(b)
      BY <1>1, <3>1
    <3>3. SuperSet(b) \subseteq SuperSet(c)
      BY <3>1, AllSuperTypes
    <3>4. After(eAllSuperTypes[c], b) \subseteq SuperSet(c)
      BY <2>3, AfterTheBase
    <3> QED BY <2>1, <3>2, <3>3, <3>4 DEF MixinsFrom
  <2> QED BY <2>2, <2>3
<1>2. \A c \in Classes : c \in S
  <2> HIDE DEF S
  <2> QED BY <1>1, ClassInduction
<1> QED BY <1>2

\* A member of a class that the class it extends does not have is one of a mixin,
\* or has the same constant in the class that declares it.
LEMMA MemberIsReached ==
  ASSUME HierarchyOK
  PROVE  \A c \in Classes : \A f \in Members(c) :
           \/ f \in Mixins[c]
           \/ ExtendsClass[c] # None /\ f \in Members(ExtendsClass[c])
           \/ Begins(eAllMembers[f], eAllMembers[c])
<1> DEFINE Good(c) == \A f \in Members(c) :
             \/ f \in Mixins[c]
             \/ ExtendsClass[c] # None /\ f \in Members(ExtendsClass[c])
             \/ Begins(eAllMembers[f], eAllMembers[c])
           S == {c \in Classes : Good(c)}
<1>1. ASSUME NEW c \in Classes, \A d \in 1 .. c - 1 : d \in S
      PROVE  Good(c)
  <2> SUFFICES ASSUME NEW f \in Members(c)
               PROVE  \/ f \in Mixins[c]
                      \/ ExtendsClass[c] # None /\ f \in Members(ExtendsClass[c])
                      \/ Begins(eAllMembers[f], eAllMembers[c])
    OBVIOUS
  <2> DEFINE b == firstSuperType(c)
  <2>1. f \in owns /\ (f = c \/ f \in SuperSet(c))
    BY AllMembers
  <2>2. Mixins[c] = MixinsFrom(Mixins, c)
    BY MixinsEquation
  <2>3. ExtendsClass[c] = ExtendsFrom(ExtendsClass, c)
    BY ExtendsEquation
  <2>4. CASE f = c
    BY <2>4 DEF Begins
  <2>5. CASE f \in SuperSet(c) /\ b = None
    <3>1. superTypes[c] = <<>>
      BY <2>5, FirstSuperType
    <3>2. PICK k \in 1 .. Len(superTypes[c]) : TRUE
      BY <2>5, AllSuperTypes
    <3> QED BY <3>1, <3>2
  <2>6. CASE f \in SuperSet(c) /\ b # None
    <3>1. b \in Classes /\ b \in 1 .. c - 1 /\ b = SuperTypeOf(c, 1) /\ Begins(eAllMembers[b], eAllMembers[c])
      BY <2>6, FirstSuperType, BaseMembersFirst
    <3>2. CASE f = b \/ f \in SuperSet(b)
      <4>1. f \in Members(b)
        BY <2>1, <3>1, <3>2, AllMembers
      <4>2. CASE ~isInterface[b]
        BY <2>3, <2>6, <4>1, <4>2 DEF ExtendsFrom
      <4>3. CASE isInterface[b]
        <5>1. \/ f \in Mixins[b]
              \/ ExtendsClass[b] # None /\ f \in Members(ExtendsClass[b])
              \/ Begins(eAllMembers[f], eAllMembers[b])
          BY <1>1, <3>1, <4>1
        <5>2. CASE f \in Mixins[b]
          BY <2>2, <2>6, <4>3, <5>2 DEF MixinsFrom
        <5>3. CASE ExtendsClass[b] # None /\ f \in Members(ExtendsClass[b])
          BY <2>3, <2>6, <4>3, <5>3 DEF ExtendsFrom
        <5>4. CASE Begins(eAllMembers[f], eAllMembers[b])
          <6>1. f \in Classes
            BY <3>1, <3>2, SuperSetIsBelow
          <6>2. eAllMembers[f] \in Seq(Classes) /\ eAllMembers[b] \in Seq(Classes) /\ eAllMembers[c] \in Seq(Classes)
            BY <3>1, <6>1, AllMembers
          <6> QED BY <3>1, <5>4, <6>2, BeginsIsTransitive
        <5> QED BY <5>1, <5>2, <5>3, <5>4
      <4> QED BY <4>2, <4>3
    <3>3. CASE f # b /\ f \notin SuperSet(b)
      <4>1. f \in After(eAllSuperTypes[c], b)
        BY <2>6, <3>3, AfterTheBase
      <4>2. ~(Len(superTypes[c]) = 1)
        <5>1. PICK k \in 1 .. Len(superTypes[c]) : f \in SuperSet(SuperTypeOf(c, k)) \cup {SuperTypeOf(c, k)}
          BY <2>6, AllSuperTypes
        <5>2. k # 1
          BY <3>1, <3>3, <5>1
        <5>3. k \in 1 .. Len(superTypes[c]) /\ Len(superTypes[c]) \in Nat
          BY SuperTypesAreBelow
        <5>4. ASSUME Len(superTypes[c]) = 1 PROVE FALSE
          BY <5>2, <5>3, <5>4
        <5> QED BY <5>4
      <4> QED BY <2>2, <2>6, <4>1, <4>2 DEF MixinsFrom
    <3> QED BY <3>2, <3>3
  <2> QED BY <2>1, <2>4, <2>5, <2>6
<1>2. \A c \in Classes : c \in S
  <2> HIDE DEF Good
  <2>1. \A c \in Classes : (\A d \in 1 .. c - 1 : d \in S) => c \in S
    BY <1>1
  <2> HIDE DEF S
  <2> QED BY <2>1, ClassInduction
<1> QED BY <1>2
(***************************************************************************)
(* The chain of implementations                                            *)
(***************************************************************************)

\* A class and those that it embeds, from a function that has those of the class it extends.
ChainFrom(g, c) == {c} \cup (IF ExtendsClass[c] = None THEN {} ELSE g[ExtendsClass[c]])

\* The chains of the implementations and of the mocks are the functions that their
\* definitions describe.
LEMMA ChainEquations ==
  ASSUME HierarchyOK
  PROVE  \A c \in Classes :
           /\ ExtendsChain[c] = ChainFrom(ExtendsChain, c)
           /\ MockChain[c] = ChainFrom(MockChain, c)
<1> DEFINE V == SUBSET Classes
           F == [Classes -> V]
           step == [p \in F \X Classes |-> ChainFrom(p[1], p[2])]
           Is(g) == g = [c \in Classes |-> ChainFrom(g, c)]
<1>1. ASSUME NEW g \in F, NEW c \in Classes
      PROVE  ChainFrom(g, c) \in V
  <2>1. CASE ExtendsClass[c] = None
    BY <2>1 DEF ChainFrom
  <2>2. CASE ExtendsClass[c] # None
    <3>1. ExtendsClass[c] \in Classes
      BY <2>2, ExtendedClass
    <3>2. g[ExtendsClass[c]] \subseteq Classes
      BY <3>1
    <3> QED BY <3>2 DEF ChainFrom
  <2> QED BY <2>1, <2>2
<1>2. step \in [F \X Classes -> V]
  <2> HIDE DEF F, V
  <2> QED BY <1>1
<1>3. ASSUME NEW g \in F, NEW h \in F, NEW c \in Classes, \A d \in 1 .. c - 1 : g[d] = h[d]
      PROVE  step[<<g, c>>] = step[<<h, c>>]
  <2>1. ChainFrom(g, c) = ChainFrom(h, c)
    BY <1>3, ExtendedClass DEF ChainFrom
  <2> HIDE DEF F
  <2> QED BY <2>1
<1>4. IsStep(1, MaxClass, V, step)
  <2> HIDE DEF step, V
  <2> QED BY <1>2, <1>3, ClassStep
<1>5. PICK g \in F : \A c \in Classes : g[c] = step[<<g, c>>]
  <2>1. {} \in V
    OBVIOUS
  <2> HIDE DEF step, V
  <2> QED BY <1>4, <2>1, ClassRecursion
<1>6. Is(g)
  <2>1. \A c \in Classes : g[c] = ChainFrom(g, c)
    BY <1>5
  <2> QED BY <2>1
<1> DEFINE r == CHOOSE r : Is(r)
<1>7. Is(r)
  <2> HIDE DEF Is
  <2> QED BY <1>6
<1>8. ExtendsChain = r
  BY DEF ExtendsChain, ChainFrom, classExtends
<1>9. MockChain = r
  BY DEF MockChain, ChainFrom, mockExtends
<1> HIDE DEF r
<1> QED BY <1>7, <1>8, <1>9

\* A class implements the members that the class it extends does not have.
LEMMA ImplementedMembers ==
  ASSUME HierarchyOK, NEW c \in Classes
  PROVE  /\ Implemented(c) \subseteq Members(c)
         /\ \A f \in Members(c) :
              f \in Implemented(c) <=> ExtendsClass[c] = None \/ f \notin Members(ExtendsClass[c])
BY DEF Implemented

\* The members of the classes of a chain are members of the class, which implements
\* each of its members once along it.
LEMMA OnceAlongTheChain ==
  ASSUME HierarchyOK, NEW chain, \A c \in Classes : chain[c] = ChainFrom(chain, c)
  PROVE  \A c \in Classes :
           /\ \A d \in chain[c] : Implemented(d) \subseteq Members(c)
           /\ \A f \in Members(c) : Cardinality({d \in chain[c] : f \in Implemented(d)}) = 1
<1> DEFINE By(c, f) == {d \in chain[c] : f \in Implemented(d)}
           Good(c) == /\ \A d \in chain[c] : Implemented(d) \subseteq Members(c)
                      /\ \A f \in Members(c) : \E d : By(c, f) = {d}
           S == {c \in Classes : Good(c)}
<1>1. ASSUME NEW c \in Classes, \A d \in 1 .. c - 1 : d \in S
      PROVE  Good(c)
  <2> DEFINE e == ExtendsClass[c]
  <2>1. chain[c] = {c} \cup (IF e = None THEN {} ELSE chain[e])
    BY DEF ChainFrom
  <2>2. CASE e = None
    <3>1. chain[c] = {c} /\ Implemented(c) = Members(c)
      BY <2>1, <2>2, ImplementedMembers
    <3>2. \A f \in Members(c) : By(c, f) = {c}
      BY <3>1
    <3> QED BY <3>1, <3>2
  <2>3. CASE e # None
    <3>1. e \in Classes /\ e \in 1 .. c - 1 /\ Begins(eAllMembers[e], eAllMembers[c])
      BY <2>3, ExtendedClass
    <3>2. Good(e)
      BY <1>1, <3>1
    <3>3. Members(e) \subseteq Members(c)
      <4>1. eAllMembers[e] \in Seq(Classes) /\ eAllMembers[c] \in Seq(Classes)
        BY <3>1, AllMembers
      <4> QED BY <3>1, <4>1, BeginsHasNames DEF Members
    <3>4. chain[c] = {c} \cup chain[e]
      BY <2>1, <2>3
    <3>5. Implemented(c) = Members(c) \ Members(e)
      BY <2>3 DEF Implemented
    <3> HIDE DEF e
    <3>6. \A d \in chain[c] : Implemented(d) \subseteq Members(c)
      BY <3>2, <3>3, <3>4, <3>5
    <3>7. ASSUME NEW f \in Members(c)
          PROVE  \E d : By(c, f) = {d}
      <4>1. CASE f \in Members(e)
        <5>1. PICK d : By(e, f) = {d}
          BY <3>2, <4>1
        <5>2. By(c, f) = By(e, f)
          BY <3>4, <3>5, <4>1
        <5> QED BY <5>1, <5>2
      <4>2. CASE f \notin Members(e)
        <5>1. \A d \in chain[e] : f \notin Implemented(d)
          BY <3>2, <4>2
        <5>2. By(c, f) = {c}
          BY <3>4, <3>5, <4>2, <5>1
        <5> QED BY <5>2
      <4> QED BY <4>1, <4>2
    <3> QED BY <3>6, <3>7
  <2> QED BY <2>2, <2>3
<1>2. \A c \in Classes : c \in S
  <2> HIDE DEF Good
  <2>1. \A c \in Classes : (\A d \in 1 .. c - 1 : d \in S) => c \in S
    BY <1>1
  <2> HIDE DEF S
  <2> QED BY <2>1, ClassInduction
<1>3. \A d : Cardinality({d}) = 1
  BY FS_Singleton
<1> QED BY <1>2, <1>3

\* A member is implemented once, by the implementations and by the mocks.
LEMMA EveryMemberOnce ==
  ASSUME HierarchyOK
  PROVE  ImplementedOnce
<1>1. \A c \in Classes : ExtendsChain[c] = ChainFrom(ExtendsChain, c)
  BY ChainEquations
<1>2. \A c \in Classes : MockChain[c] = ChainFrom(MockChain, c)
  BY ChainEquations
<1>3. \A c \in Classes : \A f \in Members(c) : Cardinality({d \in ExtendsChain[c] : f \in Implemented(d)}) = 1
  BY <1>1, OnceAlongTheChain
<1>4. \A c \in Classes : \A f \in Members(c) : Cardinality({d \in MockChain[c] : f \in Implemented(d)}) = 1
  BY <1>2, OnceAlongTheChain
<1> QED BY <1>3, <1>4 DEF ImplementedOnce
(***************************************************************************)
(* Translated ids                                                          *)
(***************************************************************************)

\* A class that declares a member implements it.
LEMMA OwnIsImplemented ==
  ASSUME HierarchyOK, NEW c \in Classes, c \in owns
  PROVE  c \in Members(c) /\ c \in Implemented(c)
<1>1. c \in Members(c)
  BY AllMembers
<1>2. ASSUME ExtendsClass[c] # None
      PROVE  c \notin Members(ExtendsClass[c])
  <2> DEFINE e == ExtendsClass[c]
  <2>1. e \in Classes /\ e \in 1 .. c - 1
    BY <1>2, ExtendedClass
  <2>2. \A x \in Members(e) : x = e \/ x \in 1 .. e - 1
    BY <2>1, AllMembers, SuperSetIsBelow
  <2>3. c \in Int
    BY BoundsAssumption DEF Classes
  <2> HIDE DEF e
  <2>4. c # e /\ ~(c \in 1 .. e - 1)
    BY <2>1, <2>3
  <2> QED BY <2>2, <2>4 DEF e
<1> QED BY <1>1, <1>2, ImplementedMembers

\* The constants of the members of a class are different positions.
LEMMA ConstantsDiffer ==
  ASSUME HierarchyOK, NEW c \in Classes
  PROVE  /\ Members(c) \subseteq Classes
         /\ \A f \in Members(c) : IDValue[c][f] \in 0 .. MemberCount(c) - 1 /\ eAllMembers[c][IDValue[c][f] + 1] = f
         /\ \A f, g \in Members(c) : IDValue[c][f] = IDValue[c][g] => f = g
<1>1. eAllMembers[c] \in Seq(Classes) /\ Distinct(eAllMembers[c])
  BY AllMembers
<1>2. Members(c) \subseteq Classes
  BY <1>1, NamesAtPositions DEF Members
<1>3. \A f \in Members(c) : IDValue[c][f] = IndexOf(eAllMembers[c], f)
  BY <1>2, IDIsPosition
<1>4. \A f \in Members(c) : IndexOf(eAllMembers[c], f) \in 0 .. MemberCount(c) - 1
                            /\ eAllMembers[c][IndexOf(eAllMembers[c], f) + 1] = f
  BY <1>1, Position DEF Members, MemberCount
<1> QED BY <1>2, <1>3, <1>4

\* The switch of a class for a mixin makes the id of a member that the mixin
\* implements the one of the class, and knows no other id.
LEMMA IDsAreTranslated ==
  ASSUME HierarchyOK, NEW c, NEW m \in Classes
  PROVE  /\ \A f \in Implemented(m) : DerivedID(c, m, IDValue[m][f]) = IDValue[c][f]
         /\ DerivedID(c, m, Invalid) = Invalid
<1>1. Implemented(m) \subseteq Members(m)
  BY ImplementedMembers
<1>2. ASSUME NEW f \in Implemented(m)
      PROVE  DerivedID(c, m, IDValue[m][f]) = IDValue[c][f]
  <2>1. \A g \in Implemented(m) : IDValue[m][g] = IDValue[m][f] => g = f
    BY <1>1, ConstantsDiffer
  <2> DEFINE h == CHOOSE h \in Implemented(m) : IDValue[m][h] = IDValue[m][f]
  <2>2. h \in Implemented(m) /\ IDValue[m][h] = IDValue[m][f]
    OBVIOUS
  <2>3. h = f
    <3> HIDE DEF h
    <3> QED BY <2>1, <2>2
  <2>4. DerivedID(c, m, IDValue[m][f]) = IDValue[c][h]
    BY DEF DerivedID
  <2> QED BY <2>3, <2>4
<1>3. \A f \in Implemented(m) : IDValue[m][f] # Invalid
  <2>1. \A f \in Implemented(m) : IDValue[m][f] \in 0 .. MemberCount(m) - 1
    BY <1>1, ConstantsDiffer
  <2> QED BY <2>1 DEF Invalid
<1>4. DerivedID(c, m, Invalid) = Invalid
  BY <1>3 DEF DerivedID
<1> QED BY <1>2, <1>4

\* The generated tests of the translation pass.
LEMMA TranslationTestsPass ==
  ASSUME HierarchyOK, NEW c \in Classes, NEW t \in derivedIDTests(c)
  PROVE  DerivedID(c, t.of, t.from) = t.to
<1>1. PICK m \in Mixins[c] :
        \/ t = [of |-> m, from |-> Invalid, to |-> Invalid]
        \/ \E f \in Implemented(m) : t = [of |-> m, from |-> IDValue[m][f], to |-> IDValue[c][f]]
  BY DEF derivedIDTests
<1>2. m \in Classes
  BY MixinsAreSuperTypes, SuperSetIsBelow
<1> QED BY <1>1, <1>2, IDsAreTranslated

\* The constant of a member is the same in a class whose members are the first ones
\* of another class.
LEMMA SameConstant ==
  ASSUME HierarchyOK, NEW b \in Classes, NEW c \in Classes, Begins(eAllMembers[b], eAllMembers[c])
  PROVE  /\ Members(b) \subseteq Members(c)
         /\ \A f \in Members(b) : IDValue[b][f] = IDValue[c][f]
         /\ \A f \in Members(c) : IDValue[c][f] < MemberCount(b) => f \in Members(b)
<1> DEFINE s == eAllMembers[b]
           t == eAllMembers[c]
<1>1. s \in Seq(Classes) /\ Distinct(s) /\ t \in Seq(Classes) /\ Distinct(t)
  BY AllMembers
<1>2. Members(b) \subseteq Members(c) /\ Members(b) \subseteq Classes /\ Members(c) \subseteq Classes
  BY <1>1, BeginsHasNames, ConstantsDiffer DEF Members
<1> HIDE DEF s, t
<1>3. \A f : /\ IndexOf(t, f) < Len(s) => IndexOf(t, f) = IndexOf(s, f)
             /\ f \in NamesOf(s) <=> IndexOf(t, f) \in 0 .. Len(s) - 1
  BY <1>1, PositionFromTheBeginning DEF s, t
<1>4. Len(s) \in Nat
  BY <1>1
<1>5. ASSUME NEW f \in Members(b)
      PROVE  IDValue[b][f] = IDValue[c][f]
  <2>1. IndexOf(t, f) \in 0 .. Len(s) - 1
    BY <1>3 DEF Members, s
  <2>2. IndexOf(t, f) < Len(s)
    BY <1>4, <2>1
  <2>3. IndexOf(t, f) = IndexOf(s, f)
    BY <1>3, <2>2
  <2> QED BY <1>2, <2>3, IDIsPosition DEF s, t
<1>6. ASSUME NEW f \in Members(c), IDValue[c][f] < MemberCount(b)
      PROVE  f \in Members(b)
  <2>1. IDValue[c][f] = IndexOf(t, f) /\ IDValue[c][f] \in 0 .. MemberCount(c) - 1
    BY <1>2, IDIsPosition, ConstantsDiffer DEF t
  <2>2. MemberCount(b) = Len(s)
    BY DEF MemberCount, s
  <2>3. IndexOf(t, f) \in Int /\ IndexOf(t, f) >= 0
    BY <2>1, PositionType
  <2>4. IndexOf(t, f) \in 0 .. Len(s) - 1
    BY <1>4, <1>6, <2>1, <2>2, <2>3
  <2> QED BY <1>3, <2>4 DEF Members, s
<1> QED BY <1>2, <1>5, <1>6
(***************************************************************************)
(* Reading                                                                 *)
(***************************************************************************)

\* The members of a class that runs are the first ones of the object.
Embedded == at # None => at \in Classes /\ Begins(eAllMembers[at], eAllMembers[object])

\* While an id is translated, the feature is one of the class that runs, or its id
\* is already the one of the object.
Translating ==
  /\ object \in Classes
  /\ feature \in Members(object)
  /\ id = IDValue[feature][feature]
  /\ (at # None /\ feature \in Members(at)) \/ Begins(eAllMembers[feature], eAllMembers[object])

\* While a value is asked for, the id is the one of the feature in the object, and
\* the feature is one of the class that runs; or there is no such feature.
Getting ==
  /\ object \in Classes
  /\ \/ /\ feature \in Members(object)
        /\ id = IDValue[object][feature]
        /\ at # None /\ feature \in Members(at)
     \/ feature = NoFeature /\ id = MemberCount(object)

\* The inductive invariant of a read.
ReadInv ==
  /\ HierarchyOK
  /\ method \in {"none", "EDerivedFeatureID", "EGetFromID", "done"}
  /\ method = "EDerivedFeatureID" => Embedded /\ Translating /\ answer = NoFeature
  /\ method = "EGetFromID" => Embedded /\ Getting /\ answer = NoFeature
  /\ method = "none" => answer = NoFeature
  /\ method = "done" => answer = feature

\* The hierarchies that a run starts with.
LEMMA HierarchyIsOK ==
  ASSUME HierarchyInit
  PROVE  HierarchyOK
<1>1. ASSUME NEW c \in Classes
      PROVE  superTypes[c] \in Seq(Classes) /\ \A k \in 1 .. Len(superTypes[c]) : superTypes[c][k] < c
  <2>1. superTypes[c] \in SuperTypeLists(c)
    BY DEF HierarchyInit
  <2>2. PICK k \in 0 .. MaxSupers : superTypes[c] \in [1 .. k -> 1 .. c - 1]
    BY <2>1 DEF SuperTypeLists
  <2> DEFINE s == superTypes[c]
  <2> HIDE DEF s
  <2>3. s \in [1 .. k -> 1 .. c - 1] /\ k \in Nat
    BY <2>2, BoundsAssumption DEF s
  <2>4. c \in Int /\ \A d \in 1 .. c - 1 : d \in Classes /\ d < c
    BY BoundsAssumption DEF Classes
  <2>5. s \in Seq(Classes) /\ Len(s) = k
    BY <2>3, <2>4
  <2>6. \A i \in 1 .. Len(s) : s[i] < c
    BY <2>3, <2>4, <2>5
  <2> QED BY <2>5, <2>6 DEF s
<1>2. superTypes \in [Classes -> Seq(Classes)]
  BY <1>1 DEF HierarchyInit
<1> QED BY <1>1, <1>2 DEF HierarchyOK, HierarchyInit

\* A read leaves the hierarchy, and what is derived from it, unchanged.
LEMMA FactsAreKept ==
  ASSUME UNCHANGED hierarchy
  PROVE  /\ HierarchyOK' <=> HierarchyOK
         /\ eAllMembers' = eAllMembers
         /\ ExtendsClass' = ExtendsClass
         /\ IDValue' = IDValue
         /\ \A c : Members(c)' = Members(c)
         /\ \A c : MemberCount(c)' = MemberCount(c)
<1>1. HierarchyOK' <=> HierarchyOK
  BY DEF hierarchy, HierarchyOK
<1>2. eAllMembers' = eAllMembers
  BY DEF hierarchy, eAllMembers
<1>3. ExtendsClass' = ExtendsClass
  BY DEF hierarchy, ExtendsClass, firstSuperType
<1>4. \A c : Members(c)' = Members(c) /\ MemberCount(c)' = MemberCount(c)
  BY <1>2 DEF Members, MemberCount
<1>5. CountIDValue' = CountIDValue
  BY <1>2 DEF hierarchy, CountIDValue, firstSuperType, Added, MemberCount
<1>6. IDValue' = IDValue
  BY <1>2, <1>5 DEF hierarchy, IDValue, firstSuperType, OfBase, MemberCount
<1> QED BY <1>1, <1>2, <1>3, <1>4, <1>6

\* The class that the class that runs extends is embedded too.
LEMMA EmbeddedAbove ==
  ASSUME HierarchyOK, NEW c \in Classes, NEW a \in Classes, Begins(eAllMembers[a], eAllMembers[c]),
         ExtendsClass[a] # None
  PROVE  ExtendsClass[a] \in Classes /\ Begins(eAllMembers[ExtendsClass[a]], eAllMembers[c])
<1>1. ExtendsClass[a] \in Classes /\ Begins(eAllMembers[ExtendsClass[a]], eAllMembers[a])
  BY ExtendedClass
<1>2. /\ eAllMembers[ExtendsClass[a]] \in Seq(Classes)
      /\ eAllMembers[a] \in Seq(Classes)
      /\ eAllMembers[c] \in Seq(Classes)
  BY <1>1, AllMembers
<1> QED BY <1>1, <1>2, BeginsIsTransitive

\* A member of the object is declared by a class that implements it.
LEMMA FeatureIsOwned ==
  ASSUME HierarchyOK, NEW c \in Classes, NEW f \in Members(c)
  PROVE  f \in Classes /\ f \in owns /\ f \in Members(f) /\ f \in Implemented(f)
<1>1. f \in Classes /\ f \in owns
  BY ConstantsDiffer, AllMembers
<1> QED BY <1>1, OwnIsImplemented

\* Translating starts at the class of the object.
LEMMA ReadPreserves ==
  ASSUME ReadInv, NEW c \in Classes, NEW f \in Classes, Read(c, f)
  PROVE  ReadInv'
<1>1. UNCHANGED hierarchy /\ HierarchyOK
  BY DEF Read, ReadInv, hierarchy
<1>2. /\ object' = c /\ feature' = f /\ method' = "EDerivedFeatureID" /\ at' = c
      /\ id' = IDValue[f][f] /\ answer' = NoFeature /\ f \in Members(c)
  BY DEF Read, ReadInv
<1>3. Begins(eAllMembers[c], eAllMembers[c])
  BY DEF Begins
<1>4. Embedded'
  BY <1>1, <1>2, <1>3, FactsAreKept DEF Embedded
<1>5. Translating'
  <2>1. c # None
    BY DEF Classes, None
  <2> QED BY <1>1, <1>2, <2>1, FactsAreKept DEF Translating
<1> QED BY <1>1, <1>2, <1>4, <1>5, FactsAreKept DEF ReadInv

\* Reading by id starts at the class of the object.
LEMMA ReadIDPreserves ==
  ASSUME ReadInv, NEW c \in Classes, NEW i \in 0 .. MemberCount(c), ReadID(c, i)
  PROVE  ReadInv'
<1>1. UNCHANGED hierarchy /\ HierarchyOK
  BY DEF ReadID, ReadInv, hierarchy
<1>2. /\ object' = c /\ method' = "EGetFromID" /\ at' = c /\ id' = i /\ answer' = NoFeature
      /\ feature' = IF i < MemberCount(c) THEN eAllMembers[c][i + 1] ELSE NoFeature
  BY DEF ReadID, ReadInv
<1>3. Begins(eAllMembers[c], eAllMembers[c])
  BY DEF Begins
<1>4. Embedded'
  BY <1>1, <1>2, <1>3, FactsAreKept DEF Embedded
<1>5. MemberCount(c) \in Nat
  BY <1>1, PositionType
<1>6. CASE i < MemberCount(c)
  <2> DEFINE s == eAllMembers[c]
  <2>1. s \in Seq(Classes) /\ Distinct(s)
    BY <1>1, AllMembers
  <2>2. i + 1 \in 1 .. Len(s) /\ i + 1 \in Int /\ i = (i + 1) - 1
    BY <1>5, <1>6 DEF MemberCount
  <2> HIDE DEF s
  <2>3. s[i + 1] \in NamesOf(s) /\ s[i + 1] \in Classes
    BY <2>1, <2>2, NamesAtPositions
  <2>4. IndexOf(s, s[i + 1]) = i
    BY <2>1, <2>2, Position
  <2>5. feature' = s[i + 1] /\ s[i + 1] \in Members(c) /\ IDValue[c][s[i + 1]] = i
    BY <1>1, <1>2, <1>6, <2>3, <2>4, IDIsPosition DEF s, Members
  <2>6. Getting'
    <3>1. c # None
      BY DEF Classes, None
    <3> QED BY <1>1, <1>2, <2>5, <3>1, FactsAreKept DEF Getting
  <2> QED BY <1>1, <1>2, <1>4, <2>6, FactsAreKept DEF ReadInv
<1>7. CASE ~(i < MemberCount(c))
  <2>1. feature' = NoFeature /\ i = MemberCount(c)
    BY <1>2, <1>5, <1>7
  <2>2. Getting'
    BY <1>1, <1>2, <2>1, FactsAreKept DEF Getting
  <2> QED BY <1>1, <1>2, <1>4, <2>2, FactsAreKept DEF ReadInv
<1> QED BY <1>6, <1>7
\* A translated id is the one of the feature in the object.
LEMMA TranslatePreserves ==
  ASSUME ReadInv, Translate
  PROVE  ReadInv'
<1>1. UNCHANGED hierarchy /\ HierarchyOK /\ Embedded /\ Translating /\ answer = NoFeature
  BY DEF Translate, ReadInv, hierarchy
<1>2. /\ at # None /\ feature \in Mapped(at) /\ id' = DerivedID(at, feature, id) /\ method' = "EGetFromID"
      /\ at' = object /\ object' = object /\ feature' = feature /\ answer' = answer
  BY DEF Translate
<1>3. object \in Classes /\ feature \in Members(object) /\ id = IDValue[feature][feature]
  BY <1>1 DEF Translating
<1>4. at \in Classes /\ Begins(eAllMembers[at], eAllMembers[object])
  BY <1>1, <1>2 DEF Embedded
<1>5. feature \in Classes /\ feature \in owns /\ feature \in Implemented(feature)
  BY <1>1, <1>3, FeatureIsOwned
<1>6. feature \in Members(at)
  <2>1. feature \in SuperSet(at)
    BY <1>1, <1>2, <1>4, MixinsAreSuperTypes DEF Mapped
  <2> QED BY <1>1, <1>4, <1>5, <2>1, AllMembers
<1>7. id' = IDValue[at][feature]
  BY <1>1, <1>2, <1>3, <1>5, IDsAreTranslated
<1>8. IDValue[at][feature] = IDValue[object][feature]
  BY <1>1, <1>3, <1>4, <1>6, SameConstant
<1>9. Embedded'
  <2>1. Begins(eAllMembers[object], eAllMembers[object])
    BY DEF Begins
  <2> QED BY <1>1, <1>2, <1>3, <2>1, FactsAreKept DEF Embedded
<1>10. Getting'
  <2>1. object # None
    BY <1>3 DEF Classes, None
  <2> QED BY <1>1, <1>2, <1>3, <1>7, <1>8, <2>1, FactsAreKept DEF Getting
<1> QED BY <1>1, <1>2, <1>9, <1>10, FactsAreKept DEF ReadInv

\* A feature that is not mapped is one of the embedded class, or its id is already
\* the one of the object.
LEMMA PassIDPreserves ==
  ASSUME ReadInv, PassID
  PROVE  ReadInv'
<1>1. UNCHANGED hierarchy /\ HierarchyOK /\ Embedded /\ Translating /\ answer = NoFeature
  BY DEF PassID, ReadInv, hierarchy
<1>2. /\ at # None /\ feature \notin Mapped(at) /\ at' = ExtendsClass[at] /\ method' = "EDerivedFeatureID"
      /\ id' = id /\ object' = object /\ feature' = feature /\ answer' = answer
  BY DEF PassID, classExtends
<1>3. object \in Classes /\ feature \in Members(object) /\ id = IDValue[feature][feature]
  BY <1>1 DEF Translating
<1>4. at \in Classes /\ Begins(eAllMembers[at], eAllMembers[object])
  BY <1>1, <1>2 DEF Embedded
<1>5. Embedded'
  <2>1. ExtendsClass[at] # None =>
          ExtendsClass[at] \in Classes /\ Begins(eAllMembers[ExtendsClass[at]], eAllMembers[object])
    BY <1>1, <1>3, <1>4, EmbeddedAbove
  <2> QED BY <1>1, <1>2, <2>1, FactsAreKept DEF Embedded
<1>6. feature \notin Mixins[at]
  <2>1. SUFFICES ASSUME feature \in Mixins[at] PROVE FALSE
    OBVIOUS
  <2>2. HasElementID(at)
    BY <1>1, <1>3, <2>1, FeatureIsOwned DEF HasElementID
  <2> QED BY <1>2, <2>1, <2>2 DEF Mapped
<1>7. \/ ExtendsClass[at] # None /\ feature \in Members(ExtendsClass[at])
      \/ Begins(eAllMembers[feature], eAllMembers[object])
  <2>1. CASE Begins(eAllMembers[feature], eAllMembers[object])
    BY <2>1
  <2>2. CASE feature \in Members(at)
    <3>1. \/ ExtendsClass[at] # None /\ feature \in Members(ExtendsClass[at])
          \/ Begins(eAllMembers[feature], eAllMembers[at])
      BY <1>1, <1>4, <1>6, <2>2, MemberIsReached
    <3>2. ASSUME Begins(eAllMembers[feature], eAllMembers[at])
          PROVE  Begins(eAllMembers[feature], eAllMembers[object])
      <4>1. feature \in Classes
        BY <1>1, <1>3, FeatureIsOwned
      <4>2. /\ eAllMembers[feature] \in Seq(Classes)
            /\ eAllMembers[at] \in Seq(Classes)
            /\ eAllMembers[object] \in Seq(Classes)
        BY <1>1, <1>3, <1>4, <4>1, AllMembers
      <4> QED BY <1>4, <3>2, <4>2, BeginsIsTransitive
    <3> QED BY <3>1, <3>2
  <2> QED BY <1>1, <1>2, <2>1, <2>2 DEF Translating
<1>8. Translating'
  BY <1>1, <1>2, <1>3, <1>7, FactsAreKept DEF Translating
<1> QED BY <1>1, <1>2, <1>5, <1>8, FactsAreKept DEF ReadInv

\* The id that no class translates is the one of the object.
LEMMA KeepIDPreserves ==
  ASSUME ReadInv, KeepID
  PROVE  ReadInv'
<1>1. UNCHANGED hierarchy /\ HierarchyOK /\ Embedded /\ Translating /\ answer = NoFeature
  BY DEF KeepID, ReadInv, hierarchy
<1>2. /\ at = None /\ at' = object /\ method' = "EGetFromID"
      /\ id' = id /\ object' = object /\ feature' = feature /\ answer' = answer
  BY DEF KeepID
<1>3. /\ object \in Classes /\ feature \in Members(object) /\ id = IDValue[feature][feature]
      /\ Begins(eAllMembers[feature], eAllMembers[object])
  BY <1>1, <1>2 DEF Translating
<1>4. feature \in Classes /\ feature \in Members(feature)
  BY <1>1, <1>3, FeatureIsOwned
<1>5. id = IDValue[object][feature]
  BY <1>1, <1>3, <1>4, SameConstant
<1>6. Embedded'
  <2>1. Begins(eAllMembers[object], eAllMembers[object])
    BY DEF Begins
  <2> QED BY <1>1, <1>2, <1>3, <2>1, FactsAreKept DEF Embedded
<1>7. Getting'
  <2>1. object # None
    BY <1>3 DEF Classes, None
  <2> QED BY <1>1, <1>2, <1>3, <1>5, <2>1, FactsAreKept DEF Getting
<1> QED BY <1>1, <1>2, <1>6, <1>7, FactsAreKept DEF ReadInv

\* The case of the id is the one of the feature.
LEMMA GetPreserves ==
  ASSUME ReadInv, Get
  PROVE  ReadInv'
<1>1. UNCHANGED hierarchy /\ HierarchyOK /\ Embedded /\ Getting
  BY DEF Get, ReadInv, hierarchy
<1>2. at # None /\ method' = "done" /\ feature' = feature
  BY DEF Get
<1>3. PICK f \in Implemented(at) : IDValue[at][f] = id /\ answer' = f
  BY DEF Get, Cases
<1>4. at \in Classes /\ Begins(eAllMembers[at], eAllMembers[object]) /\ object \in Classes
  BY <1>1, <1>2 DEF Embedded, Getting
<1>5. f \in Members(at) /\ f \in Members(object) /\ IDValue[object][f] = id
  BY <1>1, <1>3, <1>4, ImplementedMembers, SameConstant
<1>6. feature # NoFeature \/ id # MemberCount(object)
  <2>1. IDValue[object][f] \in 0 .. MemberCount(object) - 1 /\ MemberCount(object) \in Nat
    BY <1>1, <1>4, <1>5, ConstantsDiffer, PositionType
  <2>2. id # MemberCount(object)
    BY <1>5, <2>1
  <2> QED BY <2>2
<1>7. feature \in Members(object) /\ id = IDValue[object][feature]
  BY <1>1, <1>6 DEF Getting
<1>8. f = feature
  BY <1>1, <1>4, <1>5, <1>7, ConstantsDiffer
<1> QED BY <1>1, <1>2, <1>3, <1>8, FactsAreKept DEF ReadInv

\* A feature without a case is one of the embedded class.
LEMMA PassGetPreserves ==
  ASSUME ReadInv, PassGet
  PROVE  ReadInv'
<1>1. UNCHANGED hierarchy /\ HierarchyOK /\ Embedded /\ Getting /\ answer = NoFeature
  BY DEF PassGet, ReadInv, hierarchy
<1>2. /\ at # None /\ Cases(at) = {} /\ at' = ExtendsClass[at] /\ method' = "EGetFromID"
      /\ id' = id /\ object' = object /\ feature' = feature /\ answer' = answer
  BY DEF PassGet, classExtends
<1>3. at \in Classes /\ Begins(eAllMembers[at], eAllMembers[object]) /\ object \in Classes
  BY <1>1, <1>2 DEF Embedded, Getting
<1>4. Embedded'
  <2>1. ExtendsClass[at] # None =>
          ExtendsClass[at] \in Classes /\ Begins(eAllMembers[ExtendsClass[at]], eAllMembers[object])
    BY <1>1, <1>3, EmbeddedAbove
  <2> QED BY <1>1, <1>2, <2>1, FactsAreKept DEF Embedded
<1>5. ASSUME feature \in Members(at), id = IDValue[object][feature]
      PROVE  ExtendsClass[at] # None /\ feature \in Members(ExtendsClass[at])
  <2>1. IDValue[at][feature] = id
    BY <1>1, <1>3, <1>5, SameConstant
  <2>2. feature \notin Implemented(at)
    BY <1>2, <2>1 DEF Cases
  <2> QED BY <1>1, <1>3, <1>5, <2>2, ImplementedMembers
<1>6. Getting'
  BY <1>1, <1>2, <1>5, FactsAreKept DEF Getting
<1> QED BY <1>1, <1>2, <1>4, <1>6, FactsAreKept DEF ReadInv

\* Only an id that is not one of the object comes to soft.go.
LEMMA FailPreserves ==
  ASSUME ReadInv, Fail
  PROVE  ReadInv'
<1>1. UNCHANGED hierarchy /\ HierarchyOK /\ Getting /\ answer = NoFeature
  BY DEF Fail, ReadInv, hierarchy
<1>2. at = None /\ method' = "done" /\ feature' = feature /\ answer' = answer
  BY DEF Fail
<1>3. feature = NoFeature
  BY <1>1, <1>2 DEF Getting
<1> QED BY <1>1, <1>2, <1>3, FactsAreKept DEF ReadInv

\* Every step of a read keeps its invariant.
LEMMA ReadInvHolds == Spec => []ReadInv
<1>1. Init => ReadInv
  BY HierarchyIsOK DEF Init, ReadInv
<1>2. ReadInv /\ [Next]_vars => ReadInv'
  <2> SUFFICES ASSUME ReadInv, [Next]_vars PROVE ReadInv'
    OBVIOUS
  <2>1. ASSUME NEW c \in Classes, NEW f \in Classes, Read(c, f) PROVE ReadInv'
    BY <2>1, ReadPreserves
  <2>2. ASSUME NEW c \in Classes, NEW i \in 0 .. MemberCount(c), ReadID(c, i) PROVE ReadInv'
    BY <2>2, ReadIDPreserves
  <2>3. CASE UNCHANGED vars
    <3>1. UNCHANGED hierarchy
      BY <2>3 DEF vars, hierarchy
    <3>2. /\ object' = object /\ feature' = feature /\ method' = method
          /\ at' = at /\ id' = id /\ answer' = answer
      BY <2>3 DEF vars
    <3>3. (Embedded' <=> Embedded) /\ (Translating' <=> Translating) /\ (Getting' <=> Getting)
      BY <3>1, <3>2, FactsAreKept DEF Embedded, Translating, Getting
    <3> QED BY <3>1, <3>2, <3>3, FactsAreKept DEF ReadInv
  <2> QED BY <2>1, <2>2, <2>3, TranslatePreserves, PassIDPreserves, KeepIDPreserves, GetPreserves,
             PassGetPreserves, FailPreserves DEF Next
<1> QED BY <1>1, <1>2, PTL DEF Spec

\* ids.go: the constant of a member, written from the constants of the base class,
\* is its position among the members of the class, and the count constant is
\* their number: for every hierarchy.
THEOREM ConstantsAgree == Spec => []ConstantsArePositions
<1>1. ReadInv => ConstantsArePositions
  BY PositionsAreConstants DEF ReadInv
<1> QED BY <1>1, ReadInvHolds, PTL

\* class.go: along the classes that an implementation, or a mock, embeds, every
\* member of the class is implemented exactly once: for every hierarchy.
THEOREM MembersImplementedOnce == Spec => []ImplementedOnce
<1>1. ReadInv => ImplementedOnce
  BY EveryMemberOnce DEF ReadInv
<1> QED BY <1>1, ReadInvHolds, PTL

\* view_reflectives.go: a read by feature or by id calls the getter of the feature,
\* and the generated tests of the translated ids pass: for every hierarchy.
THEOREM ReadingIsRight == Spec => []ReadsTheFeature
<1>1. ReadInv => ReadsTheFeature
  BY TranslationTestsPass DEF ReadInv, ReadsTheFeature
<1> QED BY <1>1, ReadInvHolds, PTL
=============================================================================

--------------------------- MODULE RegionsProofs ---------------------------
(***************************************************************************)
(* Theorems about parseRegions and PreserveRegions, for every text on disk *)
(* and every generated text: the code of the users survives, nothing else  *)
(* is kept, and generating once more changes nothing.                      *)
(***************************************************************************)
EXTENDS Regions, TLAPS

(***************************************************************************)
(* Scanning                                                                *)
(***************************************************************************)

\* A text that begins with another one.
Extends(U, T) == Len(T) <= Len(U) /\ \A k \in 1 .. Len(T) : U[k] = T[k]

\* A scan that is at a line does not see what comes after it.
LEMMA ClearPrefix ==
  ASSUME NEW T \in Seq(Lines), NEW U \in Seq(Lines), Extends(U, T), NEW k \in 1 .. Len(T) + 1
  PROVE  Clear(U, k) <=> Clear(T, k)
<1>1. Len(T) \in Nat /\ Len(U) \in Nat
  OBVIOUS
<1>2. \A m \in 1 .. k - 1 : m \in 1 .. Len(T) /\ U[m] = T[m]
  BY <1>1 DEF Extends
<1>3. \A m \in 1 .. k - 1 : \A j \in m + 1 .. k - 1 : j \in 1 .. k - 1
  BY <1>1
<1> QED BY <1>2, <1>3 DEF Clear, Starts, Ends

\* So the regions that a text opens are opened by what it is the beginning of.
LEMMA OpensPrefix ==
  ASSUME NEW T \in Seq(Lines), NEW U \in Seq(Lines), Extends(U, T), NEW k \in 1 .. Len(T)
  PROVE  k \in Opens(U) <=> k \in Opens(T)
<1>1. Len(T) \in Nat /\ Len(U) \in Nat /\ k \in 1 .. Len(U) /\ k \in 1 .. Len(T) + 1 /\ U[k] = T[k]
  BY DEF Extends
<1> QED BY <1>1, ClearPrefix DEF Opens, Starts

\* And so are its lines outside of regions.
LEMMA OutsidePrefix ==
  ASSUME NEW T \in Seq(Lines), NEW U \in Seq(Lines), Extends(U, T), NEW k \in 1 .. Len(T)
  PROVE  k \in Outside(U) <=> k \in Outside(T)
<1>1. Len(T) \in Nat /\ Len(U) \in Nat /\ k \in 1 .. Len(U)
  BY DEF Extends
<1>2. \A o : o \in Opens(U) /\ o < k <=> o \in Opens(T) /\ o < k
  <2> SUFFICES ASSUME NEW o, o \in Opens(U) \/ o \in Opens(T), o < k
               PROVE  o \in Opens(U) <=> o \in Opens(T)
    OBVIOUS
  <2>1. o \in 1 .. Len(U) \/ o \in 1 .. Len(T)
    BY DEF Opens
  <2>2. o \in 1 .. Len(T)
    BY <1>1, <2>1
  <2> QED BY <2>2, OpensPrefix
<1>3. \A o \in Opens(T) : \A j \in o + 1 .. k : Ends(U, j) <=> Ends(T, j)
  <2>1. \A o \in Opens(T) : \A j \in o + 1 .. k : j \in 1 .. Len(T)
    BY <1>1 DEF Opens
  <2> QED BY <2>1 DEF Extends, Ends
<1> QED BY <1>1, <1>2, <1>3 DEF Outside

\* The regions whose lines are in a text are those of that text.
LEMMA SpansPrefix ==
  ASSUME NEW T \in Seq(Lines), NEW U \in Seq(Lines), Extends(U, T),
         NEW k \in 1 .. Len(T), NEW j \in 1 .. Len(T)
  PROVE  /\ <<k, j>> \in Spans(U) <=> <<k, j>> \in Spans(T)
         /\ IsEndOf(U, k, j) <=> IsEndOf(T, k, j)
<1>1. Len(T) \in Nat /\ Len(U) \in Nat /\ k \in 1 .. Len(U) /\ j \in 1 .. Len(U)
  BY DEF Extends
<1>2. k \in Opens(U) <=> k \in Opens(T)
  BY OpensPrefix
<1>3. \A m \in k + 1 .. j : m \in 1 .. Len(T) /\ U[m] = T[m]
  BY <1>1 DEF Extends
<1>4. j \in k + 1 .. Len(U) <=> j \in k + 1 .. Len(T)
  BY <1>1
<1>5. IsEndOf(U, k, j) <=> IsEndOf(T, k, j)
  <2>1. \A m \in k + 1 .. j - 1 : m \in k + 1 .. j
    BY <1>1
  <2>2. j \in k + 1 .. Len(T) => j \in k + 1 .. j
    BY <1>1
  <2> QED BY <1>3, <1>4, <2>1, <2>2 DEF IsEndOf, Ends
<1> QED BY <1>1, <1>2, <1>5 DEF Spans

\* A line without start marker that a scan is at is outside of the regions.
LEMMA LineStep ==
  ASSUME NEW T \in Seq(Lines), NEW k \in 1 .. Len(T), Clear(T, k), ~Starts(T, k)
  PROVE  /\ Clear(T, k + 1)
         /\ k \notin Opens(T)
         /\ k \in Outside(T)
<1>1. Len(T) \in Nat
  OBVIOUS
<1>2. \A m \in 1 .. k : m # k => m \in 1 .. k - 1
  OBVIOUS
<1>3. \A m \in 1 .. k - 1 : Starts(T, m) => \E j \in m + 1 .. k - 1 : Ends(T, j)
  BY DEF Clear
<1>4. \A m \in 1 .. k - 1 : \A j \in m + 1 .. k - 1 : j \in m + 1 .. k
  OBVIOUS
<1>5. Clear(T, k + 1)
  <2>1. \A m \in 1 .. k : Starts(T, m) => \E j \in m + 1 .. k : Ends(T, j)
    BY <1>2, <1>3, <1>4
  <2>2. (k + 1) - 1 = k
    OBVIOUS
  <2> QED BY <2>1, <2>2 DEF Clear
<1>6. \A o \in Opens(T) : o < k => o \in 1 .. k - 1 /\ Starts(T, o)
  BY <1>1 DEF Opens
<1>7. k \in Outside(T)
  BY <1>3, <1>4, <1>6 DEF Outside
<1> QED BY <1>5, <1>7 DEF Opens

\* A start marker that a scan is at opens a region; between the markers nothing
\* is opened and nothing is outside, and the scan goes on after the end.
LEMMA RegionStep ==
  ASSUME NEW T \in Seq(Lines), NEW k \in 1 .. Len(T), NEW j, Clear(T, k), Starts(T, k), IsEndOf(T, k, j)
  PROVE  /\ j \in k + 1 .. Len(T)
         /\ Clear(T, j + 1)
         /\ \A m \in k .. j : m \in Opens(T) <=> m = k
         /\ \A m \in k .. j : m \in Outside(T) <=> m = k \/ m = j
         /\ <<k, j>> \in Spans(T)
<1>1. Len(T) \in Nat /\ j \in k + 1 .. Len(T) /\ j \in Nat /\ Ends(T, j)
      /\ (\A m \in k + 1 .. j - 1 : ~Ends(T, m))
  BY DEF IsEndOf
<1>2. \A m \in 1 .. k - 1 : Starts(T, m) => \E x \in m + 1 .. k - 1 : Ends(T, x)
  BY DEF Clear
<1>3. Clear(T, j + 1)
  <2>1. (j + 1) - 1 = j
    BY <1>1
  <2>2. ASSUME NEW m \in 1 .. j, Starts(T, m)
        PROVE  \E x \in m + 1 .. j : Ends(T, x)
    <3>1. CASE m < k
      <4>1. PICK x \in m + 1 .. k - 1 : Ends(T, x)
        BY <1>2, <2>2, <3>1
      <4> QED BY <4>1, <1>1
    <3>2. CASE m >= k /\ m < j
      BY <3>2, <1>1
    <3>3. CASE m = j
      BY <3>3, <2>2, <1>1 DEF Starts, Ends
    <3> QED BY <3>1, <3>2, <3>3, <1>1
  <2> QED BY <2>1, <2>2 DEF Clear
<1>4. k \in Opens(T)
  BY DEF Opens
<1>5. ASSUME NEW m \in k .. j, m # k
      PROVE  m \notin Opens(T)
  <2>1. CASE m = j
    BY <2>1, <1>1 DEF Opens, Starts, Ends
  <2>2. CASE m # j
    <3>1. k \in 1 .. m - 1 /\ \A x \in k + 1 .. m - 1 : x \in k + 1 .. j - 1
      BY <2>2, <1>1, <1>5
    <3>2. ~Clear(T, m)
      BY <3>1, <1>1 DEF Clear
    <3> QED BY <3>2 DEF Opens
  <2> QED BY <2>1, <2>2
<1>6. ASSUME NEW o \in Opens(T), o < k
      PROVE  \E x \in o + 1 .. k - 1 : Ends(T, x)
  BY <1>2, <1>6, <1>1 DEF Opens
<1>7. k \in Outside(T)
  <2>1. \A o \in Opens(T) : \A x \in o + 1 .. k - 1 : x \in o + 1 .. k
    BY DEF Opens
  <2> QED BY <2>1, <1>6 DEF Outside
<1>8. j \in Outside(T)
  <2>1. \A o \in Opens(T) : o < j => j \in o + 1 .. j
    BY <1>1 DEF Opens
  <2> QED BY <2>1, <1>1 DEF Outside
<1>9. ASSUME NEW m \in k .. j, m # k, m # j
      PROVE  m \notin Outside(T)
  <2>1. k < m /\ \A x \in k + 1 .. m : x \in k + 1 .. j - 1
    BY <1>1, <1>9
  <2> QED BY <2>1, <1>1, <1>4 DEF Outside
<1>10. <<k, j>> \in Spans(T)
  BY <1>1, <1>4 DEF Spans
<1> QED BY <1>1, <1>3, <1>4, <1>5, <1>7, <1>8, <1>9, <1>10

\* The end of a region is one line.
LEMMA OneEnd ==
  ASSUME NEW T \in Seq(Lines), NEW r \in Spans(T), NEW q \in Spans(T), r[1] = q[1]
  PROVE  r = q
<1>1. r \in (1 .. Len(T)) \X (1 .. Len(T)) /\ q \in (1 .. Len(T)) \X (1 .. Len(T))
      /\ IsEndOf(T, r[1], r[2]) /\ IsEndOf(T, q[1], q[2])
  BY DEF Spans
<1>2. r[2] = q[2]
  BY <1>1 DEF IsEndOf
<1> QED BY <1>1, <1>2

\* The lines of a region are lines, and none is an end marker.
LEMMA BodyLines ==
  ASSUME NEW T \in Seq(Lines), NEW r \in Spans(T)
  PROVE  /\ Body(T, r) \in Seq(Lines)
         /\ \A k \in 1 .. Len(Body(T, r)) : ~Ends(Body(T, r), k)
<1>1. r \in (1 .. Len(T)) \X (1 .. Len(T)) /\ IsEndOf(T, r[1], r[2])
  BY DEF Spans
<1> DEFINE a == r[1]
           b == r[2]
<1>2. a \in 1 .. Len(T) /\ b \in a + 1 .. Len(T) /\ Len(T) \in Nat
      /\ \A m \in a + 1 .. b - 1 : ~Ends(T, m)
  BY <1>1 DEF IsEndOf
<1>3. Body(T, r) = SubSeq(T, a + 1, b - 1)
  BY DEF Body, Between
<1> HIDE DEF a, b
<1>4. SubSeq(T, a + 1, b - 1) \in Seq(Lines)
  BY <1>2
<1>5. Len(SubSeq(T, a + 1, b - 1)) = b - 1 - a
  BY <1>2
<1>6. \A k \in 1 .. (b - 1 - a) : SubSeq(T, a + 1, b - 1)[k] = T[a + k] /\ a + k \in a + 1 .. b - 1
  BY <1>2
<1> QED BY <1>2, <1>3, <1>4, <1>5, <1>6 DEF Ends
(***************************************************************************)
(* The index of the regions of a text                                      *)
(***************************************************************************)

\* R indexes the regions of the text T that are opened before line n.
Indexed(T, R, n) ==
  /\ \A r \in Spans(T) : r[1] < n => Word(T, r) \in DOMAIN R
  /\ \A id \in DOMAIN R : \E r \in Spans(T) :
       /\ r[1] < n /\ Word(T, r) = id /\ R[id] = Body(T, r)
       /\ \A q \in Spans(T) : q[1] < n /\ Word(T, q) = id => q[1] <= r[1]

\* A scan that is at line n is in no region, and has ended those it has seen.
Scanned(T, n) ==
  /\ n \in 1 .. Len(T) + 1
  /\ Clear(T, n)
  /\ \A k \in Opens(T) : k < n => \E r \in Spans(T) : r[1] = k

\* A line that opens nothing adds nothing to the index.
LEMMA ScanLine ==
  ASSUME NEW T \in Seq(Lines), NEW n \in 1 .. Len(T), NEW R,
         Scanned(T, n), Indexed(T, R, n), ~Starts(T, n)
  PROVE  Scanned(T, n + 1) /\ Indexed(T, R, n + 1)
<1>1. Len(T) \in Nat /\ n \in Nat
  OBVIOUS
<1>2. Clear(T, n + 1) /\ n \notin Opens(T)
  BY LineStep DEF Scanned
<1>3. \A k \in Opens(T) : k < n + 1 => k < n
  BY <1>1, <1>2 DEF Opens
<1>4. \A r \in Spans(T) : r[1] < n + 1 <=> r[1] < n
  <2> SUFFICES ASSUME NEW r \in Spans(T)
               PROVE  r[1] < n + 1 <=> r[1] < n
    OBVIOUS
  <2>1. r[1] \in Opens(T) /\ r[1] \in Nat
    BY DEF Spans
  <2> QED BY <2>1, <1>3, <1>1
<1>5. Scanned(T, n + 1)
  BY <1>1, <1>2, <1>3 DEF Scanned
<1>6. Indexed(T, R, n + 1)
  BY <1>4 DEF Indexed
<1> QED BY <1>5, <1>6

\* A region replaces what the index has for its id.
LEMMA ScanRegion ==
  ASSUME NEW T \in Seq(Lines), NEW n \in 1 .. Len(T), NEW R, NEW j,
         Scanned(T, n), Indexed(T, R, n), Starts(T, n), IsEndOf(T, n, j)
  PROVE  LET S == [d \in DOMAIN R \cup {T[n].word} |-> IF d = T[n].word THEN Between(T, n, j) ELSE R[d]]
         IN  Scanned(T, j + 1) /\ Indexed(T, S, j + 1)
<1> DEFINE id == T[n].word
           S == [d \in DOMAIN R \cup {id} |-> IF d = id THEN Between(T, n, j) ELSE R[d]]
<1>1. Len(T) \in Nat /\ n \in Nat /\ j \in n + 1 .. Len(T)
  BY DEF IsEndOf
<1>2. /\ Clear(T, j + 1)
      /\ \A m \in n .. j : m \in Opens(T) <=> m = n
      /\ <<n, j>> \in Spans(T)
  BY RegionStep DEF Scanned
<1>3. \A k \in Opens(T) : k < j + 1 => k < n \/ k = n
  BY <1>1, <1>2 DEF Opens
<1>4. \A r \in Spans(T) : r[1] \in Nat /\ (r[1] < j + 1 => r[1] < n \/ r = <<n, j>>)
  <2> SUFFICES ASSUME NEW r \in Spans(T)
               PROVE  r[1] \in Nat /\ (r[1] < j + 1 => r[1] < n \/ r = <<n, j>>)
    OBVIOUS
  <2>1. r[1] \in Opens(T) /\ r[1] \in Nat
    BY DEF Spans
  <2>2. r[1] = n => r = <<n, j>>
    BY <1>2, OneEnd
  <2> QED BY <2>1, <2>2, <1>3
<1>5. Scanned(T, j + 1)
  <2>1. j + 1 \in 1 .. Len(T) + 1
    BY <1>1
  <2>2. ASSUME NEW k \in Opens(T), k < j + 1
        PROVE  \E r \in Spans(T) : r[1] = k
    <3>1. CASE k < n
      BY <3>1 DEF Scanned
    <3>2. CASE k = n
      BY <3>2, <1>2
    <3> QED BY <3>1, <3>2, <2>2, <1>3
  <2> QED BY <2>1, <2>2, <1>2 DEF Scanned
<1>6. Word(T, <<n, j>>) = id /\ Body(T, <<n, j>>) = Between(T, n, j)
  BY DEF Word, Body
<1>7. DOMAIN S = DOMAIN R \cup {id} /\ S[id] = Body(T, <<n, j>>)
      /\ \A d \in DOMAIN R : d # id => S[d] = R[d]
  BY <1>6
<1> HIDE DEF S, id
<1>8. ASSUME NEW r \in Spans(T), r[1] < j + 1
      PROVE  Word(T, r) \in DOMAIN S
  <2>1. CASE r = <<n, j>>
    BY <2>1, <1>6, <1>7
  <2>2. CASE r[1] < n
    BY <2>2, <1>7 DEF Indexed
  <2> QED BY <2>1, <2>2, <1>8, <1>4
<1>9. ASSUME NEW d \in DOMAIN S
      PROVE  \E r \in Spans(T) :
               /\ r[1] < j + 1 /\ Word(T, r) = d /\ S[d] = Body(T, r)
               /\ \A q \in Spans(T) : q[1] < j + 1 /\ Word(T, q) = d => q[1] <= r[1]
  <2>1. CASE d = id
    <3>1. \A q \in Spans(T) : q[1] < j + 1 => q[1] <= n
      <4> SUFFICES ASSUME NEW q \in Spans(T), q[1] < j + 1
                   PROVE  q[1] <= n
        OBVIOUS
      <4>1. q[1] \in Nat /\ (q[1] < n \/ q[1] = n)
        BY <1>4
      <4> QED BY <4>1, <1>1
    <3> QED BY <2>1, <3>1, <1>1, <1>2, <1>6, <1>7
  <2>2. CASE d # id
    <3>1. d \in DOMAIN R /\ S[d] = R[d]
      BY <2>2, <1>7
    <3>2. PICK r \in Spans(T) :
            /\ r[1] < n /\ Word(T, r) = d /\ R[d] = Body(T, r)
            /\ \A q \in Spans(T) : q[1] < n /\ Word(T, q) = d => q[1] <= r[1]
      BY <3>1 DEF Indexed
    <3>3. r[1] < j + 1
      BY <3>2, <1>1, <1>4
    <3>4. \A q \in Spans(T) : q[1] < j + 1 /\ Word(T, q) = d => q[1] < n
      BY <1>4, <1>6, <2>2
    <3> QED BY <3>1, <3>2, <3>3, <3>4
  <2> QED BY <2>1, <2>2
<1>10. Indexed(T, S, j + 1)
  BY <1>8, <1>9 DEF Indexed
<1> QED BY <1>5, <1>10 DEF S, id

\* What an index holds are lines, and no end marker.
LEMMA IndexedLines ==
  ASSUME NEW T \in Seq(Lines), NEW R, NEW n, Indexed(T, R, n), NEW id \in DOMAIN R
  PROVE  /\ R[id] \in Seq(Lines)
         /\ \A k \in 1 .. Len(R[id]) : ~Ends(R[id], k)
<1>1. PICK r \in Spans(T) : R[id] = Body(T, r)
  BY DEF Indexed
<1> QED BY <1>1, BodyLines

(***************************************************************************)
(* The copy of a generated text                                            *)
(***************************************************************************)

\* The lines of a region of the generated text G in the result.
Inner(G, R, q) == IF Word(G, q) \in DOMAIN R THEN R[Word(G, q)] ELSE Body(G, q)

\* The text T is the copy of the lines of G before line n, with the lines of R in
\* the regions; f takes a line outside of the regions of T to the one it copies.
Copied(f, T, G, R, n) ==
  /\ n \in 1 .. Len(G) + 1 /\ Clear(G, n) /\ Clear(T, Len(T) + 1)
  /\ f \in [Outside(T) -> Outside(G)]
  /\ \A k \in Outside(T) : f[k] < n /\ T[k] = G[f[k]]
  /\ \A k, m \in Outside(T) : k < m => f[k] < f[m]
  /\ \A m \in Outside(G) : m < n => \E k \in Outside(T) : f[k] = m
  /\ \A r \in Spans(T) :
       <<f[r[1]], f[r[2]]>> \in Spans(G) /\ Body(T, r) = Inner(G, R, <<f[r[1]], f[r[2]]>>)
  /\ \A k \in Opens(T) : \E r \in Spans(T) : r[1] = k
  /\ Opens(T) = {} => T = SubSeq(G, 1, n - 1)

\* The ids of the regions of a text.
Words(T) == {Word(T, r) : r \in Spans(T)}

\* A line at which nothing is open is outside of the regions.
LEMMA ClearOutside ==
  ASSUME NEW T \in Seq(Lines), NEW k \in 1 .. Len(T), Clear(T, k)
  PROVE  k \in Outside(T)
<1>1. Len(T) \in Nat
  OBVIOUS
<1>2. ASSUME NEW o \in Opens(T), o < k
      PROVE  \E j \in o + 1 .. k : Ends(T, j)
  <2>1. o \in 1 .. k - 1 /\ Starts(T, o)
    BY <1>2, <1>1 DEF Opens
  <2>2. PICK j \in o + 1 .. k - 1 : Ends(T, j)
    BY <2>1 DEF Clear
  <2> QED BY <2>1, <2>2
<1> QED BY <1>2 DEF Outside

\* The markers of a region are outside of the regions.
LEMMA SpanEnds ==
  ASSUME NEW T \in Seq(Lines), NEW r \in Spans(T)
  PROVE  /\ r[1] \in Outside(T) /\ r[2] \in Outside(T)
         /\ r[1] \in Opens(T) /\ r[1] < r[2] /\ r = <<r[1], r[2]>>
<1>1. /\ r \in (1 .. Len(T)) \X (1 .. Len(T)) /\ r[1] \in Opens(T) /\ IsEndOf(T, r[1], r[2])
  BY DEF Spans
<1>2. r[1] \in 1 .. Len(T) /\ Clear(T, r[1]) /\ Starts(T, r[1])
  BY <1>1 DEF Opens
<1>3. r[2] \in r[1] + 1 .. Len(T) /\ \A m \in r[1] .. r[2] : m \in Outside(T) <=> m = r[1] \/ m = r[2]
  BY <1>1, <1>2, RegionStep
<1>4. Len(T) \in Nat /\ r[1] \in r[1] .. r[2] /\ r[2] \in r[1] .. r[2] /\ r[1] < r[2]
  BY <1>2, <1>3
<1> QED BY <1>1, <1>3, <1>4

\* A text whose regions are ended keeps them, with their lines, when lines follow.
LEMMA SpansExtend ==
  ASSUME NEW T \in Seq(Lines), NEW U \in Seq(Lines), Extends(U, T),
         \A k \in Opens(T) : \E r \in Spans(T) : r[1] = k
  PROVE  /\ \A r \in Spans(T) : r \in Spans(U) /\ Word(U, r) = Word(T, r) /\ Body(U, r) = Body(T, r)
         /\ \A r \in Spans(U) : r[1] <= Len(T) => r \in Spans(T)
<1>1. Len(T) \in Nat /\ Len(U) \in Nat
  OBVIOUS
<1>2. ASSUME NEW r \in Spans(T)
      PROVE  r \in Spans(U) /\ Word(U, r) = Word(T, r) /\ Body(U, r) = Body(T, r)
  <2>1. r[1] \in 1 .. Len(T) /\ r[2] \in 1 .. Len(T) /\ r = <<r[1], r[2]>> /\ r[1] < r[2]
    BY SpanEnds DEF Spans
  <2>2. r \in Spans(U)
    BY <2>1, SpansPrefix
  <2>3. \A k \in 1 .. Len(T) : U[k] = T[k]
    BY DEF Extends
  <2>4. SubSeq(U, r[1] + 1, r[2] - 1) = SubSeq(T, r[1] + 1, r[2] - 1)
    <3> DEFINE a == r[1]
               b == r[2]
    <3>1. a \in 1 .. Len(T) /\ b \in 1 .. Len(T) /\ a < b /\ Len(T) <= Len(U)
      BY <2>1 DEF Extends
    <3> HIDE DEF a, b
    <3>2. SubSeq(U, a + 1, b - 1) = SubSeq(T, a + 1, b - 1)
      BY <3>1, <2>3, <1>1
    <3> QED BY <3>2 DEF a, b
  <2> QED BY <2>1, <2>2, <2>3, <2>4 DEF Word, Body, Between
<1>3. ASSUME NEW r \in Spans(U), r[1] <= Len(T)
      PROVE  r \in Spans(T)
  <2>1. r[1] \in Opens(U) /\ r[1] \in 1 .. Len(U)
    BY DEF Spans
  <2>2. r[1] \in Opens(T)
    BY <2>1, <1>1, <1>3, OpensPrefix
  <2>3. PICK q \in Spans(T) : q[1] = r[1]
    BY <2>2
  <2>4. q \in Spans(U)
    BY <1>2
  <2> QED BY <2>3, <2>4, OneEnd
<1> QED BY <1>2, <1>3
\* A line that is copied is outside of the regions.
LEMMA LineCopied ==
  ASSUME NEW T \in Seq(Lines), NEW G \in Seq(Lines), NEW R, NEW f, NEW n \in 1 .. Len(G),
         Copied(f, T, G, R, n), ~Starts(G, n)
  PROVE  /\ \E h : Copied(h, Append(T, G[n]), G, R, n + 1)
         /\ Words(Append(T, G[n])) = Words(T)
<1> DEFINE U == Append(T, G[n])
           L == Len(T) + 1
           h == [k \in Outside(U) |-> IF k = L THEN n ELSE f[k]]
<1>1. /\ Len(T) \in Nat /\ Len(G) \in Nat /\ L \in Nat /\ G[n] \in Lines
      /\ U \in Seq(Lines) /\ Len(U) = L /\ U[L] = G[n]
      /\ \A k \in 1 .. Len(T) : U[k] = T[k]
  OBVIOUS
<1>2. Extends(U, T) /\ L \in 1 .. Len(U) /\ L \in 1 .. Len(T) + 1
  BY <1>1 DEF Extends
<1> HIDE DEF U
<1>3. Clear(U, L) /\ ~Starts(U, L)
  <2>1. Clear(T, Len(T) + 1)
    BY DEF Copied
  <2> QED BY <1>1, <1>2, <2>1, ClearPrefix DEF Starts
<1>4. Clear(U, L + 1) /\ L \notin Opens(U) /\ L \in Outside(U)
  BY <1>1, <1>2, <1>3, LineStep
<1>5. Clear(G, n + 1) /\ n \notin Opens(G) /\ n \in Outside(G)
  BY LineStep DEF Copied
<1>6. /\ \A k \in Outside(U) : k = L \/ k \in Outside(T)
      /\ \A k \in Outside(T) : k \in Outside(U) /\ k < L /\ k \in Nat
  <2>1. \A k \in Outside(U) : k = L \/ k \in 1 .. Len(T)
    BY <1>1 DEF Outside
  <2>2. \A k \in Outside(T) : k \in 1 .. Len(T)
    BY DEF Outside
  <2>3. \A k \in 1 .. Len(T) : k \in Outside(U) <=> k \in Outside(T)
    BY <1>1, <1>2, OutsidePrefix
  <2> QED BY <2>1, <2>2, <2>3, <1>1
<1>7. Opens(U) = Opens(T)
  <2>1. \A k \in Opens(U) : k = L \/ k \in 1 .. Len(T)
    BY <1>1 DEF Opens
  <2>2. \A k \in Opens(T) : k \in 1 .. Len(T)
    BY DEF Opens
  <2>3. \A k \in 1 .. Len(T) : k \in Opens(U) <=> k \in Opens(T)
    BY <1>1, <1>2, OpensPrefix
  <2> QED BY <2>1, <2>2, <2>3, <1>4
<1>8. /\ Spans(U) = Spans(T)
      /\ \A r \in Spans(T) : Word(U, r) = Word(T, r) /\ Body(U, r) = Body(T, r)
  <2>1. \A k \in Opens(T) : \E r \in Spans(T) : r[1] = k
    BY DEF Copied
  <2>2. /\ \A r \in Spans(T) : r \in Spans(U) /\ Word(U, r) = Word(T, r) /\ Body(U, r) = Body(T, r)
        /\ \A r \in Spans(U) : r[1] <= Len(T) => r \in Spans(T)
    BY <1>1, <1>2, <2>1, SpansExtend
  <2>3. \A r \in Spans(U) : r[1] \in Opens(T)
    BY <1>7 DEF Spans
  <2>4. \A r \in Spans(U) : r[1] <= Len(T)
    BY <2>3 DEF Opens
  <2> QED BY <2>2, <2>4
<1>9. h[L] = n /\ \A k \in Outside(T) : h[k] = f[k] /\ f[k] \in Outside(G) /\ f[k] < n /\ f[k] \in Nat
  <2>1. h[L] = n
    BY <1>4
  <2>2. \A k \in Outside(T) : h[k] = f[k]
    BY <1>6
  <2>3. \A k \in Outside(T) : f[k] \in Outside(G) /\ f[k] < n
    BY DEF Copied
  <2>4. \A m \in Outside(G) : m \in Nat
    BY DEF Outside
  <2> QED BY <2>1, <2>2, <2>3, <2>4
<1>10. h \in [Outside(U) -> Outside(G)]
  BY <1>5, <1>6, <1>9
<1> HIDE DEF h
<1>11. ASSUME NEW k \in Outside(U)
       PROVE  h[k] < n + 1 /\ U[k] = G[h[k]]
  <2>1. CASE k = L
    BY <2>1, <1>1, <1>9
  <2>2. CASE k \in Outside(T)
    <3>1. T[k] = G[f[k]] /\ k \in 1 .. Len(T)
      BY <2>2 DEF Copied, Outside
    <3> QED BY <2>2, <3>1, <1>1, <1>9
  <2> QED BY <2>1, <2>2, <1>6
<1>12. ASSUME NEW k \in Outside(U), NEW m \in Outside(U), k < m
       PROVE  h[k] < h[m]
  <2>1. k \in Outside(T)
    <3> SUFFICES ASSUME k = L PROVE FALSE
      BY <1>6
    <3>1. m = L \/ m < L
      BY <1>6
    <3> QED BY <3>1, <1>12, <1>1, <1>6
  <2>2. CASE m = L
    BY <2>1, <2>2, <1>9
  <2>3. CASE m \in Outside(T)
    <3>1. f[k] < f[m]
      BY <1>12, <2>1, <2>3 DEF Copied
    <3> QED BY <2>1, <2>3, <3>1, <1>9
  <2> QED BY <2>2, <2>3, <1>6
<1>13. ASSUME NEW m \in Outside(G), m < n + 1
       PROVE  \E k \in Outside(U) : h[k] = m
  <2>1. CASE m = n
    BY <2>1, <1>4, <1>9
  <2>2. CASE m < n
    <3>1. PICK k \in Outside(T) : f[k] = m
      BY <2>2 DEF Copied
    <3> QED BY <3>1, <1>6, <1>9
  <2>3. m \in Nat
    BY DEF Outside
  <2> QED BY <2>1, <2>2, <2>3, <1>13
<1>14. ASSUME NEW r \in Spans(U)
       PROVE  <<h[r[1]], h[r[2]]>> \in Spans(G) /\ Body(U, r) = Inner(G, R, <<h[r[1]], h[r[2]]>>)
  <2>1. r \in Spans(T) /\ r[1] \in Outside(T) /\ r[2] \in Outside(T)
    BY <1>8, SpanEnds
  <2>2. h[r[1]] = f[r[1]] /\ h[r[2]] = f[r[2]]
    BY <2>1, <1>9
  <2>3. <<f[r[1]], f[r[2]]>> \in Spans(G) /\ Body(T, r) = Inner(G, R, <<f[r[1]], f[r[2]]>>)
    BY <2>1 DEF Copied
  <2> QED BY <2>1, <2>2, <2>3, <1>8
<1>15. \A k \in Opens(U) : \E r \in Spans(U) : r[1] = k
  BY <1>7, <1>8 DEF Copied
<1>16. ASSUME Opens(U) = {}
       PROVE  U = SubSeq(G, 1, (n + 1) - 1)
  <2>1. T = SubSeq(G, 1, n - 1)
    BY <1>7, <1>16 DEF Copied
  <2>2. Len(T) = n - 1 /\ \A k \in 1 .. n - 1 : T[k] = G[k]
    BY <2>1
  <2>3. Len(SubSeq(G, 1, n)) = n /\ SubSeq(G, 1, n) \in Seq(Lines)
        /\ \A k \in 1 .. n : SubSeq(G, 1, n)[k] = G[k]
    OBVIOUS
  <2>4. L = n /\ Len(U) = n /\ (n + 1) - 1 = n
    BY <2>2, <1>1
  <2>5. \A k \in 1 .. n : U[k] = SubSeq(G, 1, n)[k]
    BY <2>2, <2>3, <2>4, <1>1
  <2> QED BY <2>3, <2>4, <2>5, <1>1
<1>17. n + 1 \in 1 .. Len(G) + 1 /\ Clear(U, Len(U) + 1)
  BY <1>1, <1>4
<1>18. Copied(h, U, G, R, n + 1)
  BY <1>5, <1>10, <1>11, <1>12, <1>13, <1>14, <1>15, <1>16, <1>17 DEF Copied
<1>19. Words(U) = Words(T)
  BY <1>8 DEF Words
<1> QED BY <1>18, <1>19 DEF U
\* One text after another.
LEMMA ConcatLines ==
  ASSUME NEW X \in Seq(Lines), NEW Y \in Seq(Lines)
  PROVE  /\ X \o Y \in Seq(Lines) /\ Len(X \o Y) = Len(X) + Len(Y)
         /\ \A k \in 1 .. Len(X) : (X \o Y)[k] = X[k]
         /\ \A k \in 1 .. Len(Y) : (X \o Y)[Len(X) + k] = Y[k]
OBVIOUS

\* The text U is T, and a region with the lines B.
IsWithRegion(U, T, s, B, e) ==
  /\ U \in Seq(Lines) /\ Extends(U, T) /\ Len(T) + 1 \in 1 .. Len(U)
  /\ U[Len(T) + 1] = s /\ U[Len(U)] = e
  /\ IsEndOf(U, Len(T) + 1, Len(U))
  /\ Between(U, Len(T) + 1, Len(U)) = B

NoEnds(B) == \A k \in 1 .. Len(B) : ~Ends(B, k)

\* So is a text to which two markers are added, and lines between them.
LEMMA RegionText ==
  ASSUME NEW T \in Seq(Lines), NEW B \in Seq(Lines), NEW s \in Lines, NEW e \in Lines,
         e.mark = "end", NoEnds(B)
  PROVE  IsWithRegion(T \o <<s>> \o B \o <<e>>, T, s, B, e)
<1> DEFINE U == T \o <<s>> \o B \o <<e>>
           L == Len(T) + 1
           b == Len(B)
           X == T \o <<s>>
           Y == X \o B
<1>1. Len(T) \in Nat /\ b \in Nat /\ <<s>> \in Seq(Lines) /\ <<e>> \in Seq(Lines)
  OBVIOUS
<1>2. X \in Seq(Lines) /\ Len(X) = L /\ X[L] = s /\ \A k \in 1 .. Len(T) : X[k] = T[k]
  BY <1>1
<1> HIDE DEF X
<1>3. /\ Y \in Seq(Lines) /\ Len(Y) = L + b
      /\ \A k \in 1 .. L : Y[k] = X[k]
      /\ \A k \in 1 .. b : Y[L + k] = B[k]
  <2>1. /\ X \o B \in Seq(Lines) /\ Len(X \o B) = Len(X) + Len(B)
        /\ \A k \in 1 .. Len(X) : (X \o B)[k] = X[k]
        /\ \A k \in 1 .. Len(B) : (X \o B)[Len(X) + k] = B[k]
    BY <1>2, ConcatLines
  <2> QED BY <1>2, <2>1
<1> HIDE DEF Y
<1>4. U = Y \o <<e>>
  BY DEF X, Y
<1> HIDE DEF U
<1>5. /\ U \in Seq(Lines) /\ Len(U) = L + b + 1
      /\ U[L + b + 1] = e
      /\ \A k \in 1 .. L + b : U[k] = Y[k]
  <2> DEFINE E == <<e>>
  <2>1. E \in Seq(Lines) /\ Len(E) = 1 /\ E[1] = e
    OBVIOUS
  <2> HIDE DEF E, L, b
  <2>2. /\ Y \o E \in Seq(Lines) /\ Len(Y \o E) = Len(Y) + Len(E)
        /\ \A k \in 1 .. Len(Y) : (Y \o E)[k] = Y[k]
        /\ \A k \in 1 .. Len(E) : (Y \o E)[Len(Y) + k] = E[k]
    BY <1>3, <2>1, ConcatLines
  <2>3. U = Y \o E
    BY <1>4 DEF E
  <2> QED BY <1>3, <2>1, <2>2, <2>3
<1>6. Extends(U, T)
  BY <1>1, <1>2, <1>3, <1>5 DEF Extends
<1>7. L \in 1 .. Len(U) /\ U[L] = s /\ U[Len(U)] = e
  <2>1. L \in 1 .. L /\ L \in 1 .. L + b /\ L \in 1 .. L + b + 1
    BY <1>1
  <2>2. U[L] = s
    BY <1>2, <1>3, <1>5, <2>1
  <2> QED BY <1>5, <2>1, <2>2
<1>8. \A k \in 1 .. b : U[L + k] = B[k]
  BY <1>1, <1>3, <1>5
<1>9. IsEndOf(U, L, Len(U))
  <2>1. Ends(U, Len(U))
    BY <1>7 DEF Ends
  <2>2. ASSUME NEW m \in L + 1 .. Len(U) - 1
        PROVE  ~Ends(U, m)
    <3>1. m - L \in 1 .. b /\ L + (m - L) = m
      BY <1>1, <1>5
    <3>2. U[m] = B[m - L]
      BY <1>8, <3>1
    <3> QED BY <3>1, <3>2 DEF Ends, NoEnds
  <2>3. Len(U) \in L + 1 .. Len(U)
    BY <1>1, <1>5
  <2> QED BY <2>1, <2>2, <2>3 DEF IsEndOf
<1>10. SubSeq(U, L + 1, Len(U) - 1) = B
  <2>1. Len(U) - 1 = L + b /\ L + b <= Len(U)
    BY <1>1, <1>5
  <2> HIDE DEF L, b
  <2>2. L \in Nat /\ b \in Nat
    BY <1>1 DEF L
  <2>3. Len(SubSeq(U, L + 1, L + b)) = b
    BY <1>5, <2>1, <2>2
  <2>4. \A k \in 1 .. b : SubSeq(U, L + 1, L + b)[k] = U[L + k]
    BY <1>5, <2>1, <2>2
  <2>5. SubSeq(U, L + 1, L + b) \in Seq(Lines)
    BY <1>5, <2>1, <2>2
  <2> DEFINE V == SubSeq(U, L + 1, L + b)
  <2> HIDE DEF V
  <2>6. V \in Seq(Lines) /\ Len(V) = Len(B) /\ \A k \in 1 .. Len(B) : V[k] = B[k]
    BY <2>3, <2>4, <2>5, <1>8 DEF V, b
  <2>7. V = B
    BY <2>6
  <2> QED BY <2>1, <2>7 DEF V
<1> QED BY <1>5, <1>6, <1>7, <1>9, <1>10 DEF Between, IsWithRegion, U

\* A region that is copied: its markers from the generated text, and the lines it has.
LEMMA RegionCopied ==
  ASSUME NEW T \in Seq(Lines), NEW G \in Seq(Lines), NEW R, NEW f, NEW n \in 1 .. Len(G), NEW j,
         NEW B \in Seq(Lines), NoEnds(B), B = Inner(G, R, <<n, j>>),
         Copied(f, T, G, R, n), Starts(G, n), IsEndOf(G, n, j)
  PROVE  LET U == T \o <<G[n]>> \o B \o <<G[j]>>
         IN  /\ U \in Seq(Lines)
             /\ \E h : Copied(h, U, G, R, j + 1)
             /\ Words(U) = Words(T) \cup {G[n].word}
<1> DEFINE U == T \o <<G[n]>> \o B \o <<G[j]>>
           L == Len(T) + 1
           b == Len(U)
           h == [k \in Outside(U) |-> IF k = L THEN n ELSE IF k = b THEN j ELSE f[k]]
<1>1. /\ Clear(G, j + 1) /\ j \in n + 1 .. Len(G)
      /\ \A m \in n .. j : m \in Outside(G) <=> m = n \/ m = j
      /\ <<n, j>> \in Spans(G)
  BY RegionStep DEF Copied
<1>2. Len(T) \in Nat /\ Len(G) \in Nat /\ G[n] \in Lines /\ G[j] \in Lines /\ G[j].mark = "end"
  BY <1>1 DEF IsEndOf, Ends
<1>3. /\ U \in Seq(Lines) /\ Extends(U, T) /\ L \in 1 .. Len(U)
      /\ U[L] = G[n] /\ U[b] = G[j]
      /\ IsEndOf(U, L, b)
      /\ Between(U, L, b) = B
  <2>1. IsWithRegion(U, T, G[n], B, G[j])
    BY <1>2, RegionText
  <2> HIDE DEF U
  <2> QED BY <2>1 DEF IsWithRegion
<1> HIDE DEF U
<1>4. b \in Nat /\ L \in Nat /\ \A k \in 1 .. Len(T) : U[k] = T[k]
  BY <1>2, <1>3 DEF Extends
<1>5. Clear(U, L) /\ Starts(U, L)
  <2>1. Clear(T, Len(T) + 1) /\ L \in 1 .. Len(T) + 1
    BY <1>2 DEF Copied
  <2> QED BY <1>3, <2>1, ClearPrefix DEF Starts
<1>6. /\ b \in L + 1 .. b /\ Clear(U, b + 1)
      /\ \A m \in L .. b : m \in Opens(U) <=> m = L
      /\ \A m \in L .. b : m \in Outside(U) <=> m = L \/ m = b
      /\ <<L, b>> \in Spans(U)
  BY <1>3, <1>5, RegionStep
<1> HIDE DEF b
<1>7. L < b /\ L # b /\ L \in Outside(U) /\ b \in Outside(U)
  <2>1. b \in Nat
    BY <1>4 DEF b
  <2>2. L < b /\ L \in L .. b /\ b \in L .. b
    BY <1>4, <1>6, <2>1
  <2> QED BY <1>6, <2>2, <2>1, <1>4
<1>8. /\ \A k \in Outside(U) : k = L \/ k = b \/ k \in Outside(T)
      /\ \A k \in Outside(T) : k \in Outside(U) /\ k < L /\ k \in Nat
  <2>1. \A k \in Outside(U) : k \in L .. b \/ k \in 1 .. Len(T)
    BY <1>2, <1>4 DEF Outside, b
  <2>2. \A k \in Outside(T) : k \in 1 .. Len(T)
    BY DEF Outside
  <2>3. \A k \in 1 .. Len(T) : k \in Outside(U) <=> k \in Outside(T)
    BY <1>3, OutsidePrefix
  <2>4. \A k \in Outside(U) : k = L \/ k = b \/ k \in Outside(T)
    BY <2>1, <2>3, <1>6
  <2>5. \A k \in Outside(T) : k \in Outside(U) /\ k < L /\ k \in Nat
    BY <2>2, <2>3, <1>2
  <2> QED BY <2>4, <2>5
<1>9. /\ \A k \in Opens(U) : k = L \/ k \in Opens(T)
  <2>1. \A k \in Opens(U) : k \in L .. b \/ k \in 1 .. Len(T)
    BY <1>2, <1>4 DEF Opens, b
  <2>2. \A k \in 1 .. Len(T) : k \in Opens(U) <=> k \in Opens(T)
    BY <1>3, OpensPrefix
  <2> QED BY <2>1, <2>2, <1>6
<1>10. /\ \A r \in Spans(T) : r \in Spans(U) /\ Word(U, r) = Word(T, r) /\ Body(U, r) = Body(T, r)
       /\ \A r \in Spans(U) : r = <<L, b>> \/ r \in Spans(T)
  <2>1. \A k \in Opens(T) : \E r \in Spans(T) : r[1] = k
    BY DEF Copied
  <2>2. /\ \A r \in Spans(T) : r \in Spans(U) /\ Word(U, r) = Word(T, r) /\ Body(U, r) = Body(T, r)
        /\ \A r \in Spans(U) : r[1] <= Len(T) => r \in Spans(T)
    BY <1>3, <2>1, SpansExtend
  <2>3. ASSUME NEW r \in Spans(U)
        PROVE  r = <<L, b>> \/ r \in Spans(T)
    <3>1. r[1] \in Opens(U)
      BY DEF Spans
    <3>2. CASE r[1] = L
      <4>1. r = <<L, b>>
        BY <3>2, <1>3, <1>6, OneEnd
      <4> QED BY <4>1
    <3>3. CASE r[1] \in Opens(T)
      <4>1. r[1] <= Len(T)
        BY <3>3 DEF Opens
      <4> QED BY <4>1, <2>2
    <3> QED BY <3>1, <3>2, <3>3, <1>9
  <2> QED BY <2>2, <2>3
<1>11. /\ h[L] = n /\ h[b] = j
       /\ \A k \in Outside(T) : h[k] = f[k] /\ f[k] \in Outside(G) /\ f[k] < n /\ f[k] \in Nat
  <2>1. h[L] = n /\ h[b] = j
    BY <1>7
  <2>2. \A k \in Outside(T) : k # L /\ k # b
    BY <1>4, <1>7, <1>8
  <2>3. \A k \in Outside(T) : h[k] = f[k]
    BY <1>8, <2>2
  <2>4. \A k \in Outside(T) : f[k] \in Outside(G) /\ f[k] < n
    BY DEF Copied
  <2>5. \A m \in Outside(G) : m \in Nat
    BY DEF Outside
  <2> QED BY <2>1, <2>3, <2>4, <2>5
<1>12. n \in Outside(G) /\ j \in Outside(G) /\ n < j /\ j \in Nat
  BY <1>1
<1>13. h \in [Outside(U) -> Outside(G)]
  BY <1>8, <1>11, <1>12
<1> HIDE DEF h
<1>14. ASSUME NEW k \in Outside(U)
       PROVE  h[k] < j + 1 /\ U[k] = G[h[k]]
  <2>1. CASE k = L
    BY <2>1, <1>3, <1>11, <1>12
  <2>2. CASE k = b
    BY <2>2, <1>3, <1>11, <1>12
  <2>3. CASE k \in Outside(T)
    <3>1. T[k] = G[f[k]] /\ k \in 1 .. Len(T)
      BY <2>3 DEF Copied, Outside
    <3> QED BY <2>3, <3>1, <1>4, <1>11, <1>12
  <2> QED BY <2>1, <2>2, <2>3, <1>8
<1>15. ASSUME NEW k \in Outside(U), NEW m \in Outside(U), k < m
       PROVE  h[k] < h[m]
  <2>1. CASE k = L /\ m = b
    BY <2>1, <1>11, <1>12
  <2>2. CASE k \in Outside(T) /\ m = L
    BY <2>2, <1>11
  <2>3. CASE k \in Outside(T) /\ m = b
    BY <2>3, <1>11, <1>12
  <2>4. CASE k \in Outside(T) /\ m \in Outside(T)
    <3>1. f[k] < f[m]
      BY <1>15, <2>4 DEF Copied
    <3> QED BY <2>4, <3>1, <1>11
  <2>5. /\ ~(k = L /\ m = L) /\ ~(k = b /\ m = L) /\ ~(k = b /\ m = b)
        /\ ~(k = L /\ m \in Outside(T)) /\ ~(k = b /\ m \in Outside(T))
    BY <1>4, <1>7, <1>8, <1>15
  <2> QED BY <2>1, <2>2, <2>3, <2>4, <2>5, <1>8
<1>16. ASSUME NEW m \in Outside(G), m < j + 1
       PROVE  \E k \in Outside(U) : h[k] = m
  <2>1. CASE m = n \/ m = j
    BY <2>1, <1>7, <1>11
  <2>2. CASE m < n
    <3>1. PICK k \in Outside(T) : f[k] = m
      BY <2>2 DEF Copied
    <3> QED BY <3>1, <1>8, <1>11
  <2>3. CASE ~(m < n)
    <3>1. m \in n .. j
      BY <2>3, <1>12, <1>16 DEF Outside
    <3> QED BY <3>1, <1>1, <2>1
  <2> QED BY <2>2, <2>3
<1>17. ASSUME NEW r \in Spans(U)
       PROVE  <<h[r[1]], h[r[2]]>> \in Spans(G) /\ Body(U, r) = Inner(G, R, <<h[r[1]], h[r[2]]>>)
  <2>1. CASE r = <<L, b>>
    <3>1. <<h[r[1]], h[r[2]]>> = <<n, j>> /\ Body(U, r) = B
      BY <2>1, <1>3, <1>11 DEF Body
    <3> QED BY <3>1, <1>1
  <2>2. CASE r \in Spans(T)
    <3>1. r[1] \in Outside(T) /\ r[2] \in Outside(T)
      BY <2>2, SpanEnds
    <3>2. h[r[1]] = f[r[1]] /\ h[r[2]] = f[r[2]]
      BY <3>1, <1>11
    <3>3. <<f[r[1]], f[r[2]]>> \in Spans(G) /\ Body(T, r) = Inner(G, R, <<f[r[1]], f[r[2]]>>)
      BY <2>2 DEF Copied
    <3> QED BY <2>2, <3>2, <3>3, <1>10
  <2> QED BY <2>1, <2>2, <1>10
<1>18. ASSUME NEW k \in Opens(U)
       PROVE  \E r \in Spans(U) : r[1] = k
  <2>1. CASE k = L
    BY <2>1, <1>6
  <2>2. CASE k \in Opens(T)
    <3>1. PICK r \in Spans(T) : r[1] = k
      BY <2>2 DEF Copied
    <3> QED BY <3>1, <1>10
  <2> QED BY <2>1, <2>2, <1>9
<1>19. Opens(U) # {}
  BY <1>6, <1>7, <1>4 DEF Spans
<1>20. j + 1 \in 1 .. Len(G) + 1 /\ Clear(U, Len(U) + 1)
  BY <1>1, <1>2, <1>6 DEF b
<1>21. Copied(h, U, G, R, j + 1)
  BY <1>1, <1>13, <1>14, <1>15, <1>16, <1>17, <1>18, <1>19, <1>20 DEF Copied
<1>22. Words(U) = Words(T) \cup {G[n].word}
  <2>1. Word(U, <<L, b>>) = G[n].word
    BY <1>3 DEF Word
  <2> QED BY <2>1, <1>6, <1>10 DEF Words
<1> QED BY <1>3, <1>21, <1>22 DEF U
\* Nothing is copied yet.
LEMMA NothingCopied ==
  ASSUME NEW G \in Seq(Lines), NEW R
  PROVE  (\E f : Copied(f, <<>>, G, R, 1)) /\ Words(<<>>) = {}
<1>1. Len(G) \in Nat /\ Len(<<>>) = 0 /\ 1 .. 0 = {}
  OBVIOUS
<1>2. Opens(<<>>) = {} /\ Spans(<<>>) = {} /\ Outside(<<>>) = {}
  BY <1>1 DEF Opens, Spans, Outside
<1>3. Clear(<<>>, Len(<<>>) + 1) /\ Clear(G, 1)
  BY <1>1 DEF Clear
<1>4. <<>> = SubSeq(G, 1, 1 - 1)
  BY <1>1
<1>5. \A m \in Outside(G) : ~(m < 1)
  BY DEF Outside
<1> DEFINE f == [k \in {} |-> 1]
<1>6. f \in [{} -> Outside(G)]
  OBVIOUS
<1> HIDE DEF f
<1>7. Copied(f, <<>>, G, R, 1)
  BY <1>1, <1>2, <1>3, <1>4, <1>5, <1>6 DEF Copied
<1>8. Words(<<>>) = {}
  BY <1>2 DEF Words
<1> QED BY <1>7, <1>8

(***************************************************************************)
(* A text that was generated before                                        *)
(***************************************************************************)

\* The lines of E are those of the generated text G, by g, and so are its regions;
\* those of one id have the same lines, and none that is opened has no end.
Settled(g, E, G) ==
  /\ Matches(g, E, G)
  /\ \A r \in Spans(E) : <<g[r[1]], g[r[2]]>> \in Spans(G)
  /\ \A r, q \in Spans(E) : Word(E, r) = Word(E, q) => Body(E, r) = Body(E, q)
  /\ \A k \in Opens(E) : ~HasNoEnd(E, k)
  /\ Opens(E) = {} => E = G

\* The result U, before line n of the generated text, is the beginning of E.
Aligned(g, E, U, n) ==
  /\ Extends(E, U) /\ Clear(U, Len(U) + 1)
  /\ \A k \in Outside(E) : k <= Len(U) <=> g[k] < n

\* A generated text is what it is itself generated from.
LEMMA GeneratedSettled ==
  ASSUME NEW G \in Seq(Lines), ~IsUnterminated(G), ~IsAmbiguous(G)
  PROVE  \E g : Settled(g, G, G)
<1> DEFINE g == [k \in Outside(G) |-> k]
<1>1. g \in [Outside(G) -> Outside(G)] /\ \A k \in Outside(G) : g[k] = k
  OBVIOUS
<1> HIDE DEF g
<1>2. Matches(g, G, G)
  BY <1>1 DEF Matches
<1>3. ASSUME NEW r \in Spans(G)
      PROVE  <<g[r[1]], g[r[2]]>> \in Spans(G)
  BY <1>1, SpanEnds
<1>4. \A r, q \in Spans(G) : Word(G, r) = Word(G, q) => Body(G, r) = Body(G, q)
  BY DEF IsAmbiguous
<1>5. \A k \in Opens(G) : ~HasNoEnd(G, k)
  BY DEF IsUnterminated
<1> QED BY <1>2, <1>3, <1>4, <1>5 DEF Settled

\* A region of a copy has the id of the region it copies.
LEMMA CopiedWord ==
  ASSUME NEW T \in Seq(Lines), NEW G, NEW R, NEW f, NEW n, Copied(f, T, G, R, n), NEW r \in Spans(T)
  PROVE  Word(T, r) = Word(G, <<f[r[1]], f[r[2]]>>)
<1>1. T[r[1]] = G[f[r[1]]]
  BY SpanEnds DEF Copied
<1> QED BY <1>1 DEF Word

\* So is a copy of a generated text, from the first line to the last.
LEMMA CopySettled ==
  ASSUME NEW T \in Seq(Lines), NEW G \in Seq(Lines), NEW R, NEW f,
         Copied(f, T, G, R, Len(G) + 1), ~IsAmbiguous(G)
  PROVE  Settled(f, T, G)
<1>1. Len(G) \in Nat
  OBVIOUS
<1>2. \A m \in Outside(G) : m < Len(G) + 1
  BY <1>1 DEF Outside
<1>3. Matches(f, T, G)
  BY <1>2 DEF Copied, Matches
<1>4. \A r \in Spans(T) : <<f[r[1]], f[r[2]]>> \in Spans(G)
  BY DEF Copied
<1>5. ASSUME NEW r \in Spans(T), NEW q \in Spans(T), Word(T, r) = Word(T, q)
      PROVE  Body(T, r) = Body(T, q)
  <2> DEFINE a == <<f[r[1]], f[r[2]]>>
             b == <<f[q[1]], f[q[2]]>>
  <2>1. Word(T, r) = Word(G, a) /\ Word(T, q) = Word(G, b)
    BY CopiedWord
  <2>2. a \in Spans(G) /\ b \in Spans(G)
    BY <1>4
  <2>3. Body(T, r) = Inner(G, R, a) /\ Body(T, q) = Inner(G, R, b)
    BY DEF Copied
  <2> HIDE DEF a, b
  <2>4. Word(G, a) = Word(G, b) /\ Body(G, a) = Body(G, b)
    BY <1>5, <2>1, <2>2 DEF IsAmbiguous
  <2> QED BY <2>3, <2>4 DEF Inner
<1>6. ASSUME NEW k \in Opens(T)
      PROVE  ~HasNoEnd(T, k)
  <2>1. PICK r \in Spans(T) : r[1] = k
    BY DEF Copied
  <2>2. IsEndOf(T, k, r[2])
    BY <2>1 DEF Spans
  <2> QED BY <2>2 DEF IsEndOf, HasNoEnd
<1>7. Opens(T) = {} => T = G
  <2>1. Opens(T) = {} => T = SubSeq(G, 1, Len(G) + 1 - 1)
    BY DEF Copied
  <2>2. SubSeq(G, 1, Len(G) + 1 - 1) = G
    BY <1>1
  <2> QED BY <2>1, <2>2
<1> QED BY <1>3, <1>4, <1>5, <1>6, <1>7 DEF Settled

\* What is copied next is the next line of the text that was generated before.
LEMMA NextLine ==
  ASSUME NEW E \in Seq(Lines), NEW G \in Seq(Lines), NEW U \in Seq(Lines), NEW g,
         NEW n \in 1 .. Len(G), n \in Outside(G), Matches(g, E, G), Aligned(g, E, U, n)
  PROVE  /\ Len(U) + 1 \in Outside(E) /\ g[Len(U) + 1] = n /\ Clear(E, Len(U) + 1)
         /\ E[Len(U) + 1] = G[n] /\ Len(U) + 1 \in 1 .. Len(E)
<1> DEFINE L == Len(U) + 1
<1>1. Len(E) \in Nat /\ Len(U) \in Nat /\ Len(U) <= Len(E)
  BY DEF Aligned, Extends
<1>2. PICK k \in Outside(E) : g[k] = n
  BY DEF Matches
<1>3. k \in 1 .. Len(E) /\ ~(k <= Len(U))
  BY <1>2 DEF Aligned, Outside
<1>4. L \in 1 .. Len(E) /\ L \in 1 .. Len(U) + 1
  BY <1>1, <1>3
<1>5. Clear(E, L)
  BY <1>4, ClearPrefix DEF Aligned
<1>6. L \in Outside(E)
  BY <1>4, <1>5, ClearOutside
<1>7. L = k
  <2> SUFFICES ASSUME L < k
               PROVE  FALSE
    BY <1>1, <1>3, <1>4
  <2>1. g[L] < n
    BY <1>2, <1>6 DEF Matches
  <2>2. L <= Len(U)
    BY <2>1, <1>6 DEF Aligned
  <2> QED BY <2>2, <1>1
<1>8. E[L] = G[n]
  BY <1>2, <1>7 DEF Matches
<1> QED BY <1>2, <1>4, <1>5, <1>6, <1>7, <1>8

\* A copied line is the next line of the text.
LEMMA LineAligned ==
  ASSUME NEW E \in Seq(Lines), NEW G \in Seq(Lines), NEW U \in Seq(Lines), NEW g,
         NEW n \in 1 .. Len(G), ~Starts(G, n), Clear(G, n), Matches(g, E, G), Aligned(g, E, U, n)
  PROVE  Aligned(g, E, Append(U, G[n]), n + 1)
<1> DEFINE L == Len(U) + 1
           V == Append(U, G[n])
<1>1. n \in Outside(G)
  BY ClearOutside
<1>2. L \in Outside(E) /\ g[L] = n /\ E[L] = G[n] /\ L \in 1 .. Len(E) /\ Clear(E, L)
  BY <1>1, NextLine
<1>3. /\ G[n] \in Lines /\ V \in Seq(Lines) /\ Len(V) = L /\ V[L] = G[n] /\ Len(U) \in Nat /\ Len(E) \in Nat
      /\ \A k \in 1 .. Len(U) : V[k] = U[k]
  OBVIOUS
<1>4. Extends(E, V)
  <2>1. \A k \in 1 .. Len(U) : E[k] = U[k]
    BY DEF Aligned, Extends
  <2>2. \A k \in 1 .. L : k = L \/ k \in 1 .. Len(U)
    BY <1>3
  <2> HIDE DEF V
  <2>3. \A k \in 1 .. Len(V) : E[k] = V[k]
    BY <1>2, <1>3, <2>1, <2>2
  <2> QED BY <1>2, <1>3, <2>3 DEF Extends
<1>5. Clear(V, Len(V) + 1)
  <2>1. ~Starts(E, L) /\ Clear(E, L + 1)
    BY <1>2, LineStep DEF Starts
  <2>2. L + 1 \in 1 .. Len(V) + 1
    BY <1>3
  <2> HIDE DEF V
  <2> QED BY <1>3, <1>4, <2>1, <2>2, ClearPrefix
<1>6. ASSUME NEW k \in Outside(E)
      PROVE  k <= Len(V) <=> g[k] < n + 1
  <2>1. k \in Nat /\ g[k] \in Nat
    BY DEF Outside, Matches
  <2>2. k <= Len(U) <=> g[k] < n
    BY DEF Aligned
  <2>3. (k < L => g[k] < n) /\ (L < k => n < g[k])
    BY <1>2 DEF Matches
  <2> HIDE DEF V
  <2> QED BY <1>2, <1>3, <2>1, <2>2, <2>3
<1> QED BY <1>4, <1>5, <1>6 DEF Aligned

\* A copied region is the next region of the text, and so are its lines when the
\* index is that of the text.
LEMMA RegionAligned ==
  ASSUME NEW E \in Seq(Lines), NEW G \in Seq(Lines), NEW U \in Seq(Lines), NEW g, NEW R,
         NEW n \in 1 .. Len(G), NEW j, Starts(G, n), Clear(G, n), IsEndOf(G, n, j),
         Settled(g, E, G), Aligned(g, E, U, n),
         Indexed(E, R, Len(E) + 1), Scanned(E, Len(E) + 1),
         NEW B \in Seq(Lines), NoEnds(B), B = Inner(G, R, <<n, j>>)
  PROVE  Aligned(g, E, U \o <<G[n]>> \o B \o <<G[j]>>, j + 1)
<1> DEFINE L == Len(U) + 1
           V == U \o <<G[n]>> \o B \o <<G[j]>>
<1>1. n \in Outside(G) /\ Matches(g, E, G)
  BY ClearOutside DEF Settled
<1>2. L \in Outside(E) /\ g[L] = n /\ E[L] = G[n] /\ L \in 1 .. Len(E) /\ Clear(E, L)
  BY <1>1, NextLine
<1>3. /\ Len(U) \in Nat /\ Len(E) \in Nat /\ Len(G) \in Nat /\ j \in n + 1 .. Len(G)
      /\ G[j].mark = "end" /\ G[n] \in Lines /\ G[j] \in Lines
  BY DEF IsEndOf, Ends
<1>4. L \in Opens(E) /\ L < Len(E) + 1
  BY <1>2, <1>3 DEF Opens, Starts
<1>5. PICK r \in Spans(E) : r[1] = L
  BY <1>4 DEF Scanned
<1> DEFINE b == r[2]
<1>6. r = <<L, b>> /\ b \in Outside(E) /\ L < b /\ b \in 1 .. Len(E) /\ IsEndOf(E, L, b)
  BY <1>5, SpanEnds DEF Spans
<1>7. g[b] = j
  <2>1. <<n, j>> \in Spans(G)
    BY RegionStep
  <2>2. <<g[L], g[b]>> \in Spans(G)
    BY <1>5 DEF Settled
  <2>3. <<g[L], g[b]>> = <<n, j>>
    BY <2>1, <2>2, <1>2, OneEnd
  <2> QED BY <2>3
<1>8. E[b] = G[j]
  BY <1>1, <1>6, <1>7 DEF Matches
<1>9. B = Between(E, L, b)
  <2>1. Word(E, r) = Word(G, <<n, j>>) /\ Word(E, r) \in DOMAIN R
    BY <1>2, <1>4, <1>5 DEF Word, Indexed
  <2>2. B = R[Word(E, r)]
    BY <2>1 DEF Inner
  <2>3. PICK q \in Spans(E) : Word(E, q) = Word(E, r) /\ R[Word(E, r)] = Body(E, q)
    BY <2>1 DEF Indexed
  <2>4. Body(E, q) = Body(E, r)
    BY <2>3 DEF Settled
  <2> QED BY <2>2, <2>3, <2>4, <1>5 DEF Body
<1>10. IsWithRegion(V, U, G[n], B, G[j])
  BY <1>3, RegionText
<1> HIDE DEF V
<1>11. /\ V \in Seq(Lines) /\ Extends(V, U) /\ L \in 1 .. Len(V)
       /\ V[L] = G[n] /\ V[Len(V)] = G[j]
       /\ IsEndOf(V, L, Len(V)) /\ Between(V, L, Len(V)) = B
  BY <1>10 DEF IsWithRegion
<1> HIDE DEF b, L
<1>12. L \in Nat /\ L < Len(V) /\ b \in Nat /\ Len(V) \in Nat
  <2>1. L \in Nat
    BY <1>3 DEF L
  <2>2. Len(V) \in L + 1 .. Len(V) /\ Len(V) \in Nat
    BY <1>11 DEF IsEndOf
  <2>3. L < Len(V)
    BY <2>1, <2>2
  <2>4. b \in Nat
    BY <1>3, <1>6
  <2> QED BY <2>1, <2>2, <2>3, <2>4
<1>13. Len(V) = b
  <2>1. Len(SubSeq(V, L + 1, Len(V) - 1)) = Len(V) - 1 - L
    BY <1>11, <1>12
  <2>2. Len(SubSeq(E, L + 1, b - 1)) = b - 1 - L
    <3>1. L < b /\ b <= Len(E)
      BY <1>3, <1>6
    <3> QED BY <3>1, <1>3, <1>12
  <2>3. Len(V) - 1 - L = b - 1 - L
    BY <2>1, <2>2, <1>9, <1>11 DEF Between
  <2> QED BY <2>3, <1>12
<1>14. ASSUME NEW k \in 1 .. b
       PROVE  E[k] = V[k]
  <2>1. CASE k < L
    <3>1. k \in 1 .. Len(U)
      BY <2>1, <1>3 DEF L
    <3> QED BY <3>1, <1>11 DEF Aligned, Extends
  <2>2. CASE k = L
    BY <2>2, <1>2, <1>11 DEF L
  <2>3. CASE k = b
    BY <2>3, <1>8, <1>11, <1>13
  <2>4. CASE L < k /\ k < b
    <3> DEFINE x == k - L
    <3>1. x \in 1 .. b - 1 - L /\ L + x = k
      BY <2>4, <1>12
    <3> HIDE DEF x
    <3>2. SubSeq(V, L + 1, b - 1)[x] = V[L + x]
      BY <3>1, <1>11, <1>12, <1>13
    <3>3. SubSeq(E, L + 1, b - 1)[x] = E[L + x]
      BY <3>1, <1>6, <1>12
    <3> QED BY <3>1, <3>2, <3>3, <1>9, <1>11, <1>13 DEF Between
  <2> QED BY <2>1, <2>2, <2>3, <2>4, <1>12
<1>15. Extends(E, V)
  BY <1>6, <1>13, <1>14 DEF Extends
<1>16. Clear(V, Len(V) + 1)
  <2>1. Clear(V, L) /\ Starts(V, L)
    <3>1. Clear(U, L) /\ L \in 1 .. Len(U) + 1
      BY <1>3 DEF Aligned, L
    <3> QED BY <3>1, <1>11, ClearPrefix DEF Starts
  <2> QED BY <2>1, <1>11, RegionStep DEF L
<1>17. ASSUME NEW k \in Outside(E)
       PROVE  k <= Len(V) <=> g[k] < j + 1
  <2>1. k \in Nat /\ g[k] \in Nat
    <3>1. k \in Nat
      BY DEF Outside
    <3>2. g[k] \in Outside(G)
      BY <1>1 DEF Matches
    <3>3. g[k] \in Nat
      BY <3>2 DEF Outside
    <3> QED BY <3>1, <3>3
  <2>2. (k < b => g[k] < j) /\ (b < k => j < g[k])
    BY <1>1, <1>6, <1>7 DEF Matches
  <2> QED BY <1>3, <1>7, <1>12, <1>13, <2>1, <2>2
<1> QED BY <1>15, <1>16, <1>17 DEF Aligned, V

\* A copy of every generated line is the whole text.
LEMMA EndAligned ==
  ASSUME NEW E \in Seq(Lines), NEW G \in Seq(Lines), NEW U \in Seq(Lines), NEW g, NEW n \in Nat,
         n > Len(G), Matches(g, E, G), Aligned(g, E, U, n)
  PROVE  U = E
<1>1. Len(E) \in Nat /\ Len(U) \in Nat /\ Len(G) \in Nat /\ Len(U) <= Len(E)
      /\ \A k \in 1 .. Len(U) : E[k] = U[k]
  BY DEF Aligned, Extends
<1>2. Len(U) = Len(E)
  <2> SUFFICES ASSUME Len(U) < Len(E)
               PROVE  FALSE
    BY <1>1
  <2> DEFINE L == Len(U) + 1
  <2>1. L \in 1 .. Len(E) /\ L \in 1 .. Len(U) + 1
    BY <1>1
  <2>2. Clear(E, L)
    BY <2>1, ClearPrefix DEF Aligned
  <2>3. L \in Outside(E)
    BY <2>1, <2>2, ClearOutside
  <2>4. g[L] \in 1 .. Len(G)
    BY <2>3 DEF Matches, Outside
  <2>5. L <= Len(U)
    BY <2>3, <2>4, <1>1 DEF Aligned
  <2> QED BY <2>5, <1>1
<1> QED BY <1>1, <1>2
(***************************************************************************)
(* The inductive invariant                                                 *)
(***************************************************************************)
TypeOK ==
  /\ existing \in Seq(Lines) /\ generated \in Seq(Lines) /\ out \in Seq(Lines)
  /\ step \in {"parse", "preserve", "done", "failed"}
  /\ i \in Nat
  /\ step # "done" => lost = {}

\* The index is that of the lines that the first loop has seen.
IndexInv ==
  /\ step = "parse" => Scanned(existing, i) /\ Indexed(existing, regions, i) /\ out = <<>> /\ seen = {}
  /\ step \in {"preserve", "done"} => Indexed(existing, regions, Len(existing) + 1)
  /\ step = "preserve" => Scanned(existing, Len(existing) + 1)

IsCopy(T, n) == \E f \in [Outside(T) -> Outside(generated)] : Copied(f, T, generated, regions, n)

\* The result is the copy of the lines that the second loop has seen.
CopyInv ==
  /\ step = "preserve" => IsCopy(out, i) /\ seen = Words(out)
  /\ step = "done" =>
       \/ DOMAIN regions = {} /\ out = generated /\ lost = {}
       \/ IsCopy(out, Len(generated) + 1) /\ lost = DOMAIN regions \ Words(out)

\* The second time, the result is the beginning of the text on disk.
AgainInv ==
  again /\ ~IsUnterminated(generated) /\ ~IsAmbiguous(generated) =>
    /\ step # "failed"
    /\ \E g \in [Outside(existing) -> Outside(generated)] :
         /\ Settled(g, existing, generated)
         /\ step = "preserve" => Aligned(g, existing, out, i)
    /\ step = "done" => out = existing /\ lost = {}

Inv == TypeOK /\ IndexInv /\ CopyInv /\ AgainInv

\* A file that may be on disk has not been read yet.
LEMMA InitInv == Init => Inv
<1> SUFFICES ASSUME Init
             PROVE  Inv
  OBVIOUS
<1> USE DEF Init
<1>1. existing \in Seq(Lines) /\ generated \in Seq(Lines)
  BY TextsAssumption
<1>2. TypeOK
  BY <1>1 DEF TypeOK
<1>3. IndexInv
  <2>1. Len(existing) \in Nat
    BY <1>1
  <2>2. Clear(existing, 1) /\ \A k \in Opens(existing) : ~(k < 1)
    BY DEF Clear, Opens
  <2>3. DOMAIN regions = {} /\ \A r \in Spans(existing) : ~(r[1] < 1)
    BY <2>2 DEF Spans
  <2> QED BY <2>1, <2>2, <2>3 DEF IndexInv, Scanned, Indexed
<1>4. CopyInv /\ AgainInv
  BY DEF CopyInv, AgainInv
<1> QED BY <1>2, <1>3, <1>4 DEF Inv

\* The first loop, at a line that is no start marker.
LEMMA SkipLineInv == Inv /\ SkipLine => Inv'
<1> SUFFICES ASSUME Inv, SkipLine
             PROVE  Inv'
  OBVIOUS
<1>1. /\ step = "parse" /\ i \in 1 .. Len(existing) /\ ~Starts(existing, i) /\ i' = i + 1
      /\ existing \in Seq(Lines) /\ Scanned(existing, i) /\ Indexed(existing, regions, i)
      /\ UNCHANGED <<existing, generated, step, regions, out, seen, lost, again>>
  BY DEF Inv, TypeOK, IndexInv, Scanned, SkipLine, Parsing
<1>2. TypeOK'
  BY <1>1 DEF Inv, TypeOK
<1>3. Scanned(existing, i + 1) /\ Indexed(existing, regions, i + 1)
  BY <1>1, ScanLine
<1>4. IndexInv'
  BY <1>1, <1>3 DEF Inv, IndexInv
<1>5. CopyInv'
  BY <1>1 DEF CopyInv
<1>6. AgainInv'
  BY <1>1 DEF Inv, AgainInv
<1> QED BY <1>2, <1>4, <1>5, <1>6 DEF Inv

\* The first loop, at a region.
LEMMA IndexRegionInv == Inv /\ IndexRegion => Inv'
<1> SUFFICES ASSUME Inv, IndexRegion
             PROVE  Inv'
  OBVIOUS
<1>1. /\ step = "parse" /\ i \in 1 .. Len(existing) /\ Starts(existing, i)
      /\ existing \in Seq(Lines) /\ Scanned(existing, i) /\ Indexed(existing, regions, i)
      /\ UNCHANGED <<existing, generated, step, out, seen, lost, again>>
  BY DEF Inv, TypeOK, IndexInv, Scanned, IndexRegion, Parsing
<1>2. PICK j \in i + 1 .. Len(existing) :
        /\ IsEndOf(existing, i, j)
        /\ regions' = [d \in DOMAIN regions \cup {existing[i].word} |->
             IF d = existing[i].word THEN Between(existing, i, j) ELSE regions[d]]
        /\ i' = j + 1
  BY DEF IndexRegion
<1>3. TypeOK'
  BY <1>1, <1>2 DEF Inv, TypeOK
<1>4. Scanned(existing, j + 1) /\ Indexed(existing, regions', j + 1)
  BY <1>1, <1>2, ScanRegion
<1>5. IndexInv'
  BY <1>1, <1>2, <1>4 DEF Inv, IndexInv
<1>6. CopyInv'
  BY <1>1 DEF CopyInv
<1>7. AgainInv'
  BY <1>1 DEF Inv, AgainInv
<1> QED BY <1>3, <1>5, <1>6, <1>7 DEF Inv

\* A region of the file without end: not of a file that was generated.
LEMMA ParseFailsInv == Inv /\ ParseFails => Inv'
<1> SUFFICES ASSUME Inv, ParseFails
             PROVE  Inv'
  OBVIOUS
<1>1. /\ step = "parse" /\ step' = "failed" /\ i \in 1 .. Len(existing)
      /\ Starts(existing, i) /\ HasNoEnd(existing, i) /\ Scanned(existing, i)
      /\ UNCHANGED <<existing, generated, i, regions, out, seen, lost, again>>
  BY DEF Inv, TypeOK, IndexInv, Scanned, ParseFails, Parsing
<1>2. TypeOK'
  BY <1>1 DEF Inv, TypeOK
<1>3. IndexInv' /\ CopyInv'
  BY <1>1 DEF IndexInv, CopyInv
<1>4. i \in Opens(existing)
  BY <1>1 DEF Opens, Scanned
<1>5. AgainInv'
  <2> SUFFICES ASSUME again, ~IsUnterminated(generated), ~IsAmbiguous(generated)
               PROVE  FALSE
    BY <1>1 DEF AgainInv
  <2>1. PICK g : Settled(g, existing, generated)
    BY DEF Inv, AgainInv
  <2> QED BY <2>1, <1>1, <1>4 DEF Settled
<1> QED BY <1>2, <1>3, <1>5 DEF Inv

\* When the first loop ends every region of the file has been seen.
LEMMA WholeIndex ==
  ASSUME Inv, Parsed
  PROVE  /\ Indexed(existing, regions, Len(existing) + 1)
         /\ MentionsEnd(existing) => Scanned(existing, Len(existing) + 1)
         /\ Opens(existing) # {} /\ DOMAIN regions = {} => \E k \in Opens(existing) : HasNoEnd(existing, k)
<1>1. /\ existing \in Seq(Lines) /\ Len(existing) \in Nat
      /\ Scanned(existing, i) /\ Indexed(existing, regions, i) /\ i \in 1 .. Len(existing) + 1
  BY DEF Inv, TypeOK, IndexInv, Parsed, Scanned
<1>2. CASE MentionsEnd(existing)
  <2>1. i = Len(existing) + 1
    BY <1>1, <1>2 DEF Parsed
  <2>2. ASSUME NEW k \in Opens(existing), DOMAIN regions = {}
        PROVE  FALSE
    <3>1. k < Len(existing) + 1
      BY <1>1 DEF Opens
    <3>2. PICK r \in Spans(existing) : r[1] = k
      BY <3>1, <1>1, <2>1 DEF Scanned
    <3> QED BY <3>1, <3>2, <2>2, <1>1, <2>1 DEF Indexed
  <2> QED BY <1>1, <2>1, <2>2
<1>3. CASE ~MentionsEnd(existing)
  <2>1. \A k \in 1 .. Len(existing) : ~Ends(existing, k)
    BY <1>3 DEF MentionsEnd, Ends
  <2>2. Spans(existing) = {}
    <3> SUFFICES ASSUME NEW r \in Spans(existing)
                 PROVE  FALSE
      OBVIOUS
    <3>1. r[2] \in 1 .. Len(existing) /\ Ends(existing, r[2])
      BY DEF Spans, IsEndOf
    <3> QED BY <3>1, <2>1
  <2>3. \A k \in Opens(existing) : HasNoEnd(existing, k)
    BY <2>1 DEF Opens, HasNoEnd
  <2>4. Indexed(existing, regions, Len(existing) + 1)
    BY <1>1, <2>2 DEF Indexed
  <2> QED BY <1>3, <2>3, <2>4
<1> QED BY <1>2, <1>3

\* The file had no region.
LEMMA KeepGeneratedInv == Inv /\ KeepGenerated => Inv'
<1> SUFFICES ASSUME Inv, KeepGenerated
             PROVE  Inv'
  OBVIOUS
<1>1. /\ Parsed /\ DOMAIN regions = {} /\ out' = generated /\ step' = "done" /\ lost = {}
      /\ UNCHANGED <<existing, generated, i, regions, seen, lost, again>>
  BY DEF KeepGenerated, Parsed, Inv, TypeOK
<1>2. /\ Indexed(existing, regions, Len(existing) + 1)
      /\ Opens(existing) # {} => \E k \in Opens(existing) : HasNoEnd(existing, k)
  BY <1>1, WholeIndex
<1>3. TypeOK'
  BY <1>1 DEF Inv, TypeOK
<1>4. IndexInv' /\ CopyInv'
  BY <1>1, <1>2 DEF IndexInv, CopyInv
<1>5. AgainInv'
  <2> SUFFICES ASSUME again, ~IsUnterminated(generated), ~IsAmbiguous(generated)
               PROVE  /\ \E g \in [Outside(existing) -> Outside(generated)] :
                           Settled(g, existing, generated)
                      /\ generated = existing
    BY <1>1 DEF AgainInv
  <2>1. PICK g \in [Outside(existing) -> Outside(generated)] : Settled(g, existing, generated)
    BY DEF Inv, AgainInv
  <2>2. Opens(existing) = {}
    BY <2>1, <1>2 DEF Settled
  <2> QED BY <2>1, <2>2 DEF Settled
<1> QED BY <1>3, <1>4, <1>5 DEF Inv

\* The file had regions.
LEMMA StartPreservingInv == Inv /\ StartPreserving => Inv'
<1> SUFFICES ASSUME Inv, StartPreserving
             PROVE  Inv'
  OBVIOUS
<1>1. /\ Parsed /\ step = "parse" /\ DOMAIN regions # {} /\ i' = 1 /\ step' = "preserve" /\ lost = {}
      /\ out = <<>> /\ seen = {} /\ existing \in Seq(Lines) /\ generated \in Seq(Lines)
      /\ UNCHANGED <<existing, generated, regions, out, seen, lost, again>>
  BY DEF StartPreserving, Parsed, Inv, TypeOK, IndexInv
<1>2. Indexed(existing, regions, Len(existing) + 1)
  BY <1>1, WholeIndex
<1>3. MentionsEnd(existing)
  <2>1. PICK r \in Spans(existing) : TRUE
    BY <1>1, <1>2 DEF Indexed
  <2>2. r[2] \in 1 .. Len(existing) /\ Ends(existing, r[2])
    BY <2>1 DEF Spans, IsEndOf
  <2> QED BY <2>2 DEF MentionsEnd, Ends
<1>4. Scanned(existing, Len(existing) + 1)
  BY <1>1, <1>3, WholeIndex
<1>5. TypeOK'
  BY <1>1 DEF Inv, TypeOK
<1>6. IndexInv'
  BY <1>1, <1>2, <1>4 DEF IndexInv
<1>7. (\E f : Copied(f, <<>>, generated, regions, 1)) /\ Words(<<>>) = {}
  BY <1>1, NothingCopied
<1>8. CopyInv'
  BY <1>1, <1>7 DEF CopyInv, IsCopy, Copied
<1>9. AgainInv'
  <2> SUFFICES ASSUME again, ~IsUnterminated(generated), ~IsAmbiguous(generated)
               PROVE  \E g \in [Outside(existing) -> Outside(generated)] :
                        Settled(g, existing, generated) /\ Aligned(g, existing, <<>>, 1)
    BY <1>1 DEF AgainInv
  <2>1. PICK g \in [Outside(existing) -> Outside(generated)] : Settled(g, existing, generated)
    BY DEF Inv, AgainInv
  <2>2. Len(<<>>) = 0 /\ Len(existing) \in Nat
    BY <1>1
  <2>3. Extends(existing, <<>>) /\ Clear(<<>>, Len(<<>>) + 1)
    BY <2>2 DEF Extends, Clear
  <2>4. ASSUME NEW k \in Outside(existing)
        PROVE  ~(k <= 0) /\ ~(g[k] < 1)
    BY <2>4 DEF Outside
  <2> QED BY <2>1, <2>2, <2>3, <2>4 DEF Aligned
<1> QED BY <1>5, <1>6, <1>8, <1>9 DEF Inv
\* The second loop, at a line that is no start marker.
LEMMA CopyLineInv == Inv /\ CopyLine => Inv'
<1> SUFFICES ASSUME Inv, CopyLine
             PROVE  Inv'
  OBVIOUS
<1>1. PICK f : Copied(f, out, generated, regions, i)
  BY DEF Inv, CopyInv, IsCopy, CopyLine, Preserving
<1>2. /\ step = "preserve" /\ i \in 1 .. Len(generated) /\ ~Starts(generated, i) /\ Clear(generated, i)
      /\ existing \in Seq(Lines) /\ generated \in Seq(Lines) /\ out \in Seq(Lines)
      /\ out' = Append(out, generated[i]) /\ i' = i + 1 /\ seen = Words(out)
      /\ UNCHANGED <<existing, generated, step, regions, seen, lost, again>>
  BY <1>1 DEF Inv, TypeOK, CopyInv, Copied, CopyLine, Preserving
<1>3. generated[i] \in Lines /\ Append(out, generated[i]) \in Seq(Lines)
  BY <1>2
<1>4. TypeOK'
  BY <1>2, <1>3 DEF Inv, TypeOK
<1>5. IndexInv'
  BY <1>2 DEF Inv, IndexInv
<1>6. /\ \E h : Copied(h, Append(out, generated[i]), generated, regions, i + 1)
      /\ Words(Append(out, generated[i])) = Words(out)
  BY <1>1, <1>2, LineCopied
<1>7. CopyInv'
  BY <1>2, <1>6 DEF CopyInv, IsCopy, Copied
<1>8. AgainInv'
  <2> SUFFICES ASSUME again, ~IsUnterminated(generated), ~IsAmbiguous(generated)
               PROVE  \E g \in [Outside(existing) -> Outside(generated)] :
                        /\ Settled(g, existing, generated)
                        /\ Aligned(g, existing, Append(out, generated[i]), i + 1)
    BY <1>2 DEF AgainInv
  <2>1. PICK g \in [Outside(existing) -> Outside(generated)] :
          Settled(g, existing, generated) /\ Aligned(g, existing, out, i)
    BY <1>2 DEF Inv, AgainInv
  <2>2. Matches(g, existing, generated)
    BY <2>1 DEF Settled
  <2>3. Aligned(g, existing, Append(out, generated[i]), i + 1)
    BY <1>2, <2>1, <2>2, LineAligned
  <2> QED BY <2>1, <2>3
<1> QED BY <1>4, <1>5, <1>7, <1>8 DEF Inv

\* The second loop, at a region.
LEMMA CopyRegionInv == Inv /\ CopyRegion => Inv'
<1> SUFFICES ASSUME Inv, CopyRegion
             PROVE  Inv'
  OBVIOUS
<1>1. PICK f : Copied(f, out, generated, regions, i)
  BY DEF Inv, CopyInv, IsCopy, CopyRegion, Preserving
<1>2. /\ step = "preserve" /\ i \in 1 .. Len(generated) /\ Starts(generated, i) /\ Clear(generated, i)
      /\ existing \in Seq(Lines) /\ generated \in Seq(Lines) /\ out \in Seq(Lines)
      /\ Indexed(existing, regions, Len(existing) + 1) /\ Scanned(existing, Len(existing) + 1)
      /\ seen = Words(out)
      /\ UNCHANGED <<existing, generated, step, regions, lost, again>>
  BY <1>1 DEF Inv, TypeOK, IndexInv, CopyInv, Copied, CopyRegion, Preserving
<1>3. PICK j \in i + 1 .. Len(generated) :
        /\ IsEndOf(generated, i, j)
        /\ out' = out \o <<generated[i]>> \o Kept(j) \o <<generated[j]>>
        /\ seen' = seen \cup {generated[i].word}
        /\ i' = j + 1
  BY DEF CopyRegion
<1>4. Kept(j) = Inner(generated, regions, <<i, j>>)
  BY DEF Kept, Inner, Word, Body
<1>5. Kept(j) \in Seq(Lines) /\ NoEnds(Kept(j))
  <2>1. CASE generated[i].word \in DOMAIN regions
    <3>1. Kept(j) = regions[generated[i].word]
      BY <2>1 DEF Kept
    <3> QED BY <2>1, <3>1, <1>2, IndexedLines DEF NoEnds
  <2>2. CASE generated[i].word \notin DOMAIN regions
    <3>1. Kept(j) = Body(generated, <<i, j>>)
      BY <2>2 DEF Kept, Body
    <3>2. <<i, j>> \in Spans(generated)
      BY <1>2, <1>3, RegionStep
    <3> QED BY <3>1, <3>2, <1>2, BodyLines DEF NoEnds
  <2> QED BY <2>1, <2>2
<1> DEFINE B == Kept(j)
           U == out \o <<generated[i]>> \o B \o <<generated[j]>>
<1>6. B \in Seq(Lines) /\ NoEnds(B) /\ B = Inner(generated, regions, <<i, j>>) /\ out' = U
  BY <1>3, <1>4, <1>5
<1> HIDE DEF B
<1>7. /\ U \in Seq(Lines)
      /\ \E h : Copied(h, U, generated, regions, j + 1)
      /\ Words(U) = Words(out) \cup {generated[i].word}
  <2>1. U \in Seq(Lines)
    BY <1>1, <1>2, <1>3, <1>6, RegionCopied
  <2>2. \E h : Copied(h, U, generated, regions, j + 1)
    BY <1>1, <1>2, <1>3, <1>6, RegionCopied
  <2>3. Words(U) = Words(out) \cup {generated[i].word}
    BY <1>1, <1>2, <1>3, <1>6, RegionCopied
  <2> QED BY <2>1, <2>2, <2>3
<1> HIDE DEF U
<1>8. TypeOK'
  <2>1. i' \in Nat
    BY <1>2, <1>3
  <2> QED BY <1>2, <1>6, <1>7, <2>1 DEF Inv, TypeOK
<1>9. IndexInv'
  BY <1>2 DEF Inv, IndexInv
<1>10. CopyInv'
  <2>1. PICK h : Copied(h, U, generated, regions, j + 1)
    BY <1>7
  <2>2. h \in [Outside(U) -> Outside(generated)]
    BY <2>1 DEF Copied
  <2>3. seen' = Words(U)
    BY <1>2, <1>3, <1>7
  <2> QED BY <1>2, <1>6, <2>1, <2>2, <2>3, <1>3 DEF CopyInv, IsCopy
<1>11. AgainInv'
  <2> SUFFICES ASSUME again, ~IsUnterminated(generated), ~IsAmbiguous(generated)
               PROVE  \E g \in [Outside(existing) -> Outside(generated)] :
                        Settled(g, existing, generated) /\ Aligned(g, existing, U, j + 1)
    BY <1>2, <1>3, <1>6 DEF AgainInv
  <2>1. PICK g \in [Outside(existing) -> Outside(generated)] :
          Settled(g, existing, generated) /\ Aligned(g, existing, out, i)
    BY <1>2 DEF Inv, AgainInv
  <2>2. Aligned(g, existing, U, j + 1)
    BY <1>2, <1>3, <1>6, <2>1, RegionAligned DEF U
  <2> QED BY <2>1, <2>2
<1> QED BY <1>8, <1>9, <1>10, <1>11 DEF Inv

\* A region of the generated text without end: not when the template ends its regions.
LEMMA PreserveFailsInv == Inv /\ PreserveFails => Inv'
<1> SUFFICES ASSUME Inv, PreserveFails
             PROVE  Inv'
  OBVIOUS
<1>1. PICK f : Copied(f, out, generated, regions, i)
  BY DEF Inv, CopyInv, IsCopy, PreserveFails, Preserving
<1>2. /\ step = "preserve" /\ step' = "failed" /\ i \in 1 .. Len(generated)
      /\ Starts(generated, i) /\ HasNoEnd(generated, i) /\ Clear(generated, i) /\ generated \in Seq(Lines)
      /\ UNCHANGED <<existing, generated, i, regions, out, seen, lost, again>>
  BY <1>1 DEF Inv, TypeOK, Copied, PreserveFails, Preserving
<1>3. TypeOK'
  BY <1>2 DEF Inv, TypeOK
<1>4. IndexInv' /\ CopyInv'
  BY <1>2 DEF IndexInv, CopyInv
<1>5. IsUnterminated(generated)
  BY <1>2 DEF IsUnterminated, Opens
<1>6. AgainInv'
  BY <1>2, <1>5 DEF AgainInv
<1> QED BY <1>3, <1>4, <1>6 DEF Inv

\* The second loop has copied every line.
LEMMA ReturnInv == Inv /\ Return => Inv'
<1> SUFFICES ASSUME Inv, Return
             PROVE  Inv'
  OBVIOUS
<1>1. PICK f \in [Outside(out) -> Outside(generated)] : Copied(f, out, generated, regions, i)
  BY DEF Inv, CopyInv, IsCopy, Return
<1>2. /\ step = "preserve" /\ step' = "done" /\ i \in 1 .. Len(generated) + 1 /\ i > Len(generated)
      /\ existing \in Seq(Lines) /\ generated \in Seq(Lines) /\ out \in Seq(Lines)
      /\ Indexed(existing, regions, Len(existing) + 1) /\ seen = Words(out)
      /\ lost' = DOMAIN regions \ seen
      /\ UNCHANGED <<existing, generated, i, regions, out, seen, again>>
  BY <1>1 DEF Inv, TypeOK, IndexInv, CopyInv, Copied, Return
<1>3. i = Len(generated) + 1
  BY <1>2
<1>4. TypeOK'
  BY <1>2 DEF Inv, TypeOK
<1>5. IndexInv'
  BY <1>2 DEF IndexInv
<1>6. CopyInv'
  BY <1>1, <1>2, <1>3 DEF CopyInv, IsCopy
<1>7. AgainInv'
  <2> SUFFICES ASSUME again, ~IsUnterminated(generated), ~IsAmbiguous(generated)
               PROVE  /\ \E g \in [Outside(existing) -> Outside(generated)] :
                           Settled(g, existing, generated)
                      /\ out = existing /\ DOMAIN regions \ Words(out) = {}
    BY <1>2 DEF AgainInv
  <2>1. PICK g \in [Outside(existing) -> Outside(generated)] :
          Settled(g, existing, generated) /\ Aligned(g, existing, out, i)
    BY <1>2 DEF Inv, AgainInv
  <2>2. out = existing
    <3>1. Matches(g, existing, generated) /\ i \in Nat
      BY <1>2, <2>1 DEF Settled
    <3> QED BY <1>2, <2>1, <3>1, EndAligned
  <2>3. \A id \in DOMAIN regions : id \in Words(out)
    BY <1>2, <2>2 DEF Indexed, Words
  <2> QED BY <2>1, <2>2, <2>3
<1> QED BY <1>4, <1>5, <1>6, <1>7 DEF Inv

\* The file is generated once more.
LEMMA AgainStepInv == Inv /\ Again => Inv'
<1> SUFFICES ASSUME Inv, Again
             PROVE  Inv'
  OBVIOUS
<1>1. /\ step = "done" /\ existing' = out /\ step' = "parse" /\ i' = 1 /\ regions' = <<>>
      /\ out' = <<>> /\ seen' = {} /\ lost' = {} /\ again' = TRUE /\ generated' = generated
      /\ generated \in Seq(Lines) /\ out \in Seq(Lines) /\ Len(out) \in Nat
  BY DEF Again, Inv, TypeOK
<1>2. TypeOK'
  BY <1>1 DEF TypeOK
<1>3. IndexInv'
  <2>1. Clear(out, 1) /\ \A k \in Opens(out) : ~(k < 1)
    BY DEF Clear, Opens
  <2>2. DOMAIN <<>> = {} /\ \A r \in Spans(out) : ~(r[1] < 1)
    BY <2>1 DEF Spans
  <2>3. Scanned(out, 1)
    BY <1>1, <2>1 DEF Scanned
  <2>4. Indexed(out, <<>>, 1)
    BY <2>2 DEF Indexed
  <2> QED BY <1>1, <2>3, <2>4 DEF IndexInv
<1>4. CopyInv'
  BY <1>1 DEF CopyInv
<1>5. AgainInv'
  <2> SUFFICES ASSUME ~IsUnterminated(generated), ~IsAmbiguous(generated)
               PROVE  \E g \in [Outside(out) -> Outside(generated)] : Settled(g, out, generated)
    BY <1>1 DEF AgainInv
  <2>1. CASE out = generated
    BY <2>1, <1>1, GeneratedSettled DEF Settled, Matches
  <2>2. CASE IsCopy(out, Len(generated) + 1)
    BY <2>2, <1>1, CopySettled DEF IsCopy
  <2> QED BY <2>1, <2>2, <1>1 DEF Inv, CopyInv
<1> QED BY <1>2, <1>3, <1>4, <1>5 DEF Inv

\* The invariant is inductive.
THEOREM Invariance == Spec => []Inv
<1>1. Inv /\ [Next]_vars => Inv'
  <2> SUFFICES ASSUME Inv, [Next]_vars
               PROVE  Inv'
    OBVIOUS
  <2>1. CASE UNCHANGED vars
    BY <2>1 DEF vars, Inv, TypeOK, IndexInv, CopyInv, AgainInv, IsCopy
  <2> QED BY <2>1, SkipLineInv, IndexRegionInv, ParseFailsInv, KeepGeneratedInv, StartPreservingInv,
             CopyLineInv, CopyRegionInv, PreserveFailsInv, ReturnInv, AgainStepInv DEF Next
<1> QED BY <1>1, InitInv, PTL DEF Spec

(***************************************************************************)
(* The code of the users                                                   *)
(***************************************************************************)

\* A region of the result holds what the index has for its id.
LEMMA CopiedBody ==
  ASSUME NEW T \in Seq(Lines), NEW G, NEW R, NEW f, NEW n, Copied(f, T, G, R, n),
         NEW r \in Spans(T)
  PROVE  Body(T, r) = IF Word(T, r) \in DOMAIN R THEN R[Word(T, r)]
                      ELSE Between(G, f[r[1]], f[r[2]])
<1> DEFINE q == <<f[r[1]], f[r[2]]>>
<1>1. Body(T, r) = Inner(G, R, q)
  BY DEF Copied
<1>2. Word(T, r) = Word(G, q)
  BY CopiedWord
<1>3. Body(G, q) = Between(G, f[r[1]], f[r[2]])
  BY DEF Body
<1> QED BY <1>1, <1>2, <1>3 DEF Inner

\* The regions of the result hold the last lines the user had in them, and the
\* others are reported: PreserveRegions, for every file and every template.
THEOREM UserCodeSurvives == Spec => []RegionsSurvive
<1>1. Inv => RegionsSurvive
  <2> SUFFICES ASSUME Inv, step = "done", NEW r \in LastSpans(existing)
               PROVE  LET id == Word(existing, r)
                          found == {q \in Spans(out) : Word(out, q) = id}
                      IN  /\ found = {} <=> id \in lost
                          /\ \A q \in found : Body(out, q) = Body(existing, r)
    BY DEF RegionsSurvive
  <2> DEFINE id == Word(existing, r)
  <2>1. /\ existing \in Seq(Lines) /\ out \in Seq(Lines) /\ Len(existing) \in Nat
        /\ Indexed(existing, regions, Len(existing) + 1)
        /\ r \in Spans(existing) /\ \A q \in Spans(existing) : Word(existing, q) = id => q[1] <= r[1]
    BY DEF Inv, TypeOK, IndexInv, LastSpans
  <2>2. \A q \in Spans(existing) : q[1] \in Nat /\ q[1] < Len(existing) + 1
    BY <2>1 DEF Spans
  <2>3. id \in DOMAIN regions
    BY <2>1, <2>2 DEF Indexed
  <2>4. regions[id] = Body(existing, r)
    <3>1. PICK q \in Spans(existing) :
            /\ Word(existing, q) = id /\ regions[id] = Body(existing, q)
            /\ \A p \in Spans(existing) :
                 p[1] < Len(existing) + 1 /\ Word(existing, p) = id => p[1] <= q[1]
      BY <2>1, <2>3 DEF Indexed
    <3>2. r[1] <= q[1] /\ q[1] <= r[1]
      BY <3>1, <2>1, <2>2
    <3>3. q = r
      BY <3>2, <2>1, <2>2, OneEnd
    <3> QED BY <3>1, <3>3
  <2>5. PICK f : Copied(f, out, generated, regions, Len(generated) + 1) /\ lost = DOMAIN regions \ Words(out)
    BY <2>3 DEF Inv, CopyInv, IsCopy
  <2>6. \A q \in Spans(out) : Word(out, q) = id => Body(out, q) = Body(existing, r)
    BY <2>1, <2>3, <2>4, <2>5, CopiedBody
  <2>7. (\A q \in Spans(out) : Word(out, q) # id) <=> id \in lost
    BY <2>3, <2>5 DEF Words
  <2> QED BY <2>6, <2>7
<1> QED BY <1>1, Invariance, PTL

\* The rest of the result is the generated text, line by line and in order.
THEOREM OnlyRegionsKept == Spec => []NothingElseKept
<1>1. Inv => NothingElseKept
  <2> SUFFICES ASSUME Inv, step = "done"
               PROVE  \E f \in [Outside(out) -> Outside(generated)] :
                        /\ Matches(f, out, generated)
                        /\ \A r \in Spans(out) :
                             \/ \E q \in Spans(existing) : Word(existing, q) = Word(out, r)
                             \/ Body(out, r) = Between(generated, f[r[1]], f[r[2]])
    BY DEF NothingElseKept
  <2>1. out \in Seq(Lines) /\ generated \in Seq(Lines) /\ Indexed(existing, regions, Len(existing) + 1)
    BY DEF Inv, TypeOK, IndexInv
  <2>2. CASE out = generated
    <3> DEFINE f == [k \in Outside(out) |-> k]
    <3>1. f \in [Outside(out) -> Outside(generated)] /\ \A k \in Outside(out) : f[k] = k
      BY <2>2
    <3> HIDE DEF f
    <3>2. Matches(f, out, generated)
      BY <2>2, <3>1 DEF Matches
    <3>3. \A r \in Spans(out) : Body(out, r) = Between(generated, f[r[1]], f[r[2]])
      BY <2>1, <2>2, <3>1, SpanEnds DEF Body
    <3> QED BY <3>1, <3>2, <3>3
  <2>3. CASE IsCopy(out, Len(generated) + 1)
    <3>1. PICK f \in [Outside(out) -> Outside(generated)] :
            Copied(f, out, generated, regions, Len(generated) + 1)
      BY <2>3 DEF IsCopy
    <3>2. \A m \in Outside(generated) : m < Len(generated) + 1
      BY <2>1 DEF Outside
    <3>3. Matches(f, out, generated)
      BY <3>1, <3>2 DEF Copied, Matches
    <3>4. ASSUME NEW r \in Spans(out), Word(out, r) \in DOMAIN regions
          PROVE  \E q \in Spans(existing) : Word(existing, q) = Word(out, r)
      BY <3>4, <2>1 DEF Indexed
    <3>5. ASSUME NEW r \in Spans(out), Word(out, r) \notin DOMAIN regions
          PROVE  Body(out, r) = Between(generated, f[r[1]], f[r[2]])
      BY <3>5, <3>1, <2>1, CopiedBody
    <3> QED BY <3>3, <3>4, <3>5
  <2> QED BY <2>2, <2>3 DEF Inv, CopyInv
<1> QED BY <1>1, Invariance, PTL

\* A second generation finds nothing to change and does not fail, and loses
\* nothing: what a --diff run after a generation relies on.
THEOREM SecondGenerationStable == Spec => []MergeIsStable
<1>1. Inv => MergeIsStable
  BY DEF Inv, AgainInv, MergeIsStable
<1> QED BY <1>1, Invariance, PTL
=============================================================================

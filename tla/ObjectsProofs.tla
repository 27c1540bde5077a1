------------------------------ MODULE ObjectsProofs ------------------------------
(***************************************************************************)
(* What the asynchronous getter of TypeScript may do to a reference; and   *)
(* where the references are single, what every accessor of both languages  *)
(* does to the links between the objects.                                  *)
(***************************************************************************)
EXTENDS Objects, TLAPS

(***************************************************************************)
(* The switches of the generators: the first row whose condition holds.    *)
(***************************************************************************)

(* The n-th row is taken when its condition holds and none before it does. *)
LEMMA FirstRow ==
  ASSUME NEW rows, DOMAIN rows \subseteq Nat \ {0}, NEW n \in DOMAIN rows,
         rows[n][1], \A j \in 1 .. (n - 1) : ~rows[j][1]
  PROVE  FirstOf(rows) = rows[n][2]
<1> DEFINE P(i) == rows[i][1] /\ \A j \in 1 .. (i - 1) : ~rows[j][1]
           k == CHOOSE i \in DOMAIN rows : P(i)
<1>1. P(n) /\ n \in DOMAIN rows
  OBVIOUS
<1>2. k \in DOMAIN rows /\ P(k)
  <2> HIDE DEF P
  <2> QED BY <1>1
<1>3. k = n
  <2>1. ~(k < n)
    BY <1>1, <1>2
  <2>2. ~(n < k)
    BY <1>1, <1>2
  <2> QED BY <2>1, <2>2, <1>1, <1>2
<1> QED BY <1>3 DEF FirstOf

(* The second row is taken when its condition holds and none before it does. *)
LEMMA SecondRow ==
  ASSUME NEW rows, DOMAIN rows \subseteq Nat \ {0}, 2 \in DOMAIN rows, rows[2][1],
         ~rows[1][1]
  PROVE  FirstOf(rows) = rows[2][2]
<1>1. \A j \in 1 .. (2 - 1) : j = 1
  OBVIOUS
<1>2. \A j \in 1 .. (2 - 1) : ~rows[j][1]
  BY <1>1
<1> QED BY <1>1, <1>2, FirstRow

(* The third row is taken when its condition holds and none before it does. *)
LEMMA ThirdRow ==
  ASSUME NEW rows, DOMAIN rows \subseteq Nat \ {0}, 3 \in DOMAIN rows, rows[3][1],
         ~rows[1][1], ~rows[2][1]
  PROVE  FirstOf(rows) = rows[3][2]
<1>1. \A j \in 1 .. (3 - 1) : j = 1 \/ j = 2
  OBVIOUS
<1>2. \A j \in 1 .. (3 - 1) : ~rows[j][1]
  BY <1>1
<1> QED BY <1>1, <1>2, FirstRow

(* The fourth row is taken when its condition holds and none before it does. *)
LEMMA FourthRow ==
  ASSUME NEW rows, DOMAIN rows \subseteq Nat \ {0}, 4 \in DOMAIN rows, rows[4][1],
         ~rows[1][1], ~rows[2][1], ~rows[3][1]
  PROVE  FirstOf(rows) = rows[4][2]
<1>1. \A j \in 1 .. (4 - 1) : j = 1 \/ j = 2 \/ j = 3
  OBVIOUS
<1>2. \A j \in 1 .. (4 - 1) : ~rows[j][1]
  BY <1>1
<1> QED BY <1>1, <1>2, FirstRow

(* The fifth row is taken when its condition holds and none before it does. *)
LEMMA FifthRow ==
  ASSUME NEW rows, DOMAIN rows \subseteq Nat \ {0}, 5 \in DOMAIN rows, rows[5][1],
         ~rows[1][1], ~rows[2][1], ~rows[3][1], ~rows[4][1]
  PROVE  FirstOf(rows) = rows[5][2]
<1>1. \A j \in 1 .. (5 - 1) : j = 1 \/ j = 2 \/ j = 3 \/ j = 4
  OBVIOUS
<1>2. \A j \in 1 .. (5 - 1) : ~rows[j][1]
  BY <1>1
<1> QED BY <1>1, <1>2, FirstRow

(* The sixth row is taken when its condition holds and none before it does. *)
LEMMA SixthRow ==
  ASSUME NEW rows, DOMAIN rows \subseteq Nat \ {0}, 6 \in DOMAIN rows, rows[6][1],
         ~rows[1][1], ~rows[2][1], ~rows[3][1], ~rows[4][1], ~rows[5][1]
  PROVE  FirstOf(rows) = rows[6][2]
<1>1. \A j \in 1 .. (6 - 1) : j = 1 \/ j = 2 \/ j = 3 \/ j = 4 \/ j = 5
  OBVIOUS
<1>2. \A j \in 1 .. (6 - 1) : ~rows[j][1]
  BY <1>1
<1> QED BY <1>1, <1>2, FirstRow

(* The seventh row is taken when its condition holds and none before it does. *)
LEMMA SeventhRow ==
  ASSUME NEW rows, DOMAIN rows \subseteq Nat \ {0}, 7 \in DOMAIN rows, rows[7][1],
         ~rows[1][1], ~rows[2][1], ~rows[3][1], ~rows[4][1], ~rows[5][1], ~rows[6][1]
  PROVE  FirstOf(rows) = rows[7][2]
<1>1. \A j \in 1 .. (7 - 1) : j = 1 \/ j = 2 \/ j = 3 \/ j = 4 \/ j = 5 \/ j = 6
  OBVIOUS
<1>2. \A j \in 1 .. (7 - 1) : ~rows[j][1]
  BY <1>1
<1> QED BY <1>1, <1>2, FirstRow

(* The eighth row is taken when its condition holds and none before it does. *)
LEMMA EighthRow ==
  ASSUME NEW rows, DOMAIN rows \subseteq Nat \ {0}, 8 \in DOMAIN rows, rows[8][1],
         ~rows[1][1], ~rows[2][1], ~rows[3][1], ~rows[4][1], ~rows[5][1], ~rows[6][1], ~rows[7][1]
  PROVE  FirstOf(rows) = rows[8][2]
<1>1. \A j \in 1 .. (8 - 1) : j = 1 \/ j = 2 \/ j = 3 \/ j = 4 \/ j = 5 \/ j = 6 \/ j = 7
  OBVIOUS
<1>2. \A j \in 1 .. (8 - 1) : ~rows[j][1]
  BY <1>1
<1> QED BY <1>1, <1>2, FirstRow

(***************************************************************************)
(* The reference left, when it is a single proxy without other end, and    *)
(* the containment other: their facts, and the variants that they get.     *)
(***************************************************************************)

Followed(f) ==
  /\ f \in AllFeatures
  /\ Valid(f)
  /\ ~f.volatile
  /\ IsProxy(f) /\ ~f.many /\ ~IsBidirectional(f)

(* A followed reference is single, contains nothing and has no other end. *)
LEMMA FollowedFacts ==
  ASSUME NEW f, Followed(f)
  PROVE  /\ ~IsContainer(f) /\ ~f.containment /\ ~f.map /\ ~f.many /\ ~f.volatile
         /\ IsReference(f) /\ IsProxy(f) /\ ~IsBidirectional(f)
BY DEF Followed, Valid, IsContainer, IsProxy, IsReference, IsBidirectional, AllFeatures

(* The facts of the containment other. *)
LEMMA OtherFacts ==
  /\ ~IsContainer(OtherFeature) /\ OtherFeature.containment /\ ~OtherFeature.map
  /\ ~OtherFeature.many
  /\ ~OtherFeature.volatile /\ IsReference(OtherFeature) /\ ~IsProxy(OtherFeature)
  /\ ~IsBidirectional(OtherFeature) /\ ~HasUnset(OtherFeature) /\ HasSet(OtherFeature)
  /\ ~IsUnsettable(OtherFeature) /\ ~HasInitMethod(OtherFeature) /\ OtherFeature.lazy = "no"
BY DEF OtherFeature, IsContainer, IsProxy, IsReference, IsBidirectional,
       HasUnset, HasSet, IsUnsettable, HasInitMethod

(* Its setter only assigns the field. *)
LEMMA FollowedSetter ==
  ASSUME NEW f, Followed(f)
  PROVE  GoSetter(f, FALSE) = "field"
<1> DEFINE rows == << <<FALSE, "reflective">>,
                    <<f.volatile, BodyOr(f, "panic")>>,
                    <<IsContainer(f), "container">>,
                    <<IsBidirectional(f) \/ f.containment, "inverse">>,
                    <<TRUE, "field">> >>
<1>1. DOMAIN rows \subseteq Nat \ {0} /\ 5 \in DOMAIN rows /\ rows[5][2] = "field"
  OBVIOUS
<1>4. rows[5][1]
  BY FollowedFacts
<1>2. ~rows[1][1] /\ ~rows[2][1] /\ ~rows[3][1] /\ ~rows[4][1]
  BY FollowedFacts
<1> HIDE DEF rows
<1>3. FirstOf(rows) = "field"
  BY <1>1, <1>4, <1>2, FifthRow
<1> QED BY <1>3 DEF rows, GoSetter

(* So does its basic setter. *)
LEMMA FollowedBasicSetter ==
  ASSUME NEW f, Followed(f)
  PROVE  GoBasicSetter(f) = "field"
<1> DEFINE rows == << <<IsContainer(f), "container">>,
                    <<~f.volatile, "field">>,
                    <<TRUE, BodyOr(f, "panic")>> >>
<1>1. DOMAIN rows \subseteq Nat \ {0} /\ 2 \in DOMAIN rows /\ rows[2][2] = "field"
  OBVIOUS
<1>4. rows[2][1]
  BY FollowedFacts
<1>2. ~rows[1][1]
  BY FollowedFacts
<1> HIDE DEF rows
<1>3. FirstOf(rows) = "field"
  BY <1>1, <1>4, <1>2, SecondRow
<1> QED BY <1>3 DEF rows, GoBasicSetter

(* Its unsetter in Go resets the field. *)
LEMMA FollowedUnsetter ==
  ASSUME NEW f, Followed(f)
  PROVE  GoUnsetter(f, FALSE) = "field"
<1> DEFINE rows == << <<FALSE, "reflective">>,
                    <<f.volatile, BodyOr(f, "panic")>>,
                    <<f.many, "list">>,
                    <<IsBidirectional(f) \/ f.containment, "inverse">>,
                    <<TRUE, "field">> >>
<1>1. DOMAIN rows \subseteq Nat \ {0} /\ 5 \in DOMAIN rows /\ rows[5][2] = "field"
  OBVIOUS
<1>4. rows[5][1]
  BY FollowedFacts
<1>2. ~rows[1][1] /\ ~rows[2][1] /\ ~rows[3][1] /\ ~rows[4][1]
  BY FollowedFacts
<1> HIDE DEF rows
<1>3. FirstOf(rows) = "field"
  BY <1>1, <1>4, <1>2, FifthRow
<1> QED BY <1>3 DEF rows, GoUnsetter

(* Its unsetter in TypeScript resets the field. *)
LEMMA FollowedTSUnsetter ==
  ASSUME NEW f, Followed(f)
  PROVE  TSUnsetter(f, FALSE) = "field"
<1> DEFINE rows == << <<FALSE, "reflective">>,
                    <<f.volatile, BodyOr(f, "panic")>>,
                    <<f.many /\ f.lazy = "function", "lazylist">>,
                    <<f.many, "list">>,
                    <<IsBidirectional(f) \/ f.containment, "inverse">>,
                    <<TRUE, "field">> >>
<1>1. DOMAIN rows \subseteq Nat \ {0} /\ 6 \in DOMAIN rows /\ rows[6][2] = "field"
  OBVIOUS
<1>4. rows[6][1]
  BY FollowedFacts
<1>2. ~rows[1][1] /\ ~rows[2][1] /\ ~rows[3][1] /\ ~rows[4][1] /\ ~rows[5][1]
  BY FollowedFacts
<1> HIDE DEF rows
<1>3. FirstOf(rows) = "field"
  BY <1>1, <1>4, <1>2, SixthRow
<1> QED BY <1>3 DEF rows, TSUnsetter

(* Its getter in Go resolves the proxy. *)
LEMMA FollowedGetter ==
  ASSUME NEW f, Followed(f)
  PROVE  GoGetter(f, FALSE) = "proxy"
<1> DEFINE rows == << <<FALSE, "reflective">>,
                    <<IsContainer(f), "container">>,
                    <<f.volatile, BodyOr(f, "panic")>>,
                    <<~f.many /\ IsProxy(f), "proxy">>,
                    <<HasInitMethod(f), LazyVariant(f)>>,
                    <<f.many, "list">>,
                    <<TRUE, "field">> >>
<1>1. DOMAIN rows \subseteq Nat \ {0} /\ 4 \in DOMAIN rows /\ rows[4][2] = "proxy"
  OBVIOUS
<1>4. rows[4][1]
  BY FollowedFacts
<1>2. ~rows[1][1] /\ ~rows[2][1] /\ ~rows[3][1]
  BY FollowedFacts
<1> HIDE DEF rows
<1>3. FirstOf(rows) = "proxy"
  BY <1>1, <1>4, <1>2, FourthRow
<1> QED BY <1>3 DEF rows, GoGetter

(* Its getter in TypeScript resolves the proxy. *)
LEMMA FollowedTSGetter ==
  ASSUME NEW f, Followed(f)
  PROVE  TSGetter(f, FALSE) = "proxy"
<1> DEFINE rows == << <<FALSE, "reflective">>,
                    <<IsContainer(f), "container">>,
                    <<f.volatile, BodyOr(f, "panic")>>,
                    <<~f.many /\ IsProxy(f), "proxy">>,
                    <<HasInitMethod(f), LazyVariant(f)>>,
                    <<f.lazy # "no", "field">>,
                    <<f.many, "list">>,
                    <<TRUE, "field">> >>
<1>1. DOMAIN rows \subseteq Nat \ {0} /\ 4 \in DOMAIN rows /\ rows[4][2] = "proxy"
  OBVIOUS
<1>4. rows[4][1]
  BY FollowedFacts
<1>2. ~rows[1][1] /\ ~rows[2][1] /\ ~rows[3][1]
  BY FollowedFacts
<1> HIDE DEF rows
<1>3. FirstOf(rows) = "proxy"
  BY <1>1, <1>4, <1>2, FourthRow
<1> QED BY <1>3 DEF rows, TSGetter

(* ESet casts it to its type in Go. *)
LEMMA FollowedESet ==
  ASSUME NEW f, Followed(f)
  PROVE  GoESet(f) = "reference"
<1> DEFINE rows == << <<f.map, "map">>,
                    <<f.many, "list">>,
                    <<IsReference(f), "reference">>,
                    <<TRUE, "attribute">> >>
<1>1. DOMAIN rows \subseteq Nat \ {0} /\ 3 \in DOMAIN rows /\ rows[3][2] = "reference"
  OBVIOUS
<1>4. rows[3][1]
  BY FollowedFacts
<1>2. ~rows[1][1] /\ ~rows[2][1]
  BY FollowedFacts
<1> HIDE DEF rows
<1>3. FirstOf(rows) = "reference"
  BY <1>1, <1>4, <1>2, ThirdRow
<1> QED BY <1>3 DEF rows, GoESet

(* eSet calls its setter in TypeScript. *)
LEMMA FollowedTSESet ==
  ASSUME NEW f, Followed(f)
  PROVE  TSESet(f) = "set"
<1> DEFINE rows == << <<f.map, "map">>,
                    <<f.many, "list">>,
                    <<TRUE, "set">> >>
<1>1. DOMAIN rows \subseteq Nat \ {0} /\ 3 \in DOMAIN rows /\ rows[3][2] = "set"
  OBVIOUS
<1>4. rows[3][1]
  BY FollowedFacts
<1>2. ~rows[1][1] /\ ~rows[2][1]
  BY FollowedFacts
<1> HIDE DEF rows
<1>3. FirstOf(rows) = "set"
  BY <1>1, <1>4, <1>2, ThirdRow
<1> QED BY <1>3 DEF rows, TSESet

(* The setter of TypeScript for a read-only one assigns the field. *)
LEMMA FollowedSimpleSet ==
  ASSUME NEW f, Followed(f)
  PROVE  TSSimpleSet(f, FALSE) = "field"
<1> DEFINE rows == << <<f.many, "list">>,
                    <<FALSE, "reflective">>,
                    <<TRUE, "field">> >>
<1>1. DOMAIN rows \subseteq Nat \ {0} /\ 3 \in DOMAIN rows /\ rows[3][2] = "field"
  OBVIOUS
<1>4. rows[3][1]
  BY FollowedFacts
<1>2. ~rows[1][1] /\ ~rows[2][1]
  BY FollowedFacts
<1> HIDE DEF rows
<1>3. FirstOf(rows) = "field"
  BY <1>1, <1>4, <1>2, ThirdRow
<1> QED BY <1>3 DEF rows, TSSimpleSet

(* EUnset calls the unsetter in Go when there is one... *)
LEMMA FollowedUnset ==
  ASSUME NEW f, Followed(f), HasUnset(f)
  PROVE  GoEUnset(f) = "unset"
<1> DEFINE rows == << <<f.many /\ ~IsUnsettable(f), "clear">>,
                    <<HasUnset(f), "unset">>,
                    <<TRUE, "set">> >>
<1>1. DOMAIN rows \subseteq Nat \ {0} /\ 2 \in DOMAIN rows /\ rows[2][2] = "unset"
  OBVIOUS
<1>4. rows[2][1]
  BY FollowedFacts
<1>2. ~rows[1][1]
  BY FollowedFacts
<1> HIDE DEF rows
<1>3. FirstOf(rows) = "unset"
  BY <1>1, <1>4, <1>2, SecondRow
<1> QED BY <1>3 DEF rows, GoEUnset

(* ... and the setter otherwise. *)
LEMMA FollowedNoUnset ==
  ASSUME NEW f, Followed(f), ~HasUnset(f)
  PROVE  GoEUnset(f) = "set"
<1> DEFINE rows == << <<f.many /\ ~IsUnsettable(f), "clear">>,
                    <<HasUnset(f), "unset">>,
                    <<TRUE, "set">> >>
<1>1. DOMAIN rows \subseteq Nat \ {0} /\ 3 \in DOMAIN rows /\ rows[3][2] = "set"
  OBVIOUS
<1>4. rows[3][1]
  BY FollowedFacts
<1>2. ~rows[1][1] /\ ~rows[2][1]
  BY FollowedFacts
<1> HIDE DEF rows
<1>3. FirstOf(rows) = "set"
  BY <1>1, <1>4, <1>2, ThirdRow
<1> QED BY <1>3 DEF rows, GoEUnset

(* eUnset calls the unsetter in TypeScript when there is one, methods or flag... *)
LEMMA FollowedTSUnset ==
  ASSUME NEW f, Followed(f), HasUnset(f) /\ (~f.property \/ HasESet(f))
  PROVE  TSEUnset(f) = "unset"
<1> DEFINE rows == << <<f.many /\ ~IsUnsettable(f), "clear">>,
                    <<HasUnset(f) /\ (~f.property \/ HasESet(f)), "unset">>,
                    <<TRUE, "set">> >>
<1>1. DOMAIN rows \subseteq Nat \ {0} /\ 2 \in DOMAIN rows /\ rows[2][2] = "unset"
  OBVIOUS
<1>4. rows[2][1]
  BY FollowedFacts
<1>2. ~rows[1][1]
  BY FollowedFacts
<1> HIDE DEF rows
<1>3. FirstOf(rows) = "unset"
  BY <1>1, <1>4, <1>2, SecondRow
<1> QED BY <1>3 DEF rows, TSEUnset

(* ... and the setter otherwise. *)
LEMMA FollowedTSNoUnset ==
  ASSUME NEW f, Followed(f), ~(HasUnset(f) /\ (~f.property \/ HasESet(f)))
  PROVE  TSEUnset(f) = "set"
<1> DEFINE rows == << <<f.many /\ ~IsUnsettable(f), "clear">>,
                    <<HasUnset(f) /\ (~f.property \/ HasESet(f)), "unset">>,
                    <<TRUE, "set">> >>
<1>1. DOMAIN rows \subseteq Nat \ {0} /\ 3 \in DOMAIN rows /\ rows[3][2] = "set"
  OBVIOUS
<1>4. rows[3][1]
  BY FollowedFacts
<1>2. ~rows[1][1] /\ ~rows[2][1]
  BY FollowedFacts
<1> HIDE DEF rows
<1>3. FirstOf(rows) = "set"
  BY <1>1, <1>4, <1>2, ThirdRow
<1> QED BY <1>3 DEF rows, TSEUnset

(* The setter of other tells its elements. *)
LEMMA OtherSetter ==
  GoSetter(OtherFeature, FALSE) = "inverse"
<1> DEFINE rows == << <<FALSE, "reflective">>,
                    <<OtherFeature.volatile, BodyOr(OtherFeature, "panic")>>,
                    <<IsContainer(OtherFeature), "container">>,
                    <<IsBidirectional(OtherFeature) \/ OtherFeature.containment, "inverse">>,
                    <<TRUE, "field">> >>
<1>1. DOMAIN rows \subseteq Nat \ {0} /\ 4 \in DOMAIN rows /\ rows[4][2] = "inverse"
  OBVIOUS
<1>4. rows[4][1]
  BY OtherFacts
<1>2. ~rows[1][1] /\ ~rows[2][1] /\ ~rows[3][1]
  BY OtherFacts
<1> HIDE DEF rows
<1>3. FirstOf(rows) = "inverse"
  BY <1>1, <1>4, <1>2, FourthRow
<1> QED BY <1>3 DEF rows, GoSetter

(* The basic setter of other assigns the field. *)
LEMMA OtherBasicSetter ==
  GoBasicSetter(OtherFeature) = "field"
<1> DEFINE rows == << <<IsContainer(OtherFeature), "container">>,
                    <<~OtherFeature.volatile, "field">>,
                    <<TRUE, BodyOr(OtherFeature, "panic")>> >>
<1>1. DOMAIN rows \subseteq Nat \ {0} /\ 2 \in DOMAIN rows /\ rows[2][2] = "field"
  OBVIOUS
<1>4. rows[2][1]
  BY OtherFacts
<1>2. ~rows[1][1]
  BY OtherFacts
<1> HIDE DEF rows
<1>3. FirstOf(rows) = "field"
  BY <1>1, <1>4, <1>2, SecondRow
<1> QED BY <1>3 DEF rows, GoBasicSetter

(* The getter of other in Go reads the field. *)
LEMMA OtherGetter ==
  GoGetter(OtherFeature, FALSE) = "field"
<1> DEFINE rows == << <<FALSE, "reflective">>,
                    <<IsContainer(OtherFeature), "container">>,
                    <<OtherFeature.volatile, BodyOr(OtherFeature, "panic")>>,
                    <<~OtherFeature.many /\ IsProxy(OtherFeature), "proxy">>,
                    <<HasInitMethod(OtherFeature), LazyVariant(OtherFeature)>>,
                    <<OtherFeature.many, "list">>,
                    <<TRUE, "field">> >>
<1>1. DOMAIN rows \subseteq Nat \ {0} /\ 7 \in DOMAIN rows /\ rows[7][2] = "field"
  OBVIOUS
<1>4. rows[7][1]
  BY OtherFacts
<1>2. ~rows[1][1] /\ ~rows[2][1] /\ ~rows[3][1] /\ ~rows[4][1] /\ ~rows[5][1] /\ ~rows[6][1]
  BY OtherFacts
<1> HIDE DEF rows
<1>3. FirstOf(rows) = "field"
  BY <1>1, <1>4, <1>2, SeventhRow
<1> QED BY <1>3 DEF rows, GoGetter

(* The getter of other in TypeScript reads the field. *)
LEMMA OtherTSGetter ==
  TSGetter(OtherFeature, FALSE) = "field"
<1> DEFINE rows == << <<FALSE, "reflective">>,
                    <<IsContainer(OtherFeature), "container">>,
                    <<OtherFeature.volatile, BodyOr(OtherFeature, "panic")>>,
                    <<~OtherFeature.many /\ IsProxy(OtherFeature), "proxy">>,
                    <<HasInitMethod(OtherFeature), LazyVariant(OtherFeature)>>,
                    <<OtherFeature.lazy # "no", "field">>,
                    <<OtherFeature.many, "list">>,
                    <<TRUE, "field">> >>
<1>1. DOMAIN rows \subseteq Nat \ {0} /\ 8 \in DOMAIN rows /\ rows[8][2] = "field"
  OBVIOUS
<1>4. rows[8][1]
  BY OtherFacts
<1>2. ~rows[1][1] /\ ~rows[2][1] /\ ~rows[3][1] /\ ~rows[4][1] /\ ~rows[5][1] /\ ~rows[6][1]
      /\ ~rows[7][1]
  BY OtherFacts
<1> HIDE DEF rows
<1>3. FirstOf(rows) = "field"
  BY <1>1, <1>4, <1>2, EighthRow
<1> QED BY <1>3 DEF rows, TSGetter

(* ESet in Go casts other to its type. *)
LEMMA OtherESet ==
  GoESet(OtherFeature) = "reference"
<1> DEFINE rows == << <<OtherFeature.map, "map">>,
                    <<OtherFeature.many, "list">>,
                    <<IsReference(OtherFeature), "reference">>,
                    <<TRUE, "attribute">> >>
<1>1. DOMAIN rows \subseteq Nat \ {0} /\ 3 \in DOMAIN rows /\ rows[3][2] = "reference"
  OBVIOUS
<1>4. rows[3][1]
  BY OtherFacts
<1>2. ~rows[1][1] /\ ~rows[2][1]
  BY OtherFacts
<1> HIDE DEF rows
<1>3. FirstOf(rows) = "reference"
  BY <1>1, <1>4, <1>2, ThirdRow
<1> QED BY <1>3 DEF rows, GoESet

(* eSet in TypeScript calls the setter of other. *)
LEMMA OtherTSESet ==
  TSESet(OtherFeature) = "set"
<1> DEFINE rows == << <<OtherFeature.map, "map">>,
                    <<OtherFeature.many, "list">>,
                    <<TRUE, "set">> >>
<1>1. DOMAIN rows \subseteq Nat \ {0} /\ 3 \in DOMAIN rows /\ rows[3][2] = "set"
  OBVIOUS
<1>4. rows[3][1]
  BY OtherFacts
<1>2. ~rows[1][1] /\ ~rows[2][1]
  BY OtherFacts
<1> HIDE DEF rows
<1>3. FirstOf(rows) = "set"
  BY <1>1, <1>4, <1>2, ThirdRow
<1> QED BY <1>3 DEF rows, TSESet

(* EUnset in Go calls the setter of other. *)
LEMMA OtherEUnset ==
  GoEUnset(OtherFeature) = "set"
<1> DEFINE rows == << <<OtherFeature.many /\ ~IsUnsettable(OtherFeature), "clear">>,
                    <<HasUnset(OtherFeature), "unset">>,
                    <<TRUE, "set">> >>
<1>1. DOMAIN rows \subseteq Nat \ {0} /\ 3 \in DOMAIN rows /\ rows[3][2] = "set"
  OBVIOUS
<1>4. rows[3][1]
  BY OtherFacts
<1>2. ~rows[1][1] /\ ~rows[2][1]
  BY OtherFacts
<1> HIDE DEF rows
<1>3. FirstOf(rows) = "set"
  BY <1>1, <1>4, <1>2, ThirdRow
<1> QED BY <1>3 DEF rows, GoEUnset

(* eUnset in TypeScript calls the setter of other. *)
LEMMA OtherTSEUnset ==
  TSEUnset(OtherFeature) = "set"
<1> DEFINE rows == << <<OtherFeature.many /\ ~IsUnsettable(OtherFeature), "clear">>,
                    <<HasUnset(OtherFeature) /\ (~OtherFeature.property \/ HasESet(OtherFeature)),
                      "unset">>,
                    <<TRUE, "set">> >>
<1>1. DOMAIN rows \subseteq Nat \ {0} /\ 3 \in DOMAIN rows /\ rows[3][2] = "set"
  OBVIOUS
<1>4. rows[3][1]
  BY OtherFacts
<1>2. ~rows[1][1] /\ ~rows[2][1]
  BY OtherFacts
<1> HIDE DEF rows
<1>3. FirstOf(rows) = "set"
  BY <1>1, <1>4, <1>2, ThirdRow
<1> QED BY <1>3 DEF rows, TSEUnset

(* EBasicInverseRemove of other calls the setter. *)
LEMMA OtherInverseRemove ==
  GoInverseRemove(OtherFeature) = "set"
<1> DEFINE rows == << <<OtherFeature.map, "map">>,
                    <<OtherFeature.many, "list">>,
                    <<IsContainer(OtherFeature) /\ ~HasBasicSet(OtherFeature), "container">>,
                    <<HasUnset(OtherFeature), "unset">>,
                    <<TRUE, "set">> >>
<1>1. DOMAIN rows \subseteq Nat \ {0} /\ 5 \in DOMAIN rows /\ rows[5][2] = "set"
  OBVIOUS
<1>4. rows[5][1]
  BY OtherFacts
<1>2. ~rows[1][1] /\ ~rows[2][1] /\ ~rows[3][1] /\ ~rows[4][1]
  BY OtherFacts
<1> HIDE DEF rows
<1>3. FirstOf(rows) = "set"
  BY <1>1, <1>4, <1>2, FifthRow
<1> QED BY <1>3 DEF rows, GoInverseRemove

(***************************************************************************)
(* The heap: what each accessor does to the references left.               *)
(***************************************************************************)

(* The values of a single reference, the containers of the objects when left is followed. *)
V == {NoValue} \cup {<<b>> : b \in Bs}
Conts == {NoValue} \cup {<<a, "-other">> : a \in As}

(* The heaps that a program with a followed left reaches, but for their flags. *)
HeapOK(h) ==
  /\ {"val", "cont", "thrown"} \subseteq DOMAIN h /\ h.thrown = FALSE
  /\ h.val \in [Objs -> [Names -> V]]
  /\ h.cont \in [Objs -> Conts]

(* The two heaps have the same left. *)
KeepsLeft(g, h) == \A a \in As : g.val[a]["left"] = h.val[a]["left"]

(* A store changes one feature of one object. *)
LEMMA PutFacts ==
  ASSUME NEW h, HeapOK(h), NEW o \in Objs, NEW f \in Names, NEW s \in V
  PROVE  /\ HeapOK(Put(h, o, f, s))
         /\ \A p \in Objs, n \in Names :
              Put(h, o, f, s).val[p][n] = IF p = o /\ n = f THEN s ELSE h.val[p][n]
<1> DEFINE g == Put(h, o, f, s)
<1>1. /\ DOMAIN g = DOMAIN h /\ g.val = [h.val EXCEPT ![o][f] = s]
      /\ g.cont = h.cont /\ g.thrown = h.thrown
  BY DEF HeapOK, Put
<1>2. g.val \in [Objs -> [Names -> V]]
  <2> HIDE DEF V, g
  <2> QED BY <1>1 DEF HeapOK
<1>3. \A p \in Objs, n \in Names : g.val[p][n] = IF p = o /\ n = f THEN s ELSE h.val[p][n]
  <2> HIDE DEF V, g
  <2> QED BY <1>1 DEF HeapOK
<1> QED BY <1>1, <1>2, <1>3 DEF HeapOK

(* Setting a container changes no value. *)
LEMMA SetContainerFacts ==
  ASSUME NEW h, HeapOK(h), NEW o \in Objs, NEW c \in Conts
  PROVE  HeapOK(SetContainer(h, o, c)) /\ SetContainer(h, o, c).val = h.val
<1> DEFINE g == SetContainer(h, o, c)
<1>1. /\ DOMAIN g = DOMAIN h /\ g.val = h.val
      /\ g.cont = [h.cont EXCEPT ![o] = c] /\ g.thrown = h.thrown
  BY DEF HeapOK, SetContainer
<1>2. g.cont \in [Objs -> Conts]
  <2> HIDE DEF Conts, g
  <2> QED BY <1>1 DEF HeapOK
<1> QED BY <1>1, <1>2 DEF HeapOK

(* Setting a flag changes no value. *)
LEMMA FlagFacts ==
  ASSUME NEW h, HeapOK(h), NEW x
  PROVE  HeapOK([h EXCEPT !.flag = x]) /\ [h EXCEPT !.flag = x].val = h.val
BY DEF HeapOK

(* The basic setter of left stores. *)
LEMMA BasicSetLeft ==
  ASSUME Followed(shape.left), NEW h, HeapOK(h), NEW o \in As, NEW s \in V
  PROVE  /\ HeapOK(BasicSet(h, o, "left", s))
         /\ \A a \in As : BasicSet(h, o, "left", s).val[a]["left"]
              = IF a = o THEN s ELSE h.val[a]["left"]
<1> DEFINE g == Put(h, o, "left", s)
<1>1. PICK x : BasicSet(h, o, "left", s) = [g EXCEPT !.flag = x]
  <2>1. GoBasicSetter(Feature("left")) # "container"
    BY FollowedBasicSetter DEF Feature
  <2> QED BY <2>1 DEF BasicSet
<1>2. HeapOK(g) /\ \A a \in As : g.val[a]["left"] = IF a = o THEN s ELSE h.val[a]["left"]
  BY PutFacts DEF Objs, Names
<1> HIDE DEF g
<1>3. HeapOK([g EXCEPT !.flag = x]) /\ [g EXCEPT !.flag = x].val = g.val
  BY <1>2, FlagFacts
<1> QED BY <1>1, <1>2, <1>3

(* The basic setter of other leaves every left alone. *)
LEMMA BasicSetOther ==
  ASSUME NEW h, HeapOK(h), NEW o \in As, NEW s \in V
  PROVE  HeapOK(BasicSet(h, o, "other", s)) /\ KeepsLeft(BasicSet(h, o, "other", s), h)
<1> DEFINE g == Put(h, o, "other", s)
<1>1. PICK x : BasicSet(h, o, "other", s) = [g EXCEPT !.flag = x]
  <2>1. GoBasicSetter(Feature("other")) # "container"
    BY OtherBasicSetter DEF Feature
  <2> QED BY <2>1 DEF BasicSet
<1>2. HeapOK(g) /\ KeepsLeft(g, h)
  BY PutFacts DEF Objs, Names, KeepsLeft
<1> HIDE DEF g
<1>3. HeapOK([g EXCEPT !.flag = x]) /\ [g EXCEPT !.flag = x].val = g.val
  BY <1>2, FlagFacts
<1> QED BY <1>1, <1>2, <1>3 DEF KeepsLeft

(* The basic unsetter of left stores nothing. *)
LEMMA BasicUnsetLeft ==
  ASSUME NEW h, HeapOK(h), NEW o \in As
  PROVE  /\ HeapOK(BasicUnset(h, o, "left"))
         /\ \A a \in As : BasicUnset(h, o, "left").val[a]["left"]
              = IF a = o THEN NoValue ELSE h.val[a]["left"]
<1> DEFINE g == Put(h, o, "left", NoValue)
<1>1. PICK x : BasicUnset(h, o, "left") = [g EXCEPT !.flag = x]
  BY DEF BasicUnset
<1>2. HeapOK(g) /\ \A a \in As : g.val[a]["left"] = IF a = o THEN NoValue ELSE h.val[a]["left"]
  BY PutFacts DEF Objs, Names, V
<1> HIDE DEF g
<1>3. HeapOK([g EXCEPT !.flag = x]) /\ [g EXCEPT !.flag = x].val = g.val
  BY <1>2, FlagFacts
<1> QED BY <1>1, <1>2, <1>3

(* An element that leaves other leaves every left alone. *)
LEMMA InverseRemoveOther ==
  ASSUME NEW l, NEW h, HeapOK(h), NEW o \in As, NEW x
  PROVE  /\ HeapOK(InverseRemove(l, h, o, x, "other"))
         /\ KeepsLeft(InverseRemove(l, h, o, x, "other"), h)
<1>1. Feature("other") = OtherFeature
  BY DEF Feature
<1>2. In(l, GoInverseRemove(Feature("other")), TSInverseRemove(Feature("other"))) = "set"
  BY <1>1, OtherInverseRemove DEF In, TSInverseRemove
<1>3. InverseRemove(l, h, o, x, "other") = BasicSet(h, o, "other", NoValue)
  BY <1>2 DEF InverseRemove
<1> QED BY <1>3, BasicSetOther DEF V

(* So does an object that leaves its container, *)
LEMMA RemoveFromContainerFacts ==
  ASSUME NEW l, NEW h, HeapOK(h), NEW o \in Objs
  PROVE  HeapOK(RemoveFromContainer(l, h, o)) /\ KeepsLeft(RemoveFromContainer(l, h, o), h)
<1>1. CASE ~Contained(h, o)
  BY <1>1 DEF RemoveFromContainer, KeepsLeft
<1>2. CASE Contained(h, o)
  <2>1. PICK a \in As : h.cont[o] = <<a, "-other">>
    BY <1>2 DEF Contained, HeapOK, Conts
  <2>2. h.cont[o][1] = a /\ ContainmentOf(h.cont[o][2]) = "other"
    BY <2>1 DEF ContainmentOf
  <2>3. RemoveFromContainer(l, h, o) = InverseRemove(l, h, a, o, "other")
    BY <1>2, <2>2 DEF RemoveFromContainer
  <2> QED BY <2>3, InverseRemoveOther
<1> QED BY <1>1, <1>2

(* Containment in other has an id under the base. *)
LEMMA OtherIsNoName == "-other" \notin Names /\ InverseOf("other") = "-other"
BY OtherFacts DEF Names, InverseOf, IDOf, InverseID, Feature, Base

(* an element that is told that it left other, *)
LEMMA EInverseRemoveOther ==
  ASSUME NEW l, NEW h, HeapOK(h), NEW o \in Objs, NEW x
  PROVE  /\ HeapOK(EInverseRemove(l, h, o, x, InverseOf("other")))
         /\ KeepsLeft(EInverseRemove(l, h, o, x, InverseOf("other")), h)
<1>1. EInverseRemove(l, h, o, x, InverseOf("other")) = SetContainer(h, o, NoValue)
  BY OtherIsNoName DEF EInverseRemove
<1>2. NoValue \in Conts
  BY DEF Conts
<1> QED BY <1>1, <1>2, SetContainerFacts DEF KeepsLeft

(* and one that is told that it joined other. *)
LEMMA EInverseAddOther ==
  ASSUME NEW l, NEW h, HeapOK(h), NEW o \in Objs, NEW a \in As
  PROVE  /\ HeapOK(EInverseAdd(l, h, o, a, InverseOf("other")))
         /\ KeepsLeft(EInverseAdd(l, h, o, a, InverseOf("other")), h)
<1> DEFINE g == RemoveFromContainer(l, h, o)
<1>1. EInverseAdd(l, h, o, a, InverseOf("other")) = SetContainer(g, o, <<a, "-other">>)
  BY OtherIsNoName DEF EInverseAdd
<1>2. HeapOK(g) /\ KeepsLeft(g, h)
  BY RemoveFromContainerFacts
<1>3. <<a, "-other">> \in Conts
  BY DEF Conts
<1> HIDE DEF g
<1> QED BY <1>1, <1>2, <1>3, SetContainerFacts DEF KeepsLeft

(* The setter of left stores. *)
LEMMA SetterLeft ==
  ASSUME Followed(shape.left), NEW l, NEW h, HeapOK(h), NEW o \in As, NEW s \in V
  PROVE  /\ HeapOK(Setter(l, h, o, "left", s))
         /\ \A a \in As : Setter(l, h, o, "left", s).val[a]["left"]
              = IF a = o THEN s ELSE h.val[a]["left"]
<1>1. In(l, GoSetter(Feature("left"), FALSE), TSSetter(Feature("left"), FALSE)) = "field"
  BY FollowedSetter DEF In, TSSetter, Feature
<1>2. Setter(l, h, o, "left", s) = BasicSet(h, o, "left", s)
  BY <1>1 DEF Setter, StoredAfter
<1> QED BY <1>2, BasicSetLeft

(* The setter of other, with all it tells, leaves every left alone. *)
LEMMA SetterOther ==
  ASSUME NEW l, NEW h, HeapOK(h), NEW o \in As, NEW s \in V
  PROVE  HeapOK(Setter(l, h, o, "other", s)) /\ KeepsLeft(Setter(l, h, o, "other", s), h)
<1> DEFINE old == Current(h, o, "other")
           id == InverseOf("other")
           kept == IF old = NoValue THEN h ELSE EInverseRemove(l, h, old[1], o, id)
           joined == IF s = NoValue THEN kept ELSE EInverseAdd(l, kept, s[1], o, id)
<1>1. In(l, GoSetter(Feature("other"), FALSE), TSSetter(Feature("other"), FALSE)) = "inverse"
  BY OtherSetter DEF In, TSSetter, Feature
<1>2. old \in V
  BY OtherFacts DEF Current, Feature, HeapOK, Objs, Names
<1>3. HeapOK(kept) /\ KeepsLeft(kept, h)
  <2>1. CASE old = NoValue
    BY <2>1 DEF KeepsLeft
  <2>2. CASE old # NoValue
    <3>1. PICK b \in Bs : old = <<b>>
      BY <1>2, <2>2 DEF V
    <3>2. old[1] \in Objs
      BY <3>1 DEF Objs
    <3> HIDE DEF old, id
    <3>3. kept = EInverseRemove(l, h, old[1], o, id)
      BY <2>2
    <3> QED BY <3>2, <3>3, EInverseRemoveOther DEF id
  <2> QED BY <2>1, <2>2
<1>4. HeapOK(joined) /\ KeepsLeft(joined, h)
  <2> HIDE DEF kept, id
  <2>1. CASE s = NoValue
    BY <2>1, <1>3
  <2>2. CASE s # NoValue
    <3>1. PICK b \in Bs : s = <<b>>
      BY <2>2 DEF V
    <3>2. s[1] \in Objs
      BY <3>1 DEF Objs
    <3>3. joined = EInverseAdd(l, kept, s[1], o, id)
      BY <2>2
    <3>4. HeapOK(joined) /\ KeepsLeft(joined, kept)
      BY <3>2, <3>3, <1>3, EInverseAddOther DEF id
    <3> QED BY <3>4, <1>3 DEF KeepsLeft
  <2> QED BY <2>1, <2>2
<1>5. CASE s # old
  <2>3. joined.thrown = FALSE
    BY <1>4 DEF HeapOK
  <2>1. Setter(l, h, o, "other", s) = BasicSet(joined, o, "other", s)
    BY <1>1, <1>5, <2>3 DEF Setter, StoredAfter
  <2> HIDE DEF joined
  <2>2. HeapOK(BasicSet(joined, o, "other", s))
        /\ KeepsLeft(BasicSet(joined, o, "other", s), joined)
    BY <1>4, BasicSetOther
  <2> QED BY <2>1, <2>2, <1>4 DEF KeepsLeft
<1>6. CASE s = old
  <2>1. PICK x : Setter(l, h, o, "other", s) = [h EXCEPT !.flag = x]
    BY <1>1, <1>6 DEF Setter, StoredAfter
  <2>2. HeapOK([h EXCEPT !.flag = x]) /\ [h EXCEPT !.flag = x].val = h.val
    BY FlagFacts
  <2> QED BY <2>1, <2>2 DEF KeepsLeft
<1> QED BY <1>5, <1>6

(* The unsetter of left stores nothing. *)
LEMMA UnsetLeft ==
  ASSUME Followed(shape.left), NEW l, NEW h, HeapOK(h), NEW o \in As
  PROVE  /\ HeapOK(UnsetValue(l, h, o, "left"))
         /\ \A a \in As : UnsetValue(l, h, o, "left").val[a]["left"]
              = IF a = o THEN NoValue ELSE h.val[a]["left"]
<1>1. In(l, GoUnsetter(Feature("left"), FALSE), TSUnsetter(Feature("left"), FALSE)) = "field"
  BY FollowedUnsetter, FollowedTSUnsetter DEF In, Feature
<1>2. UnsetValue(l, h, o, "left") = BasicUnset(h, o, "left")
  BY <1>1 DEF UnsetValue
<1> QED BY <1>2, BasicUnsetLeft

(* The getter of left stores what the proxy resolves to. *)
LEMMA ReadLeft ==
  ASSUME Followed(shape.left), NEW l, NEW h, HeapOK(h), NEW o \in As
  PROVE  /\ ReadList(l, h, o, "left") = h
         /\ Getter(l, h, o, "left") =
              IF h.val[o]["left"] = NoValue THEN h
              ELSE Put(h, o, "left", <<Resolved[h.val[o]["left"][1]]>>)
<1>1. Feature("left") = shape.left
  BY DEF Feature
<1>2. In(l, GoGetter(Feature("left"), FALSE), TSGetter(Feature("left"), FALSE)) = "proxy"
  BY <1>1, FollowedGetter, FollowedTSGetter DEF In
<1>3. ReadList(l, h, o, "left") = h
  BY <1>2 DEF ReadList
<1>4. ~IsBidirectional(Feature("left"))
  BY <1>1, FollowedFacts
<1> QED BY <1>2, <1>3, <1>4 DEF Getter

(* The getter of other changes nothing. *)
LEMMA GetterOther ==
  ASSUME NEW l, NEW h, HeapOK(h), NEW o \in As
  PROVE  Getter(l, h, o, "other") = h
<1>1. In(l, GoGetter(Feature("other"), FALSE), TSGetter(Feature("other"), FALSE)) = "field"
  BY OtherGetter, OtherTSGetter DEF In, Feature
<1> QED BY <1>1 DEF Getter, ReadList

(* ESet of left is its setter. *)
LEMMA ESetLeft ==
  ASSUME Followed(shape.left), NEW l, NEW h, NEW o, NEW s
  PROVE  ESet(l, h, o, "left", s) = Setter(l, h, o, "left", s)
<1>1. In(l, GoESet(Feature("left")), TSESet(Feature("left"))) # "list"
  BY FollowedESet, FollowedTSESet DEF In, Feature
<1> QED BY <1>1 DEF ESet

(* ESet of other is its setter. *)
LEMMA ESetOther ==
  ASSUME NEW l, NEW h, NEW o, NEW s
  PROVE  ESet(l, h, o, "other", s) = Setter(l, h, o, "other", s)
<1>1. In(l, GoESet(Feature("other")), TSESet(Feature("other"))) # "list"
  BY OtherESet, OtherTSESet DEF In, Feature
<1> QED BY <1>1 DEF ESet

(* EUnset of left stores nothing, by the unsetter or by the setter. *)
LEMMA EUnsetLeft ==
  ASSUME Followed(shape.left), NEW l, NEW h, HeapOK(h), NEW o \in As
  PROVE  /\ HeapOK(EUnset(l, h, o, "left"))
         /\ \A a \in As : EUnset(l, h, o, "left").val[a]["left"]
              = IF a = o THEN NoValue ELSE h.val[a]["left"]
<1> DEFINE variant == In(l, GoEUnset(Feature("left")), TSEUnset(Feature("left")))
<1>1. variant \in {"set", "unset"}
  BY FollowedUnset, FollowedNoUnset, FollowedTSUnset, FollowedTSNoUnset DEF In, Feature
<1>2. CASE variant = "set"
  <2>1. EUnset(l, h, o, "left") = Setter(l, h, o, "left", NoValue)
    BY <1>2 DEF EUnset
  <2>2. NoValue \in V
    BY DEF V
  <2> QED BY <2>1, <2>2, SetterLeft
<1>3. CASE variant = "unset"
  <2>1. EUnset(l, h, o, "left") = UnsetValue(l, h, o, "left")
    BY <1>3 DEF EUnset
  <2> QED BY <2>1, UnsetLeft
<1> QED BY <1>1, <1>2, <1>3

(* EUnset of other leaves every left alone. *)
LEMMA EUnsetOther ==
  ASSUME NEW l, NEW h, HeapOK(h), NEW o \in As
  PROVE  HeapOK(EUnset(l, h, o, "other")) /\ KeepsLeft(EUnset(l, h, o, "other"), h)
<1>1. In(l, GoEUnset(Feature("other")), TSEUnset(Feature("other"))) = "set"
  BY OtherEUnset, OtherTSEUnset DEF In, Feature
<1>2. EUnset(l, h, o, "other") = Setter(l, h, o, "other", NoValue)
  BY <1>1 DEF EUnset
<1> QED BY <1>2, SetterOther DEF V

(* What an operation of the reference left or of other leaves in left. *)
LEMMA OperationFacts ==
  ASSUME Followed(shape.left), NEW op \in Operations
  PROVE  /\ op.feature \in {"left", "other"} /\ op.object \in As
         /\ op.value \in V
         /\ op.name \in {"set", "unset", "eset", "eunset", "read"}
         /\ op.name \in {"unset", "eunset", "read"} => op.value = NoValue
         /\ op.feature = "other" => op.name # "unset"
<1> DEFINE On(names, f, values, able) ==
             IF able THEN [name : names, feature : {f}, object : Owners(f), value : values] ELSE {}
           Setting(f) == On({"set"}, f, Values(f), HasSet(Feature(f)))
           Unsetting(f) == On({"unset"}, f, {NoValue}, HasUnset(Feature(f)))
           Reflective(f) == On({"eset"}, f,
                              IF Feature(f).many THEN Pairs(f) ELSE Values(f), InESet(Feature(f)))
           Removing(f) == On({"eunset"}, f, {NoValue}, InESet(Feature(f)))
           Reading(f) == On({"read"}, f, {NoValue}, TRUE)
           Changing(f) == On({"add", "remove"}, f, {<<x>> : x \in Targets(f)}, Feature(f).many)
           Clearing(f) == On({"clear"}, f, {NoValue}, Feature(f).many)
<1>1. PICK f \in {g \in Names : Has(g)} :
        op \in Setting(f) \cup Unsetting(f) \cup Reflective(f)
               \cup Removing(f) \cup Reading(f) \cup Changing(f) \cup Clearing(f)
  BY DEF Operations
<1>2. f \in {"left", "other"}
  BY FollowedFacts DEF Names, Has, IsBidirectional
<1>3. Owners(f) = As /\ Targets(f) = Bs /\ Values(f) = V
  BY <1>2 DEF Owners, Targets, Values, V
<1>4. ~Feature(f).many
  BY <1>2, FollowedFacts, OtherFacts DEF Feature
<1>5. f = "other" => ~HasUnset(Feature(f))
  BY OtherFacts DEF Feature
<1>6. NoValue \in V
  BY DEF V
<1> DEFINE Calls(name, values) == [name : {name}, feature : {f}, object : As, value : values]
<1>7. \/ op \in Calls("set", V)
      \/ (op \in Calls("unset", {NoValue}) /\ HasUnset(Feature(f)))
      \/ op \in Calls("eset", V)
      \/ op \in Calls("eunset", {NoValue})
      \/ op \in Calls("read", {NoValue})
  <2>1. Changing(f) = {} /\ Clearing(f) = {}
    BY <1>4
  <2>2. Setting(f) \subseteq Calls("set", V)
    BY <1>3
  <2>3. Unsetting(f) \subseteq Calls("unset", {NoValue})
    BY <1>3
  <2>4. op \in Unsetting(f) => HasUnset(Feature(f))
    OBVIOUS
  <2>5. Reflective(f) \subseteq Calls("eset", V)
    BY <1>3, <1>4
  <2>6. Removing(f) \subseteq Calls("eunset", {NoValue})
    BY <1>3
  <2>7. Reading(f) \subseteq Calls("read", {NoValue})
    BY <1>3
  <2> HIDE DEF Setting, Unsetting, Reflective, Removing, Reading, Changing, Clearing, Calls, V
  <2> QED BY <1>1, <2>1, <2>2, <2>3, <2>4, <2>5, <2>6, <2>7
<1> HIDE DEF V
<1> QED BY <1>2, <1>5, <1>6, <1>7

(* No operation of other changes a left. *)
LEMMA ApplyOther ==
  ASSUME Followed(shape.left), NEW l, NEW h, HeapOK(h), NEW op \in Operations, op.feature = "other"
  PROVE  HeapOK(Apply(l, op, h)) /\ KeepsLeft(Apply(l, op, h), h)
<1>1. op.object \in As /\ op.value \in V /\ op.name \in {"set", "eset", "eunset", "read"}
  BY OperationFacts
<1>2. CASE op.name \in {"set", "eset"}
  <2>1. Apply(l, op, h) = Setter(l, h, op.object, "other", op.value)
    BY <1>2, ESetOther DEF Apply
  <2> QED BY <1>1, <2>1, SetterOther
<1>3. CASE op.name = "eunset"
  <2>1. Apply(l, op, h) = EUnset(l, h, op.object, "other")
    BY <1>3 DEF Apply
  <2> QED BY <1>1, <2>1, EUnsetOther
<1>4. CASE op.name = "read"
  <2>1. Apply(l, op, h) = h
    BY <1>1, <1>4, GetterOther DEF Apply
  <2> QED BY <2>1 DEF KeepsLeft
<1> QED BY <1>1, <1>2, <1>3, <1>4

(* An operation of left that gives a value stores it. *)
LEMMA ApplyLeft ==
  ASSUME Followed(shape.left), NEW l, NEW h, HeapOK(h), NEW op \in Operations, op.feature = "left",
         op.name # "read"
  PROVE  /\ HeapOK(Apply(l, op, h))
         /\ \A a \in As : Apply(l, op, h).val[a]["left"]
              = IF a = op.object THEN op.value ELSE h.val[a]["left"]
<1>1. op.object \in As /\ op.value \in V /\ op.name \in {"set", "eset", "unset", "eunset"}
      /\ (op.name \in {"unset", "eunset"} => op.value = NoValue)
  BY OperationFacts
<1>2. CASE op.name \in {"set", "eset"}
  <2>1. Apply(l, op, h) = Setter(l, h, op.object, "left", op.value)
    BY <1>2, ESetLeft DEF Apply
  <2> QED BY <1>1, <2>1, SetterLeft
<1>3. CASE op.name = "eunset"
  <2>1. Apply(l, op, h) = EUnset(l, h, op.object, "left")
    BY <1>3 DEF Apply
  <2> QED BY <1>1, <1>3, <2>1, EUnsetLeft
<1>4. CASE op.name = "unset"
  <2>1. Apply(l, op, h) = UnsetValue(l, h, op.object, "left")
    BY <1>4 DEF Apply
  <2> QED BY <1>1, <1>4, <2>1, UnsetLeft
<1> QED BY <1>1, <1>2, <1>3, <1>4

(* The reference holds what the program gave it, or what that resolves to. *)
Explained(v, w) == v \in {w} \cup {<<Resolved[b]>> : b \in {c \in Bs : w = <<c>>}}

(* A read of left stores what its value resolves to, and changes no other left. *)
LEMMA ApplyRead ==
  ASSUME Followed(shape.left), NEW l, NEW h, HeapOK(h), NEW op \in Operations, op.feature = "left",
         op.name = "read"
  PROVE  /\ HeapOK(Apply(l, op, h))
         /\ \A a \in As : Explained(Apply(l, op, h).val[a]["left"], h.val[a]["left"])
<1>1. op.object \in As
  BY OperationFacts
<1> DEFINE o == op.object
           v == h.val[o]["left"]
<1>2. Apply(l, op, h) = Getter(l, h, o, "left")
  BY DEF Apply
<1>3. v \in V
  BY <1>1 DEF HeapOK, Objs, Names
<1>4. CASE v = NoValue
  <2>1. Apply(l, op, h) = h
    BY <1>1, <1>2, <1>4, ReadLeft
  <2> QED BY <2>1 DEF Explained
<1>5. CASE v # NoValue
  <2>1. PICK b \in Bs : v = <<b>>
    BY <1>3, <1>5 DEF V
  <2>2. v[1] = b
    BY <2>1
  <2>3. Resolved[b] \in Bs
    BY ObjectsAssumption
  <2>4. <<Resolved[b]>> \in V
    BY <2>3 DEF V
  <2>5. Apply(l, op, h) = Put(h, o, "left", <<Resolved[b]>>)
    BY <1>1, <1>2, <1>5, <2>2, ReadLeft
  <2>6. HeapOK(Put(h, o, "left", <<Resolved[b]>>))
        /\ \A a \in As : Put(h, o, "left", <<Resolved[b]>>).val[a]["left"]
                          = IF a = o THEN <<Resolved[b]>> ELSE h.val[a]["left"]
    <3>1. o \in Objs /\ "left" \in Names /\ As \subseteq Objs
      BY <1>1 DEF Objs, Names
    <3> DEFINE w == <<Resolved[b]>>
    <3>2. w \in V
      BY <2>4
    <3> HIDE DEF o, w
    <3>3. HeapOK(Put(h, o, "left", w))
          /\ \A a \in As : Put(h, o, "left", w).val[a]["left"]
               = IF a = o THEN w ELSE h.val[a]["left"]
      BY <3>1, <3>2, PutFacts
    <3> QED BY <3>3 DEF w
  <2> QED BY <2>1, <2>5, <2>6 DEF Explained
<1> QED BY <1>4, <1>5

(***************************************************************************)
(* Outside a race, a followed reference holds what was given or what that  *)
(* resolves to, and the pending resolution is that of what was given: the  *)
(* second part is what makes the first one inductive.                      *)
(***************************************************************************)
Inv ==
  /\ shape \in Shapes
  /\ Follows =>
       /\ HeapOK(heap)
       /\ wanted \in [As -> V] /\ pending \in [As -> V]
       /\ \A a \in As \ raced : Explained(heap.val[a]["left"], wanted[a])
       /\ \A a \in As \ raced : pending[a] # NoValue => pending[a] = wanted[a]

(* The states of the property are those of a followed reference. *)
LEMMA FollowsFollowed ==
  ASSUME shape \in Shapes, Follows
  PROVE  Followed(shape.left)
BY ObjectsAssumption DEF Follows, Followed

(* Nothing is given and nothing is pending at first. *)
LEMMA InvInit ==
  ASSUME Init
  PROVE  Inv
<1> DEFINE row == [f \in Names |-> NoValue]
           row2 == [f \in Names |-> FALSE]
<1>1. NoValue \in V /\ NoValue \in Conts
  BY DEF V, Conts
<1>2. DOMAIN heap = {"val", "flag", "cont", "thrown"} /\ heap.thrown = FALSE
      /\ heap.val = [o \in Objs |-> row] /\ heap.cont = [o \in Objs |-> NoValue]
  BY DEF Init, NewHeap
<1>3. row \in [Names -> V]
  BY <1>1
<1>4. HeapOK(heap)
  <2> HIDE DEF row, V, Conts
  <2> QED BY <1>1, <1>2, <1>3 DEF HeapOK
<1>5. wanted \in [As -> V] /\ pending \in [As -> V]
  <2> HIDE DEF V
  <2> QED BY <1>1 DEF Init
<1>6. \A a \in As : heap.val[a]["left"] = NoValue /\ wanted[a] = NoValue /\ pending[a] = NoValue
  BY <1>2 DEF Init, Objs, Names
<1>7. shape \in Shapes
  BY DEF Init
<1> HIDE DEF row, V, Conts
<1> QED BY <1>4, <1>5, <1>6, <1>7 DEF Inv, Explained

(* A value that is given replaces the one before, raced or not. *)
LEMMA Gives ==
  ASSUME Inv, Follows, shape' = shape, pending' = pending, NEW o \in As, NEW s \in V, Given(o, s),
         HeapOK(heap'),
         \A a \in As : heap'.val[a]["left"] = IF a = o THEN s ELSE heap.val[a]["left"]
  PROVE  Inv'
<1>1. shape' \in Shapes /\ Follows'
  BY DEF Inv, Follows
<1>2. wanted' = [wanted EXCEPT ![o] = s] /\ wanted \in [As -> V] /\ pending \in [As -> V]
  BY DEF Given, Inv
<1>3. wanted' \in [As -> V] /\ pending' \in [As -> V]
  <2> HIDE DEF V
  <2> QED BY <1>2
<1>4. raced' \cup {o} = raced \cup {o} /\ (pending[o] # NoValue => o \in raced')
  BY DEF Given
<1>5. ASSUME NEW a \in As \ raced'
      PROVE  /\ Explained(heap'.val[a]["left"], wanted'[a])
             /\ pending'[a] # NoValue => pending'[a] = wanted'[a]
  <2>1. CASE a = o
    BY <2>1, <1>2, <1>4, <1>5 DEF Explained
  <2>2. CASE a # o
    <3>1. a \in As \ raced /\ wanted'[a] = wanted[a] /\ heap'.val[a]["left"] = heap.val[a]["left"]
      BY <2>2, <1>2, <1>4, <1>5
    <3> QED BY <3>1 DEF Inv
  <2> QED BY <2>1, <2>2
<1>6. HeapOK(heap)'
  BY DEF HeapOK
<1> QED BY <1>1, <1>3, <1>5, <1>6 DEF Inv

(* A step that changes nothing of this keeps it. *)
LEMMA StutterKeeps ==
  ASSUME Inv, shape' = shape, heap' = heap, pending' = pending, wanted' = wanted, raced' = raced
  PROVE  Inv'
BY DEF Inv, Follows, HeapOK, Explained

(* Nothing is said of the other references. *)
LEMMA NotFollowed ==
  ASSUME Inv, ~Follows, shape' = shape
  PROVE  Inv'
BY DEF Inv, Follows

(* Every call of an accessor keeps the invariant. *)
LEMMA CallKeeps ==
  ASSUME Inv, Follows, Call
  PROVE  Inv'
<1>1. PICK op \in Operations :
        /\ heap' = Apply(lang, op, heap)
        /\ IF op.feature = "left" /\ op.name \in {"set", "unset", "eset", "eunset"}
           THEN Given(op.object, op.value) ELSE UNCHANGED <<wanted, raced>>
        /\ shape' = shape /\ pending' = pending
  BY DEF Call
<1>2. Followed(shape.left) /\ HeapOK(heap)
  BY FollowsFollowed DEF Inv
<1>3. op.feature \in {"left", "other"} /\ op.object \in As /\ op.value \in V
      /\ op.name \in {"set", "unset", "eset", "eunset", "read"}
  BY <1>2, OperationFacts
<1>4. shape' \in Shapes /\ Follows'
  BY <1>1 DEF Inv, Follows
<1>5. CASE op.feature = "left" /\ op.name # "read"
  <2>1. Given(op.object, op.value)
    BY <1>1, <1>3, <1>5
  <2>2. HeapOK(heap')
        /\ \A a \in As : heap'.val[a]["left"]
             = IF a = op.object THEN op.value ELSE heap.val[a]["left"]
    BY <1>1, <1>2, <1>5, ApplyLeft
  <2> QED BY <1>1, <1>3, <2>1, <2>2, Gives
<1>6. CASE op.feature = "left" /\ op.name = "read"
  <2>1. HeapOK(heap')
        /\ \A a \in As : Explained(heap'.val[a]["left"], heap.val[a]["left"])
    BY <1>1, <1>2, <1>6, ApplyRead
  <2>2. wanted' = wanted /\ raced' = raced
    BY <1>1, <1>6
  <2>3. ASSUME NEW a \in As \ raced
        PROVE  Explained(heap'.val[a]["left"], wanted[a])
    <3> DEFINE v == heap.val[a]["left"]
               u == heap'.val[a]["left"]
    <3>1. Explained(v, wanted[a])
      BY DEF Inv
    <3>2. CASE u = v
      BY <3>1, <3>2
    <3>3. CASE u # v
      <4>1. PICK b \in Bs : v = <<b>> /\ u = <<Resolved[b]>>
        BY <2>1, <3>3 DEF Explained
      <4>2. CASE wanted[a] = v
        BY <4>1, <4>2 DEF Explained
      <4>3. CASE wanted[a] # v
        <5>1. PICK c \in Bs : wanted[a] = <<c>> /\ v = <<Resolved[c]>>
          BY <3>1, <4>3 DEF Explained
        <5>2. v[1] = b /\ v[1] = Resolved[c]
          BY <4>1, <5>1
        <5>3. Resolved[b] = Resolved[c]
          BY <5>2, ObjectsAssumption
        <5> QED BY <4>1, <5>1, <5>3 DEF Explained
      <4> QED BY <4>2, <4>3
    <3> QED BY <3>2, <3>3
  <2>4. HeapOK(heap)'
    BY <2>1 DEF HeapOK
  <2> QED BY <1>1, <1>4, <2>2, <2>3, <2>4 DEF Inv
<1>7. CASE op.feature = "other"
  <2>1. HeapOK(heap') /\ KeepsLeft(heap', heap)
    BY <1>1, <1>2, <1>7, ApplyOther
  <2>2. wanted' = wanted /\ raced' = raced
    BY <1>1, <1>7
  <2>3. \A a \in As \ raced : Explained(heap'.val[a]["left"], wanted[a])
    BY <2>1 DEF Inv, KeepsLeft
  <2>4. HeapOK(heap)'
    BY <2>1 DEF HeapOK
  <2> QED BY <1>1, <1>4, <2>2, <2>3, <2>4 DEF Inv
<1> QED BY <1>3, <1>5, <1>6, <1>7

(* So does the setter of TypeScript for a read-only reference. *)
LEMMA SimpleSetKeeps ==
  ASSUME Inv, Follows, CallSimpleSet
  PROVE  Inv'
<1>1. PICK f \in Names : \E o \in Owners(f), s \in Values(f) :
        /\ Has(f) /\ TSHasSimpleSet(Feature(f))
        /\ heap' = SimpleSet(heap, o, f, s)
        /\ IF f = "left" THEN Given(o, s) ELSE UNCHANGED <<wanted, raced>>
        /\ shape' = shape /\ pending' = pending
  BY DEF CallSimpleSet
<1>2. Followed(shape.left) /\ HeapOK(heap)
  BY FollowsFollowed DEF Inv
<1>3. f = "left"
  <2>1. ~TSHasSimpleSet(Feature("other"))
    BY OtherFacts DEF Feature, TSHasSimpleSet
  <2>2. ~Has("right")
    BY <1>2, FollowedFacts DEF Has, IsBidirectional
  <2> QED BY <1>1, <2>1, <2>2 DEF Names
<1>4. PICK o \in As, s \in V : heap' = SimpleSet(heap, o, "left", s) /\ Given(o, s)
  BY <1>1, <1>3 DEF Owners, Values, Targets, V
<1>5. heap' = Put(heap, o, "left", s)
  BY <1>2, <1>4, FollowedSimpleSet DEF SimpleSet, Feature
<1>6. o \in Objs /\ As \subseteq Objs /\ "left" \in Names
  BY DEF Objs, Names
<1>7. HeapOK(heap')
      /\ \A a \in As : heap'.val[a]["left"] = IF a = o THEN s ELSE heap.val[a]["left"]
  BY <1>2, <1>5, <1>6, PutFacts
<1> QED BY <1>1, <1>4, <1>7, Gives

(* A resolution starts from what was given: what resolves further is no resolution. *)
LEMMA StartAsyncKeeps ==
  ASSUME Inv, Follows, NEW a \in As, StartAsync(a)
  PROVE  Inv'
<1> DEFINE v == heap.val[a]["left"]
<1>1. v # NoValue /\ Resolved[v[1]] # v[1] /\ pending' = [pending EXCEPT ![a] = v]
      /\ shape' = shape /\ heap' = heap /\ wanted' = wanted /\ raced' = raced
  BY DEF StartAsync
<1>2. v \in V
  BY DEF Inv, HeapOK, Objs, Names
<1>3. pending' \in [As -> V]
  <2> HIDE DEF V, v
  <2> QED BY <1>1, <1>2 DEF Inv
<1>4. ASSUME a \notin raced
      PROVE  wanted[a] = v
  <2>1. Explained(v, wanted[a])
    BY <1>4 DEF Inv
  <2>2. SUFFICES ASSUME wanted[a] # v
                 PROVE  FALSE
    OBVIOUS
  <2>3. PICK c \in Bs : v = <<Resolved[c]>>
    BY <2>1, <2>2 DEF Explained
  <2>4. v[1] = Resolved[c]
    BY <2>3
  <2> QED BY <1>1, <2>4, ObjectsAssumption
<1>5. \A b \in As \ raced : pending'[b] # NoValue => pending'[b] = wanted[b]
  <2> HIDE DEF v
  <2> QED BY <1>1, <1>4 DEF Inv
<1>6. HeapOK(heap)'
  BY <1>1 DEF Inv, HeapOK
<1> HIDE DEF v
<1> QED BY <1>1, <1>3, <1>5, <1>6 DEF Inv, Follows

(* A resolution that ends outside a race assigns what the given proxy resolves to. *)
LEMMA EndAsyncKeeps ==
  ASSUME Inv, Follows, NEW a \in As, EndAsync(a)
  PROVE  Inv'
<1>1. pending[a] # NoValue /\ heap' = Put(heap, a, "left", <<Resolved[pending[a][1]]>>)
      /\ pending' = [pending EXCEPT ![a] = NoValue]
      /\ shape' = shape /\ wanted' = wanted /\ raced' = raced
  BY DEF EndAsync
<1>2. PICK b \in Bs : pending[a] = <<b>>
  BY <1>1 DEF Inv, V
<1> DEFINE w == <<Resolved[b]>>
<1>3. w \in V
  BY ObjectsAssumption DEF V
<1>4. heap' = Put(heap, a, "left", w)
  <2>1. pending[a][1] = b
    BY <1>2
  <2> QED BY <1>1, <2>1
<1>5. a \in Objs /\ As \subseteq Objs /\ "left" \in Names /\ HeapOK(heap)
  BY DEF Objs, Names, Inv
<1>6. HeapOK(heap')
      /\ \A o \in As : heap'.val[o]["left"] = IF o = a THEN w ELSE heap.val[o]["left"]
  <2> HIDE DEF w
  <2> QED BY <1>3, <1>4, <1>5, PutFacts
<1>7. a \notin raced => Explained(w, wanted[a])
  BY <1>1, <1>2 DEF Inv, Explained
<1>8. \A o \in As \ raced : Explained(heap'.val[o]["left"], wanted[o])
  <2> HIDE DEF w
  <2> QED BY <1>6, <1>7 DEF Inv
<1>9. pending' \in [As -> V]
      /\ \A o \in As \ raced : pending'[o] # NoValue => pending'[o] = wanted[o]
  <2>1. NoValue \in V
    BY DEF V
  <2> HIDE DEF V
  <2> QED BY <1>1, <2>1 DEF Inv
<1>10. HeapOK(heap)'
  BY <1>6 DEF HeapOK
<1> HIDE DEF w
<1> QED BY <1>1, <1>8, <1>9, <1>10 DEF Inv, Follows

(* The elements of nothing and of one value. *)
LEMMA ElementsFacts == Elements(NoValue) = {} /\ \A b : Elements(<<b>>) = {b}
BY DEF Elements, NoValue

(* The invariant is the property, with what makes it inductive. *)
LEMMA InvImplies ==
  ASSUME Inv
  PROVE  LateResolution
<1> SUFFICES ASSUME Follows, NEW a \in As \ raced
             PROVE  Elements(heap.val[a].left)
                      \in {Elements(wanted[a]), {Resolved[b] : b \in Elements(wanted[a])}}
  BY DEF LateResolution
<1>1. Explained(heap.val[a].left, wanted[a])
  BY DEF Inv
<1>2. CASE heap.val[a].left = wanted[a]
  BY <1>2
<1>3. CASE heap.val[a].left # wanted[a]
  <2>1. PICK b \in Bs : wanted[a] = <<b>> /\ heap.val[a].left = <<Resolved[b]>>
    BY <1>1, <1>3 DEF Explained
  <2>2. Elements(wanted[a]) = {b} /\ Elements(heap.val[a].left) = {Resolved[b]}
    BY <2>1, ElementsFacts
  <2> QED BY <2>2
<1> QED BY <1>2, <1>3

(* Every step keeps the invariant of the followed reference. *)
LEMMA NextKeeps ==
  ASSUME Inv, [Next]_vars
  PROVE  Inv'
<1>1. CASE Follows
  <2>1. CASE Call
    BY <1>1, <2>1, CallKeeps
  <2>2. CASE CallSimpleSet
    BY <1>1, <2>2, SimpleSetKeeps
  <2>3. ASSUME NEW a \in As, StartAsync(a)
        PROVE  Inv'
    BY <1>1, <2>3, StartAsyncKeeps
  <2>4. ASSUME NEW a \in As, EndAsync(a)
        PROVE  Inv'
    BY <1>1, <2>4, EndAsyncKeeps
  <2>5. CASE UNCHANGED vars
    BY <2>5, StutterKeeps DEF vars
  <2> QED BY <2>1, <2>2, <2>3, <2>4, <2>5 DEF Next
<1>2. CASE ~Follows
  <2>1. shape' = shape
    BY DEF Next, Call, CallSimpleSet, StartAsync, EndAsync, vars
  <2> QED BY <1>2, <2>1, NotFollowed
<1> QED BY <1>1, <1>2

(***************************************************************************)
(* LateResolution: the asynchronous getter of TypeScript assigns the field *)
(* when the resolution is there (feature/getterasync.tmpl), without a look *)
(* at what the field holds by then.  Whatever the shape, the objects and   *)
(* the resolutions, only a reference that was given while a resolution was *)
(* pending can hold anything but what was given or what that resolves to.  *)
(***************************************************************************)
THEOREM OnlyRacesResolveLate == Spec => []LateResolution
<1>1. Init => Inv
  BY InvInit
<1>2. Inv /\ [Next]_vars => Inv'
  BY NextKeeps
<1> QED BY <1>1, <1>2, InvImplies, PTL DEF Spec

(* A switch of three rows whose last one is taken when none before is. *)
LEMMA ThreeRows ==
  ASSUME NEW rows, DOMAIN rows \subseteq Nat \ {0}, {1, 2, 3} \subseteq DOMAIN rows, rows[3][1]
  PROVE  FirstOf(rows) =
           IF rows[1][1] THEN rows[1][2] ELSE
           IF rows[2][1] THEN rows[2][2] ELSE
           rows[3][2]
<1>1. \A j \in 1 .. (1 - 1) : ~rows[j][1]
  OBVIOUS
<1>2. 1 \in DOMAIN rows /\ 2 \in DOMAIN rows /\ 3 \in DOMAIN rows
  OBVIOUS
<1> QED BY <1>1, <1>2, FirstRow, SecondRow, ThirdRow

(* A switch of four rows whose last one is taken when none before is. *)
LEMMA FourRows ==
  ASSUME NEW rows, DOMAIN rows \subseteq Nat \ {0}, {1, 2, 3, 4} \subseteq DOMAIN rows, rows[4][1]
  PROVE  FirstOf(rows) =
           IF rows[1][1] THEN rows[1][2] ELSE
           IF rows[2][1] THEN rows[2][2] ELSE
           IF rows[3][1] THEN rows[3][2] ELSE
           rows[4][2]
<1>1. \A j \in 1 .. (1 - 1) : ~rows[j][1]
  OBVIOUS
<1>2. 1 \in DOMAIN rows /\ 2 \in DOMAIN rows /\ 3 \in DOMAIN rows /\ 4 \in DOMAIN rows
  OBVIOUS
<1> QED BY <1>1, <1>2, FirstRow, SecondRow, ThirdRow, FourthRow

(* A switch of five rows whose last one is taken when none before is. *)
LEMMA FiveRows ==
  ASSUME NEW rows, DOMAIN rows \subseteq Nat \ {0}, {1, 2, 3, 4, 5} \subseteq DOMAIN rows, rows[5][1]
  PROVE  FirstOf(rows) =
           IF rows[1][1] THEN rows[1][2] ELSE
           IF rows[2][1] THEN rows[2][2] ELSE
           IF rows[3][1] THEN rows[3][2] ELSE
           IF rows[4][1] THEN rows[4][2] ELSE
           rows[5][2]
<1>1. \A j \in 1 .. (1 - 1) : ~rows[j][1]
  OBVIOUS
<1>2. 1 \in DOMAIN rows /\ 2 \in DOMAIN rows /\ 3 \in DOMAIN rows /\ 4 \in DOMAIN rows /\ 5 \in DOMAIN rows
  OBVIOUS
<1> QED BY <1>1, <1>2, FirstRow, SecondRow, ThirdRow, FourthRow, FifthRow

(* A switch of six rows whose last one is taken when none before is. *)
LEMMA SixRows ==
  ASSUME NEW rows, DOMAIN rows \subseteq Nat \ {0}, {1, 2, 3, 4, 5, 6} \subseteq DOMAIN rows, rows[6][1]
  PROVE  FirstOf(rows) =
           IF rows[1][1] THEN rows[1][2] ELSE
           IF rows[2][1] THEN rows[2][2] ELSE
           IF rows[3][1] THEN rows[3][2] ELSE
           IF rows[4][1] THEN rows[4][2] ELSE
           IF rows[5][1] THEN rows[5][2] ELSE
           rows[6][2]
<1>1. \A j \in 1 .. (1 - 1) : ~rows[j][1]
  OBVIOUS
<1>2. 1 \in DOMAIN rows /\ 2 \in DOMAIN rows /\ 3 \in DOMAIN rows /\ 4 \in DOMAIN rows /\ 5 \in DOMAIN rows /\ 6 \in DOMAIN rows
  OBVIOUS
<1> QED BY <1>1, <1>2, FirstRow, SecondRow, ThirdRow, FourthRow, FifthRow, SixthRow

(* A switch of seven rows whose last one is taken when none before is. *)
LEMMA SevenRows ==
  ASSUME NEW rows, DOMAIN rows \subseteq Nat \ {0}, {1, 2, 3, 4, 5, 6, 7} \subseteq DOMAIN rows, rows[7][1]
  PROVE  FirstOf(rows) =
           IF rows[1][1] THEN rows[1][2] ELSE
           IF rows[2][1] THEN rows[2][2] ELSE
           IF rows[3][1] THEN rows[3][2] ELSE
           IF rows[4][1] THEN rows[4][2] ELSE
           IF rows[5][1] THEN rows[5][2] ELSE
           IF rows[6][1] THEN rows[6][2] ELSE
           rows[7][2]
<1>1. \A j \in 1 .. (1 - 1) : ~rows[j][1]
  OBVIOUS
<1>2. 1 \in DOMAIN rows /\ 2 \in DOMAIN rows /\ 3 \in DOMAIN rows /\ 4 \in DOMAIN rows /\ 5 \in DOMAIN rows /\ 6 \in DOMAIN rows /\ 7 \in DOMAIN rows
  OBVIOUS
<1> QED BY <1>1, <1>2, FirstRow, SecondRow, ThirdRow, FourthRow, FifthRow, SixthRow, SeventhRow

(* A switch of eight rows whose last one is taken when none before is. *)
LEMMA EightRows ==
  ASSUME NEW rows, DOMAIN rows \subseteq Nat \ {0}, {1, 2, 3, 4, 5, 6, 7, 8} \subseteq DOMAIN rows, rows[8][1]
  PROVE  FirstOf(rows) =
           IF rows[1][1] THEN rows[1][2] ELSE
           IF rows[2][1] THEN rows[2][2] ELSE
           IF rows[3][1] THEN rows[3][2] ELSE
           IF rows[4][1] THEN rows[4][2] ELSE
           IF rows[5][1] THEN rows[5][2] ELSE
           IF rows[6][1] THEN rows[6][2] ELSE
           IF rows[7][1] THEN rows[7][2] ELSE
           rows[8][2]
<1>1. \A j \in 1 .. (1 - 1) : ~rows[j][1]
  OBVIOUS
<1>2. 1 \in DOMAIN rows /\ 2 \in DOMAIN rows /\ 3 \in DOMAIN rows /\ 4 \in DOMAIN rows /\ 5 \in DOMAIN rows /\ 6 \in DOMAIN rows /\ 7 \in DOMAIN rows /\ 8 \in DOMAIN rows
  OBVIOUS
<1> QED BY <1>1, <1>2, FirstRow, SecondRow, ThirdRow, FourthRow, FifthRow, SixthRow, SeventhRow, EighthRow

(***************************************************************************)
(* The variants of a single reference.                                     *)
(***************************************************************************)

SingleReference(f) == f \in AllFeatures /\ Valid(f) /\ ~f.volatile /\ f.kind = "reference" /\ ~f.many

(* A single reference is no map, and its flag goes with its unsetter. *)
LEMMA SingleFacts ==
  ASSUME NEW f, SingleReference(f)
  PROVE  /\ ~f.volatile /\ ~f.many /\ ~f.map /\ IsReference(f)
         /\ HasUnset(f) => HasESet(f) /\ ~IsContainer(f)
         /\ IsProxy(f) => ~IsContainer(f) /\ ~f.containment
         /\ IsContainer(f) => IsBidirectional(f) /\ ~f.containment
         /\ HasESet(f) => ~IsContainer(f)
         /\ HasESet(f) /\ f.changeable => HasUnset(f)
BY DEF SingleReference, AllFeatures, Valid, IsReference, IsContainer, IsUnsettable, IsField, HasESet,
       HasUnset, IsProxy, IsBidirectional

(* The setter tells the other end, or the container. *)
LEMMA SingleSetter ==
  ASSUME NEW f, SingleReference(f)
  PROVE  GoSetter(f, FALSE) = IF IsContainer(f) THEN "container"
                               ELSE IF IsBidirectional(f) \/ f.containment THEN "inverse" ELSE "field"
<1> DEFINE rows == << <<FALSE, "reflective">>,
                     <<f.volatile, BodyOr(f, "panic")>>,
                     <<IsContainer(f), "container">>,
                     <<IsBidirectional(f) \/ f.containment, "inverse">>,
                     <<TRUE, "field">> >>
<1>1. DOMAIN rows \subseteq Nat \ {0} /\ {1, 2, 3, 4, 5} \subseteq DOMAIN rows /\ rows[5][1]
  OBVIOUS
<1>2. FirstOf(rows) =
        IF rows[1][1] THEN rows[1][2] ELSE
        IF rows[2][1] THEN rows[2][2] ELSE
        IF rows[3][1] THEN rows[3][2] ELSE
        IF rows[4][1] THEN rows[4][2] ELSE
        rows[5][2]
  <2> HIDE DEF rows
  <2> QED BY <1>1, FiveRows
<1>3. GoSetter(f, FALSE) = FirstOf(rows)
  BY DEF GoSetter
<1> QED BY <1>2, <1>3, SingleFacts

(* The basic setter sets the field or the container. *)
LEMMA SingleBasicSetter ==
  ASSUME NEW f, SingleReference(f)
  PROVE  GoBasicSetter(f) = IF IsContainer(f) THEN "container" ELSE "field"
<1> DEFINE rows == << <<IsContainer(f), "container">>,
                     <<~f.volatile, "field">>,
                     <<TRUE, BodyOr(f, "panic")>> >>
<1>1. DOMAIN rows \subseteq Nat \ {0} /\ {1, 2, 3} \subseteq DOMAIN rows /\ rows[3][1]
  OBVIOUS
<1>2. FirstOf(rows) =
        IF rows[1][1] THEN rows[1][2] ELSE
        IF rows[2][1] THEN rows[2][2] ELSE
        rows[3][2]
  <2> HIDE DEF rows
  <2> QED BY <1>1, ThreeRows
<1>3. GoBasicSetter(f) = FirstOf(rows)
  BY DEF GoBasicSetter
<1> QED BY <1>2, <1>3, SingleFacts

(* The unsetter tells the other end, in Go *)
LEMMA SingleUnsetter ==
  ASSUME NEW f, SingleReference(f)
  PROVE  GoUnsetter(f, FALSE) = IF IsBidirectional(f) \/ f.containment THEN "inverse" ELSE "field"
<1> DEFINE rows == << <<FALSE, "reflective">>,
                     <<f.volatile, BodyOr(f, "panic")>>,
                     <<f.many, "list">>,
                     <<IsBidirectional(f) \/ f.containment, "inverse">>,
                     <<TRUE, "field">> >>
<1>1. DOMAIN rows \subseteq Nat \ {0} /\ {1, 2, 3, 4, 5} \subseteq DOMAIN rows /\ rows[5][1]
  OBVIOUS
<1>2. FirstOf(rows) =
        IF rows[1][1] THEN rows[1][2] ELSE
        IF rows[2][1] THEN rows[2][2] ELSE
        IF rows[3][1] THEN rows[3][2] ELSE
        IF rows[4][1] THEN rows[4][2] ELSE
        rows[5][2]
  <2> HIDE DEF rows
  <2> QED BY <1>1, FiveRows
<1>3. GoUnsetter(f, FALSE) = FirstOf(rows)
  BY DEF GoUnsetter
<1> QED BY <1>2, <1>3, SingleFacts

(* and in TypeScript. *)
LEMMA SingleTSUnsetter ==
  ASSUME NEW f, SingleReference(f)
  PROVE  TSUnsetter(f, FALSE) = IF IsBidirectional(f) \/ f.containment THEN "inverse" ELSE "field"
<1> DEFINE rows == << <<FALSE, "reflective">>,
                     <<f.volatile, BodyOr(f, "panic")>>,
                     <<f.many /\ f.lazy = "function", "lazylist">>,
                     <<f.many, "list">>,
                     <<IsBidirectional(f) \/ f.containment, "inverse">>,
                     <<TRUE, "field">> >>
<1>1. DOMAIN rows \subseteq Nat \ {0} /\ {1, 2, 3, 4, 5, 6} \subseteq DOMAIN rows /\ rows[6][1]
  OBVIOUS
<1>2. FirstOf(rows) =
        IF rows[1][1] THEN rows[1][2] ELSE
        IF rows[2][1] THEN rows[2][2] ELSE
        IF rows[3][1] THEN rows[3][2] ELSE
        IF rows[4][1] THEN rows[4][2] ELSE
        IF rows[5][1] THEN rows[5][2] ELSE
        rows[6][2]
  <2> HIDE DEF rows
  <2> QED BY <1>1, SixRows
<1>3. TSUnsetter(f, FALSE) = FirstOf(rows)
  BY DEF TSUnsetter
<1> QED BY <1>2, <1>3, SingleFacts

(* ESet calls the setter, in Go *)
LEMMA SingleESet ==
  ASSUME NEW f, SingleReference(f)
  PROVE  GoESet(f) = "reference"
<1> DEFINE rows == << <<f.map, "map">>,
                     <<f.many, "list">>,
                     <<IsReference(f), "reference">>,
                     <<TRUE, "attribute">> >>
<1>1. DOMAIN rows \subseteq Nat \ {0} /\ {1, 2, 3, 4} \subseteq DOMAIN rows /\ rows[4][1]
  OBVIOUS
<1>2. FirstOf(rows) =
        IF rows[1][1] THEN rows[1][2] ELSE
        IF rows[2][1] THEN rows[2][2] ELSE
        IF rows[3][1] THEN rows[3][2] ELSE
        rows[4][2]
  <2> HIDE DEF rows
  <2> QED BY <1>1, FourRows
<1>3. GoESet(f) = FirstOf(rows)
  BY DEF GoESet
<1> QED BY <1>2, <1>3, SingleFacts

(* and in TypeScript. *)
LEMMA SingleTSESet ==
  ASSUME NEW f, SingleReference(f)
  PROVE  TSESet(f) = "set"
<1> DEFINE rows == << <<f.map, "map">>,
                     <<f.many, "list">>,
                     <<TRUE, "set">> >>
<1>1. DOMAIN rows \subseteq Nat \ {0} /\ {1, 2, 3} \subseteq DOMAIN rows /\ rows[3][1]
  OBVIOUS
<1>2. FirstOf(rows) =
        IF rows[1][1] THEN rows[1][2] ELSE
        IF rows[2][1] THEN rows[2][2] ELSE
        rows[3][2]
  <2> HIDE DEF rows
  <2> QED BY <1>1, ThreeRows
<1>3. TSESet(f) = FirstOf(rows)
  BY DEF TSESet
<1> QED BY <1>2, <1>3, SingleFacts

(* EUnset calls the unsetter when there is one, in Go *)
LEMMA SingleEUnset ==
  ASSUME NEW f, SingleReference(f)
  PROVE  GoEUnset(f) = IF HasUnset(f) THEN "unset" ELSE "set"
<1> DEFINE rows == << <<f.many /\ ~IsUnsettable(f), "clear">>,
                     <<HasUnset(f), "unset">>,
                     <<TRUE, "set">> >>
<1>1. DOMAIN rows \subseteq Nat \ {0} /\ {1, 2, 3} \subseteq DOMAIN rows /\ rows[3][1]
  OBVIOUS
<1>2. FirstOf(rows) =
        IF rows[1][1] THEN rows[1][2] ELSE
        IF rows[2][1] THEN rows[2][2] ELSE
        rows[3][2]
  <2> HIDE DEF rows
  <2> QED BY <1>1, ThreeRows
<1>3. GoEUnset(f) = FirstOf(rows)
  BY DEF GoEUnset
<1> QED BY <1>2, <1>3, SingleFacts

(* and in TypeScript. *)
LEMMA SingleTSEUnset ==
  ASSUME NEW f, SingleReference(f)
  PROVE  TSEUnset(f) = IF HasUnset(f) THEN "unset" ELSE "set"
<1> DEFINE rows == << <<f.many /\ ~IsUnsettable(f), "clear">>,
                     <<HasUnset(f) /\ (~f.property \/ HasESet(f)), "unset">>,
                     <<TRUE, "set">> >>
<1>1. DOMAIN rows \subseteq Nat \ {0} /\ {1, 2, 3} \subseteq DOMAIN rows /\ rows[3][1]
  OBVIOUS
<1>2. FirstOf(rows) =
        IF rows[1][1] THEN rows[1][2] ELSE
        IF rows[2][1] THEN rows[2][2] ELSE
        rows[3][2]
  <2> HIDE DEF rows
  <2> QED BY <1>1, ThreeRows
<1>3. TSEUnset(f) = FirstOf(rows)
  BY DEF TSEUnset
<1> QED BY <1>2, <1>3, SingleFacts

(* EIsSet reads the flag when there is one. *)
LEMMA SingleComparison ==
  ASSUME NEW f, SingleReference(f)
  PROVE  GoComparison(f) = IF HasESet(f) THEN "flag" ELSE IF IsContainer(f) THEN "nonnil" ELSE "default"
<1> DEFINE rows == << <<HasESet(f), "flag">>,
                     <<f.many, "nonempty">>,
                     <<IsContainer(f), "nonnil">>,
                     <<TRUE, "default">> >>
<1>1. DOMAIN rows \subseteq Nat \ {0} /\ {1, 2, 3, 4} \subseteq DOMAIN rows /\ rows[4][1]
  OBVIOUS
<1>2. FirstOf(rows) =
        IF rows[1][1] THEN rows[1][2] ELSE
        IF rows[2][1] THEN rows[2][2] ELSE
        IF rows[3][1] THEN rows[3][2] ELSE
        rows[4][2]
  <2> HIDE DEF rows
  <2> QED BY <1>1, FourRows
<1>3. GoComparison(f) = FirstOf(rows)
  BY DEF GoComparison
<1> QED BY <1>2, <1>3, SingleFacts

(* What joins is set, or becomes the container. *)
LEMMA SingleInverseAdd ==
  ASSUME NEW f, SingleReference(f)
  PROVE  GoInverseAdd(f) = IF ~IsContainer(f) THEN "single"
                             ELSE IF HasBasicSet(f) THEN "containerbasic" ELSE "containerset"
<1> DEFINE rows == << <<f.map, "map">>,
                     <<f.many, "list">>,
                     <<IsContainer(f) /\ HasBasicSet(f), "containerbasic">>,
                     <<IsContainer(f), "containerset">>,
                     <<TRUE, "single">> >>
<1>1. DOMAIN rows \subseteq Nat \ {0} /\ {1, 2, 3, 4, 5} \subseteq DOMAIN rows /\ rows[5][1]
  OBVIOUS
<1>2. FirstOf(rows) =
        IF rows[1][1] THEN rows[1][2] ELSE
        IF rows[2][1] THEN rows[2][2] ELSE
        IF rows[3][1] THEN rows[3][2] ELSE
        IF rows[4][1] THEN rows[4][2] ELSE
        rows[5][2]
  <2> HIDE DEF rows
  <2> QED BY <1>1, FiveRows
<1>3. GoInverseAdd(f) = FirstOf(rows)
  BY DEF GoInverseAdd
<1> QED BY <1>2, <1>3, SingleFacts

(* What leaves is unset, or no container any more. *)
LEMMA SingleInverseRemove ==
  ASSUME NEW f, SingleReference(f)
  PROVE  GoInverseRemove(f) = IF IsContainer(f) THEN IF HasBasicSet(f) THEN "set" ELSE "container"
                                ELSE IF HasUnset(f) THEN "unset" ELSE "set"
<1> DEFINE rows == << <<f.map, "map">>,
                     <<f.many, "list">>,
                     <<IsContainer(f) /\ ~HasBasicSet(f), "container">>,
                     <<HasUnset(f), "unset">>,
                     <<TRUE, "set">> >>
<1>1. DOMAIN rows \subseteq Nat \ {0} /\ {1, 2, 3, 4, 5} \subseteq DOMAIN rows /\ rows[5][1]
  OBVIOUS
<1>2. FirstOf(rows) =
        IF rows[1][1] THEN rows[1][2] ELSE
        IF rows[2][1] THEN rows[2][2] ELSE
        IF rows[3][1] THEN rows[3][2] ELSE
        IF rows[4][1] THEN rows[4][2] ELSE
        rows[5][2]
  <2> HIDE DEF rows
  <2> QED BY <1>1, FiveRows
<1>3. GoInverseRemove(f) = FirstOf(rows)
  BY DEF GoInverseRemove
<1> QED BY <1>2, <1>3, SingleFacts

(* A lazy mode reads the field, whichever it is. *)
LEMMA LazyIsNoProxy ==
  ASSUME NEW f
  PROVE  LazyVariant(f) \notin {"proxy", "panic"}
<1> DEFINE rows == << <<f.lazy = "function", "lazyfunction">>,
                     <<f.lazy = "action", "lazyaction">>,
                     <<TRUE, "field">> >>
<1>1. DOMAIN rows \subseteq Nat \ {0} /\ {1, 2, 3} \subseteq DOMAIN rows /\ rows[3][1]
  OBVIOUS
<1>2. FirstOf(rows) =
        IF rows[1][1] THEN rows[1][2] ELSE
        IF rows[2][1] THEN rows[2][2] ELSE
        rows[3][2]
  <2> HIDE DEF rows
  <2> QED BY <1>1, ThreeRows
<1>3. LazyVariant(f) = FirstOf(rows)
  BY DEF LazyVariant
<1> QED BY <1>2, <1>3

(* The getter of a proxy resolves it, in Go *)
LEMMA SingleGetter ==
  ASSUME NEW f, SingleReference(f)
  PROVE  GoGetter(f, FALSE) = "proxy" <=> IsProxy(f)
<1> DEFINE rows == << <<FALSE, "reflective">>,
                     <<IsContainer(f), "container">>,
                     <<f.volatile, BodyOr(f, "panic")>>,
                     <<~f.many /\ IsProxy(f), "proxy">>,
                     <<HasInitMethod(f), LazyVariant(f)>>,
                     <<f.many, "list">>,
                     <<TRUE, "field">> >>
<1>1. DOMAIN rows \subseteq Nat \ {0} /\ {1, 2, 3, 4, 5, 6, 7} \subseteq DOMAIN rows /\ rows[7][1]
  OBVIOUS
<1>2. FirstOf(rows) =
        IF rows[1][1] THEN rows[1][2] ELSE
        IF rows[2][1] THEN rows[2][2] ELSE
        IF rows[3][1] THEN rows[3][2] ELSE
        IF rows[4][1] THEN rows[4][2] ELSE
        IF rows[5][1] THEN rows[5][2] ELSE
        IF rows[6][1] THEN rows[6][2] ELSE
        rows[7][2]
  <2> HIDE DEF rows
  <2> QED BY <1>1, SevenRows
<1>3. GoGetter(f, FALSE) = FirstOf(rows)
  BY DEF GoGetter
<1> QED BY <1>2, <1>3, SingleFacts, LazyIsNoProxy

(* and in TypeScript. *)
LEMMA SingleTSGetter ==
  ASSUME NEW f, SingleReference(f)
  PROVE  TSGetter(f, FALSE) = "proxy" <=> IsProxy(f)
<1> DEFINE rows == << <<FALSE, "reflective">>,
                     <<IsContainer(f), "container">>,
                     <<f.volatile, BodyOr(f, "panic")>>,
                     <<~f.many /\ IsProxy(f), "proxy">>,
                     <<HasInitMethod(f), LazyVariant(f)>>,
                     <<f.lazy # "no", "field">>,
                     <<f.many, "list">>,
                     <<TRUE, "field">> >>
<1>1. DOMAIN rows \subseteq Nat \ {0} /\ {1, 2, 3, 4, 5, 6, 7, 8} \subseteq DOMAIN rows /\ rows[8][1]
  OBVIOUS
<1>2. FirstOf(rows) =
        IF rows[1][1] THEN rows[1][2] ELSE
        IF rows[2][1] THEN rows[2][2] ELSE
        IF rows[3][1] THEN rows[3][2] ELSE
        IF rows[4][1] THEN rows[4][2] ELSE
        IF rows[5][1] THEN rows[5][2] ELSE
        IF rows[6][1] THEN rows[6][2] ELSE
        IF rows[7][1] THEN rows[7][2] ELSE
        rows[8][2]
  <2> HIDE DEF rows
  <2> QED BY <1>1, EightRows
<1>3. TSGetter(f, FALSE) = FirstOf(rows)
  BY DEF TSGetter
<1> QED BY <1>2, <1>3, SingleFacts, LazyIsNoProxy

(* No initializer gives it a value, in Go *)
LEMMA SingleInit ==
  ASSUME NEW f, SingleReference(f)
  PROVE  GoInit(f) = IF f.lazy = "action" /\ IsProxy(f) THEN "none" ELSE "panic"
<1> DEFINE rows == << <<f.many /\ f.lazy = "action", "list">>,
                     <<f.many, "value">>,
                     <<f.lazy = "action" /\ IsProxy(f), "none">>,
                     <<~IsReference(f), "value">>,
                     <<TRUE, "panic">> >>
<1>1. DOMAIN rows \subseteq Nat \ {0} /\ {1, 2, 3, 4, 5} \subseteq DOMAIN rows /\ rows[5][1]
  OBVIOUS
<1>2. FirstOf(rows) =
        IF rows[1][1] THEN rows[1][2] ELSE
        IF rows[2][1] THEN rows[2][2] ELSE
        IF rows[3][1] THEN rows[3][2] ELSE
        IF rows[4][1] THEN rows[4][2] ELSE
        rows[5][2]
  <2> HIDE DEF rows
  <2> QED BY <1>1, FiveRows
<1>3. GoInit(f) = FirstOf(rows)
  BY DEF GoInit
<1> QED BY <1>2, <1>3, SingleFacts

(* and in TypeScript. *)
LEMMA SingleTSInit ==
  ASSUME NEW f, SingleReference(f)
  PROVE  TSInit(f) = IF f.lazy = "action" /\ IsProxy(f) THEN "none" ELSE "panic"
<1> DEFINE rows == << <<f.many, "value">>,
                     <<f.lazy = "action" /\ IsProxy(f), "none">>,
                     <<~IsReference(f), "value">>,
                     <<TRUE, "panic">> >>
<1>1. DOMAIN rows \subseteq Nat \ {0} /\ {1, 2, 3, 4} \subseteq DOMAIN rows /\ rows[4][1]
  OBVIOUS
<1>2. FirstOf(rows) =
        IF rows[1][1] THEN rows[1][2] ELSE
        IF rows[2][1] THEN rows[2][2] ELSE
        IF rows[3][1] THEN rows[3][2] ELSE
        rows[4][2]
  <2> HIDE DEF rows
  <2> QED BY <1>1, FourRows
<1>3. TSInit(f) = FirstOf(rows)
  BY DEF TSInit
<1> QED BY <1>2, <1>3, SingleFacts

(* What eBasicInverseAdd of TypeScript reads with runs an initializer of the reference only. *)
LEMMA SingleCurrentGetter ==
  ASSUME NEW f, SingleReference(f)
  PROVE  /\ TSCurrentGetter(f) # "panic"
         /\ TSCurrentGetter(f) \in {"lazyfunction", "lazyaction"} => HasInitMethod(f)
<1> DEFINE getter == << <<FALSE, "reflective">>,
                       <<IsContainer(f), "container">>,
                       <<f.volatile, BodyOr(f, "panic")>>,
                       <<~f.many /\ IsProxy(f), "proxy">>,
                       <<HasInitMethod(f), LazyVariant(f)>>,
                       <<f.lazy # "no", "field">>,
                       <<f.many, "list">>,
                       <<TRUE, "field">> >>
           basic == << <<IsContainer(f), "container">>,
                      <<f.volatile, BodyOr(f, "panic")>>,
                      <<HasInitMethod(f), LazyVariant(f)>>,
                      <<TRUE, "field">> >>
<1>1. DOMAIN getter \subseteq Nat \ {0} /\ {1, 2, 3, 4, 5, 6, 7, 8} \subseteq DOMAIN getter /\ getter[8][1]
  OBVIOUS
<1>2. FirstOf(getter) =
        IF getter[1][1] THEN getter[1][2] ELSE
        IF getter[2][1] THEN getter[2][2] ELSE
        IF getter[3][1] THEN getter[3][2] ELSE
        IF getter[4][1] THEN getter[4][2] ELSE
        IF getter[5][1] THEN getter[5][2] ELSE
        IF getter[6][1] THEN getter[6][2] ELSE
        IF getter[7][1] THEN getter[7][2] ELSE
        getter[8][2]
  <2> HIDE DEF getter
  <2> QED BY <1>1, EightRows
<1>3. TSGetter(f, FALSE) = FirstOf(getter)
  BY DEF TSGetter
<1>4. TSGetter(f, FALSE) # "panic" /\ (TSGetter(f, FALSE) \in {"lazyfunction", "lazyaction"} => HasInitMethod(f))
  BY <1>2, <1>3, SingleFacts, LazyIsNoProxy
<1>5. DOMAIN basic \subseteq Nat \ {0} /\ {1, 2, 3, 4} \subseteq DOMAIN basic /\ basic[4][1]
  OBVIOUS
<1>6. FirstOf(basic) =
        IF basic[1][1] THEN basic[1][2] ELSE
        IF basic[2][1] THEN basic[2][2] ELSE
        IF basic[3][1] THEN basic[3][2] ELSE
        basic[4][2]
  <2> HIDE DEF basic
  <2> QED BY <1>5, FourRows
<1>7. TSBasicGetter(f) = FirstOf(basic)
  BY DEF TSBasicGetter, GoBasicGetter
<1>8. TSBasicGetter(f) # "panic" /\ (TSBasicGetter(f) \in {"lazyfunction", "lazyaction"} => HasInitMethod(f))
  BY <1>6, <1>7, SingleFacts, LazyIsNoProxy
<1> QED BY <1>4, <1>8 DEF TSCurrentGetter

(* The setter of a feature without one stores. *)
LEMMA SingleSimpleSet ==
  ASSUME NEW f, SingleReference(f)
  PROVE  TSSimpleSet(f, FALSE) = "field"
<1> DEFINE rows == << <<f.many, "list">>,
                     <<FALSE, "reflective">>,
                     <<TRUE, "field">> >>
<1>1. DOMAIN rows \subseteq Nat \ {0} /\ {1, 2, 3} \subseteq DOMAIN rows /\ rows[3][1]
  OBVIOUS
<1>2. FirstOf(rows) =
        IF rows[1][1] THEN rows[1][2] ELSE
        IF rows[2][1] THEN rows[2][2] ELSE
        rows[3][2]
  <2> HIDE DEF rows
  <2> QED BY <1>1, ThreeRows
<1>3. TSSimpleSet(f, FALSE) = FirstOf(rows)
  BY DEF TSSimpleSet
<1> QED BY <1>2, <1>3, SingleFacts

(***************************************************************************)
(* The shapes whose references are single.                                 *)
(***************************************************************************)

(* A model where left is single, contained in nothing, and right is its other end. *)
SingleShape(s) ==
  /\ s.left.kind = "reference" /\ ~s.left.many /\ s.left.opposite \in {"none", "plain"}
  /\ s.left.opposite = "plain" =>
       /\ s.right.kind = "reference" /\ ~s.right.many /\ ~s.right.containment
       /\ s.right.opposite = IF s.left.containment THEN "containment" ELSE "plain"

Singles == shape \in Shapes /\ SingleShape(shape)

(* The containments, and the id that an object they hold has for its container. *)
Holds(f) == f \in {"left", "other"} /\ Has(f) /\ Feature(f).containment
Key(f) == IF f = "left" /\ Has("right") THEN "right" ELSE Base[f]

(* Two ends of which none is a container. *)
Plain == Has("right") /\ ~shape.left.containment

(* What the features of such a shape are. *)
LEMMA ShapeFacts ==
  ASSUME Singles
  PROVE  /\ \A f \in Names : Has(f) => SingleReference(Feature(f))
         /\ Has("left")
         /\ ~IsContainer(Feature("left")) /\ ~IsContainer(Feature("other"))
         /\ IsBidirectional(Feature("left")) <=> Has("right")
         /\ Feature("left").containment <=> Holds("left")
         /\ Has("right") => /\ IsBidirectional(Feature("right")) /\ ~Feature("right").containment
                            /\ IsContainer(Feature("right")) <=> ~Plain
         /\ Has("other") => Holds("other")
         /\ Feature("other").containment /\ ~IsBidirectional(Feature("other"))
         /\ Plain => Has("right") /\ ~Holds("left")
<1>1. shape.left \in AllFeatures /\ Valid(shape.left) /\ ~shape.left.volatile
  BY ObjectsAssumption DEF Singles
<1>2. shape.right \in AllFeatures /\ Valid(shape.right) /\ ~shape.right.volatile
  BY ObjectsAssumption DEF Singles
<1>3. Feature("left") = shape.left /\ Feature("right") = shape.right /\ Feature("other") = OtherFeature
  BY DEF Feature
<1>4. Has("left") /\ (Has("right") <=> shape.left.opposite # "none")
  BY DEF Has
<1>5. SingleReference(OtherFeature)
  BY DEF SingleReference, OtherFeature, AllFeatures, Valid, LazyModes
<1>6. SingleReference(shape.left)
  BY <1>1 DEF SingleReference, Singles, SingleShape
<1>7. Has("right") => SingleReference(shape.right)
  BY <1>2, <1>4 DEF SingleReference, Singles, SingleShape
<1>8. \A f \in Names : Has(f) => SingleReference(Feature(f))
  BY <1>3, <1>5, <1>6, <1>7 DEF Names
<1>9. ~IsContainer(Feature("left")) /\ (IsBidirectional(Feature("left")) <=> Has("right"))
  BY <1>3, <1>4 DEF Singles, SingleShape, IsContainer, IsBidirectional
<1>10. ~IsContainer(Feature("other")) /\ Feature("other").containment /\ ~IsBidirectional(Feature("other"))
  BY <1>3, OtherFacts
<1>11. Has("right") => /\ IsBidirectional(Feature("right")) /\ ~Feature("right").containment
                       /\ IsContainer(Feature("right")) <=> ~Plain
  BY <1>3, <1>4 DEF Singles, SingleShape, IsContainer, IsBidirectional, Plain
<1>12. Feature("left").containment <=> Holds("left")
  BY <1>4 DEF Holds
<1>13. Plain => Has("right") /\ ~Holds("left")
  BY <1>3 DEF Plain, Holds
<1> QED BY <1>4, <1>8, <1>9, <1>10, <1>11, <1>12, <1>13 DEF Holds

(* The ids under which the other ends are told. *)
LEMMA IDFacts ==
  ASSUME Singles
  PROVE  /\ InverseOf("left") = Key("left") /\ InverseOf("other") = Key("other")
         /\ Has("right") => InverseOf("right") = "left"
         /\ \A f \in {"left", "other"} : ContainmentOf(Key(f)) = f
         /\ Key("left") \in {"right", "-left"} /\ Key("other") = "-other"
         /\ Key("left") = "right" <=> Has("right")
         /\ "-left" \notin Names /\ "-other" \notin Names
<1>1. Base["left"] = "-left" /\ Base["other"] = "-other"
  BY DEF Base
<1>2. Key("left") = (IF Has("right") THEN "right" ELSE "-left") /\ Key("other") = "-other"
  BY <1>1 DEF Key
<1>3. /\ InverseOf("left") = IF Has("right") THEN "right" ELSE "-left"
      /\ InverseOf("other") = "-other"
      /\ Has("right") => InverseOf("right") = "left"
  BY <1>1, ShapeFacts DEF InverseOf, IDOf, InverseID, Opposite
<1>4. /\ ContainmentOf("right") = "left" /\ ContainmentOf("-left") = "left"
      /\ ContainmentOf("-other") = "other"
  BY DEF ContainmentOf
<1>5. \A f \in {"left", "other"} : ContainmentOf(Key(f)) = f
  BY <1>2, <1>4
<1> QED BY <1>2, <1>3, <1>5 DEF Names

(***************************************************************************)
(* The basic changes of a heap.                                            *)
(***************************************************************************)

W == {NoValue} \cup {<<x>> : x \in Objs}
Links == {NoValue} \cup (As \X {"right", "-left", "-other"})

Heaped(h) ==
  /\ {"val", "flag", "cont", "thrown"} \subseteq DOMAIN h /\ h.thrown = FALSE
  /\ h.val \in [Objs -> [Names -> W]]
  /\ h.flag \in [Objs -> [Names -> BOOLEAN]]
  /\ h.cont \in [Objs -> Links]

(* A call that threw, as TypeScript may where a lazy reference is joined. *)
Threw(l, g) == l = "ts" /\ g.thrown = TRUE /\ \E f \in Names : Has(f) /\ JoinThrows(Feature(f))

(* A value with a flag has it set. *)
FlagOK(h, p, n) == HasESet(Feature(n)) /\ h.val[p][n] # NoValue => h.flag[p][n]
KeepsFlags(g, h) == \A p \in Objs, n \in Names : FlagOK(h, p, n) => FlagOK(g, p, n)

(* From h to g the feature f of o gets the value s, its flag aside; *)
Stores(g, h, o, f, s) ==
  /\ Heaped(g) /\ KeepsFlags(g, h) /\ g.cont = h.cont
  /\ \A p \in Objs, n \in Names : g.val[p][n] = IF p = o /\ n = f THEN s ELSE h.val[p][n]

(* or o gets the container c. *)
Moves(g, h, o, c) ==
  /\ Heaped(g) /\ KeepsFlags(g, h) /\ g.val = h.val
  /\ \A p \in Objs : g.cont[p] = IF p = o THEN c ELSE h.cont[p]

(* A value that changes. *)
LEMMA PutIs ==
  ASSUME NEW h, Heaped(h), NEW o \in Objs, NEW f \in Names, NEW s \in W
  PROVE  /\ Heaped(Put(h, o, f, s))
         /\ Put(h, o, f, s).cont = h.cont /\ Put(h, o, f, s).flag = h.flag
         /\ \A p \in Objs, n \in Names :
              Put(h, o, f, s).val[p][n] = IF p = o /\ n = f THEN s ELSE h.val[p][n]
<1> DEFINE g == Put(h, o, f, s)
<1>1. /\ DOMAIN g = DOMAIN h /\ g.val = [h.val EXCEPT ![o][f] = s]
      /\ g.cont = h.cont /\ g.flag = h.flag /\ g.thrown = h.thrown
  BY DEF Heaped, Put
<1> HIDE DEF W, g, Links
<1>2. g.val \in [Objs -> [Names -> W]]
  BY <1>1 DEF Heaped
<1>3. \A p \in Objs, n \in Names : g.val[p][n] = IF p = o /\ n = f THEN s ELSE h.val[p][n]
  BY <1>1 DEF Heaped
<1>4. Heaped(g)
  BY <1>1, <1>2 DEF Heaped
<1> QED BY <1>1, <1>3, <1>4 DEF g

(* A container that changes. *)
LEMMA SetContainerIs ==
  ASSUME NEW h, Heaped(h), NEW o \in Objs, NEW c \in Links
  PROVE  Moves(SetContainer(h, o, c), h, o, c)
<1> DEFINE g == SetContainer(h, o, c)
<1>1. /\ DOMAIN g = DOMAIN h /\ g.val = h.val /\ g.flag = h.flag
      /\ g.cont = [h.cont EXCEPT ![o] = c] /\ g.thrown = h.thrown
  BY DEF Heaped, SetContainer
<1> HIDE DEF Links, W, g
<1>2. Heaped(g) /\ \A p \in Objs : g.cont[p] = IF p = o THEN c ELSE h.cont[p]
  BY <1>1 DEF Heaped
<1>3. KeepsFlags(g, h)
  BY <1>1 DEF KeepsFlags, FlagOK
<1> QED BY <1>1, <1>2, <1>3 DEF Moves, g

(* A flag that changes. *)
LEMMA FlagIs ==
  ASSUME NEW h, Heaped(h), NEW o \in Objs, NEW f \in Names, NEW b \in BOOLEAN
  PROVE  LET g == [h EXCEPT !.flag[o][f] = b]
         IN  /\ Heaped(g) /\ g.val = h.val /\ g.cont = h.cont
             /\ \A p \in Objs, n \in Names : g.flag[p][n] = IF p = o /\ n = f THEN b ELSE h.flag[p][n]
<1> DEFINE g == [h EXCEPT !.flag[o][f] = b]
<1>1. /\ DOMAIN g = DOMAIN h /\ g.val = h.val /\ g.cont = h.cont
      /\ g.flag = [h.flag EXCEPT ![o][f] = b] /\ g.thrown = h.thrown
  BY DEF Heaped
<1> HIDE DEF Links, W, g
<1>2. g.flag \in [Objs -> [Names -> BOOLEAN]]
  BY <1>1 DEF Heaped
<1>3. \A p \in Objs, n \in Names : g.flag[p][n] = IF p = o /\ n = f THEN b ELSE h.flag[p][n]
  BY <1>1 DEF Heaped
<1>4. Heaped(g)
  BY <1>1, <1>2 DEF Heaped
<1> QED BY <1>1, <1>3, <1>4 DEF g

(***************************************************************************)
(* The links of a heap.                                                    *)
(***************************************************************************)

(* A value is an object of the other class, where a field is; *)
Owned(h) ==
  \A p \in Objs, n \in Names :
    h.val[p][n] # NoValue =>
      /\ Has(n) /\ ~IsContainer(Feature(n)) /\ p \in Owners(n)
      /\ \E x \in Targets(n) : h.val[p][n] = <<x>>

(* a container is an owner with a containment; *)
Located(h) ==
  \A p \in Objs :
    h.cont[p] # NoValue => p \in Bs /\ \E a \in As, f \in {"left", "other"} : Holds(f) /\ h.cont[p] = <<a, Key(f)>>

(* a containment holds what names it as its container; *)
Contains(h) ==
  \A a \in As, b \in Bs, f \in {"left", "other"} :
    Holds(f) => (h.val[a][f] = <<b>> <=> h.cont[b] = <<a, Key(f)>>)

(* and two ends name each other. *)
Paired(h) ==
  Plain => \A a \in As, b \in Bs : h.val[a]["left"] = <<b>> <=> h.val[b]["right"] = <<a>>

Sound(h) == Heaped(h) /\ Owned(h) /\ Located(h) /\ Contains(h) /\ Paired(h)

(* From h to g the containment f of a gets the value s, which leaves where it was. *)
Joined(g, h, a, f, s) ==
  /\ \A p \in Objs, n \in Names :
       g.val[p][n] = IF p = a /\ n = f THEN s
                     ELSE IF Holds(n) /\ s # NoValue /\ h.val[p][n] = s THEN NoValue
                     ELSE h.val[p][n]
  /\ \A q \in Objs :
       g.cont[q] = IF s = <<q>> THEN <<a, Key(f)>>
                   ELSE IF h.val[a][f] = <<q>> THEN NoValue
                   ELSE h.cont[q]

(* From h to g the end f of o gets the value s, and both leave the ends they had. *)
Married(g, h, o, f, s) ==
  /\ g.cont = h.cont
  /\ \A p \in Objs, n \in Names :
       g.val[p][n] = IF p = o /\ n = f THEN s
                     ELSE IF n = Opposite(f) /\ s = <<p>> THEN <<o>>
                     ELSE IF n = Opposite(f) /\ h.val[o][f] = <<p>> THEN NoValue
                     ELSE IF n = f /\ s # NoValue /\ h.val[p][f] = s THEN NoValue
                     ELSE h.val[p][n]

(* The ids of the two containments differ. *)
LEMMA KeysDiffer ==
  ASSUME Singles, NEW f \in {"left", "other"}, NEW n \in {"left", "other"}, Key(f) = Key(n)
  PROVE  f = n
BY IDFacts

(* A containment holds an object once. *)
LEMMA HeldOnce ==
  ASSUME Singles, NEW h, Sound(h), NEW a \in As, NEW p \in As, NEW b \in Bs,
         NEW f \in {"left", "other"}, NEW n \in {"left", "other"}, Holds(f), Holds(n),
         h.val[a][f] = <<b>>, h.val[p][n] = <<b>>
  PROVE  a = p /\ f = n
<1>1. h.cont[b] = <<a, Key(f)>> /\ h.cont[b] = <<p, Key(n)>>
  BY DEF Sound, Contains
<1>2. a = p /\ Key(f) = Key(n)
  BY <1>1
<1> QED BY <1>2, KeysDiffer

(* What joins a containment keeps the links. *)
LEMMA JoinedKeeps ==
  ASSUME Singles, NEW h, Sound(h), NEW g, Heaped(g), NEW a \in As, NEW f \in {"left", "other"}, Holds(f),
         NEW s \in Values(f), Joined(g, h, a, f, s)
  PROVE  Sound(g)
<1>1. Targets(f) = Bs /\ Owners(f) = As /\ As \cap Bs = {} /\ f \in Names /\ Has(f) /\ ~IsContainer(Feature(f))
  BY ShapeFacts, ObjectsAssumption DEF Targets, Owners, Names, Holds
<1>2. s = NoValue \/ \E b \in Bs : s = <<b>>
  BY <1>1 DEF Values
<1>3. As \subseteq Objs /\ Bs \subseteq Objs /\ {"left", "other"} \subseteq Names
  BY DEF Objs, Names
<1>4. Owned(g)
  <2> SUFFICES ASSUME NEW p \in Objs, NEW n \in Names, g.val[p][n] # NoValue
               PROVE  /\ Has(n) /\ ~IsContainer(Feature(n)) /\ p \in Owners(n)
                      /\ \E x \in Targets(n) : g.val[p][n] = <<x>>
    BY DEF Owned
  <2>1. CASE p = a /\ n = f
    BY <2>1, <1>1, <1>2 DEF Joined
  <2>2. CASE ~(p = a /\ n = f)
    <3>1. g.val[p][n] = h.val[p][n]
      BY <2>2 DEF Joined
    <3> QED BY <3>1 DEF Sound, Owned
  <2> QED BY <2>1, <2>2
<1>5. Located(g)
  <2> SUFFICES ASSUME NEW q \in Objs, g.cont[q] # NoValue
               PROVE  q \in Bs /\ \E p \in As, n \in {"left", "other"} : Holds(n) /\ g.cont[q] = <<p, Key(n)>>
    BY DEF Located
  <2>1. CASE s = <<q>>
    <3>1. q \in Bs
      BY <2>1, <1>2 DEF NoValue
    <3> QED BY <2>1, <3>1 DEF Joined
  <2>2. CASE s # <<q>>
    <3>1. g.cont[q] = h.cont[q]
      BY <2>2 DEF Joined
    <3> QED BY <3>1 DEF Sound, Located
  <2> QED BY <2>1, <2>2
<1>6. Contains(g)
  <2> SUFFICES ASSUME NEW p \in As, NEW b \in Bs, NEW n \in {"left", "other"}, Holds(n)
               PROVE  g.val[p][n] = <<b>> <=> g.cont[b] = <<p, Key(n)>>
    BY DEF Contains
  <2>1. h.val[p][n] = <<b>> <=> h.cont[b] = <<p, Key(n)>>
    BY DEF Sound, Contains
  <2>2. h.val[a][f] = <<b>> <=> h.cont[b] = <<a, Key(f)>>
    BY DEF Sound, Contains
  <2>3. <<a, Key(f)>> = <<p, Key(n)>> => p = a /\ n = f
    BY KeysDiffer
  <2>4. /\ g.val[p][n] = IF p = a /\ n = f THEN s
                         ELSE IF Holds(n) /\ s # NoValue /\ h.val[p][n] = s THEN NoValue
                         ELSE h.val[p][n]
        /\ g.cont[b] = IF s = <<b>> THEN <<a, Key(f)>> ELSE IF h.val[a][f] = <<b>> THEN NoValue ELSE h.cont[b]
    BY <1>3 DEF Joined
  <2>5. NoValue # <<b>> /\ NoValue # <<p, Key(n)>>
    BY DEF NoValue
  <2>6. CASE p = a /\ n = f
    BY <2>2, <2>4, <2>5, <2>6
  <2>7. CASE ~(p = a /\ n = f)
    <3>1. CASE s = <<b>>
      BY <2>3, <2>4, <2>5, <2>7, <3>1
    <3>2. CASE s # <<b>>
      <4>1. g.val[p][n] = <<b>> <=> h.val[p][n] = <<b>>
        BY <2>4, <2>5, <2>7, <3>2
      <4>2. CASE h.val[a][f] = <<b>>
        <5>1. h.val[p][n] # <<b>>
          BY <4>2, <2>7, HeldOnce
        <5> QED BY <2>4, <2>5, <3>2, <4>1, <4>2, <5>1
      <4>3. CASE h.val[a][f] # <<b>>
        BY <2>1, <2>4, <3>2, <4>1, <4>3
      <4> QED BY <4>2, <4>3
    <3> QED BY <3>1, <3>2
  <2> QED BY <2>6, <2>7
<1>7. Paired(g)
  <2> SUFFICES ASSUME Plain, NEW p \in As, NEW b \in Bs
               PROVE  g.val[p]["left"] = <<b>> <=> g.val[b]["right"] = <<p>>
    BY DEF Paired
  <2>1. ~Holds("left") /\ ~Holds("right") /\ f = "other"
    BY ShapeFacts DEF Holds
  <2>2. "left" \in Names /\ "right" \in Names /\ p \in Objs /\ b \in Objs
    BY DEF Names, Objs
  <2>3. g.val[p]["left"] = h.val[p]["left"] /\ g.val[b]["right"] = h.val[b]["right"]
    BY <2>1, <2>2 DEF Joined
  <2> QED BY <2>3 DEF Sound, Paired
<1> QED BY <1>4, <1>5, <1>6, <1>7 DEF Sound

(* Two ends that join keep the links. *)
LEMMA MarriedKeeps ==
  ASSUME Singles, Plain, NEW h, Sound(h), NEW g, Heaped(g), NEW f \in {"left", "right"}, NEW o \in Owners(f),
         NEW s \in Values(f), Married(g, h, o, f, s)
  PROVE  Sound(g)
<1> DEFINE e == Opposite(f)
<1>1. /\ e \in {"left", "right"} /\ e # f /\ Opposite(e) = f
      /\ Targets(f) = Owners(e) /\ Targets(e) = Owners(f)
      /\ Has("left") /\ Has("right") /\ ~IsContainer(Feature("left")) /\ ~IsContainer(Feature("right"))
      /\ ~Holds("left")
  BY ShapeFacts DEF Opposite, Targets, Owners
<1>2. s = NoValue \/ \E x \in Targets(f) : s = <<x>>
  BY DEF Values
<1>3. As \subseteq Objs /\ Bs \subseteq Objs /\ o \in Objs /\ {"left", "right", "other"} \subseteq Names
  BY DEF Objs, Names, Owners
<1>4. Owned(g)
  <2> SUFFICES ASSUME NEW p \in Objs, NEW n \in Names, g.val[p][n] # NoValue
               PROVE  /\ Has(n) /\ ~IsContainer(Feature(n)) /\ p \in Owners(n)
                      /\ \E x \in Targets(n) : g.val[p][n] = <<x>>
    BY DEF Owned
  <2>1. CASE p = o /\ n = f
    BY <2>1, <1>1, <1>2 DEF Married
  <2>2. CASE n = e /\ s = <<p>>
    <3>1. p \in Owners(e)
      BY <2>2, <1>1, <1>2 DEF NoValue
    <3>2. g.val[p][n] = <<o>>
      BY <2>2, <1>1 DEF Married
    <3> QED BY <2>2, <3>1, <3>2, <1>1
  <2>3. CASE ~(p = o /\ n = f) /\ ~(n = e /\ s = <<p>>)
    <3>1. g.val[p][n] = h.val[p][n]
      BY <2>3 DEF Married
    <3> QED BY <3>1 DEF Sound, Owned
  <2> QED BY <2>1, <2>2, <2>3
<1>5. Located(g)
  BY DEF Married, Sound, Located
<1>6. Contains(g)
  <2> SUFFICES ASSUME NEW p \in As, NEW b \in Bs, NEW n \in {"left", "other"}, Holds(n)
               PROVE  g.val[p][n] = <<b>> <=> g.cont[b] = <<p, Key(n)>>
    BY DEF Contains
  <2>1. n = "other" /\ n # f /\ n # e
    BY <1>1
  <2>2. g.val[p][n] = h.val[p][n] /\ g.cont[b] = h.cont[b]
    BY <2>1, <1>3 DEF Married
  <2> QED BY <2>2 DEF Sound, Contains
<1>7. Paired(g)
  <2> SUFFICES ASSUME NEW p \in As, NEW b \in Bs
               PROVE  g.val[p]["left"] = <<b>> <=> g.val[b]["right"] = <<p>>
    BY DEF Paired
  <2>1. \A a \in As, c \in Bs : h.val[a]["left"] = <<c>> <=> h.val[c]["right"] = <<a>>
    BY DEF Sound, Paired
  <2>2. NoValue # <<b>> /\ NoValue # <<p>> /\ NoValue # <<o>>
    BY DEF NoValue
  <2>3. CASE f = "left"
    <3>1. o \in As /\ e = "right"
      BY <2>3 DEF Owners, Opposite
    <3>2. g.val[p]["left"] = IF p = o THEN s ELSE IF s # NoValue /\ h.val[p]["left"] = s THEN NoValue
                             ELSE h.val[p]["left"]
      BY <2>3, <3>1, <1>3 DEF Married
    <3>3. g.val[b]["right"] = IF s = <<b>> THEN <<o>> ELSE IF h.val[o]["left"] = <<b>> THEN NoValue
                              ELSE h.val[b]["right"]
      BY <2>3, <3>1, <1>3 DEF Married
    <3>4. CASE s = <<b>>
      BY <2>2, <3>1, <3>2, <3>3, <3>4
    <3>5. CASE s # <<b>>
      BY <2>1, <2>2, <3>1, <3>2, <3>3, <3>5
    <3> QED BY <3>4, <3>5
  <2>4. CASE f = "right"
    <3>1. o \in Bs /\ e = "left"
      BY <2>4 DEF Owners, Opposite
    <3>2. g.val[b]["right"] = IF b = o THEN s ELSE IF s # NoValue /\ h.val[b]["right"] = s THEN NoValue
                              ELSE h.val[b]["right"]
      BY <2>4, <3>1, <1>3 DEF Married
    <3>3. g.val[p]["left"] = IF s = <<p>> THEN <<o>> ELSE IF h.val[o]["right"] = <<p>> THEN NoValue
                              ELSE h.val[p]["left"]
      BY <2>4, <3>1, <1>3 DEF Married
    <3>4. CASE s = <<p>>
      BY <2>2, <3>1, <3>2, <3>3, <3>4
    <3>5. CASE s # <<p>>
      BY <2>1, <2>2, <3>1, <3>2, <3>3, <3>5
    <3> QED BY <3>4, <3>5
  <2> QED BY <2>3, <2>4
<1> QED BY <1>4, <1>5, <1>6, <1>7 DEF Sound

(* A reference that contains nothing and has no other end changes no link. *)
LEMMA FieldKeeps ==
  ASSUME Singles, ~Has("right"), ~Holds("left"), NEW h, Sound(h), NEW g, Heaped(g), g.cont = h.cont,
         NEW a \in As, NEW s \in Values("left"),
         \A p \in Objs, n \in Names : g.val[p][n] = IF p = a /\ n = "left" THEN s ELSE h.val[p][n]
  PROVE  Sound(g)
<1>1. Has("left") /\ ~IsContainer(Feature("left")) /\ Owners("left") = As /\ Targets("left") = Bs
  BY ShapeFacts DEF Owners, Targets
<1>2. Owned(g)
  <2> SUFFICES ASSUME NEW p \in Objs, NEW n \in Names, g.val[p][n] # NoValue
               PROVE  /\ Has(n) /\ ~IsContainer(Feature(n)) /\ p \in Owners(n)
                      /\ \E x \in Targets(n) : g.val[p][n] = <<x>>
    BY DEF Owned
  <2>1. CASE p = a /\ n = "left"
    BY <2>1, <1>1 DEF Values
  <2>2. CASE ~(p = a /\ n = "left")
    <3>1. g.val[p][n] = h.val[p][n]
      BY <2>2
    <3> QED BY <3>1 DEF Sound, Owned
  <2> QED BY <2>1, <2>2
<1>3. Located(g)
  BY DEF Sound, Located
<1>4. Contains(g)
  <2> SUFFICES ASSUME NEW p \in As, NEW b \in Bs, NEW n \in {"left", "other"}, Holds(n)
               PROVE  g.val[p][n] = <<b>> <=> g.cont[b] = <<p, Key(n)>>
    BY DEF Contains
  <2>1. n # "left" /\ n \in Names /\ p \in Objs
    BY DEF Names, Objs
  <2>2. g.val[p][n] = h.val[p][n]
    BY <2>1
  <2> QED BY <2>2 DEF Sound, Contains
<1>5. Paired(g)
  BY DEF Paired, Plain
<1> QED BY <1>2, <1>3, <1>4, <1>5 DEF Sound

(***************************************************************************)
(* What the accessors of single references do to the heap.                 *)
(***************************************************************************)

(* The basic setter of a field stores, and sets its flag; *)
LEMMA BasicSetStores ==
  ASSUME Singles, NEW h, Heaped(h), NEW o \in Objs, NEW f \in Names, Has(f), ~IsContainer(Feature(f)), NEW s \in W
  PROVE  /\ Stores(BasicSet(h, o, f, s), h, o, f, s)
         /\ FlagOK(BasicSet(h, o, f, s), o, f)
<1> DEFINE k == Put(h, o, f, s)
           b == k.flag[o][f] \/ HasESet(Feature(f))
           g == [k EXCEPT !.flag[o][f] = b]
<1>1. SingleReference(Feature(f))
  BY ShapeFacts
<1>2. GoBasicSetter(Feature(f)) # "container"
  BY <1>1, SingleBasicSetter
<1>3. BasicSet(h, o, f, s) = g
  BY <1>2 DEF BasicSet
<1>4. /\ Heaped(k) /\ k.cont = h.cont /\ k.flag = h.flag
      /\ \A p \in Objs, n \in Names : k.val[p][n] = IF p = o /\ n = f THEN s ELSE h.val[p][n]
  BY PutIs
<1> HIDE DEF k
<1>5. b \in BOOLEAN
  BY DEF HasESet, IsUnsettable
<1> HIDE DEF b
<1>6. /\ Heaped(g) /\ g.val = k.val /\ g.cont = k.cont
      /\ \A p \in Objs, n \in Names : g.flag[p][n] = IF p = o /\ n = f THEN b ELSE k.flag[p][n]
  BY <1>4, <1>5, FlagIs
<1> HIDE DEF g
<1>7. FlagOK(g, o, f)
  BY <1>6 DEF FlagOK, b
<1>8. KeepsFlags(g, h)
  <2> SUFFICES ASSUME NEW p \in Objs, NEW n \in Names, FlagOK(h, p, n)
               PROVE  FlagOK(g, p, n)
    BY DEF KeepsFlags
  <2>1. CASE p = o /\ n = f
    BY <2>1, <1>7
  <2>2. CASE ~(p = o /\ n = f)
    <3>1. g.val[p][n] = h.val[p][n] /\ g.flag[p][n] = h.flag[p][n]
      BY <2>2, <1>4, <1>6
    <3> QED BY <3>1 DEF FlagOK
  <2> QED BY <2>1, <2>2
<1> QED BY <1>3, <1>4, <1>6, <1>7, <1>8 DEF Stores

(* that of a container moves the object. *)
LEMMA BasicSetMoves ==
  ASSUME Singles, NEW h, Heaped(h), NEW o \in Objs, Has("right"), IsContainer(Feature("right")),
         NEW s \in Values("right")
  PROVE  Moves(BasicSet(h, o, "right", s), h, o, IF s = NoValue THEN NoValue ELSE <<s[1], "right">>)
<1> DEFINE c == IF s = NoValue THEN NoValue ELSE <<s[1], "right">>
<1>1. SingleReference(Feature("right"))
  BY ShapeFacts DEF Names
<1>2. GoBasicSetter(Feature("right")) = "container"
  BY <1>1, SingleBasicSetter
<1>3. BasicSet(h, o, "right", s) = SetContainer(h, o, c)
  BY <1>2 DEF BasicSet
<1>4. c \in Links
  BY DEF Values, Targets, Links
<1> HIDE DEF c
<1>5. Moves(SetContainer(h, o, c), h, o, c)
  BY <1>4, SetContainerIs
<1> QED BY <1>3, <1>5 DEF c

(* The basic unsetter stores nothing, and resets the flag. *)
LEMMA BasicUnsetStores ==
  ASSUME NEW h, Heaped(h), NEW o \in Objs, NEW f \in Names
  PROVE  /\ Stores(BasicUnset(h, o, f), h, o, f, NoValue)
         /\ BasicUnset(h, o, f).flag[o][f] = FALSE
<1> DEFINE k == Put(h, o, f, NoValue)
           b == FALSE
           g == [k EXCEPT !.flag[o][f] = b]
<1>1. BasicUnset(h, o, f) = g
  BY DEF BasicUnset
<1>2. NoValue \in W
  BY DEF W
<1>3. /\ Heaped(k) /\ k.cont = h.cont /\ k.flag = h.flag
      /\ \A p \in Objs, n \in Names : k.val[p][n] = IF p = o /\ n = f THEN NoValue ELSE h.val[p][n]
  BY <1>2, PutIs
<1>4. b \in BOOLEAN
  OBVIOUS
<1> HIDE DEF k, b
<1>5. /\ Heaped(g) /\ g.val = k.val /\ g.cont = k.cont
      /\ \A p \in Objs, n \in Names : g.flag[p][n] = IF p = o /\ n = f THEN b ELSE k.flag[p][n]
  BY <1>3, <1>4, FlagIs
<1> HIDE DEF g
<1>6. g.flag[o][f] = FALSE
  BY <1>5 DEF b
<1>7. KeepsFlags(g, h)
  <2> SUFFICES ASSUME NEW p \in Objs, NEW n \in Names, FlagOK(h, p, n)
               PROVE  FlagOK(g, p, n)
    BY DEF KeepsFlags
  <2>1. CASE p = o /\ n = f
    BY <2>1, <1>3, <1>5 DEF FlagOK
  <2>2. CASE ~(p = o /\ n = f)
    <3>1. g.val[p][n] = h.val[p][n] /\ g.flag[p][n] = h.flag[p][n]
      BY <2>2, <1>3, <1>5
    <3> QED BY <3>1 DEF FlagOK
  <2> QED BY <2>1, <2>2
<1> QED BY <1>1, <1>3, <1>5, <1>6, <1>7 DEF Stores

(* No getter of a single reference throws its value away. *)
LEMMA SingleReadList ==
  ASSUME NEW l, NEW h, NEW o, NEW f, SingleReference(Feature(f))
  PROVE  ReadList(l, h, o, f) = h
<1>1. In(l, GoInit(Feature(f)), TSInit(Feature(f))) # "value"
  BY SingleInit, SingleTSInit DEF In
<1> QED BY <1>1 DEF ReadList

(* What leaves a single reference leaves it without value, or without container. *)
LEMMA InverseRemoveIs ==
  ASSUME Singles, NEW l, NEW h, Heaped(h), NEW o \in Objs, NEW x, NEW f \in Names, Has(f)
  PROVE  LET g == InverseRemove(l, h, o, x, f)
         IN  IF IsContainer(Feature(f)) THEN Moves(g, h, o, NoValue) ELSE Stores(g, h, o, f, NoValue)
<1>1. SingleReference(Feature(f))
  BY ShapeFacts
<1>2. NoValue \in Links /\ NoValue \in W /\ NoValue \in Values("right")
  BY DEF Links, W, Values
<1> DEFINE variant == In(l, GoInverseRemove(Feature(f)), TSInverseRemove(Feature(f)))
<1>3. variant = IF IsContainer(Feature(f)) THEN IF HasBasicSet(Feature(f)) THEN "set" ELSE "container"
                ELSE IF HasUnset(Feature(f)) THEN "unset" ELSE "set"
  BY <1>1, SingleInverseRemove DEF In, TSInverseRemove
<1>4. CASE variant = "container"
  <2>1. InverseRemove(l, h, o, x, f) = SetContainer(h, o, NoValue)
    BY <1>4 DEF InverseRemove
  <2> QED BY <1>2, <1>3, <1>4, <2>1, SetContainerIs
<1>5. CASE variant = "unset"
  <2>1. InverseRemove(l, h, o, x, f) = BasicUnset(h, o, f)
    BY <1>5 DEF InverseRemove
  <2> QED BY <1>3, <1>5, <2>1, BasicUnsetStores
<1>6. CASE variant = "set"
  <2>1. InverseRemove(l, h, o, x, f) = BasicSet(h, o, f, NoValue)
    BY <1>6 DEF InverseRemove
  <2>2. CASE IsContainer(Feature(f))
    <3>1. f = "right"
      BY <2>2, ShapeFacts DEF Names
    <3> QED BY <1>2, <2>1, <2>2, <3>1, BasicSetMoves
  <2>3. CASE ~IsContainer(Feature(f))
    BY <1>2, <2>1, <2>3, BasicSetStores
  <2> QED BY <2>2, <2>3
<1> QED BY <1>3, <1>4, <1>5, <1>6

(* An object that leaves its container leaves the containment without value. *)
LEMMA LeavesContainer ==
  ASSUME Singles, NEW l, NEW h, Heaped(h), NEW b \in Objs, NEW a \in As, NEW f \in {"left", "other"}, Holds(f),
         h.cont[b] = <<a, Key(f)>>
  PROVE  Stores(RemoveFromContainer(l, h, b), h, a, f, NoValue)
<1>1. Contained(h, b) /\ h.cont[b][1] = a /\ h.cont[b][2] = Key(f)
  BY DEF Contained, NoValue
<1>2. ContainmentOf(h.cont[b][2]) = f
  BY <1>1, IDFacts
<1>3. RemoveFromContainer(l, h, b) = InverseRemove(l, h, a, b, f)
  BY <1>1, <1>2 DEF RemoveFromContainer
<1>4. a \in Objs /\ f \in Names /\ Has(f) /\ ~IsContainer(Feature(f))
  BY ShapeFacts DEF Objs, Names, Holds
<1> QED BY <1>3, <1>4, InverseRemoveIs

(* One that is told that it left a containment has no container any more. *)
LEMMA LeavesContainment ==
  ASSUME Singles, NEW l, NEW h, Heaped(h), NEW o \in Objs, NEW x, NEW f \in {"left", "other"}, Holds(f),
         NEW id \in {Key(f), Base[f]}
  PROVE  Moves(EInverseRemove(l, h, o, x, id), h, o, NoValue)
<1>1. Base["left"] = "-left" /\ Base["other"] = "-other"
  BY DEF Base
<1>2. (id = "right" /\ Has("right") /\ f = "left") \/ id \in {"-left", "-other"}
  BY <1>1 DEF Key
<1>3. CASE id = "right" /\ Has("right") /\ f = "left"
  <2>1. IsContainer(Feature("right"))
    BY <1>3, ShapeFacts DEF Plain
  <2>2. EInverseRemove(l, h, o, x, id) = InverseRemove(l, h, o, x, "right")
    BY <1>3 DEF EInverseRemove, Names
  <2>3. "right" \in Names
    BY DEF Names
  <2> QED BY <1>3, <2>1, <2>2, <2>3, InverseRemoveIs
<1>4. CASE id \in {"-left", "-other"}
  <2>1. EInverseRemove(l, h, o, x, id) = SetContainer(h, o, NoValue)
    BY <1>4 DEF EInverseRemove, Names
  <2>2. NoValue \in Links
    BY DEF Links
  <2> QED BY <2>1, <2>2, SetContainerIs
<1> QED BY <1>2, <1>3, <1>4

(* One that is told that it left a plain end has no value there. *)
LEMMA LeavesEnd ==
  ASSUME Singles, Plain, NEW l, NEW h, Heaped(h), NEW o \in Objs, NEW x, NEW f \in {"left", "right"}
  PROVE  Stores(EInverseRemove(l, h, o, x, f), h, o, f, NoValue)
<1>1. f \in Names /\ Has(f) /\ ~IsContainer(Feature(f))
  BY ShapeFacts DEF Names
<1>2. EInverseRemove(l, h, o, x, f) = InverseRemove(l, h, o, x, f)
  BY <1>1 DEF EInverseRemove
<1> QED BY <1>1, <1>2, InverseRemoveIs

(* One that is told that it joined a containment leaves its container for the owner. *)
LEMMA JoinsContainment ==
  ASSUME Singles, NEW l, NEW h, NEW b \in Bs, NEW a \in As, NEW f \in {"left", "other"}, Holds(f),
         Heaped(RemoveFromContainer(l, h, b))
  PROVE  Moves(EInverseAdd(l, h, b, a, Key(f)), RemoveFromContainer(l, h, b), b, <<a, Key(f)>>)
<1> DEFINE k == RemoveFromContainer(l, h, b)
           c == <<a, Key(f)>>
<1>1. b \in Objs /\ c \in Links
  BY IDFacts DEF Objs, Links
<1>2. EInverseAdd(l, h, b, a, Key(f)) = SetContainer(k, b, c)
  <2>1. CASE Key(f) = "right"
    <3>1. Has("right") /\ IsContainer(Feature("right")) /\ "right" \in Names
      BY <2>1, IDFacts, ShapeFacts DEF Plain, Names
    <3>2. SingleReference(Feature("right"))
      BY <3>1, ShapeFacts
    <3> DEFINE variant == In(l, GoInverseAdd(Feature("right")), TSInverseAdd(Feature("right")))
    <3>3. variant \in {"containerbasic", "containerset"}
      BY <3>1, <3>2, SingleInverseAdd DEF In, TSInverseAdd
    <3>4. EInverseAdd(l, h, b, a, Key(f)) = InverseAdd(l, h, b, a, "right")
      BY <2>1, <3>1 DEF EInverseAdd
    <3>5. CASE variant = "containerset"
      <4>1. InverseAdd(l, h, b, a, "right") = SetContainer(k, b, <<a, "right">>)
        BY <3>5 DEF InverseAdd
      <4> QED BY <2>1, <3>4, <4>1
    <3>6. CASE variant = "containerbasic"
      <4>1. InverseAdd(l, h, b, a, "right") = BasicSet(k, b, "right", <<a>>)
        BY <3>6 DEF InverseAdd
      <4>2. GoBasicSetter(Feature("right")) = "container"
        BY <3>1, <3>2, SingleBasicSetter
      <4>3. <<a>> # NoValue /\ <<a>>[1] = a
        BY DEF NoValue
      <4> HIDE DEF k
      <4>4. BasicSet(k, b, "right", <<a>>) = SetContainer(k, b, <<a, "right">>)
        BY <4>2, <4>3 DEF BasicSet
      <4> QED BY <2>1, <3>4, <4>1, <4>4
    <3> QED BY <3>3, <3>5, <3>6
  <2>2. CASE Key(f) # "right"
    <3>1. Key(f) \notin Names
      BY <2>2, IDFacts
    <3> QED BY <3>1 DEF EInverseAdd
  <2> QED BY <2>1, <2>2
<1> HIDE DEF k, c
<1>3. Heaped(k)
  BY DEF k
<1>4. Moves(SetContainer(k, b, c), k, b, c)
  BY <1>1, <1>3, SetContainerIs
<1> QED BY <1>2, <1>4 DEF k, c

(* Only TypeScript throws when an object joins an end, and only a lazy one. *)
LEMMA ReadThrowsLazy ==
  ASSUME Singles, NEW l, NEW h, Heaped(h), NEW x, NEW f \in {"left", "right"}, Has("right"),
         ~IsContainer(Feature(f)), ReadThrows(l, h, x, f)
  PROVE  Threw(l, [h EXCEPT !.thrown = TRUE])
<1> DEFINE F == Feature(f)
           held == IF Current(h, x, f) = NoValue THEN "default" ELSE "given"
           getter == TSCurrentGetter(F)
           init == TSInit(F)
<1>1. f \in Names /\ Has(f) /\ SingleReference(F) /\ IsBidirectional(F)
  BY ShapeFacts DEF Names
<1>2. l = "ts" /\ Read(getter, init, F, held) = "panics"
  BY DEF ReadThrows
<1>3. held \in {"default", "given"}
  OBVIOUS
<1> HIDE DEF F, held, getter, init
<1>4. getter = "panic" \/ (getter \in {"lazyfunction", "lazyaction"} /\ init = "panic")
  BY <1>2, <1>3 DEF Read
<1>5. HasInitMethod(F)
  BY <1>1, <1>4, SingleCurrentGetter DEF getter
<1>6. ~F.volatile
  BY <1>1, SingleFacts
<1>7. TSInverseAdd(F) = "single" /\ InEInverseAdd(F)
  BY <1>1, <1>6, SingleInverseAdd DEF TSInverseAdd, InEInverseAdd, F
<1>8. init = "panic"
  BY <1>1, <1>4, SingleCurrentGetter DEF getter
<1>9. JoinThrows(F)
  BY <1>5, <1>7, <1>8 DEF JoinThrows, init
<1>10. [h EXCEPT !.thrown = TRUE].thrown = TRUE
  BY DEF Heaped
<1> QED BY <1>1, <1>2, <1>9, <1>10 DEF Threw, F

(* One that is told that it joined a plain end leaves the one it had, or throws. *)
LEMMA JoinsEnd ==
  ASSUME Singles, Plain, NEW l, NEW h, Heaped(h), NEW x \in Objs, NEW o \in Objs, NEW f \in {"left", "right"}
  PROVE  \/ Threw(l, EInverseAdd(l, h, x, o, f))
         \/ \E k : /\ IF h.val[x][f] = NoValue THEN k = h
                      ELSE Stores(k, h, h.val[x][f][1], Opposite(f), NoValue)
                   /\ Stores(EInverseAdd(l, h, x, o, f), k, x, f, <<o>>)
<1> DEFINE e == Opposite(f)
           v == h.val[x][f]
           k == IF v = NoValue THEN h ELSE EInverseRemove(l, h, v[1], x, e)
<1>1. f \in Names /\ Has(f) /\ ~IsContainer(Feature(f)) /\ ~Feature(f).containment /\ e \in {"left", "right"}
  BY ShapeFacts DEF Names, Opposite
<1>2. SingleReference(Feature(f))
  BY <1>1, ShapeFacts
<1>3. In(l, GoInverseAdd(Feature(f)), TSInverseAdd(Feature(f))) = "single"
  BY <1>1, <1>2, SingleInverseAdd DEF In, TSInverseAdd
<1>4. Current(h, x, f) = v /\ IDOf(f, RemoveID(Feature(f))) = e
  BY <1>1 DEF Current, IDOf, RemoveID
<1>5. EInverseAdd(l, h, x, o, f) = InverseAdd(l, h, x, o, f)
  BY <1>1 DEF EInverseAdd
<1>6. InverseAdd(l, h, x, o, f)
        = IF ReadThrows(l, h, x, f) THEN [h EXCEPT !.thrown = TRUE] ELSE BasicSet(k, x, f, <<o>>)
  BY <1>3, <1>4 DEF InverseAdd
<1>12. CASE ReadThrows(l, h, x, f)
  <2>1. Has("right") /\ EInverseAdd(l, h, x, o, f) = [h EXCEPT !.thrown = TRUE]
    BY <1>5, <1>6, <1>12 DEF Plain
  <2> QED BY <1>1, <1>12, <2>1, ReadThrowsLazy
<1>7. v \in W
  BY <1>1 DEF Heaped
<1>8. IF v = NoValue THEN k = h ELSE Stores(k, h, v[1], e, NoValue)
  <2>1. v # NoValue => v[1] \in Objs
    BY <1>7 DEF W
  <2> HIDE DEF v, e
  <2> QED BY <1>1, <2>1, LeavesEnd
<1> HIDE DEF v, k
<1>9. Heaped(k)
  BY <1>8 DEF Stores
<1>10. <<o>> \in W
  BY DEF W
<1>11. Stores(BasicSet(k, x, f, <<o>>), k, x, f, <<o>>)
  BY <1>1, <1>9, <1>10, BasicSetStores
<1>13. CASE ~ReadThrows(l, h, x, f)
  BY <1>5, <1>6, <1>8, <1>11, <1>13 DEF v
<1> QED BY <1>12, <1>13

(* The owner that is told that an object took it as its container drops what it held, or throws. *)
LEMMA JoinsOwner ==
  ASSUME Singles, Has("right"), Holds("left"), NEW l, NEW h, Heaped(h), NEW a \in As, NEW b \in Bs
  PROVE  \/ Threw(l, EInverseAdd(l, h, a, b, "left"))
         \/ \E k : /\ IF h.val[a]["left"] = NoValue THEN k = h ELSE Moves(k, h, h.val[a]["left"][1], NoValue)
                   /\ Stores(EInverseAdd(l, h, a, b, "left"), k, a, "left", <<b>>)
<1> DEFINE v == h.val[a]["left"]
           k == IF v = NoValue THEN h ELSE EInverseRemove(l, h, v[1], a, "-left")
<1>1. /\ "left" \in Names /\ Has("left") /\ ~IsContainer(Feature("left")) /\ Feature("left").containment
      /\ a \in Objs /\ b \in Objs
  BY ShapeFacts DEF Names, Objs
<1>2. SingleReference(Feature("left"))
  BY <1>1, ShapeFacts
<1>3. In(l, GoInverseAdd(Feature("left")), TSInverseAdd(Feature("left"))) = "single"
  BY <1>1, <1>2, SingleInverseAdd DEF In, TSInverseAdd
<1>4. Current(h, a, "left") = v /\ IDOf("left", RemoveID(Feature("left"))) = "-left" /\ Base["left"] = "-left"
  BY <1>1 DEF Current, IDOf, RemoveID, Base
<1>5. EInverseAdd(l, h, a, b, "left") = InverseAdd(l, h, a, b, "left")
  BY <1>1 DEF EInverseAdd
<1>6. InverseAdd(l, h, a, b, "left")
        = IF ReadThrows(l, h, a, "left") THEN [h EXCEPT !.thrown = TRUE] ELSE BasicSet(k, a, "left", <<b>>)
  BY <1>3, <1>4 DEF InverseAdd
<1>12. CASE ReadThrows(l, h, a, "left")
  <2>1. EInverseAdd(l, h, a, b, "left") = [h EXCEPT !.thrown = TRUE]
    BY <1>5, <1>6, <1>12
  <2> QED BY <1>1, <1>12, <2>1, ReadThrowsLazy
<1>7. v \in W
  BY <1>1 DEF Heaped
<1>8. IF v = NoValue THEN k = h ELSE Moves(k, h, v[1], NoValue)
  <2>1. v # NoValue => v[1] \in Objs
    BY <1>7 DEF W
  <2> HIDE DEF v
  <2> QED BY <1>4, <2>1, LeavesContainment
<1> HIDE DEF v, k
<1>9. Heaped(k)
  BY <1>8 DEF Moves
<1>10. <<b>> \in W
  BY <1>1 DEF W
<1>11. Stores(BasicSet(k, a, "left", <<b>>), k, a, "left", <<b>>)
  BY <1>1, <1>9, <1>10, BasicSetStores
<1>13. CASE ~ReadThrows(l, h, a, "left")
  BY <1>5, <1>6, <1>8, <1>11, <1>13 DEF v
<1> QED BY <1>12, <1>13

(* The heap once the value of the feature f of o, if any, is told that it left. *)
Dropped(l, h, o, f) ==
  IF h.val[o][f] = NoValue THEN h ELSE EInverseRemove(l, h, h.val[o][f][1], o, InverseOf(f))

(* From h to k the object that the containment f of a holds loses its container. *)
Freed(k, h, a, f) ==
  /\ Heaped(k) /\ KeepsFlags(k, h) /\ k.val = h.val
  /\ \A q \in Objs : k.cont[q] = IF h.val[a][f] = <<q>> THEN NoValue ELSE h.cont[q]

(* From h to m the containments lose b. *)
Emptied(m, h, b) ==
  /\ Heaped(m) /\ KeepsFlags(m, h)
  /\ \A p \in Objs, n \in Names :
       m.val[p][n] = IF Holds(n) /\ h.val[p][n] = <<b>> THEN NoValue ELSE h.val[p][n]

(* The object that a containment drops has no container any more. *)
LEMMA DropsOld ==
  ASSUME Singles, NEW l, NEW h, Sound(h), NEW a \in As, NEW f \in {"left", "other"}, Holds(f)
  PROVE  Freed(Dropped(l, h, a, f), h, a, f)
<1> DEFINE v == h.val[a][f]
           k == Dropped(l, h, a, f)
<1>1. a \in Objs /\ f \in Names /\ Heaped(h)
  BY DEF Objs, Names, Sound
<1>2. v \in W
  BY <1>1 DEF Heaped
<1>3. CASE v = NoValue
  BY <1>1, <1>3 DEF KeepsFlags, NoValue, Dropped, Freed
<1>4. CASE v # NoValue
  <2>1. PICK y \in Objs : v = <<y>>
    BY <1>2, <1>4 DEF W
  <2>2. v[1] = y /\ \A q : v = <<q>> => q = y
    BY <2>1
  <2>3. InverseOf(f) = Key(f)
    BY IDFacts
  <2>4. k = EInverseRemove(l, h, y, a, Key(f))
    BY <1>4, <2>2, <2>3 DEF Dropped
  <2>5. Moves(k, h, y, NoValue)
    BY <1>1, <2>4, LeavesContainment
  <2> QED BY <2>1, <2>2, <2>5 DEF Moves, Freed
<1> QED BY <1>3, <1>4

(* An object that leaves its container, if any, is in no containment any more. *)
LEMMA LeavesAny ==
  ASSUME Singles, NEW l, NEW h, Sound(h), NEW k, Heaped(k), k.val = h.val, NEW b \in Bs, k.cont[b] = h.cont[b]
  PROVE  /\ Emptied(RemoveFromContainer(l, k, b), k, b)
         /\ RemoveFromContainer(l, k, b).cont = k.cont
<1> DEFINE m == RemoveFromContainer(l, k, b)
<1>1. b \in Objs /\ As \subseteq Objs /\ Bs \subseteq Objs
  BY DEF Objs
<1>2. ASSUME NEW p \in Objs, NEW n \in Names, Holds(n), h.val[p][n] = <<b>>
      PROVE  p \in As /\ n \in {"left", "other"} /\ h.cont[b] = <<p, Key(n)>>
  <2>1. n \in {"left", "other"}
    BY <1>2 DEF Holds
  <2>4. h.val[p][n] # NoValue
    BY <1>2 DEF NoValue
  <2>2. p \in Owners(n)
    BY <2>4 DEF Sound, Owned
  <2>3. p \in As
    BY <2>1, <2>2 DEF Owners
  <2> QED BY <1>2, <2>1, <2>3 DEF Sound, Contains
<1>3. CASE h.cont[b] = NoValue
  <2>1. m = k
    BY <1>3 DEF RemoveFromContainer, Contained
  <2>2. \A p \in Objs, n \in Names : ~(Holds(n) /\ h.val[p][n] = <<b>>)
    BY <1>2, <1>3 DEF NoValue
  <2> QED BY <2>1, <2>2 DEF KeepsFlags, Emptied
<1>4. CASE h.cont[b] # NoValue
  <2>1. PICK a \in As, f \in {"left", "other"} : Holds(f) /\ h.cont[b] = <<a, Key(f)>>
    BY <1>1, <1>4 DEF Sound, Located
  <2>2. Stores(m, k, a, f, NoValue)
    BY <1>1, <2>1, LeavesContainer
  <2>3. h.val[a][f] = <<b>>
    BY <2>1 DEF Sound, Contains
  <2>4. ASSUME NEW p \in Objs, NEW n \in Names
        PROVE  m.val[p][n] = IF Holds(n) /\ h.val[p][n] = <<b>> THEN NoValue ELSE h.val[p][n]
    <3>1. CASE p = a /\ n = f
      BY <2>1, <2>2, <2>3, <3>1 DEF Stores
    <3>2. CASE ~(p = a /\ n = f)
      <4>1. m.val[p][n] = h.val[p][n]
        BY <2>2, <3>2 DEF Stores
      <4>2. ~(Holds(n) /\ h.val[p][n] = <<b>>)
        BY <1>2, <2>1, <3>2, KeysDiffer
      <4> QED BY <4>1, <4>2
    <3> QED BY <3>1, <3>2
  <2> QED BY <2>2, <2>4 DEF Stores, Emptied
<1> QED BY <1>3, <1>4

(* A value that is in its containment already joins it without a change. *)
LEMMA JoinedAlready ==
  ASSUME Singles, NEW h, Sound(h), NEW a \in As, NEW f \in {"left", "other"}, Holds(f), NEW s \in Values(f),
         h.val[a][f] = s, NEW g, g.val = h.val, g.cont = h.cont
  PROVE  Joined(g, h, a, f, s)
<1>1. s = NoValue \/ \E b \in Bs : s = <<b>>
  BY DEF Values, Targets
<1>2. ASSUME NEW p \in Objs, NEW n \in Names, Holds(n), s # NoValue, h.val[p][n] = s
      PROVE  p = a /\ n = f
  <2>1. PICK b \in Bs : s = <<b>>
    BY <1>1, <1>2
  <2>2. n \in {"left", "other"} /\ p \in Owners(n)
    BY <1>2 DEF Holds, Sound, Owned
  <2>3. p \in As
    BY <2>2 DEF Owners
  <2>4. h.val[a][f] = <<b>> /\ h.val[p][n] = <<b>>
    BY <1>2, <2>1
  <2> QED BY <1>2, <2>2, <2>3, <2>4, HeldOnce
<1>3. \A q \in Objs : s = <<q>> => h.cont[q] = <<a, Key(f)>>
  <2>1. \A q \in Objs : s = <<q>> => q \in Bs
    BY <1>1 DEF NoValue
  <2> QED BY <2>1 DEF Sound, Contains
<1>4. \A q \in Objs : h.val[a][f] = <<q>> => s = <<q>>
  OBVIOUS
<1> QED BY <1>2, <1>3, <1>4 DEF Joined

(* The setter of a containment, *)
LEMMA SetterJoins ==
  ASSUME Singles, NEW l, NEW h, Sound(h), NEW a \in As, NEW f \in {"left", "other"}, Holds(f), NEW s \in Values(f),
         NEW g, g = Setter(l, h, a, f, s)
  PROVE  Heaped(g) /\ KeepsFlags(g, h) /\ FlagOK(g, a, f) /\ Joined(g, h, a, f, s)
<1> DEFINE v == h.val[a][f]
           id == InverseOf(f)
           k == Dropped(l, h, a, f)
           j == IF s = NoValue THEN k ELSE EInverseAdd(l, k, s[1], a, id)
<1>1. /\ f \in Names /\ Has(f) /\ ~IsContainer(Feature(f)) /\ Feature(f).containment
      /\ a \in Objs /\ As \subseteq Objs /\ Bs \subseteq Objs /\ Targets(f) = Bs
  BY ShapeFacts DEF Names, Objs, Holds, Targets
<1>2. SingleReference(Feature(f)) /\ Heaped(h)
  BY <1>1, ShapeFacts DEF Sound
<1>3. In(l, GoSetter(Feature(f), FALSE), TSSetter(Feature(f), FALSE)) = "inverse"
  BY <1>1, <1>2, SingleSetter DEF In, TSSetter
<1>4. Current(h, a, f) = v
  BY <1>1 DEF Current
<1>5. id = Key(f)
  BY IDFacts
<1>6. s \in W /\ (s = NoValue \/ \E b \in Bs : s = <<b>>)
  BY <1>1 DEF Values, W
<1>7. /\ Heaped(k) /\ KeepsFlags(k, h) /\ k.val = h.val
      /\ \A q \in Objs : k.cont[q] = IF v = <<q>> THEN NoValue ELSE h.cont[q]
  <2>1. Freed(k, h, a, f)
    BY DropsOld
  <2> QED BY <2>1 DEF Freed
<1>8. CASE s # v
  <2> HIDE DEF k, v, id
  <2>2. /\ Heaped(j) /\ KeepsFlags(j, h)
        /\ \A p \in Objs, n \in Names :
             j.val[p][n] = IF Holds(n) /\ s # NoValue /\ h.val[p][n] = s THEN NoValue ELSE h.val[p][n]
        /\ \A q \in Objs : j.cont[q] = IF s = <<q>> THEN <<a, Key(f)>> ELSE IF v = <<q>> THEN NoValue ELSE h.cont[q]
    <3>1. CASE s = NoValue
      BY <1>7, <3>1 DEF NoValue
    <3>2. CASE s # NoValue
      <4>1. PICK b \in Bs : s = <<b>>
        BY <1>6, <3>2
      <4>2. s[1] = b /\ \A q : s = <<q>> => q = b
        BY <4>1
      <4>3. k.cont[b] = h.cont[b]
        BY <1>1, <1>7, <1>8, <4>1
      <4> DEFINE m == RemoveFromContainer(l, k, b)
      <4>4. /\ Heaped(m) /\ KeepsFlags(m, k) /\ m.cont = k.cont
            /\ \A p \in Objs, n \in Names :
                 m.val[p][n] = IF Holds(n) /\ h.val[p][n] = <<b>> THEN NoValue ELSE h.val[p][n]
        <5>1. Emptied(m, k, b) /\ m.cont = k.cont
          BY <1>7, <4>3, LeavesAny
        <5> QED BY <1>7, <5>1 DEF Emptied
      <4>5. j = EInverseAdd(l, k, b, a, Key(f))
        BY <1>5, <3>2, <4>2
      <4>6. Moves(j, m, b, <<a, Key(f)>>)
        BY <4>4, <4>5, JoinsContainment
      <4> HIDE DEF m, j
      <4>7. KeepsFlags(j, h)
        BY <1>7, <4>4, <4>6 DEF Moves, KeepsFlags
      <4>8. \A q \in Objs : j.cont[q] = IF s = <<q>> THEN <<a, Key(f)>> ELSE IF v = <<q>> THEN NoValue ELSE h.cont[q]
        BY <1>7, <4>1, <4>2, <4>4, <4>6 DEF Moves
      <4>9. \A p \in Objs, n \in Names :
              j.val[p][n] = IF Holds(n) /\ s # NoValue /\ h.val[p][n] = s THEN NoValue ELSE h.val[p][n]
        BY <3>2, <4>1, <4>4, <4>6 DEF Moves
      <4> QED BY <4>6, <4>7, <4>8, <4>9 DEF Moves
    <3> QED BY <3>1, <3>2
  <2>1. g = BasicSet(j, a, f, s)
    <3>1. j.thrown = FALSE
      BY <2>2 DEF Heaped
    <3> QED BY <1>3, <1>4, <1>8, <3>1 DEF Setter, StoredAfter, k, v, id, Dropped
  <2> HIDE DEF j
  <2>3. Stores(g, j, a, f, s) /\ FlagOK(g, a, f)
    BY <1>1, <1>6, <2>1, <2>2, BasicSetStores
  <2>4. KeepsFlags(g, h)
    BY <2>2, <2>3 DEF Stores, KeepsFlags
  <2>5. Joined(g, h, a, f, s)
    BY <2>2, <2>3 DEF Stores, Joined, v
  <2> QED BY <2>3, <2>4, <2>5 DEF Stores
<1>9. CASE s = v
  <2> DEFINE b == h.flag[a][f] \/ HasESet(Feature(f))
  <2>1. g = [h EXCEPT !.flag[a][f] = b]
    BY <1>3, <1>4, <1>9 DEF Setter, StoredAfter
  <2>2. b \in BOOLEAN
    BY DEF HasESet, IsUnsettable
  <2> HIDE DEF b
  <2>3. /\ Heaped(g) /\ g.val = h.val /\ g.cont = h.cont
        /\ \A p \in Objs, n \in Names : g.flag[p][n] = IF p = a /\ n = f THEN b ELSE h.flag[p][n]
    BY <1>1, <1>2, <2>1, <2>2, FlagIs
  <2>4. FlagOK(g, a, f)
    BY <1>1, <2>3 DEF FlagOK, b
  <2>5. KeepsFlags(g, h)
    BY <2>3, <2>4 DEF KeepsFlags, FlagOK
  <2>6. Joined(g, h, a, f, s)
    BY <1>9, <2>3, JoinedAlready
  <2> QED BY <2>3, <2>4, <2>5, <2>6
<1> QED BY <1>8, <1>9

(* and its unsetter. *)
LEMMA UnsetJoins ==
  ASSUME Singles, NEW l, NEW h, Sound(h), NEW a \in As, NEW f \in {"left", "other"}, Holds(f),
         NEW g, g = UnsetValue(l, h, a, f)
  PROVE  Heaped(g) /\ KeepsFlags(g, h) /\ g.flag[a][f] = FALSE /\ Joined(g, h, a, f, NoValue)
<1> DEFINE k == Dropped(l, h, a, f)
<1>1. f \in Names /\ Has(f) /\ Feature(f).containment /\ a \in Objs
  BY DEF Names, Objs, Holds
<1>2. SingleReference(Feature(f))
  BY <1>1, ShapeFacts
<1>3. In(l, GoUnsetter(Feature(f), FALSE), TSUnsetter(Feature(f), FALSE)) = "inverse"
  BY <1>1, <1>2, SingleUnsetter, SingleTSUnsetter DEF In
<1>4. g = BasicUnset(k, a, f)
  BY <1>3 DEF UnsetValue, Dropped
<1>5. /\ Heaped(k) /\ KeepsFlags(k, h) /\ k.val = h.val
      /\ \A q \in Objs : k.cont[q] = IF h.val[a][f] = <<q>> THEN NoValue ELSE h.cont[q]
  <2>1. Freed(k, h, a, f)
    BY DropsOld
  <2> QED BY <2>1 DEF Freed
<1> HIDE DEF k
<1>6. Stores(g, k, a, f, NoValue) /\ g.flag[a][f] = FALSE
  <2>1. Heaped(k)
    BY <1>5
  <2> QED BY <1>1, <1>4, <2>1, BasicUnsetStores
<1>7. KeepsFlags(g, h)
  BY <1>5, <1>6 DEF Stores, KeepsFlags
<1>8. Joined(g, h, a, f, NoValue)
  BY <1>5, <1>6 DEF Stores, Joined, NoValue
<1> QED BY <1>6, <1>7, <1>8 DEF Stores

(* The setter of a container makes the owner the one that the setter of the containment would. *)
LEMMA SetterTakes ==
  ASSUME Singles, Has("right"), Holds("left"), NEW l, NEW h, Sound(h), NEW b \in Bs, NEW a \in As,
         NEW g, g = Setter(l, h, b, "right", <<a>>)
  PROVE  Threw(l, g) \/ (Heaped(g) /\ KeepsFlags(g, h) /\ Joined(g, h, a, "left", <<b>>))
<1> DEFINE m == RemoveFromContainer(l, h, b)
           j == EInverseAdd(l, m, a, b, "left")
<1>1. /\ IsContainer(Feature("right")) /\ "right" \in Names /\ "left" \in Names
      /\ a \in Objs /\ b \in Objs /\ Heaped(h) /\ <<a>> # NoValue
  BY ShapeFacts DEF Plain, Names, Objs, Sound, NoValue
<1>2. SingleReference(Feature("right"))
  BY <1>1, ShapeFacts
<1>3. In(l, GoSetter(Feature("right"), FALSE), TSSetter(Feature("right"), FALSE)) = "container"
  BY <1>1, <1>2, SingleSetter DEF In, TSSetter
<1>4. InverseOf("right") = "left" /\ Key("left") = "right"
  BY IDFacts
<1> DEFINE moves == \/ <<a>> # (IF Contained(h, b) THEN <<h.cont[b][1]>> ELSE NoValue)
                    \/ <<a>> # NoValue /\ h.cont[b][2] # "right"
<1>5. h.cont[b] \in Links
  BY <1>1 DEF Heaped
<1>6. moves <=> h.cont[b] # <<a, "right">>
  <2>1. h.cont[b] = NoValue => moves
    BY <1>1 DEF Contained
  <2>2. NoValue # <<a, "right">>
    BY DEF NoValue
  <2>3. ASSUME NEW x \in As, NEW id \in {"right", "-left", "-other"}, h.cont[b] = <<x, id>>
        PROVE  moves <=> h.cont[b] # <<a, "right">>
    <3>1. Contained(h, b) /\ h.cont[b][1] = x /\ h.cont[b][2] = id
      BY <2>3 DEF Contained, NoValue
    <3>2. moves <=> x # a \/ id # "right"
      BY <1>1, <3>1
    <3> QED BY <2>3, <3>2
  <2> QED BY <1>5, <2>1, <2>2, <2>3 DEF Links
<1>7. h.val[a]["left"] = <<b>> <=> h.cont[b] = <<a, "right">>
  BY <1>4 DEF Sound, Contains
<1>8. CASE moves
  <2>1. g = IF j.thrown THEN j ELSE BasicSet(j, b, "right", <<a>>)
    BY <1>1, <1>3, <1>4, <1>8 DEF Setter, StoredAfter
  <2>2. /\ Heaped(m) /\ KeepsFlags(m, h) /\ m.cont = h.cont
        /\ \A p \in Objs, n \in Names :
             m.val[p][n] = IF Holds(n) /\ h.val[p][n] = <<b>> THEN NoValue ELSE h.val[p][n]
    <3>1. Emptied(m, h, b) /\ m.cont = h.cont
      BY <1>1, LeavesAny
    <3> QED BY <3>1 DEF Emptied
  <2> HIDE DEF m
  <2>3. m.val[a]["left"] = h.val[a]["left"]
    BY <1>1, <1>6, <1>7, <1>8, <2>2
  <2>12. SUFFICES ASSUME ~Threw(l, j)
                  PROVE  Heaped(g) /\ KeepsFlags(g, h) /\ Joined(g, h, a, "left", <<b>>)
    BY <2>1 DEF Threw
  <2>4. PICK k : /\ IF m.val[a]["left"] = NoValue THEN k = m ELSE Moves(k, m, m.val[a]["left"][1], NoValue)
                 /\ Stores(j, k, a, "left", <<b>>)
    BY <2>2, <2>12, JoinsOwner
  <2> HIDE DEF j
  <2>5. h.val[a]["left"] \in W
    BY <1>1 DEF Heaped
  <2>6. /\ Heaped(k) /\ KeepsFlags(k, m) /\ k.val = m.val
        /\ \A q \in Objs : k.cont[q] = IF h.val[a]["left"] = <<q>> THEN NoValue ELSE m.cont[q]
    <3>1. CASE h.val[a]["left"] = NoValue
      <4>1. k = m
        BY <2>3, <2>4, <3>1
      <4> QED BY <2>2, <3>1, <4>1 DEF KeepsFlags, NoValue
    <3>2. CASE h.val[a]["left"] # NoValue
      <4>1. PICK y \in Objs : h.val[a]["left"] = <<y>>
        BY <2>5, <3>2 DEF W
      <4>2. h.val[a]["left"][1] = y /\ \A q : h.val[a]["left"] = <<q>> => q = y
        BY <4>1
      <4>3. Moves(k, m, y, NoValue)
        BY <2>3, <2>4, <3>2, <4>2
      <4> QED BY <4>1, <4>2, <4>3 DEF Moves
    <3> QED BY <3>1, <3>2
  <2>7. <<a>> \in Values("right") /\ <<a>>[1] = a
    BY DEF Values, Targets
  <2>8. Heaped(j)
    BY <2>4 DEF Stores
  <2>9. Moves(g, j, b, <<a, "right">>)
    <3> DEFINE s == <<a>>
    <3>1. s \in Values("right") /\ s[1] = a /\ s # NoValue
      BY <1>1, <2>7
    <3>2. g = BasicSet(j, b, "right", s)
      BY <2>1, <2>8 DEF Heaped
    <3> HIDE DEF s
    <3>3. Moves(g, j, b, IF s = NoValue THEN NoValue ELSE <<s[1], "right">>)
      BY <1>1, <2>8, <3>1, <3>2, BasicSetMoves
    <3> QED BY <3>1, <3>3
  <2>10. KeepsFlags(g, h)
    BY <2>2, <2>4, <2>6, <2>9 DEF KeepsFlags, Stores, Moves
  <2>11. Joined(g, h, a, "left", <<b>>)
    <3>1. \A q : <<b>> = <<q>> <=> q = b
      OBVIOUS
    <3>2. <<b>> # NoValue
      BY DEF NoValue
    <3> DEFINE s == <<b>>
    <3>3. \A q : s = <<q>> <=> q = b
      BY <3>1
    <3>4. \A q \in Objs : g.cont[q] = IF q = b THEN <<a, Key("left")>>
                                      ELSE IF h.val[a]["left"] = <<q>> THEN NoValue ELSE h.cont[q]
      BY <1>4, <2>2, <2>4, <2>6, <2>9 DEF Stores, Moves
    <3>5. \A p \in Objs, n \in Names :
            g.val[p][n] = IF p = a /\ n = "left" THEN s
                          ELSE IF Holds(n) /\ h.val[p][n] = s THEN NoValue ELSE h.val[p][n]
      <4>1. \A p \in Objs, n \in Names : j.val[p][n] = IF p = a /\ n = "left" THEN s ELSE m.val[p][n]
        BY <2>4, <2>6 DEF Stores
      <4>2. g.val = j.val
        BY <2>9 DEF Moves
      <4> QED BY <2>2, <4>1, <4>2
    <3>6. s # NoValue
      BY <3>2
    <3> HIDE DEF s
    <3>7. Joined(g, h, a, "left", s)
      BY <3>3, <3>4, <3>5, <3>6 DEF Joined
    <3> QED BY <3>7 DEF s
  <2> QED BY <2>9, <2>10, <2>11 DEF Moves
<1>9. CASE ~moves
  <2>1. g = h
    BY <1>1, <1>3, <1>9 DEF Setter, StoredAfter
  <2>2. <<b>> \in Values("left")
    BY DEF Values, Targets
  <2>3. Joined(g, h, a, "left", <<b>>)
    BY <1>6, <1>7, <1>9, <2>1, <2>2, JoinedAlready
  <2> QED BY <1>1, <2>1, <2>3 DEF KeepsFlags
<1> QED BY <1>8, <1>9

(* Set to nothing, it leaves the containment that held the object without value. *)
LEMMA SetterLeaves ==
  ASSUME Singles, Has("right"), Holds("left"), NEW l, NEW h, Sound(h), NEW b \in Bs,
         NEW g, g = Setter(l, h, b, "right", NoValue)
  PROVE  /\ Heaped(g) /\ KeepsFlags(g, h) /\ g.cont[b] = NoValue
         /\ \/ g = h
            \/ \E a \in As, f \in {"left", "other"} : Holds(f) /\ Joined(g, h, a, f, NoValue)
<1> DEFINE m == RemoveFromContainer(l, h, b)
<1>1. IsContainer(Feature("right")) /\ "right" \in Names /\ b \in Objs /\ Heaped(h)
  BY ShapeFacts DEF Plain, Names, Objs, Sound
<1>2. SingleReference(Feature("right"))
  BY <1>1, ShapeFacts
<1>3. In(l, GoSetter(Feature("right"), FALSE), TSSetter(Feature("right"), FALSE)) = "container"
  BY <1>1, <1>2, SingleSetter DEF In, TSSetter
<1>4. CASE h.cont[b] = NoValue
  <2>1. g = h
    BY <1>3, <1>4 DEF Setter, StoredAfter, Contained
  <2> QED BY <1>1, <1>4, <2>1 DEF KeepsFlags
<1>5. CASE h.cont[b] # NoValue
  <2>1. PICK a \in As, f \in {"left", "other"} : Holds(f) /\ h.cont[b] = <<a, Key(f)>>
    BY <1>1, <1>5 DEF Sound, Located
  <2>2. Stores(m, h, a, f, NoValue)
    BY <1>1, <2>1, LeavesContainer
  <2>3. NoValue # <<h.cont[b][1]>>
    BY DEF NoValue
  <2>11. m.thrown = FALSE
    BY <2>2 DEF Stores, Heaped
  <2>4. g = BasicSet(m, b, "right", NoValue)
    BY <1>3, <1>5, <2>3, <2>11 DEF Setter, StoredAfter, Contained
  <2> HIDE DEF m
  <2>5. Heaped(m) /\ NoValue \in Values("right")
    BY <2>2 DEF Stores, Values
  <2>6. Moves(g, m, b, NoValue)
    BY <1>1, <2>4, <2>5, BasicSetMoves
  <2>7. h.val[a][f] = <<b>>
    BY <2>1 DEF Sound, Contains
  <2>8. \A q : h.val[a][f] = <<q>> <=> q = b
    BY <2>7
  <2>9. Joined(g, h, a, f, NoValue)
    BY <2>2, <2>6, <2>8 DEF Stores, Moves, Joined, NoValue
  <2>10. KeepsFlags(g, h)
    BY <2>2, <2>6 DEF Stores, Moves, KeepsFlags
  <2> QED BY <1>1, <2>1, <2>6, <2>9, <2>10 DEF Moves
<1> QED BY <1>4, <1>5

(* An end names an object when the object names it. *)
LEMMA EndsNameEachOther ==
  ASSUME Singles, Plain, NEW h, Sound(h), NEW f \in {"left", "right"}, NEW p \in Objs, NEW x \in Objs
  PROVE  h.val[p][f] = <<x>> <=> h.val[x][Opposite(f)] = <<p>>
<1> DEFINE e == Opposite(f)
<1>1. e \in {"left", "right"} /\ Targets(f) = Owners(e) /\ Targets(e) = Owners(f) /\ {f, e} \subseteq Names
  BY DEF Opposite, Targets, Owners, Names
<1>2. \A q, y \in Objs, n \in Names : h.val[q][n] = <<y>> => q \in Owners(n) /\ y \in Targets(n)
  <2> SUFFICES ASSUME NEW q \in Objs, NEW y \in Objs, NEW n \in Names, h.val[q][n] = <<y>>
               PROVE  q \in Owners(n) /\ y \in Targets(n)
    OBVIOUS
  <2>1. h.val[q][n] # NoValue
    BY DEF NoValue
  <2>2. q \in Owners(n) /\ \E z \in Targets(n) : h.val[q][n] = <<z>>
    BY <2>1 DEF Sound, Owned
  <2> QED BY <2>2
<1>3. ASSUME NEW a \in As, NEW b \in Bs
      PROVE  h.val[a]["left"] = <<b>> <=> h.val[b]["right"] = <<a>>
  BY DEF Sound, Paired
<1>4. CASE f = "left"
  <2>1. e = "right" /\ Owners(f) = As /\ Targets(f) = Bs
    BY <1>4 DEF Opposite, Owners, Targets
  <2>2. CASE p \in As /\ x \in Bs
    BY <1>3, <1>4, <2>1, <2>2
  <2>3. CASE ~(p \in As /\ x \in Bs)
    BY <1>1, <1>2, <2>1, <2>3
  <2> QED BY <2>2, <2>3
<1>5. CASE f = "right"
  <2>1. e = "left" /\ Owners(f) = Bs /\ Targets(f) = As
    BY <1>5 DEF Opposite, Owners, Targets
  <2>2. CASE p \in Bs /\ x \in As
    BY <1>3, <1>5, <2>1, <2>2
  <2>3. CASE ~(p \in Bs /\ x \in As)
    BY <1>1, <1>2, <2>1, <2>3
  <2> QED BY <2>2, <2>3
<1> QED BY <1>4, <1>5

(* From h to k the object that the end f of o names has no value at the other end. *)
Divorced(k, h, o, f) ==
  /\ Heaped(k) /\ KeepsFlags(k, h) /\ k.cont = h.cont
  /\ \A p \in Objs, n \in Names :
       k.val[p][n] = IF n = Opposite(f) /\ h.val[o][f] = <<p>> THEN NoValue ELSE h.val[p][n]

(* The object that an end drops has no value at the other end. *)
LEMMA DropsEnd ==
  ASSUME Singles, Plain, NEW l, NEW h, Sound(h), NEW o \in Objs, NEW f \in {"left", "right"}
  PROVE  Divorced(Dropped(l, h, o, f), h, o, f)
<1> DEFINE v == h.val[o][f]
           k == Dropped(l, h, o, f)
           e == Opposite(f)
<1>1. f \in Names /\ e \in {"left", "right"} /\ Heaped(h)
  BY DEF Names, Sound, Opposite
<1>2. v \in W
  BY <1>1 DEF Heaped
<1>3. CASE v = NoValue
  BY <1>1, <1>3 DEF KeepsFlags, NoValue, Dropped, Divorced
<1>4. CASE v # NoValue
  <2>1. PICK y \in Objs : v = <<y>>
    BY <1>2, <1>4 DEF W
  <2>2. v[1] = y /\ \A q : v = <<q>> <=> q = y
    BY <2>1
  <2>3. InverseOf(f) = e
    BY ShapeFacts DEF InverseOf, InverseID, IDOf, Plain
  <2>4. k = EInverseRemove(l, h, y, o, e)
    BY <1>4, <2>2, <2>3 DEF Dropped
  <2>5. Stores(k, h, y, e, NoValue)
    BY <1>1, <2>4, LeavesEnd
  <2> HIDE DEF k
  <2>6. \A p \in Objs, n \in Names : k.val[p][n] = IF n = e /\ v = <<p>> THEN NoValue ELSE h.val[p][n]
    BY <2>2, <2>5 DEF Stores
  <2> QED BY <2>5, <2>6 DEF Stores, Divorced, k
<1> QED BY <1>3, <1>4

(* The setter of an end, *)
LEMMA SetterMarries ==
  ASSUME Singles, Plain, NEW l, NEW h, Sound(h), NEW f \in {"left", "right"}, NEW o \in Owners(f), NEW s \in Values(f),
         NEW g, g = Setter(l, h, o, f, s)
  PROVE  Threw(l, g) \/ (Heaped(g) /\ KeepsFlags(g, h) /\ FlagOK(g, o, f) /\ Married(g, h, o, f, s))
<1> DEFINE v == h.val[o][f]
           e == Opposite(f)
           k == Dropped(l, h, o, f)
           j == IF s = NoValue THEN k ELSE EInverseAdd(l, k, s[1], o, e)
<1>1. /\ f \in Names /\ Has(f) /\ ~IsContainer(Feature(f)) /\ IsBidirectional(Feature(f))
      /\ e \in {"left", "right"} /\ e # f /\ Opposite(e) = f /\ Heaped(h)
  BY ShapeFacts DEF Names, Opposite, Sound
<1>2. SingleReference(Feature(f))
  BY <1>1, ShapeFacts
<1>3. In(l, GoSetter(Feature(f), FALSE), TSSetter(Feature(f), FALSE)) = "inverse"
  BY <1>1, <1>2, SingleSetter DEF In, TSSetter
<1>4. Current(h, o, f) = v /\ InverseOf(f) = e
  BY <1>1, ShapeFacts DEF Current, InverseOf, InverseID, IDOf, Plain
<1>5. o \in Objs /\ s \in W /\ (s = NoValue \/ \E x \in Objs : s = <<x>>)
  BY DEF Values, W, Objs, Owners, Targets
<1>6. Divorced(k, h, o, f)
  BY <1>5, DropsEnd
<1>7. /\ Heaped(k) /\ KeepsFlags(k, h) /\ k.cont = h.cont
      /\ \A p \in Objs, n \in Names :
           k.val[p][n] = IF n = e /\ v = <<p>> THEN NoValue ELSE h.val[p][n]
  BY <1>6 DEF Divorced
<1>8. CASE s # v
  <2>1. g = IF j.thrown THEN j ELSE BasicSet(j, o, f, s)
    BY <1>3, <1>4, <1>8 DEF Setter, StoredAfter, Dropped
  <2> HIDE DEF k, v, e
  <2>12. SUFFICES ASSUME ~Threw(l, j)
                  PROVE  Heaped(g) /\ KeepsFlags(g, h) /\ FlagOK(g, o, f) /\ Married(g, h, o, f, s)
    BY <2>1 DEF Threw
  <2>2. /\ Heaped(j) /\ KeepsFlags(j, h) /\ j.cont = h.cont
        /\ \A p \in Objs, n \in Names :
             j.val[p][n] = IF n = e /\ s = <<p>> THEN <<o>>
                           ELSE IF n = f /\ s # NoValue /\ h.val[p][f] = s THEN NoValue
                           ELSE k.val[p][n]
    <3>1. CASE s = NoValue
      BY <1>7, <3>1 DEF NoValue
    <3>2. CASE s # NoValue
      <4>1. PICK x \in Objs : s = <<x>>
        BY <1>5, <3>2
      <4>2. s[1] = x /\ \A q : s = <<q>> <=> q = x
        BY <4>1
      <4>3. j = EInverseAdd(l, k, x, o, e)
        BY <3>2, <4>2
      <4>4. PICK m : /\ IF k.val[x][e] = NoValue THEN m = k ELSE Stores(m, k, k.val[x][e][1], f, NoValue)
                     /\ Stores(j, m, x, e, <<o>>)
        <5>1. \E m : /\ IF k.val[x][e] = NoValue THEN m = k ELSE Stores(m, k, k.val[x][e][1], Opposite(e), NoValue)
                     /\ Stores(EInverseAdd(l, k, x, o, e), m, x, e, <<o>>)
          <6>1. ~Threw(l, EInverseAdd(l, k, x, o, e))
            BY <2>12, <4>3
          <6> QED BY <1>1, <1>5, <1>7, <6>1, JoinsEnd
        <5> HIDE DEF j
        <5> QED BY <1>1, <4>3, <5>1
      <4>5. k.val[x][e] = h.val[x][e]
        BY <1>1, <1>7, <1>8, <4>1 DEF Names
      <4>6. h.val[x][e] \in W
        BY <1>1 DEF Heaped, Names
      <4>7. \A p \in Objs : h.val[p][f] = s <=> h.val[x][e] = <<p>>
        BY <4>1, EndsNameEachOther DEF e
      <4>8. \A p \in Objs : k.val[p][f] = h.val[p][f]
        BY <1>1, <1>7
      <4>9. /\ Heaped(m) /\ KeepsFlags(m, k) /\ m.cont = k.cont
            /\ \A p \in Objs, n \in Names :
                 m.val[p][n] = IF n = f /\ h.val[p][f] = s THEN NoValue ELSE k.val[p][n]
        <5>1. CASE h.val[x][e] = NoValue
          <6>1. m = k
            BY <4>4, <4>5, <5>1
          <6>2. \A p \in Objs : h.val[p][f] # s
            BY <4>7, <5>1 DEF NoValue
          <6> QED BY <1>7, <6>1, <6>2 DEF KeepsFlags
        <5>2. CASE h.val[x][e] # NoValue
          <6>1. PICK z \in Objs : h.val[x][e] = <<z>>
            BY <4>6, <5>2 DEF W
          <6>2. h.val[x][e][1] = z /\ \A q : h.val[x][e] = <<q>> <=> q = z
            BY <6>1
          <6>3. Stores(m, k, z, f, NoValue)
            BY <4>4, <4>5, <5>2, <6>2
          <6>4. \A p \in Objs : h.val[p][f] = s <=> p = z
            BY <4>7, <6>2
          <6>5. \A p \in Objs, n \in Names :
                  m.val[p][n] = IF n = f /\ h.val[p][f] = s THEN NoValue ELSE k.val[p][n]
            BY <6>3, <6>4 DEF Stores
          <6> QED BY <6>3, <6>5 DEF Stores
        <5> QED BY <5>1, <5>2
      <4> HIDE DEF j
      <4>10. KeepsFlags(j, h) /\ j.cont = h.cont
        BY <1>7, <4>4, <4>9 DEF Stores, KeepsFlags
      <4>11. \A p \in Objs, n \in Names : j.val[p][n] = IF p = x /\ n = e THEN <<o>> ELSE m.val[p][n]
        BY <4>4 DEF Stores
      <4> QED BY <3>2, <4>2, <4>4, <4>9, <4>10, <4>11 DEF Stores
    <3> QED BY <3>1, <3>2
  <2> HIDE DEF j
  <2>3. Stores(g, j, o, f, s) /\ FlagOK(g, o, f)
    <3>1. g = BasicSet(j, o, f, s)
      BY <2>1, <2>2 DEF Heaped
    <3> QED BY <1>1, <1>5, <2>2, <3>1, BasicSetStores
  <2>4. KeepsFlags(g, h) /\ g.cont = h.cont
    BY <2>2, <2>3 DEF Stores, KeepsFlags
  <2>5. ASSUME NEW p \in Objs, NEW n \in Names
        PROVE  g.val[p][n] = IF p = o /\ n = f THEN s
                             ELSE IF n = e /\ s = <<p>> THEN <<o>>
                             ELSE IF n = e /\ v = <<p>> THEN NoValue
                             ELSE IF n = f /\ s # NoValue /\ h.val[p][f] = s THEN NoValue
                             ELSE h.val[p][n]
    <3>1. g.val[p][n] = IF p = o /\ n = f THEN s ELSE j.val[p][n]
      BY <2>3 DEF Stores
    <3>2. j.val[p][n] = IF n = e /\ s = <<p>> THEN <<o>>
                        ELSE IF n = f /\ s # NoValue /\ h.val[p][f] = s THEN NoValue
                        ELSE k.val[p][n]
      BY <2>2
    <3>3. k.val[p][n] = IF n = e /\ v = <<p>> THEN NoValue ELSE h.val[p][n]
      BY <1>7
    <3> QED BY <1>1, <3>1, <3>2, <3>3
  <2>6. Married(g, h, o, f, s)
    BY <2>4, <2>5 DEF Married, e, v
  <2> QED BY <2>3, <2>4, <2>6 DEF Stores
<1>9. CASE s = v
  <2> DEFINE b == h.flag[o][f] \/ HasESet(Feature(f))
  <2>1. g = [h EXCEPT !.flag[o][f] = b]
    BY <1>3, <1>4, <1>9 DEF Setter, StoredAfter
  <2>2. b \in BOOLEAN
    BY DEF HasESet, IsUnsettable
  <2> HIDE DEF b
  <2>3. /\ Heaped(g) /\ g.val = h.val /\ g.cont = h.cont
        /\ \A p \in Objs, n \in Names : g.flag[p][n] = IF p = o /\ n = f THEN b ELSE h.flag[p][n]
    BY <1>1, <1>5, <2>1, <2>2, FlagIs
  <2>4. FlagOK(g, o, f)
    BY <1>1, <1>5, <2>3 DEF FlagOK, b
  <2>5. KeepsFlags(g, h)
    BY <2>3, <2>4 DEF KeepsFlags, FlagOK
  <2>6. ASSUME NEW p \in Objs, s = <<p>>
        PROVE  h.val[p][e] = <<o>>
    <3>1. h.val[o][f] = <<p>>
      BY <1>9, <2>6
    <3> QED BY <1>5, <3>1, EndsNameEachOther
  <2>7. ASSUME NEW p \in Objs, s # NoValue, h.val[p][f] = s
        PROVE  p = o
    <3>1. PICK x \in Objs : s = <<x>>
      BY <1>5, <2>7
    <3>4. h.val[o][f] = <<x>> /\ h.val[p][f] = <<x>>
      BY <1>9, <2>7, <3>1
    <3>2. h.val[x][e] = <<p>> /\ h.val[x][e] = <<o>>
      BY <1>5, <3>4, EndsNameEachOther
    <3>3. <<p>> = <<o>>
      BY <3>2
    <3> QED BY <3>3
  <2>8. Married(g, h, o, f, s)
    BY <1>9, <2>3, <2>6, <2>7 DEF Married
  <2> QED BY <2>3, <2>4, <2>5, <2>8
<1> QED BY <1>8, <1>9

(* and its unsetter. *)
LEMMA UnsetMarries ==
  ASSUME Singles, Plain, NEW l, NEW h, Sound(h), NEW f \in {"left", "right"}, NEW o \in Owners(f),
         NEW g, g = UnsetValue(l, h, o, f)
  PROVE  Heaped(g) /\ KeepsFlags(g, h) /\ g.flag[o][f] = FALSE /\ Married(g, h, o, f, NoValue)
<1> DEFINE k == Dropped(l, h, o, f)
<1>1. f \in Names /\ Has(f) /\ IsBidirectional(Feature(f)) /\ o \in Objs
  BY ShapeFacts DEF Names, Objs, Owners, Plain
<1>2. SingleReference(Feature(f))
  BY <1>1, ShapeFacts
<1>3. In(l, GoUnsetter(Feature(f), FALSE), TSUnsetter(Feature(f), FALSE)) = "inverse"
  BY <1>1, <1>2, SingleUnsetter, SingleTSUnsetter DEF In
<1>4. g = BasicUnset(k, o, f)
  BY <1>3 DEF UnsetValue, Dropped
<1>5. Divorced(k, h, o, f)
  BY <1>1, DropsEnd
<1> HIDE DEF k
<1>6. Heaped(k) /\ KeepsFlags(k, h) /\ k.cont = h.cont
  BY <1>5 DEF Divorced
<1>7. Stores(g, k, o, f, NoValue) /\ g.flag[o][f] = FALSE
  BY <1>1, <1>4, <1>6, BasicUnsetStores
<1>8. KeepsFlags(g, h)
  BY <1>6, <1>7 DEF Stores, KeepsFlags
<1>9. \A p : NoValue # <<p>>
  BY DEF NoValue
<1>10. Married(g, h, o, f, NoValue)
  BY <1>5, <1>7, <1>9 DEF Stores, Married, Divorced
<1> QED BY <1>7, <1>8, <1>10 DEF Stores

(* A reference that contains nothing and has no other end is only stored. *)
LEMMA SetterStores ==
  ASSUME Singles, ~Has("right"), ~Holds("left"), NEW l, NEW h, Sound(h), NEW a \in As, NEW s \in Values("left"),
         NEW g, g = Setter(l, h, a, "left", s)
  PROVE  Stores(g, h, a, "left", s) /\ FlagOK(g, a, "left")
<1>1. /\ "left" \in Names /\ Has("left") /\ ~IsContainer(Feature("left")) /\ ~IsBidirectional(Feature("left"))
      /\ ~Feature("left").containment /\ a \in Objs /\ Heaped(h)
  BY ShapeFacts DEF Names, Objs, Sound
<1>2. SingleReference(Feature("left"))
  BY <1>1, ShapeFacts
<1>3. In(l, GoSetter(Feature("left"), FALSE), TSSetter(Feature("left"), FALSE)) = "field"
  BY <1>1, <1>2, SingleSetter DEF In, TSSetter
<1>4. g = BasicSet(h, a, "left", s)
  BY <1>3 DEF Setter, StoredAfter
<1>5. s \in W
  BY DEF Values, Targets, W, Objs
<1> QED BY <1>1, <1>4, <1>5, BasicSetStores

(* So is its absence. *)
LEMMA UnsetStores ==
  ASSUME Singles, ~Has("right"), ~Holds("left"), NEW l, NEW h, Sound(h), NEW a \in As,
         NEW g, g = UnsetValue(l, h, a, "left")
  PROVE  Stores(g, h, a, "left", NoValue) /\ g.flag[a]["left"] = FALSE
<1>1. /\ "left" \in Names /\ Has("left") /\ ~IsBidirectional(Feature("left"))
      /\ ~Feature("left").containment /\ a \in Objs /\ Heaped(h)
  BY ShapeFacts DEF Names, Objs, Sound
<1>2. SingleReference(Feature("left"))
  BY <1>1, ShapeFacts
<1>3. In(l, GoUnsetter(Feature("left"), FALSE), TSUnsetter(Feature("left"), FALSE)) = "field"
  BY <1>1, <1>2, SingleUnsetter, SingleTSUnsetter DEF In
<1>4. g = BasicUnset(h, a, "left")
  BY <1>3 DEF UnsetValue
<1> QED BY <1>1, <1>4, BasicUnsetStores

(***************************************************************************)

(* Every setter keeps the links, and what it is given reads back.          *)
(***************************************************************************)
LEMMA SetterKeeps ==
  ASSUME Singles, NEW l, NEW h, Sound(h), NEW f \in Names, Has(f), NEW o \in Owners(f), NEW s \in Values(f),
         NEW g, g = Setter(l, h, o, f, s)
  PROVE  \/ Threw(l, g)
         \/ /\ Sound(g) /\ KeepsFlags(g, h) /\ Current(g, o, f) = s
            /\ f # "right" => FlagOK(g, o, f)
<1> SUFFICES ASSUME ~Threw(l, g)
             PROVE  /\ Sound(g) /\ KeepsFlags(g, h) /\ Current(g, o, f) = s
                    /\ f # "right" => FlagOK(g, o, f)
  OBVIOUS
<1>1. o \in Objs
  BY DEF Objs, Owners
<1>2. CASE Holds(f)
  <2>1. f \in {"left", "other"} /\ o \in As /\ ~IsContainer(Feature(f))
    BY <1>2, ShapeFacts DEF Holds, Owners
  <2>2. Heaped(g) /\ KeepsFlags(g, h) /\ FlagOK(g, o, f) /\ Joined(g, h, o, f, s)
    BY <1>2, <2>1, SetterJoins
  <2>3. Sound(g)
    BY <1>2, <2>1, <2>2, JoinedKeeps
  <2>4. Current(g, o, f) = s
    BY <1>1, <2>1, <2>2 DEF Joined, Current
  <2> QED BY <2>2, <2>3, <2>4
<1>3. CASE Plain /\ f \in {"left", "right"}
  <2>1. ~IsContainer(Feature(f))
    BY <1>3, ShapeFacts
  <2>2. Heaped(g) /\ KeepsFlags(g, h) /\ FlagOK(g, o, f) /\ Married(g, h, o, f, s)
    BY <1>3, SetterMarries
  <2>3. Sound(g)
    BY <1>3, <2>2, MarriedKeeps
  <2>4. Current(g, o, f) = s
    BY <1>1, <2>1, <2>2 DEF Married, Current
  <2> QED BY <2>2, <2>3, <2>4
<1>4. CASE ~Plain /\ f = "right"
  <2>1. Has("right") /\ Holds("left") /\ IsContainer(Feature("right")) /\ o \in Bs /\ Key("left") = "right"
    BY <1>4, ShapeFacts, IDFacts DEF Plain, Owners, Feature
  <2>2. s = NoValue \/ \E a \in As : s = <<a>>
    BY <1>4 DEF Values, Targets
  <2>3. CASE s = NoValue
    <3>1. /\ Heaped(g) /\ KeepsFlags(g, h) /\ g.cont[o] = NoValue
          /\ \/ g = h
             \/ \E a \in As, n \in {"left", "other"} : Holds(n) /\ Joined(g, h, a, n, NoValue)
      BY <1>4, <2>1, <2>3, SetterLeaves
    <3>2. \A n \in {"left", "other"} : NoValue \in Values(n)
      BY DEF Values
    <3>3. Sound(g)
      BY <3>1, <3>2, JoinedKeeps
    <3>4. Current(g, o, f) = s
      BY <1>4, <2>1, <2>3, <3>1 DEF Current, Contained
    <3> QED BY <1>4, <3>1, <3>3, <3>4
  <2>4. CASE s # NoValue
    <3>1. PICK a \in As : s = <<a>>
      BY <2>2, <2>4
    <3>2. Heaped(g) /\ KeepsFlags(g, h) /\ Joined(g, h, a, "left", <<o>>)
      BY <1>4, <2>1, <3>1, SetterTakes
    <3>3. <<o>> \in Values("left") /\ "left" \in {"left", "other"}
      BY <2>1 DEF Values, Targets
    <3> DEFINE w == <<o>>
    <3>4. Sound(g)
      <4>1. w \in Values("left") /\ Joined(g, h, a, "left", w)
        BY <3>2, <3>3
      <4> HIDE DEF w
      <4> QED BY <2>1, <3>2, <3>3, <4>1, JoinedKeeps
    <3>5. g.cont[o] = <<a, "right">>
      BY <1>1, <2>1, <3>2 DEF Joined
    <3>6. Contained(g, o) /\ g.cont[o][1] = a /\ g.cont[o][2] = "right"
      BY <3>5 DEF Contained, NoValue
    <3>7. Current(g, o, f) = s
      BY <1>4, <2>1, <3>1, <3>6 DEF Current
    <3> QED BY <1>4, <3>2, <3>4, <3>7
  <2> QED BY <2>3, <2>4
<1>5. CASE f = "left" /\ ~Has("right") /\ ~Holds("left")
  <2>1. o \in As /\ ~IsContainer(Feature("left"))
    BY <1>5, ShapeFacts DEF Owners
  <2>2. Stores(g, h, o, "left", s) /\ FlagOK(g, o, "left")
    BY <1>5, <2>1, SetterStores
  <2>3. Sound(g)
    BY <1>5, <2>1, <2>2, FieldKeeps DEF Stores
  <2>4. Current(g, o, f) = s
    BY <1>1, <1>5, <2>1, <2>2 DEF Stores, Current
  <2> QED BY <1>5, <2>2, <2>3, <2>4 DEF Stores
<1>6. f = "other" => Holds(f)
  BY ShapeFacts
<1>7. f = "left" /\ ~Holds(f) /\ Has("right") => Plain
  BY ShapeFacts DEF Plain, Feature
<1> QED BY <1>2, <1>3, <1>4, <1>5, <1>6, <1>7 DEF Names

(* So does every unsetter, which leaves nothing set. *)
LEMMA UnsetKeeps ==
  ASSUME Singles, NEW l, NEW h, Sound(h), NEW f \in Names, Has(f), HasUnset(Feature(f)), NEW o \in Owners(f),
         NEW g, g = UnsetValue(l, h, o, f)
  PROVE  Sound(g) /\ KeepsFlags(g, h) /\ Current(g, o, f) = NoValue /\ g.flag[o][f] = FALSE
<1>1. o \in Objs /\ NoValue \in Values(f)
  BY DEF Objs, Owners, Values
<1>2. ~IsContainer(Feature(f))
  BY ShapeFacts, SingleFacts
<1>3. CASE Holds(f)
  <2>1. f \in {"left", "other"} /\ o \in As
    BY <1>3 DEF Holds, Owners
  <2>2. Heaped(g) /\ KeepsFlags(g, h) /\ g.flag[o][f] = FALSE /\ Joined(g, h, o, f, NoValue)
    BY <1>3, <2>1, UnsetJoins
  <2>3. Sound(g)
    BY <1>1, <1>3, <2>1, <2>2, JoinedKeeps
  <2>4. Current(g, o, f) = NoValue
    BY <1>1, <1>2, <2>1, <2>2 DEF Joined, Current
  <2> QED BY <2>2, <2>3, <2>4
<1>4. CASE Plain /\ f \in {"left", "right"}
  <2>2. Heaped(g) /\ KeepsFlags(g, h) /\ g.flag[o][f] = FALSE /\ Married(g, h, o, f, NoValue)
    BY <1>4, UnsetMarries
  <2>3. Sound(g)
    BY <1>1, <1>4, <2>2, MarriedKeeps
  <2>4. Current(g, o, f) = NoValue
    BY <1>1, <1>2, <2>2 DEF Married, Current
  <2> QED BY <2>2, <2>3, <2>4
<1>5. CASE f = "left" /\ ~Has("right") /\ ~Holds("left")
  <2>1. o \in As
    BY <1>5 DEF Owners
  <2>2. Stores(g, h, o, "left", NoValue) /\ g.flag[o]["left"] = FALSE
    BY <1>5, <2>1, UnsetStores
  <2>3. Sound(g)
    BY <1>1, <1>5, <2>1, <2>2, FieldKeeps DEF Stores
  <2>4. Current(g, o, f) = NoValue
    BY <1>1, <1>2, <1>5, <2>2 DEF Stores, Current
  <2> QED BY <1>5, <2>2, <2>3, <2>4 DEF Stores
<1>6. f = "other" => Holds(f)
  BY ShapeFacts
<1>7. f = "left" /\ ~Holds(f) /\ Has("right") => Plain
  BY ShapeFacts DEF Plain, Feature
<1>8. f = "right" => Plain
  BY <1>2, ShapeFacts
<1> QED BY <1>3, <1>4, <1>5, <1>6, <1>7, <1>8 DEF Names

(* A getter resolves at most a reference that has no other end. *)
LEMMA GetterKeeps ==
  ASSUME Singles, NEW l, NEW h, Sound(h), NEW f \in Names, Has(f), NEW o \in Owners(f), NEW g, g = Getter(l, h, o, f)
  PROVE  Sound(g) /\ KeepsFlags(g, h)
<1> DEFINE v == h.val[o][f]
<1>1. SingleReference(Feature(f)) /\ Heaped(h) /\ o \in Objs
  BY ShapeFacts DEF Sound, Objs, Owners
<1>2. ReadList(l, h, o, f) = h
  BY <1>1, SingleReadList
<1>3. In(l, GoGetter(Feature(f), FALSE), TSGetter(Feature(f), FALSE)) = "proxy" <=> IsProxy(Feature(f))
  BY <1>1, SingleGetter, SingleTSGetter DEF In
<1>4. CASE ~(IsProxy(Feature(f)) /\ ~IsBidirectional(Feature(f)) /\ v # NoValue)
  <2>1. g = h
    BY <1>2, <1>3, <1>4 DEF Getter
  <2> QED BY <2>1 DEF KeepsFlags
<1>5. CASE IsProxy(Feature(f)) /\ ~IsBidirectional(Feature(f)) /\ v # NoValue
  <2>1. f = "left" /\ ~Has("right") /\ ~Holds("left") /\ o \in As
    <3>1. ~Feature(f).containment
      BY <1>1, <1>5, SingleFacts
    <3> QED BY <1>5, <3>1, ShapeFacts DEF Names, Owners
  <2>2. PICK b \in Bs : v = <<b>>
    BY <1>1, <1>5, <2>1 DEF Sound, Owned, Targets
  <2> DEFINE w == <<Resolved[b]>>
  <2>3. w \in Values("left") /\ w \in W /\ w # NoValue
    BY ObjectsAssumption DEF Values, Targets, W, Objs, NoValue
  <2>4. g = Put(h, o, "left", w)
    <3>1. v[1] = b
      BY <2>2
    <3> QED BY <1>3, <1>5, <2>1, <3>1 DEF Getter
  <2> HIDE DEF w
  <2>5. /\ Heaped(g) /\ g.cont = h.cont /\ g.flag = h.flag
        /\ \A p \in Objs, n \in Names : g.val[p][n] = IF p = o /\ n = "left" THEN w ELSE h.val[p][n]
    BY <1>1, <2>1, <2>3, <2>4, PutIs
  <2>6. KeepsFlags(g, h)
    <3>1. v # NoValue
      BY <1>5
    <3> QED BY <2>1, <2>5, <3>1 DEF KeepsFlags, FlagOK
  <2>7. Stores(g, h, o, "left", w)
    BY <2>5, <2>6 DEF Stores
  <2> QED BY <2>1, <2>3, <2>6, <2>7, FieldKeeps DEF Stores
<1> QED BY <1>4, <1>5

(* What the operations of single references are. *)
LEMMA SingleOperations ==
  ASSUME Singles, NEW op \in Operations
  PROVE  /\ op.feature \in Names /\ Has(op.feature) /\ op.object \in Owners(op.feature)
         /\ op.value \in Values(op.feature)
         /\ op.name \in {"set", "unset", "eset", "eunset", "read"}
         /\ op.name = "unset" => HasUnset(Feature(op.feature))
         /\ op.name = "eunset" => Feature(op.feature).changeable
         /\ op.name \in {"unset", "eunset"} => op.value = NoValue
<1> DEFINE On(names, f, values, able) ==
             IF able THEN [name : names, feature : {f}, object : Owners(f), value : values] ELSE {}
           Setting(f) == On({"set"}, f, Values(f), HasSet(Feature(f)))
           Unsetting(f) == On({"unset"}, f, {NoValue}, HasUnset(Feature(f)))
           Reflective(f) == On({"eset"}, f,
                              IF Feature(f).many THEN Pairs(f) ELSE Values(f), InESet(Feature(f)))
           Removing(f) == On({"eunset"}, f, {NoValue}, InESet(Feature(f)))
           Reading(f) == On({"read"}, f, {NoValue}, TRUE)
           Changing(f) == On({"add", "remove"}, f, {<<x>> : x \in Targets(f)}, Feature(f).many)
           Clearing(f) == On({"clear"}, f, {NoValue}, Feature(f).many)
<1>1. PICK f \in {g \in Names : Has(g)} :
        op \in Setting(f) \cup Unsetting(f) \cup Reflective(f)
               \cup Removing(f) \cup Reading(f) \cup Changing(f) \cup Clearing(f)
  BY DEF Operations
<1>2. ~Feature(f).many
  BY ShapeFacts, SingleFacts
<1>3. NoValue \in Values(f)
  BY DEF Values
<1> DEFINE Calls(name, values) == [name : {name}, feature : {f}, object : Owners(f), value : values]
           V1 == Values(f)
<1>4. \/ op \in Calls("set", V1)
      \/ (op \in Calls("unset", {NoValue}) /\ HasUnset(Feature(f)))
      \/ op \in Calls("eset", V1)
      \/ (op \in Calls("eunset", {NoValue}) /\ InESet(Feature(f)))
      \/ op \in Calls("read", {NoValue})
  <2>1. Changing(f) = {} /\ Clearing(f) = {}
    BY <1>2
  <2>2. Setting(f) \subseteq Calls("set", V1)
    OBVIOUS
  <2>3. Unsetting(f) \subseteq Calls("unset", {NoValue})
    OBVIOUS
  <2>4. op \in Unsetting(f) => HasUnset(Feature(f))
    OBVIOUS
  <2>5. Reflective(f) \subseteq Calls("eset", V1)
    BY <1>2
  <2>6. Removing(f) \subseteq Calls("eunset", {NoValue})
    OBVIOUS
  <2>7. op \in Removing(f) => InESet(Feature(f))
    OBVIOUS
  <2>8. Reading(f) \subseteq Calls("read", {NoValue})
    OBVIOUS
  <2> HIDE DEF Setting, Unsetting, Reflective, Removing, Reading, Changing, Clearing, Calls, V1
  <2> QED BY <1>1, <2>1, <2>2, <2>3, <2>4, <2>5, <2>6, <2>7, <2>8
<1>5. f \in Names /\ Has(f)
  OBVIOUS
<1> HIDE DEF V1
<1>6. /\ op.feature = f /\ op.object \in Owners(f) /\ op.value \in V1 \cup {NoValue}
      /\ op.name \in {"set", "unset", "eset", "eunset", "read"}
      /\ op.name = "unset" => HasUnset(Feature(f))
      /\ op.name = "eunset" => InESet(Feature(f))
      /\ op.name \in {"unset", "eunset"} => op.value = NoValue
  BY <1>4
<1> QED BY <1>3, <1>5, <1>6 DEF V1, InESet

(* Every operation keeps the links and the flags, and what it gives reads back, unless it threw. *)
LEMMA ApplyKeeps ==
  ASSUME Singles, NEW l, NEW h, Sound(h), NEW op \in Operations, NEW g, g = Apply(l, op, h)
  PROVE  \/ Threw(l, g)
         \/ /\ Sound(g) /\ KeepsFlags(g, h)
            /\ op.name # "read" => /\ Current(g, op.object, op.feature) = op.value
                                   /\ op.feature = "left" => FlagOK(g, op.object, "left")
            /\ op.name \in {"unset", "eunset"} => ~EIsSet(l, g, op.object, op.feature)
<1> SUFFICES ASSUME ~Threw(l, g)
             PROVE  /\ Sound(g) /\ KeepsFlags(g, h)
                    /\ op.name # "read" => /\ Current(g, op.object, op.feature) = op.value
                                           /\ op.feature = "left" => FlagOK(g, op.object, "left")
                    /\ op.name \in {"unset", "eunset"} => ~EIsSet(l, g, op.object, op.feature)
  OBVIOUS
<1> DEFINE f == op.feature
           o == op.object
           s == op.value
<1>1. /\ f \in Names /\ Has(f) /\ o \in Owners(f) /\ s \in Values(f)
      /\ op.name \in {"set", "unset", "eset", "eunset", "read"}
      /\ op.name = "unset" => HasUnset(Feature(f))
      /\ op.name = "eunset" => Feature(f).changeable
      /\ op.name \in {"unset", "eunset"} => s = NoValue
  BY SingleOperations
<1>2. SingleReference(Feature(f))
  BY <1>1, ShapeFacts
<1>3. In(l, GoComparison(Feature(f)), TSComparison(Feature(f))) = "flag" <=> HasESet(Feature(f))
  BY <1>2, SingleComparison DEF In, TSComparison
<1>4. CASE op.name \in {"set", "eset"}
  <2>1. In(l, GoESet(Feature(f)), TSESet(Feature(f))) # "list"
    BY <1>2, SingleESet, SingleTSESet DEF In
  <2>2. g = Setter(l, h, o, f, s)
    BY <1>4, <2>1 DEF Apply, ESet
  <2> HIDE DEF f, o, s
  <2>3. Sound(g) /\ KeepsFlags(g, h) /\ Current(g, o, f) = s /\ (f # "right" => FlagOK(g, o, f))
    BY <1>1, <2>2, SetterKeeps
  <2> QED BY <1>4, <2>3 DEF f, o, s
<1>5. ASSUME HasUnset(Feature(f)), g = UnsetValue(l, h, o, f), s = NoValue
      PROVE  /\ Sound(g) /\ KeepsFlags(g, h) /\ Current(g, o, f) = s /\ FlagOK(g, o, f)
             /\ ~EIsSet(l, g, o, f)
  <2> HIDE DEF f, o, s
  <2>1. Sound(g) /\ KeepsFlags(g, h) /\ Current(g, o, f) = NoValue /\ g.flag[o][f] = FALSE
    BY <1>1, <1>5, UnsetKeeps
  <2>2. ~IsContainer(Feature(f))
    BY <1>2, <1>5, SingleFacts
  <2>3. g.val[o][f] = NoValue
    BY <2>1, <2>2 DEF Current
  <2> QED BY <1>5, <2>1, <2>3 DEF FlagOK, EIsSet
<1>6. CASE op.name = "unset"
  <2>1. g = UnsetValue(l, h, o, f)
    BY <1>6 DEF Apply
  <2> QED BY <1>1, <1>5, <1>6, <2>1
<1>7. CASE op.name = "eunset"
  <2>1. In(l, GoEUnset(Feature(f)), TSEUnset(Feature(f))) = IF HasUnset(Feature(f)) THEN "unset" ELSE "set"
    BY <1>2, SingleEUnset, SingleTSEUnset DEF In
  <2>2. g = EUnset(l, h, o, f)
    BY <1>7 DEF Apply
  <2>3. CASE HasUnset(Feature(f))
    <3>1. g = UnsetValue(l, h, o, f)
      BY <2>1, <2>2, <2>3 DEF EUnset
    <3> QED BY <1>1, <1>5, <1>7, <2>3, <3>1
  <2>4. CASE ~HasUnset(Feature(f))
    <3>1. g = Setter(l, h, o, f, NoValue) /\ s = NoValue
      BY <1>1, <1>7, <2>1, <2>2, <2>4 DEF EUnset
    <3> HIDE DEF f, o, s
    <3>2. Sound(g) /\ KeepsFlags(g, h) /\ Current(g, o, f) = s /\ (f # "right" => FlagOK(g, o, f))
      BY <1>1, <3>1, SetterKeeps
    <3>3. ~HasESet(Feature(f))
      BY <1>1, <1>2, <1>7, <2>4, SingleFacts
    <3>4. ~EIsSet(l, g, o, f)
      BY <1>3, <3>1, <3>2, <3>3 DEF EIsSet
    <3> QED BY <3>2, <3>4 DEF f, o, s
  <2> QED BY <2>3, <2>4
<1>8. CASE op.name = "read"
  <2>1. g = Getter(l, h, o, f)
    BY <1>8 DEF Apply
  <2> HIDE DEF f, o, s
  <2>2. Sound(g) /\ KeepsFlags(g, h)
    BY <1>1, <2>1, GetterKeeps
  <2> QED BY <1>8, <2>2
<1> QED BY <1>1, <1>4, <1>6, <1>7, <1>8

(***************************************************************************)
(* The two languages, on the same heap.                                    *)
(***************************************************************************)

(* The two languages remove from an end alike, *)
LEMMA InverseRemoveAgrees ==
  ASSUME NEW h, NEW o, NEW x, NEW f, SingleReference(Feature(f))
  PROVE  InverseRemove("go", h, o, x, f) = InverseRemove("ts", h, o, x, f)
<1>1. ReadList("go", h, o, f) = h /\ ReadList("ts", h, o, f) = h
  BY SingleReadList
<1>2. In("go", GoInverseRemove(Feature(f)), TSInverseRemove(Feature(f)))
        = In("ts", GoInverseRemove(Feature(f)), TSInverseRemove(Feature(f)))
  BY DEF In, TSInverseRemove
<1> QED BY <1>1, <1>2 DEF InverseRemove

(* whatever the id; *)
LEMMA EInverseRemoveAgrees ==
  ASSUME NEW h, NEW o, NEW x, NEW id, id \in Names => SingleReference(Feature(id))
  PROVE  EInverseRemove("go", h, o, x, id) = EInverseRemove("ts", h, o, x, id)
BY InverseRemoveAgrees DEF EInverseRemove

(* they leave a container alike, *)
LEMMA RemoveFromContainerAgrees ==
  ASSUME Singles, NEW h, NEW o
  PROVE  RemoveFromContainer("go", h, o) = RemoveFromContainer("ts", h, o)
<1>1. ContainmentOf(h.cont[o][2]) \in {"left", "other"}
  BY DEF ContainmentOf
<1>2. SingleReference(Feature("left")) /\ SingleReference(Feature("other"))
  <2>1. SingleReference(OtherFeature)
    BY DEF SingleReference, OtherFeature, AllFeatures, Valid, LazyModes
  <2> QED BY <2>1, ShapeFacts DEF Names, Feature
<1>3. SingleReference(Feature(ContainmentOf(h.cont[o][2])))
  BY <1>1, <1>2
<1> QED BY <1>3, InverseRemoveAgrees DEF RemoveFromContainer

(* nothing that leaves makes a call throw, *)
LEMMA InverseRemoveDomain ==
  ASSUME NEW l, NEW h, NEW o, NEW x, NEW f, SingleReference(Feature(f))
  PROVE  DOMAIN InverseRemove(l, h, o, x, f) = DOMAIN h
<1> DEFINE variant == In(l, GoInverseRemove(Feature(f)), TSInverseRemove(Feature(f)))
<1>1. variant \in {"set", "unset", "container"}
  BY SingleInverseRemove DEF In, TSInverseRemove
<1>2. DOMAIN SetContainer(h, o, NoValue) = DOMAIN h
  BY DEF SetContainer
<1>3. DOMAIN Put(h, o, f, NoValue) = DOMAIN h
  BY DEF Put
<1>4. DOMAIN BasicUnset(h, o, f) = DOMAIN h
  BY <1>3 DEF BasicUnset
<1>5. DOMAIN BasicSet(h, o, f, NoValue) = DOMAIN h
  BY <1>2, <1>3 DEF BasicSet
<1>6. CASE variant = "set"
  BY <1>5, <1>6 DEF InverseRemove
<1>7. CASE variant = "unset"
  BY <1>4, <1>7 DEF InverseRemove
<1>8. CASE variant = "container"
  BY <1>2, <1>8 DEF InverseRemove
<1> QED BY <1>1, <1>6, <1>7, <1>8

(* and what joins is alike, or TypeScript throws. *)
LEMMA EInverseAddAgrees ==
  ASSUME Singles, NEW h, "thrown" \in DOMAIN h, NEW o, NEW x, NEW id, id \in Names => Has("right") /\ id # "other"
  PROVE  \/ EInverseAdd("ts", h, o, x, id) = EInverseAdd("go", h, o, x, id)
         \/ EInverseAdd("ts", h, o, x, id).thrown = TRUE
<1>1. RemoveFromContainer("go", h, o) = RemoveFromContainer("ts", h, o)
  BY RemoveFromContainerAgrees
<1>2. CASE id \notin Names
  BY <1>1, <1>2 DEF EInverseAdd
<1>3. CASE id \in Names
  <2>1. SingleReference(Feature(id)) /\ id \in {"left", "right"} /\ Has("right") /\ Has("left")
    BY <1>3, ShapeFacts DEF Names
  <2>2. ReadList("go", h, o, id) = h /\ ReadList("ts", h, o, id) = h
    BY <2>1, SingleReadList
  <2> DEFINE variant == GoInverseAdd(Feature(id))
             end == IDOf(id, RemoveID(Feature(id)))
             y == Current(h, o, id)[1]
             threw == [h EXCEPT !.thrown = TRUE]
  <2>3. /\ In("go", GoInverseAdd(Feature(id)), TSInverseAdd(Feature(id))) = variant
        /\ In("ts", GoInverseAdd(Feature(id)), TSInverseAdd(Feature(id))) = variant
    BY DEF In, TSInverseAdd
  <2>4. end \in {"left", "right", "-left", "-right"}
    BY <2>1 DEF IDOf, RemoveID, Opposite, Base
  <2>5. end \in Names => SingleReference(Feature(end))
    BY <2>1, <2>4, ShapeFacts DEF Names
  <2>6. EInverseRemove("go", h, y, o, end) = EInverseRemove("ts", h, y, o, end)
    BY <2>5, EInverseRemoveAgrees
  <2>7. ~ReadThrows("go", h, o, id)
    BY DEF ReadThrows
  <2>8. variant \in {"single", "containerbasic", "containerset"}
    BY <2>1, SingleInverseAdd
  <2>9. threw.thrown = TRUE
    OBVIOUS
  <2> HIDE DEF variant, threw
  <2>10. CASE variant = "single" /\ ReadThrows("ts", h, o, id)
    <3>1. InverseAdd("ts", h, o, x, id) = threw
      BY <2>3, <2>10 DEF InverseAdd, threw
    <3> QED BY <1>3, <2>9, <3>1 DEF EInverseAdd
  <2>11. CASE ~(variant = "single" /\ ReadThrows("ts", h, o, id))
    <3>1. InverseAdd("ts", h, o, x, id) = InverseAdd("go", h, o, x, id)
      BY <1>1, <2>2, <2>3, <2>6, <2>7, <2>8, <2>11 DEF InverseAdd
    <3> QED BY <1>3, <3>1 DEF EInverseAdd
  <2> QED BY <2>10, <2>11
<1> QED BY <1>2, <1>3

(* The ids that an accessor tells. *)
LEMMA TellsKnown ==
  ASSUME Singles, NEW f \in Names, Has(f), NEW h, "thrown" \in DOMAIN h, NEW o, NEW x
  PROVE  /\ EInverseRemove("go", h, o, x, InverseOf(f)) = EInverseRemove("ts", h, o, x, InverseOf(f))
         /\ "thrown" \in DOMAIN EInverseRemove("ts", h, o, x, InverseOf(f))
         /\ \/ EInverseAdd("ts", h, o, x, InverseOf(f)) = EInverseAdd("go", h, o, x, InverseOf(f))
            \/ EInverseAdd("ts", h, o, x, InverseOf(f)).thrown = TRUE
<1> DEFINE id == InverseOf(f)
<1>1. id \in Names => Has("right") /\ id # "other"
  BY IDFacts, ShapeFacts DEF Names
<1> HIDE DEF id
<1>2. id \in Names => SingleReference(Feature(id))
  BY <1>1, ShapeFacts DEF Names
<1>3. EInverseRemove("go", h, o, x, id) = EInverseRemove("ts", h, o, x, id)
  BY <1>2, EInverseRemoveAgrees
<1>4. \/ EInverseAdd("ts", h, o, x, id) = EInverseAdd("go", h, o, x, id)
      \/ EInverseAdd("ts", h, o, x, id).thrown = TRUE
  BY <1>1, EInverseAddAgrees
<1>5. "thrown" \in DOMAIN EInverseRemove("ts", h, o, x, id)
  <2>1. DOMAIN SetContainer(h, o, NoValue) = DOMAIN h
    BY DEF SetContainer
  <2> QED BY <1>2, <2>1, InverseRemoveDomain DEF EInverseRemove
<1> QED BY <1>3, <1>4, <1>5 DEF id

(* The setters of the two languages do the same, unless TypeScript throws. *)
LEMMA SetterAgrees ==
  ASSUME Singles, NEW f \in Names, Has(f), NEW h, "thrown" \in DOMAIN h, NEW o, NEW s
  PROVE  \/ Setter("ts", h, o, f, s) = Setter("go", h, o, f, s)
         \/ Setter("ts", h, o, f, s).thrown = TRUE
<1> DEFINE old == Current(h, o, f)
           variant == GoSetter(Feature(f), FALSE)
           left(l) == IF variant = "container" THEN RemoveFromContainer(l, h, o)
                      ELSE IF old = NoValue THEN h ELSE EInverseRemove(l, h, old[1], o, InverseOf(f))
           joined(l) == IF s = NoValue THEN left(l) ELSE EInverseAdd(l, left(l), s[1], o, InverseOf(f))
<1>1. In("go", GoSetter(Feature(f), FALSE), TSSetter(Feature(f), FALSE)) = variant
      /\ In("ts", GoSetter(Feature(f), FALSE), TSSetter(Feature(f), FALSE)) = variant
  BY DEF In, TSSetter
<1>2. left("go") = left("ts") /\ "thrown" \in DOMAIN left("ts")
  <2>1. DOMAIN RemoveFromContainer("ts", h, o) = DOMAIN h
    <3>1. ContainmentOf(h.cont[o][2]) \in {"left", "other"}
      BY DEF ContainmentOf
    <3>2. SingleReference(Feature("left")) /\ SingleReference(Feature("other"))
      <4>1. SingleReference(OtherFeature)
        BY DEF SingleReference, OtherFeature, AllFeatures, Valid, LazyModes
      <4> QED BY <4>1, ShapeFacts DEF Names, Feature
    <3>3. SingleReference(Feature(ContainmentOf(h.cont[o][2])))
      BY <3>1, <3>2
    <3> QED BY <3>3, InverseRemoveDomain DEF RemoveFromContainer
  <2>2. CASE variant = "container"
    BY <2>1, <2>2, RemoveFromContainerAgrees
  <2>3. CASE variant # "container"
    <3>1. CASE old = NoValue
      BY <2>3, <3>1
    <3>2. CASE old # NoValue
      <4> HIDE DEF variant, old
      <4>1. left("go") = EInverseRemove("go", h, old[1], o, InverseOf(f))
            /\ left("ts") = EInverseRemove("ts", h, old[1], o, InverseOf(f))
        BY <2>3, <3>2
      <4> DEFINE held == old[1]
      <4> HIDE DEF held
      <4>2. /\ EInverseRemove("go", h, held, o, InverseOf(f)) = EInverseRemove("ts", h, held, o, InverseOf(f))
            /\ "thrown" \in DOMAIN EInverseRemove("ts", h, held, o, InverseOf(f))
        <5> HIDE DEF left, joined
        <5>1. EInverseRemove("go", h, held, o, InverseOf(f)) = EInverseRemove("ts", h, held, o, InverseOf(f))
          BY TellsKnown
        <5>2. "thrown" \in DOMAIN EInverseRemove("ts", h, held, o, InverseOf(f))
          BY TellsKnown
        <5> QED BY <5>1, <5>2
      <4>3. /\ left("go") = EInverseRemove("go", h, held, o, InverseOf(f))
            /\ left("ts") = EInverseRemove("ts", h, held, o, InverseOf(f))
        BY <4>1 DEF held
      <4> HIDE DEF left
      <4>4. left("go") = left("ts")
        BY <4>2, <4>3
      <4>5. "thrown" \in DOMAIN left("ts")
        BY <4>2, <4>3
      <4> QED BY <4>4, <4>5
    <3> QED BY <3>1, <3>2
  <2> QED BY <2>2, <2>3
<1>3. joined("ts") = joined("go") \/ joined("ts").thrown = TRUE
  <2> HIDE DEF left
  <2> QED BY <1>2, TellsKnown
<1> DEFINE moves == IF variant = "container"
                    THEN \/ s # (IF Contained(h, o) THEN <<h.cont[o][1]>> ELSE NoValue)
                         \/ s # NoValue /\ h.cont[o][2] # f
                    ELSE s # old
           set(l) == CASE variant = "field" -> BasicSet(h, o, f, s)
                       [] variant # "field" /\ moves ->
                            StoredAfter(joined(l), o, f, s)
                       [] variant = "container" /\ ~moves -> h
                       [] variant = "inverse" /\ ~moves -> [h EXCEPT !.flag[o][f] = @ \/ HasESet(Feature(f))]
<1>4. Setter("go", h, o, f, s) = set("go") /\ Setter("ts", h, o, f, s) = set("ts")
  <2>1. Setter("go", h, o, f, s) = set("go")
    BY <1>1, Zenon DEF Setter
  <2>2. Setter("ts", h, o, f, s) = set("ts")
    BY <1>1, Zenon DEF Setter
  <2> QED BY <2>1, <2>2
<1>5. set("ts") = set("go") \/ set("ts").thrown = TRUE
  <2> HIDE DEF joined, moves
  <2>1. variant \in {"field", "container", "inverse"}
    BY ShapeFacts, SingleSetter
  <2> HIDE DEF variant
  <2>2. CASE joined("ts") = joined("go")
    BY <2>2
  <2>3. CASE joined("ts").thrown = TRUE
    <3>1. CASE variant # "field" /\ moves
      BY <2>3, <3>1 DEF StoredAfter
    <3>2. CASE ~(variant # "field" /\ moves)
      BY <2>1, <3>2
    <3> QED BY <3>1, <3>2
  <2> QED BY <1>3, <2>2, <2>3
<1> QED BY <1>4, <1>5

(* So do the unsetters and the getters, *)
LEMMA UnsetAgrees ==
  ASSUME Singles, NEW f \in Names, Has(f), NEW h, "thrown" \in DOMAIN h, NEW o
  PROVE  UnsetValue("go", h, o, f) = UnsetValue("ts", h, o, f)
<1>1. SingleReference(Feature(f))
  BY ShapeFacts
<1> DEFINE variant == GoUnsetter(Feature(f), FALSE)
           old == h.val[o][f]
           left(l) == IF old = NoValue THEN h ELSE EInverseRemove(l, h, old[1], o, InverseOf(f))
           kept(l) == IF variant = "inverse" THEN left(l) ELSE h
           unset(l) == BasicUnset(kept(l), o, f)
<1>2. /\ In("go", GoUnsetter(Feature(f), FALSE), TSUnsetter(Feature(f), FALSE)) = variant
      /\ In("ts", GoUnsetter(Feature(f), FALSE), TSUnsetter(Feature(f), FALSE)) = variant
      /\ variant \in {"inverse", "field"}
  BY <1>1, SingleUnsetter, SingleTSUnsetter DEF In
<1>3. left("go") = left("ts")
  BY TellsKnown
<1>4. UnsetValue("go", h, o, f) = unset("go") /\ UnsetValue("ts", h, o, f) = unset("ts")
  <2>1. variant \notin {"list", "lazylist"}
    BY <1>2
  <2> HIDE DEF variant
  <2> QED BY <1>2, <2>1 DEF UnsetValue
<1>5. unset("go") = unset("ts")
  <2> HIDE DEF left, variant
  <2>1. kept("go") = kept("ts")
    BY <1>3
  <2> HIDE DEF kept
  <2> QED BY <2>1
<1> HIDE DEF unset
<1> QED BY <1>4, <1>5

(* the reads, *)
LEMMA GetterAgrees ==
  ASSUME Singles, NEW f \in Names, Has(f), NEW h, NEW o
  PROVE  Getter("go", h, o, f) = Getter("ts", h, o, f)
<1>1. SingleReference(Feature(f))
  BY ShapeFacts
<1>2. ReadList("go", h, o, f) = h /\ ReadList("ts", h, o, f) = h
  BY <1>1, SingleReadList
<1>3. /\ In("go", GoGetter(Feature(f), FALSE), TSGetter(Feature(f), FALSE)) = "proxy" <=> IsProxy(Feature(f))
      /\ In("ts", GoGetter(Feature(f), FALSE), TSGetter(Feature(f), FALSE)) = "proxy" <=> IsProxy(Feature(f))
  BY <1>1, SingleGetter, SingleTSGetter DEF In
<1> QED BY <1>2, <1>3 DEF Getter

(* and every operation, or TypeScript throws where the shape lets it. *)
LEMMA ApplyAgrees ==
  ASSUME Singles, NEW op \in Operations, NEW h, Sound(h)
  PROVE  /\ Apply("go", op, h).thrown = FALSE
         /\ \/ Threw("ts", Apply("ts", op, h))
            \/ Apply("ts", op, h).thrown = FALSE /\ Apply("ts", op, h) = Apply("go", op, h)
<1> DEFINE f == op.feature
           o == op.object
           s == op.value
           go == Apply("go", op, h)
           ts == Apply("ts", op, h)
<1>1. f \in Names /\ Has(f) /\ op.name \in {"set", "unset", "eset", "eunset", "read"}
  BY SingleOperations
<1>2. SingleReference(Feature(f)) /\ "thrown" \in DOMAIN h
  BY <1>1, ShapeFacts DEF Sound, Heaped
<1>3. \A v : \/ Setter("ts", h, o, f, v) = Setter("go", h, o, f, v)
            \/ Setter("ts", h, o, f, v).thrown = TRUE
  BY <1>1, <1>2, SetterAgrees
<1>4. UnsetValue("go", h, o, f) = UnsetValue("ts", h, o, f)
  BY <1>1, <1>2, UnsetAgrees
<1>5. ASSUME op.name \in {"set", "eset"}
      PROVE  ts = go \/ ts.thrown = TRUE
  <2>1. /\ ESet("go", h, o, f, s) = Setter("go", h, o, f, s)
        /\ ESet("ts", h, o, f, s) = Setter("ts", h, o, f, s)
    BY <1>2, SingleESet, SingleTSESet DEF ESet, In
  <2>2. go = Setter("go", h, o, f, s) /\ ts = Setter("ts", h, o, f, s)
    BY <1>5, <2>1 DEF Apply
  <2> HIDE DEF go, ts
  <2>3. ts = go \/ ts.thrown = TRUE
    BY <1>3, <2>2
  <2> QED BY <2>3
<1>7. ASSUME op.name = "unset"
      PROVE  ts = go \/ ts.thrown = TRUE
  <2>1. go = UnsetValue("go", h, o, f) /\ ts = UnsetValue("ts", h, o, f)
    BY <1>7 DEF Apply
  <2> HIDE DEF go, ts
  <2> QED BY <1>4, <2>1
<1>8. ASSUME op.name = "eunset"
      PROVE  ts = go \/ ts.thrown = TRUE
  <2> DEFINE variant == In("go", GoEUnset(Feature(f)), TSEUnset(Feature(f)))
  <2>1. variant = In("ts", GoEUnset(Feature(f)), TSEUnset(Feature(f))) /\ variant \in {"set", "unset"}
    BY <1>2, SingleEUnset, SingleTSEUnset DEF In
  <2>2. go = EUnset("go", h, o, f) /\ ts = EUnset("ts", h, o, f)
    BY <1>8 DEF Apply
  <2> HIDE DEF f, o, go, ts
  <2>3. CASE variant = "set"
    <3>1. go = Setter("go", h, o, f, NoValue) /\ ts = Setter("ts", h, o, f, NoValue)
      BY <2>1, <2>2, <2>3 DEF EUnset
    <3> QED BY <1>3, <3>1
  <2>4. CASE variant = "unset"
    <3>1. go = UnsetValue("go", h, o, f) /\ ts = UnsetValue("ts", h, o, f)
      BY <2>1, <2>2, <2>4 DEF EUnset
    <3> QED BY <1>4, <3>1
  <2> QED BY <2>1, <2>3, <2>4
<1>9. ASSUME op.name = "read"
      PROVE  ts = go \/ ts.thrown = TRUE
  <2>1. Getter("go", h, o, f) = Getter("ts", h, o, f)
    BY <1>1, GetterAgrees
  <2>2. go = Getter("go", h, o, f) /\ ts = Getter("ts", h, o, f)
    BY <1>9 DEF Apply
  <2> HIDE DEF go, ts
  <2> QED BY <2>1, <2>2
<1> HIDE DEF go, ts
<1>10. ts = go \/ ts.thrown = TRUE
  BY <1>1, <1>5, <1>7, <1>8, <1>9
<1>11. go.thrown = FALSE
  <2>1. Threw("go", go) \/ Sound(go)
    BY ApplyKeeps DEF go
  <2> QED BY <2>1 DEF Threw, Sound, Heaped
<1>12. Threw("ts", ts) \/ ts.thrown = FALSE
  <2>1. Threw("ts", ts) \/ Sound(ts)
    BY ApplyKeeps DEF ts
  <2> QED BY <2>1 DEF Sound, Heaped
<1> QED BY <1>10, <1>11, <1>12 DEF go, ts

(***************************************************************************)
(* Where the references are single, the links hold as long as no accessor  *)
(* of TypeScript leaves them aside, and what holds a value says so unless  *)
(* a resolution that was pending put it there.                             *)
(***************************************************************************)
SingleInv ==
  /\ Inv /\ Singles
  /\ \A a \in As : pending[a] # NoValue => Follows
  /\ ~broken => Sound(heap) /\ \A p \in Objs \ raced, n \in Names : FlagOK(heap, p, n)

(* The features of the next state are those of this one. *)
LEMMA SameShape ==
  ASSUME shape' = shape
  PROVE  /\ Singles => Singles'
         /\ Follows' <=> Follows
         /\ Sound(heap') => Sound(heap)'
         /\ \A p, n : FlagOK(heap', p, n) => FlagOK(heap, p, n)'
<1>1. \A n : Feature(n)' = Feature(n) /\ (Has(n)' <=> Has(n))
  BY DEF Feature, Has
<1>2. \A n : (Holds(n)' <=> Holds(n)) /\ Key(n)' = Key(n)
  BY <1>1 DEF Holds, Key
<1>3. Plain' <=> Plain
  BY <1>1 DEF Plain
<1>4. Sound(heap') => Sound(heap)'
  <2>1. Heaped(heap') => Heaped(heap)'
    BY DEF Heaped
  <2>2. Owned(heap') => Owned(heap)'
    BY <1>1 DEF Owned
  <2>3. Located(heap') => Located(heap)'
    BY <1>2 DEF Located
  <2>4. Contains(heap') => Contains(heap)'
    BY <1>2 DEF Contains
  <2>5. Paired(heap') => Paired(heap)'
    BY <1>3 DEF Paired
  <2> QED BY <2>1, <2>2, <2>3, <2>4, <2>5 DEF Sound
<1>5. \A p, n : FlagOK(heap', p, n) => FlagOK(heap, p, n)'
  BY <1>1 DEF FlagOK
<1> QED BY <1>4, <1>5 DEF Singles, Follows

(* New objects have no link. *)
LEMMA SingleInvInit ==
  ASSUME \A s \in Shapes : SingleShape(s), Init
  PROVE  SingleInv
<1> DEFINE row == [f \in Names |-> NoValue]
           row2 == [f \in Names |-> FALSE]
<1>1. Inv /\ Singles
  BY InvInit DEF Init, Singles
<1>2. NoValue \in W /\ NoValue \in Links
  BY DEF W, Links
<1>3. /\ DOMAIN heap = {"val", "flag", "cont", "thrown"} /\ heap.thrown = FALSE
      /\ heap.val = [o \in Objs |-> row] /\ heap.flag = [o \in Objs |-> row2]
      /\ heap.cont = [o \in Objs |-> NoValue]
  BY DEF Init, NewHeap
<1>4. row \in [Names -> W] /\ row2 \in [Names -> BOOLEAN]
  BY <1>2
<1>5. Heaped(heap)
  <2> HIDE DEF row, row2, W, Links
  <2> QED BY <1>2, <1>3, <1>4 DEF Heaped
<1>6. \A p \in Objs, n \in Names : heap.val[p][n] = NoValue
  BY <1>3
<1>7. \A p \in Objs : heap.cont[p] = NoValue
  BY <1>3
<1>8. As \subseteq Objs /\ Bs \subseteq Objs /\ {"left", "right", "other"} \subseteq Names
      /\ (\A x : NoValue # <<x>>) /\ (\A x, y : NoValue # <<x, y>>)
  BY DEF Objs, Names, NoValue
<1> HIDE DEF row, row2
<1>9. Owned(heap) /\ Located(heap)
  BY <1>6, <1>7 DEF Owned, Located
<1>10. Contains(heap) /\ Paired(heap)
  BY <1>6, <1>7, <1>8 DEF Contains, Paired
<1>11. \A p \in Objs, n \in Names : FlagOK(heap, p, n)
  BY <1>6 DEF FlagOK
<1>12. \A a \in As : pending[a] = NoValue
  BY DEF Init
<1> QED BY <1>1, <1>5, <1>9, <1>10, <1>11, <1>12 DEF SingleInv, Sound

(* A value that is given keeps the flags of what did not race. *)
LEMMA GivenKeeps ==
  ASSUME SingleInv, ~broken, NEW g, Sound(g), KeepsFlags(g, heap), NEW a \in As, NEW s, Given(a, s),
         FlagOK(g, a, "left")
  PROVE  \A p \in Objs \ raced', n \in Names : FlagOK(g, p, n)
<1> SUFFICES ASSUME NEW p \in Objs \ raced', NEW n \in Names
             PROVE  FlagOK(g, p, n)
  OBVIOUS
<1>1. raced' \cup {a} = raced \cup {a}
  BY DEF Given
<1>2. CASE p # a
  <2>1. p \notin raced
    BY <1>1, <1>2
  <2>2. FlagOK(heap, p, n)
    BY <2>1 DEF SingleInv
  <2> QED BY <2>2 DEF KeepsFlags
<1>3. CASE p = a /\ n = "left"
  BY <1>3
<1>4. CASE p = a /\ n # "left"
  <2>1. ~HasESet(Feature("other"))
    BY OtherFacts DEF Feature, HasESet, IsUnsettable, OtherFeature
  <2>2. g.val[a]["right"] = NoValue
    <3>1. a \notin Owners("right") /\ "right" \in Names /\ a \in Objs
      BY ObjectsAssumption DEF Owners, Names, Objs
    <3> QED BY <3>1 DEF Sound, Owned
  <2> QED BY <1>4, <2>1, <2>2 DEF FlagOK, Names
<1> QED BY <1>2, <1>3, <1>4

(* Every call of an accessor keeps the links. *)
LEMMA SingleCall ==
  ASSUME SingleInv, Inv', Call
  PROVE  SingleInv'
<1>1. PICK op \in Operations :
        /\ ~broken
        /\ heap' = Apply(lang, op, heap)
        /\ broken' = (Discards(heap) \/ heap'.thrown)
        /\ IF op.feature = "left" /\ op.name \in {"set", "unset", "eset", "eunset"}
           THEN Given(op.object, op.value) ELSE UNCHANGED <<wanted, raced>>
        /\ shape' = shape /\ pending' = pending
  BY DEF Call
<1>2. Singles /\ Sound(heap) /\ \A p \in Objs \ raced, n \in Names : FlagOK(heap, p, n)
  BY <1>1 DEF SingleInv
<1>7. Singles' /\ (Follows' <=> Follows) /\ \A a \in As : pending'[a] # NoValue => Follows'
  BY <1>1, <1>2, SameShape DEF SingleInv
<1>8. SUFFICES ASSUME ~heap'.thrown
               PROVE  SingleInv'
  BY <1>1, <1>7 DEF SingleInv
<1>3. /\ Sound(heap') /\ KeepsFlags(heap', heap)
      /\ op.name # "read" /\ op.feature = "left" => FlagOK(heap', op.object, "left")
  <2> DEFINE g == heap'
  <2>1. g = Apply(lang, op, heap) /\ ~Threw(lang, g)
    BY <1>1, <1>8 DEF Threw
  <2> HIDE DEF g
  <2>2. /\ Sound(g) /\ KeepsFlags(g, heap)
        /\ op.name # "read" /\ op.feature = "left" => FlagOK(g, op.object, "left")
    BY <1>2, <2>1, ApplyKeeps
  <2> QED BY <2>2 DEF g
<1>4. \A p \in Objs \ raced', n \in Names : FlagOK(heap', p, n)
  <2>1. CASE op.feature = "left" /\ op.name \in {"set", "unset", "eset", "eunset"}
    <3>1. op.object \in As
      BY <1>2, <2>1, SingleOperations DEF Owners
    <3>2. FlagOK(heap', op.object, "left") /\ Given(op.object, op.value)
      BY <1>1, <1>3, <2>1
    <3> DEFINE g == heap'
    <3>3. Sound(g) /\ KeepsFlags(g, heap) /\ FlagOK(g, op.object, "left")
      BY <1>3, <3>2
    <3> HIDE DEF g
    <3>4. \A p \in Objs \ raced', n \in Names : FlagOK(g, p, n)
      BY <1>1, <3>1, <3>2, <3>3, GivenKeeps
    <3> QED BY <3>4 DEF g
  <2>2. CASE ~(op.feature = "left" /\ op.name \in {"set", "unset", "eset", "eunset"})
    <3>1. raced' = raced
      BY <1>1, <2>2
    <3> QED BY <1>2, <1>3, <3>1 DEF KeepsFlags
  <2> QED BY <2>1, <2>2
<1>5. Singles' /\ (Follows' <=> Follows) /\ Sound(heap)'
      /\ \A p, n : FlagOK(heap', p, n) => FlagOK(heap, p, n)'
  BY <1>1, <1>2, <1>3, SameShape
<1> QED BY <1>4, <1>5, <1>7 DEF SingleInv

(* The setter of TypeScript for a read-only reference leaves the links aside, and says so. *)
LEMMA SingleSimple ==
  ASSUME SingleInv, Inv', CallSimpleSet
  PROVE  SingleInv'
<1>1. PICK f \in Names : /\ Has(f) /\ broken' = (Discards(heap) \/ ~Feature(f).many \/ heap'.thrown)
                         /\ shape' = shape /\ pending' = pending
  BY DEF CallSimpleSet
<1>2. Singles
  BY DEF SingleInv
<1>3. broken'
  BY <1>1, <1>2, ShapeFacts, SingleFacts
<1>4. Singles' /\ (Follows' <=> Follows)
  BY <1>1, <1>2, SameShape
<1>5. \A a \in As : pending'[a] # NoValue => Follows'
  BY <1>1, <1>4 DEF SingleInv
<1> QED BY <1>3, <1>4, <1>5 DEF SingleInv

(* A resolution that starts changes no object. *)
LEMMA SingleStart ==
  ASSUME SingleInv, Inv', NEW a \in As, StartAsync(a)
  PROVE  SingleInv'
<1>1. /\ Follows /\ shape' = shape /\ heap' = heap /\ raced' = raced /\ broken' = broken
  BY DEF StartAsync
<1>2. Singles' /\ (Follows' <=> Follows) /\ (Sound(heap') => Sound(heap)')
      /\ \A p, n : FlagOK(heap', p, n) => FlagOK(heap, p, n)'
  BY <1>1, SameShape DEF SingleInv
<1> QED BY <1>1, <1>2 DEF SingleInv

(* One that ends keeps the flag of the value that it resolves. *)
LEMMA SingleEnd ==
  ASSUME SingleInv, Inv', NEW a \in As, EndAsync(a)
  PROVE  SingleInv'
<1>1. /\ pending[a] # NoValue /\ ~broken /\ heap' = Put(heap, a, "left", <<Resolved[pending[a][1]]>>)
      /\ pending' = [pending EXCEPT ![a] = NoValue]
      /\ shape' = shape /\ raced' = raced
  BY DEF EndAsync
<1>2. Follows /\ Singles /\ Sound(heap) /\ \A p \in Objs \ raced, n \in Names : FlagOK(heap, p, n)
  BY <1>1 DEF SingleInv
<1>3. pending \in [As -> V] /\ wanted \in [As -> V]
  BY <1>2 DEF SingleInv, Inv
<1>4. PICK b \in Bs : pending[a] = <<b>>
  BY <1>1, <1>3 DEF V
<1> DEFINE w == <<Resolved[b]>>
           g == heap'
<1>5. w \in Values("left") /\ w \in W /\ w # NoValue
  BY ObjectsAssumption DEF Values, Targets, W, Objs, NoValue
<1>6. g = Put(heap, a, "left", w)
  <2>1. pending[a][1] = b
    BY <1>4
  <2> QED BY <1>1, <2>1
<1>7. a \in Objs /\ "left" \in Names /\ Heaped(heap)
  BY <1>2 DEF Objs, Names, Sound
<1> HIDE DEF w, g
<1>8. /\ Heaped(g) /\ g.cont = heap.cont /\ g.flag = heap.flag
      /\ \A p \in Objs, n \in Names : g.val[p][n] = IF p = a /\ n = "left" THEN w ELSE heap.val[p][n]
  BY <1>5, <1>6, <1>7, PutIs
<1>9. ~Has("right") /\ ~Holds("left")
  <2>1. IsProxy(Feature("left")) /\ ~IsBidirectional(Feature("left"))
    BY <1>2 DEF Follows, Feature
  <2>2. ~Has("right")
    BY <1>2, <2>1, ShapeFacts
  <2> QED BY <2>1, <2>2 DEF Holds, IsProxy
<1>10. Sound(g)
  BY <1>2, <1>5, <1>8, <1>9, FieldKeeps DEF Sound
<1>11. \A p \in Objs \ raced, n \in Names : FlagOK(g, p, n)
  <2> SUFFICES ASSUME NEW p \in Objs \ raced, NEW n \in Names
               PROVE  FlagOK(g, p, n)
    OBVIOUS
  <2>1. FlagOK(heap, p, n)
    BY <1>2
  <2>2. CASE p = a /\ n = "left"
    <3>1. Explained(heap.val[a]["left"], wanted[a]) /\ pending[a] = wanted[a]
      BY <1>1, <1>2, <2>2 DEF SingleInv, Inv
    <3>2. heap.val[a]["left"] # NoValue
      BY <1>4, <3>1 DEF Explained, NoValue
    <3> QED BY <1>8, <2>1, <2>2, <3>2 DEF FlagOK
  <2>3. CASE ~(p = a /\ n = "left")
    <3>1. g.val[p][n] = heap.val[p][n]
      BY <1>8, <2>3
    <3> QED BY <1>8, <2>1, <3>1 DEF FlagOK
  <2> QED BY <2>2, <2>3
<1>12. Singles' /\ (Follows' <=> Follows) /\ (Sound(heap') => Sound(heap)')
       /\ \A p, n : FlagOK(heap', p, n) => FlagOK(heap, p, n)'
  BY <1>1, <1>2, SameShape
<1>13. Follows'
  BY <1>2, <1>12
<1>14. Sound(heap') /\ \A p \in Objs \ raced', n \in Names : FlagOK(heap', p, n)
  BY <1>1, <1>10, <1>11 DEF g
<1> QED BY <1>12, <1>13, <1>14 DEF SingleInv

(* Every step keeps the invariant. *)
LEMMA SingleNext ==
  ASSUME SingleInv, [Next]_vars
  PROVE  SingleInv'
<1>1. Inv'
  BY NextKeeps DEF SingleInv
<1>2. CASE Call
  BY <1>1, <1>2, SingleCall
<1>3. CASE CallSimpleSet
  BY <1>1, <1>3, SingleSimple
<1>4. ASSUME NEW a \in As, StartAsync(a)
      PROVE  SingleInv'
  BY <1>1, <1>4, SingleStart
<1>5. ASSUME NEW a \in As, EndAsync(a)
      PROVE  SingleInv'
  BY <1>1, <1>5, SingleEnd
<1>6. CASE UNCHANGED vars
  <2>1. Singles' /\ (Follows' <=> Follows) /\ (Sound(heap') => Sound(heap)')
        /\ \A p, n : FlagOK(heap', p, n) => FlagOK(heap, p, n)'
    BY <1>6, SameShape DEF vars, SingleInv
  <2> QED BY <1>1, <1>6, <2>1 DEF vars, SingleInv
<1> QED BY <1>2, <1>3, <1>4, <1>5, <1>6 DEF Next

(* An object is an element of a single value when it is the value. *)
LEMMA ElementOfSingle ==
  ASSUME NEW v \in W, NEW x
  PROVE  NamedOnce(v) /\ (x \in Elements(v) <=> v = <<x>>)
<1>1. CASE v = NoValue
  BY <1>1, ElementsFacts DEF NamedOnce, NoValue
<1>2. CASE v # NoValue
  <2>1. PICK y \in Objs : v = <<y>>
    BY <1>2 DEF W
  <2>2. Elements(v) = {y}
    BY <2>1, ElementsFacts
  <2>3. NamedOnce(v)
    BY <2>1 DEF NamedOnce
  <2> QED BY <2>1, <2>2, <2>3
<1> QED BY <1>1, <1>2

(***************************************************************************)
(* OppositesAgree, where the references are single: whatever is called on  *)
(* whichever objects, in both languages, the two ends of a reference name  *)
(* each other, as long as no accessor of TypeScript leaves them aside      *)
(* (feature/setter, unsetter, eInverseAdd and eInverseRemove templates).   *)
(***************************************************************************)
THEOREM SingleOppositesAgree ==
  ASSUME \A s \in Shapes : SingleShape(s)
  PROVE  Spec => []OppositesAgree
<1>1. Init => SingleInv
  BY SingleInvInit
<1>2. SingleInv /\ [Next]_vars => SingleInv'
  BY SingleNext
<1>3. SingleInv => OppositesAgree
  <2> SUFFICES ASSUME SingleInv, ~broken
               PROVE  /\ \A f \in Names, o \in Objs : NamedOnce(heap.val[o][f])
                      /\ Has("right") =>
                           \A a \in As, b \in Bs :
                             b \in Elements(heap.val[a].left) <=> a \in Elements(Current(heap, b, "right"))
    BY DEF OppositesAgree
  <2>1. Singles /\ Sound(heap) /\ Heaped(heap)
    BY DEF SingleInv, Sound
  <2>2. \A f \in Names, o \in Objs : heap.val[o][f] \in W
    BY <2>1 DEF Heaped
  <2>3. ASSUME Has("right"), NEW a \in As, NEW b \in Bs
        PROVE  b \in Elements(heap.val[a].left) <=> a \in Elements(Current(heap, b, "right"))
    <3>1. a \in Objs /\ b \in Objs /\ "left" \in Names /\ "right" \in Names
      BY DEF Objs, Names
    <3>2. b \in Elements(heap.val[a].left) <=> heap.val[a].left = <<b>>
      BY <2>2, <3>1, ElementOfSingle
    <3>3. CASE Plain
      <4>1. Current(heap, b, "right") = heap.val[b]["right"]
        BY <2>1, <3>3, ShapeFacts DEF Current
      <4>2. a \in Elements(Current(heap, b, "right")) <=> heap.val[b]["right"] = <<a>>
        BY <2>2, <3>1, <4>1, ElementOfSingle
      <4> QED BY <2>1, <3>2, <3>3, <4>2 DEF Sound, Paired
    <3>4. CASE ~Plain
      <4>1. Holds("left") /\ IsContainer(Feature("right")) /\ Key("left") = "right"
        BY <2>1, <2>3, <3>4, ShapeFacts, IDFacts DEF Plain, Feature
      <4>2. heap.val[a].left = <<b>> <=> heap.cont[b] = <<a, "right">>
        BY <2>1, <4>1 DEF Sound, Contains
      <4>3. heap.cont[b] \in Links
        BY <2>1, <3>1 DEF Heaped
      <4>4. Current(heap, b, "right")
              = IF Contained(heap, b) /\ heap.cont[b][2] = "right" THEN <<heap.cont[b][1]>> ELSE NoValue
        BY <4>1 DEF Current
      <4>5. CASE heap.cont[b] = NoValue
        <5>1. Current(heap, b, "right") = NoValue
          BY <4>4, <4>5 DEF Contained
        <5>2. heap.cont[b] # <<a, "right">>
          BY <4>5 DEF NoValue
        <5> QED BY <3>2, <4>2, <5>1, <5>2, ElementsFacts
      <4>6. CASE heap.cont[b] # NoValue
        <5>1. PICK p \in As, id \in {"right", "-left", "-other"} : heap.cont[b] = <<p, id>>
          BY <4>3, <4>6 DEF Links
        <5>2. heap.cont[b][1] = p /\ heap.cont[b][2] = id /\ Contained(heap, b)
          BY <4>6, <5>1 DEF Contained
        <5>3. Current(heap, b, "right") = IF id = "right" THEN <<p>> ELSE NoValue
          BY <4>4, <5>2
        <5>4. a \in Elements(Current(heap, b, "right")) <=> id = "right" /\ a = p
          BY <5>3, ElementsFacts
        <5>5. heap.cont[b] = <<a, "right">> <=> id = "right" /\ a = p
          BY <5>1
        <5> QED BY <3>2, <4>2, <5>4, <5>5
      <4> QED BY <4>5, <4>6
    <3> QED BY <3>3, <3>4
  <2> QED BY <2>2, <2>3, ElementOfSingle
<1> QED BY <1>1, <1>2, <1>3, PTL DEF Spec

(***************************************************************************)
(* ContainedOnce, where the references are single: an object is in the     *)
(* containment that its container and its feature id name, and nowhere     *)
(* else, whether it was moved by the containment, by its container or by   *)
(* another containment (feature/setter, unsetter and eInverseAdd).         *)
(***************************************************************************)
THEOREM SingleContainedOnce ==
  ASSUME \A s \in Shapes : SingleShape(s)
  PROVE  Spec => []ContainedOnce
<1>1. Init => SingleInv
  BY SingleInvInit
<1>2. SingleInv /\ [Next]_vars => SingleInv'
  BY SingleNext
<1>3. SingleInv => ContainedOnce
  <2> SUFFICES ASSUME SingleInv, ~broken, NEW a \in As, NEW b \in Bs, NEW f \in {"left", "other"},
                      Feature(f).containment, Has(f)
               PROVE  b \in Elements(heap.val[a][f])
                        <=> Contained(heap, b) /\ heap.cont[b][1] = a /\ ContainmentOf(heap.cont[b][2]) = f
    BY DEF ContainedOnce
  <2>1. Singles /\ Sound(heap) /\ Heaped(heap) /\ Holds(f)
    BY DEF SingleInv, Sound, Holds
  <2>2. a \in Objs /\ b \in Objs /\ f \in Names
    BY DEF Objs, Names
  <2>3. heap.val[a][f] \in W
    BY <2>1, <2>2 DEF Heaped
  <2>4. b \in Elements(heap.val[a][f]) <=> heap.cont[b] = <<a, Key(f)>>
    <3>1. heap.val[a][f] = <<b>> <=> heap.cont[b] = <<a, Key(f)>>
      BY <2>1 DEF Sound, Contains
    <3>2. b \in Elements(heap.val[a][f]) <=> heap.val[a][f] = <<b>>
      BY <2>3, ElementOfSingle
    <3> QED BY <3>1, <3>2
  <2>5. CASE heap.cont[b] = NoValue
    BY <2>4, <2>5 DEF Contained, NoValue
  <2>6. CASE heap.cont[b] # NoValue
    <3>1. PICK p \in As, n \in {"left", "other"} : heap.cont[b] = <<p, Key(n)>>
      BY <2>1, <2>2, <2>6 DEF Sound, Located
    <3>2. Contained(heap, b) /\ heap.cont[b][1] = p /\ heap.cont[b][2] = Key(n)
      BY <2>6, <3>1 DEF Contained
    <3>3. ContainmentOf(heap.cont[b][2]) = n
      BY <2>1, <3>2, IDFacts
    <3>4. heap.cont[b] = <<a, Key(f)>> <=> p = a /\ n = f
      BY <2>1, <3>1, KeysDiffer
    <3> QED BY <2>4, <3>2, <3>3, <3>4
  <2> QED BY <2>5, <2>6
<1> QED BY <1>1, <1>2, <1>3, PTL DEF Spec

(***************************************************************************)
(* SetValuesAreSet, where the references are single: IsSet and EIsSet      *)
(* report every value that no late resolution put there, what a setter is  *)
(* given reads back, and nothing is set after an unsetter, the reflective  *)
(* methods included (feature/isset, reflectives/eset, eunset, eisset).     *)
(***************************************************************************)
THEOREM SingleValuesAreSet ==
  ASSUME \A s \in Shapes : SingleShape(s)
  PROVE  Spec => []SetValuesAreSet
<1>1. Init => SingleInv
  BY SingleInvInit
<1>2. SingleInv /\ [Next]_vars => SingleInv'
  BY SingleNext
<1>3. SingleInv => SetValuesAreSet
  <2> SUFFICES ASSUME SingleInv, ~broken
               PROVE  SetValuesAreSet
    BY DEF SetValuesAreSet
  <2>1. Singles /\ Sound(heap) /\ \A p \in Objs \ raced, n \in Names : FlagOK(heap, p, n)
    BY DEF SingleInv
  <2>2. ASSUME NEW f \in Names, NEW o \in Objs, Has(f), o \in Owners(f) \ raced, Current(heap, o, f) # NoValue
        PROVE  EIsSet(lang, heap, o, f)
    <3>1. SingleReference(Feature(f))
      BY <2>1, <2>2, ShapeFacts
    <3>2. In(lang, GoComparison(Feature(f)), TSComparison(Feature(f))) = "flag" <=> HasESet(Feature(f))
      BY <3>1, SingleComparison DEF In, TSComparison
    <3>3. CASE HasESet(Feature(f))
      <4>1. heap.val[o][f] # NoValue
        BY <2>2, <3>1, <3>3, SingleFacts DEF Current
      <4>2. heap.flag[o][f]
        BY <2>1, <2>2, <3>3, <4>1 DEF FlagOK
      <4> QED BY <3>2, <3>3, <4>2 DEF EIsSet
    <3>4. CASE ~HasESet(Feature(f))
      BY <2>2, <3>2, <3>4 DEF EIsSet
    <3> QED BY <3>3, <3>4
  <2>3. ASSUME NEW op \in Operations
        PROVE  Honours(op, Apply(lang, op, heap))
    <3> DEFINE h == Apply(lang, op, heap)
    <3>1. \/ Threw(lang, h)
          \/ /\ op.name # "read" => Current(h, op.object, op.feature) = op.value
             /\ op.name \in {"unset", "eunset"} => ~EIsSet(lang, h, op.object, op.feature)
      BY <2>1, ApplyKeeps
    <3> HIDE DEF h
    <3>2. CASE h.thrown = TRUE
      BY <3>2 DEF h, Honours
    <3>3. CASE h.thrown # TRUE
      <4>1. op.name \in {"set", "eset"} => Current(h, op.object, op.feature) = op.value
        BY <3>1, <3>3 DEF Threw
      <4>2. op.name \in {"unset", "eunset"} => ~EIsSet(lang, h, op.object, op.feature)
        BY <3>1, <3>3 DEF Threw
      <4>3. Honours(op, h)
        BY <4>1, <4>2 DEF Honours
      <4> QED BY <4>3 DEF h
    <3> QED BY <3>2, <3>3
  <2> QED BY <2>2, <2>3 DEF SetValuesAreSet
<1> QED BY <1>1, <1>2, <1>3, PTL DEF Spec

(***************************************************************************)
(* LanguagesAgree, where the references are single, lazy or not: the code  *)
(* of Go and that of TypeScript, written from templates of their own, does *)
(* the same to the same objects; but TypeScript may throw where an object  *)
(* joins a lazy reference, which eBasicInverseAdd reads by its getter.     *)
(***************************************************************************)
THEOREM SingleLanguagesAgree ==
  ASSUME \A s \in Shapes : SingleShape(s)
  PROVE  Spec => []LanguagesAgree
<1>1. Init => SingleInv
  BY SingleInvInit
<1>2. SingleInv /\ [Next]_vars => SingleInv'
  BY SingleNext
<1>3. SingleInv => LanguagesAgree
  <2> SUFFICES ASSUME SingleInv, ~broken, NEW op \in Operations
               PROVE  Alike(Apply("go", op, heap), Apply("ts", op, heap))
    BY DEF LanguagesAgree
  <2>1. Singles /\ Sound(heap)
    BY DEF SingleInv
  <2> DEFINE go == Apply("go", op, heap)
             ts == Apply("ts", op, heap)
  <2>2. go.thrown = FALSE /\ (Threw("ts", ts) \/ (ts.thrown = FALSE /\ ts = go))
    BY <2>1, ApplyAgrees
  <2> HIDE DEF go, ts
  <2>3. Alike(go, ts)
    BY <2>2 DEF Threw, Alike
  <2> QED BY <2>3 DEF go, ts
<1> QED BY <1>1, <1>2, <1>3, PTL DEF Spec

=============================================================================

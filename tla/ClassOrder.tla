----------------------------- MODULE ClassOrder -----------------------------
(***************************************************************************)
(* The order in which a package declares its classes: orderedClasses of    *)
(* internal/model/order.go.  A class is written after the classes that its *)
(* chain of first super types goes through, because a generated TypeScript *)
(* module cannot extend a class that is not evaluated yet.                 *)
(*                                                                         *)
(* Any hierarchy is allowed, the cyclic ones included: nothing between the *)
(* loading of a model and this function rejects them.                      *)
(***************************************************************************)
EXTENDS Naturals, Sequences

CONSTANTS
  Classes,      \* the classes of the model, of this package or of another
  DataTypes,    \* the data types of the package
  Classifiers,  \* the classifiers of the package, in model order
  None          \* the first super type of a class that has none

ASSUME HierarchyAssumption ==
  /\ None \notin Classes
  /\ Classifiers \in Seq(Classes \cup DataTypes)

NamesOf(s) == {s[i] : i \in 1 .. Len(s)}

\* The classes of the package; its data types are classifiers, not classes.
Package == NamesOf(Classifiers) \cap Classes

VARIABLES
  super,    \* the first super type of every class; the function does not write it
  at,       \* how many classifiers the outer loop has taken
  walking,  \* whether the inner loop runs
  cur,      \* eClass, the class that the inner loop has reached
  visited,  \* the classes that the chain of this classifier went through
  chain,    \* extendChain, the classes of the chain that were not placed before
  placed,   \* resultSet
  result

vars == <<super, at, walking, cur, visited, chain, placed, result>>

firstSuperType(c) == super[c]

Init ==
  /\ super \in [Classes -> Classes \cup {None}]
  /\ at = 0
  /\ walking = FALSE
  /\ cur = None
  /\ visited = {}
  /\ chain = <<>>
  /\ placed = {}
  /\ result = <<>>

\* The outer loop takes a classifier and passes over the ones that are no class.
TakeClassifier ==
  /\ ~walking
  /\ at < Len(Classifiers)
  /\ at' = at + 1
  /\ IF Classifiers[at'] \in Classes
     THEN walking' = TRUE /\ cur' = Classifiers[at']
     ELSE UNCHANGED <<walking, cur>>
  /\ visited' = {}
  /\ chain' = <<>>
  /\ UNCHANGED <<super, placed, result>>

\* Wrong variant: the chain is followed without the set of the visited classes.
ClimbForever == walking /\ cur # None

CanClimb == walking /\ cur # None /\ cur \notin visited

AlreadyPlaced(c) == c \in placed

\* Wrong variant: extendChain is appended to.
ChainDownwards(c) == Append(chain, c)

ChainWith(c) == <<c>> \o chain

\* One turn of the inner loop: cur is placed and the chain goes up.
Climb ==
  /\ CanClimb
  /\ visited' = visited \cup {cur}
  /\ IF cur \in Package /\ ~AlreadyPlaced(cur)
     THEN placed' = placed \cup {cur} /\ chain' = ChainWith(cur)
     ELSE UNCHANGED <<placed, chain>>
  /\ cur' = firstSuperType(cur)
  /\ UNCHANGED <<super, at, walking, result>>

\* Wrong variant: the function leaves the classifier when it meets a cycle.
ResultWithoutCycles == IF cur = None THEN result \o chain ELSE result

ResultWithChain == result \o chain

\* The inner loop ends, at the root of the chain or back on it.
EndChain ==
  /\ walking
  /\ ~CanClimb
  /\ walking' = FALSE
  /\ result' = ResultWithChain
  /\ chain' = <<>>
  /\ UNCHANGED <<super, at, cur, visited, placed>>

Next == TakeClassifier \/ Climb \/ EndChain

\* The function is sequential: it runs until it returns.
Spec == Init /\ [][Next]_vars /\ WF_vars(Next)

Returned == ~walking /\ at = Len(Classifiers)

(***************************************************************************)
(* Correctness                                                             *)
(***************************************************************************)

\* A set of classes that holds the first super type of each of its classes.
Closed(S) == \A c \in S : super[c] \in S \cup {None}

\* The classes above c: the smallest closed set with its first super type.
Above(c) ==
  {a \in Classes : \A S \in SUBSET Classes : Closed(S) /\ super[c] \in S \cup {None} => a \in S}

TypeOK ==
  /\ super \in [Classes -> Classes \cup {None}]
  /\ at \in 0 .. Len(Classifiers)
  /\ walking \in BOOLEAN
  /\ cur \in Classes \cup {None}
  /\ visited \in SUBSET Classes
  /\ chain \in Seq(Package)
  /\ placed \in SUBSET Package
  /\ result \in Seq(Package)

\* No class of s comes before one of the classes above it. Two classes on a
\* cycle are each above the other, in either order.
NoInversion(s) ==
  \A i, j \in 1 .. Len(s) :
    i < j /\ s[j] \in Above(s[i]) => s[i] \in Above(s[j])

\* order.go:5-9: the first super type chain of a class precedes it. At any
\* moment, also between two classifiers and in the middle of a chain that
\* leaves the package and comes back, what is placed is in order.
ChainsPrecede == NoInversion(result \o chain)

\* order.go:9: "the classes already placed being skipped". A class that several
\* chains go through is declared once.
PlacedOnce ==
  \A i, j \in 1 .. Len(result \o chain) :
    i # j => (result \o chain)[i] # (result \o chain)[j]

\* When the function returns, no class of the package is missing, whatever
\* the chains that skipped it, and none was ever placed twice.
EveryClassPlaced == PlacedOnce /\ (Returned => NamesOf(result) = Package)

\* The function returns, on a cyclic hierarchy too.
Returns == <>Returned
=============================================================================

----------------------------- MODULE ClassFacts -----------------------------
(***************************************************************************)
(* The facts that the generators derive from a class hierarchy:            *)
(* internal/model/class.go (what a class extends, mixes in and implements) *)
(* and internal/model/ids.go (the constants that number its members).      *)
(*                                                                         *)
(* Features and operations go through the same code under two names: a     *)
(* member is either.  A class is a number greater than those of its super  *)
(* types, and a member of a class is named as the class.                   *)
(***************************************************************************)
EXTENDS Integers, Sequences, FiniteSets

CONSTANTS
  MaxClass,   \* bound: the classes of the model
  MaxSupers,  \* bound: the super types of a class
  Owning      \* the sets of classes that may have a member of their own

ASSUME BoundsAssumption == MaxClass \in Nat \ {0} /\ MaxSupers \in Nat

Classes == 1 .. MaxClass

None == 0

VARIABLES
  superTypes,   \* the super types of a class, in order
  isInterface,  \* whether a class is an interface
  owns          \* the classes that declare a member

hierarchy == <<superTypes, isInterface, owns>>

\* The lists of super types that a class may have.
SuperTypeLists(c) ==
  {s \in UNION {[1 .. k -> 1 .. c - 1] : k \in 0 .. MaxSupers} : \A i, j \in DOMAIN s : i # j => s[i] # s[j]}

HierarchyInit ==
  /\ superTypes \in {s \in [Classes -> UNION {SuperTypeLists(c) : c \in Classes}] :
                       \A c \in Classes : s[c] \in SuperTypeLists(c)}
  /\ isInterface \in [Classes -> BOOLEAN]
  /\ owns \in Owning

NamesOf(s) == {s[i] : i \in DOMAIN s}

AppendedOnce(s, x) == IF x \in NamesOf(s) THEN s ELSE Append(s, x)

appendUnique(dst, src) ==
  LET upTo[k \in 0 .. Len(src)] == IF k = 0 THEN dst ELSE AppendedOnce(upTo[k - 1], src[k])
  IN  upTo[Len(src)]

\* Lists one after the other, each element once.
Merged(lists) ==
  LET upTo[k \in 0 .. Len(lists)] == IF k = 0 THEN <<>> ELSE appendUnique(upTo[k - 1], lists[k])
  IN  upTo[Len(lists)]

(***************************************************************************)
(* Ecore                                                                   *)
(***************************************************************************)

\* The super types of a class and above, the most general ones first.
eAllSuperTypes[c \in Classes] ==
  Merged([k \in DOMAIN superTypes[c] |-> Append(eAllSuperTypes[superTypes[c][k]], superTypes[c][k])])

\* The members of a class: those of its super types, in order, then its own.
eAllMembers[c \in Classes] ==
  LET inherited == Merged([k \in DOMAIN superTypes[c] |-> eAllMembers[superTypes[c][k]]])
  IN  IF c \in owns THEN Append(inherited, c) ELSE inherited

\* The position of a member, from 0; -1 without it.
IndexOf(s, f) == IF f \in NamesOf(s) THEN (CHOOSE i \in DOMAIN s : s[i] = f) - 1 ELSE -1

MemberCount(c) == Len(eAllMembers[c])

Members(c) == NamesOf(eAllMembers[c])

(***************************************************************************)
(* class.go                                                                *)
(***************************************************************************)

firstSuperType(c) == IF superTypes[c] = <<>> THEN None ELSE superTypes[c][1]

\* The first class that is no interface on the chain of first super types.
ExtendsClass[c \in Classes] ==
  LET base == firstSuperType(c)
  IN  IF base # None /\ isInterface[base] THEN ExtendsClass[base] ELSE base

\* The super types listed after b.
After(s, b) == {s[i] : i \in IndexOf(s, b) + 2 .. Len(s)}

\* The classes that a class implements besides the one it extends.
Mixins[c \in Classes] ==
  LET base == firstSuperType(c)
  IN  IF base = None \/ (Len(superTypes[c]) = 1 /\ ~isInterface[base])
      THEN {}
      ELSE (IF isInterface[base] THEN Mixins[base] ELSE {}) \cup After(eAllSuperTypes[c], base)

\* Wrong variant: the members of the base class are taken for inherited ones.
ImplementedBeyondBase(c) ==
  LET base == firstSuperType(c)
  IN  Members(c) \ (IF base = None THEN {} ELSE Members(base))

\* ImplementedFeatures, ImplementedOperations.
Implemented(c) ==
  LET extends == ExtendsClass[c]
  IN  Members(c) \ (IF extends = None THEN {} ELSE Members(extends))

\* Whether a mixin implements a member: the class has derived ids.
HasElementID(c) == \E m \in Mixins[c] : Implemented(m) # {}

(***************************************************************************)
(* ids.go                                                                  *)
(***************************************************************************)

\* The members that a class adds to those of its base class.
Added(c, base) == MemberCount(c) - MemberCount(base)

\* FeatureCountIDValue, OperationCountIDValue: the count of a class, written as
\* the count constant of its base class plus an offset.
CountIDValue[c \in Classes] ==
  LET base == firstSuperType(c)
  IN  IF base = None THEN MemberCount(c) ELSE CountIDValue[base] + Added(c, base)

\* Wrong variant: the first member that a class adds is taken for one of its base.
UpToBase(index, base) == index <= MemberCount(base)

\* The first members of a class are those of its base class.
OfBase(index, base) == index < MemberCount(base)

\* FeatureIDValue, OperationIDValue: the constant of a member in a class. It is
\* written as the constant of the member in the base class, or as the count
\* constant of the base class plus an offset.
IDValue[c \in Classes] ==
  [f \in Classes |->
     LET index == IndexOf(eAllMembers[c], f)
         base  == firstSuperType(c)
     IN  IF base = None THEN index
         ELSE IF OfBase(index, base) THEN IDValue[base][f]
         ELSE CountIDValue[base] + (index - MemberCount(base))]

\* The constants of a class that the interface of its package declares: one for
\* each member, and their count.
Constants(c) ==
  [ids |-> [f \in Members(c) |-> IDValue[c][f]], count |-> CountIDValue[c]]
=============================================================================

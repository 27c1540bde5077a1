----------------------------- MODULE Reflection -----------------------------
(***************************************************************************)
(* The reflective methods of the generated Go classes, at work.  The       *)
(* implementation of a class embeds the one of the class it extends:       *)
(* EDerivedFeatureID translates the ids of the mixins of a class and calls *)
(* the embedded one, EGetFromID (and ESetFromID, EUnsetFromID, ...)        *)
(* answers for the members that the class implements and calls the         *)
(* embedded one.  Their tables are computed once per class, far from the   *)
(* object that a call is made on: internal/lang/golang/view_reflectives.go *)
(* and templates/reflectives.                                              *)
(*                                                                         *)
(* soft.go reads a feature by asking the id, in the class of the object,   *)
(* of the feature with its id in the class that declares it, and then the  *)
(* value of that id.                                                       *)
(***************************************************************************)
EXTENDS ClassFacts

VARIABLES
  object,    \* the class of the object
  feature,   \* the feature to read; it is named as the class that declares it
  method,    \* the method that runs
  at,        \* the class whose implementation runs it; None for the soft.go one
  id,        \* its argument
  answer     \* the feature whose getter was called

vars == <<hierarchy, object, feature, method, at, id, answer>>

NoFeature == 0

Invalid == -1

\* The classes whose ids EDerivedFeatureID of c maps: none without an id.
Mapped(c) == IF HasElementID(c) THEN Mixins[c] ELSE {}

\* Wrong variant: the case of a mixin returns its id in the class that c extends.
DerivedBelow(c, m, i) ==
  IF ExtendsClass[c] = None THEN i ELSE MemberCount(ExtendsClass[c]) + i

\* The switch of EDerivedFeatureID of c for a mixin m.
DerivedID(c, m, i) ==
  IF \E f \in Implemented(m) : IDValue[m][f] = i
  THEN IDValue[c][CHOOSE f \in Implemented(m) : IDValue[m][f] = i]
  ELSE Invalid

\* The class whose implementation the one of a class embeds; None for the one of
\* soft.go.
classExtends(c) == ExtendsClass[c]

\* The class whose mock the one of a class embeds; None for the one of soft.go.
mockExtends(c) == ExtendsClass[c]

\* What the generated tests of EDerivedFeatureID expect: the ids of the members
\* that a mixin implements become those of the class, and no other id does.
derivedIDTests(c) ==
  IF HasElementID(c)
  THEN UNION {{[of |-> m, from |-> Invalid, to |-> Invalid]}
                \cup {[of |-> m, from |-> IDValue[m][f], to |-> IDValue[c][f]] : f \in Implemented(m)} :
              m \in Mixins[c]}
  ELSE {}

Init ==
  /\ HierarchyInit
  /\ object = None
  /\ feature = NoFeature
  /\ method = "none"
  /\ at = None
  /\ id = Invalid
  /\ answer = NoFeature

\* A feature of an object is read by its feature object.
Read(c, f) ==
  /\ method = "none"
  /\ ~isInterface[c]
  /\ f \in Members(c)
  /\ object' = c
  /\ feature' = f
  /\ method' = "EDerivedFeatureID"
  /\ at' = c
  /\ id' = IDValue[f][f]
  /\ UNCHANGED <<hierarchy, answer>>

\* A feature is read by its id in the class of the object, or an id beyond the
\* last feature.
ReadID(c, i) ==
  /\ method = "none"
  /\ ~isInterface[c]
  /\ object' = c
  /\ feature' = IF i < MemberCount(c) THEN eAllMembers[c][i + 1] ELSE NoFeature
  /\ method' = "EGetFromID"
  /\ at' = c
  /\ id' = i
  /\ UNCHANGED <<hierarchy, answer>>

\* The id of a mixin is translated.
Translate ==
  /\ method = "EDerivedFeatureID"
  /\ at # None
  /\ feature \in Mapped(at)
  /\ id' = DerivedID(at, feature, id)
  /\ method' = "EGetFromID"
  /\ at' = object
  /\ UNCHANGED <<hierarchy, object, feature, answer>>

\* The class embedded in the implementation is asked.
PassID ==
  /\ method = "EDerivedFeatureID"
  /\ at # None
  /\ feature \notin Mapped(at)
  /\ at' = classExtends(at)
  /\ UNCHANGED <<hierarchy, object, feature, method, id, answer>>

\* soft.go returns the id it is given.
KeepID ==
  /\ method = "EDerivedFeatureID"
  /\ at = None
  /\ method' = "EGetFromID"
  /\ at' = object
  /\ UNCHANGED <<hierarchy, object, feature, id, answer>>

\* The cases of EGetFromID of c: the ids of the members it implements.
Cases(c) == {f \in Implemented(c) : IDValue[c][f] = id}

\* The getter of a feature is called.
Get ==
  /\ method = "EGetFromID"
  /\ at # None
  /\ \E f \in Cases(at) : answer' = f
  /\ method' = "done"
  /\ UNCHANGED <<hierarchy, object, feature, at, id>>

\* default: the embedded implementation is asked.
PassGet ==
  /\ method = "EGetFromID"
  /\ at # None
  /\ Cases(at) = {}
  /\ at' = classExtends(at)
  /\ UNCHANGED <<hierarchy, object, feature, method, id, answer>>

\* soft.go has no feature of that id.
Fail ==
  /\ method = "EGetFromID"
  /\ at = None
  /\ method' = "done"
  /\ UNCHANGED <<hierarchy, object, feature, at, id, answer>>

Next ==
  \/ \E c \in Classes, f \in Classes : Read(c, f)
  \/ \E c \in Classes : \E i \in 0 .. MemberCount(c) : ReadID(c, i)
  \/ Translate \/ PassID \/ KeepID
  \/ Get \/ PassGet \/ Fail

Spec == Init /\ [][Next]_vars

(***************************************************************************)
(* Correctness                                                             *)
(***************************************************************************)

TypeOK ==
  /\ \A c \in Classes : superTypes[c] \in SuperTypeLists(c)
  /\ isInterface \in [Classes -> BOOLEAN]
  /\ owns \subseteq Classes
  /\ {object, feature, at, answer} \subseteq Classes \cup {None}
  /\ method \in {"none", "EDerivedFeatureID", "EGetFromID", "done"}
  /\ id \in Invalid .. MaxClass

\* Reading a feature of an object calls the getter of that feature, whichever
\* super type declares it and whichever class of the chain of implementations
\* holds it: the ids of the generated tables agree with one another. An id that
\* is not one of the class calls none. The generated tests of the tables pass.
ReadsTheFeature ==
  /\ method = "done" => answer = feature
  /\ method = "none" =>
       \A c \in Classes : \A t \in derivedIDTests(c) : DerivedID(c, t.of, t.from) = t.to

\* A class and the classes that its implementation embeds, and its mock.
ExtendsChain[c \in Classes] ==
  {c} \cup (IF classExtends(c) = None THEN {} ELSE ExtendsChain[classExtends(c)])

MockChain[c \in Classes] ==
  {c} \cup (IF mockExtends(c) = None THEN {} ELSE MockChain[mockExtends(c)])

\* A member of a class is implemented once along the chain of the classes that
\* it extends: its field is neither missing nor declared twice. Its mock has
\* every member too, once: it implements the interface of the class, and no
\* selector is ambiguous.
ImplementedOnce ==
  \A c \in Classes :
    \A f \in Members(c) :
      /\ Cardinality({d \in ExtendsChain[c] : f \in Implemented(d)}) = 1
      /\ Cardinality({d \in MockChain[c] : f \in Implemented(d)}) = 1

\* ids.go:125-129: the constant of a member is its position among the members
\* of the class, although it is written from the constants of the base class,
\* and the count constant is their number. TestIDsMatchEcore checks it on the
\* Ecore model.
ConstantsArePositions ==
  \A c \in Classes :
    /\ Constants(c).count = MemberCount(c)
    /\ \A f \in Members(c) : Constants(c).ids[f] = IndexOf(eAllMembers[c], f)
=============================================================================

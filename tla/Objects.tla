--------------------------------- MODULE Objects ---------------------------------
(***************************************************************************)
(* What the accessors the generators write do to a graph of objects: the   *)
(* templates feature/* and reflectives/* of the two languages, in the      *)
(* variant that the module Features picks for each feature.                *)
(*                                                                         *)
(* Two classes: A has the reference left to B, B may have its opposite     *)
(* right, and A may have one more containment, other.  The shape of a      *)
(* behaviour is the record of each feature, so that one run covers every   *)
(* combination the decisions tell apart.  The runtime the code calls       *)
(* (lists, containers and inverses of soft.go and soft.ts) is external:    *)
(* it follows the constructor flags and the ids that the code gives it.    *)
(***************************************************************************)
EXTENDS GeneratedTests

LOCAL INSTANCE SequencesExt

CONSTANTS
  As, Bs,     \* the objects of the two classes
  Resolved,   \* Resolved[b]: what the proxy b resolves to, b itself when it is none
  LazyKey,    \* the tokens <<type, mode>> of the `lazy` key of the package
  Shapes      \* the records [left, right, other] that are explored

ASSUME ObjectsAssumption ==
  /\ As \cap Bs = {}
  /\ Resolved \in [Bs -> Bs] /\ \A b \in Bs : Resolved[Resolved[b]] = Resolved[b]
  /\ \A s \in Shapes : \A f \in {s.left, s.right} : f \in AllFeatures /\ Valid(f) /\ ~f.volatile

VARIABLES
  lang,     \* the language of the generated code
  shape,    \* the features of the classes
  heap,     \* the objects: val, flag (is set) and cont (container and feature id);
            \* thrown when a call ended in the middle
  pending,  \* per A: the proxy an asynchronous getter is resolving, if any
  wanted,   \* per A: what the program last gave the proxy reference left
  raced,    \* the A whose left was given while a resolution was pending
  broken    \* an accessor of TypeScript left the inverses aside, or threw: explored up to there

vars == <<lang, shape, heap, pending, wanted, raced, broken>>

NoValue == <<>>
Objs == As \cup Bs
Names == {"left", "right", "other"}
Base == [left |-> "-left", right |-> "-right", other |-> "-other"]

Has(f) == CASE f = "left" -> TRUE [] f = "right" -> shape.left.opposite # "none" [] f = "other" -> shape.other
Owners(f) == IF f = "right" THEN Bs ELSE As
Targets(f) == IF f = "right" THEN As ELSE Bs
Opposite(f) == IF f = "left" THEN "right" ELSE "left"

(* A plain single containment, with no other end. *)
OtherFeature ==
  [kind |-> "reference", many |-> FALSE, containment |-> TRUE, proxies |-> FALSE,
   changeable |-> TRUE, unsettable |-> FALSE, volatile |-> FALSE, map |-> FALSE,
   body |-> FALSE, reserved |-> FALSE, renamed |-> FALSE, property |-> FALSE,
   opposite |-> "none", lazy |-> "no"]

Feature(f) == CASE f = "left" -> shape.left [] f = "right" -> shape.right [] f = "other" -> OtherFeature

(* The variant of the language l. *)
In(l, go, ts) == IF l = "go" THEN go ELSE ts

-----------------------------------------------------------------------------
\* The runtime: containers.  A container is <<object, feature id>>.
Put(h, o, f, s) == [h EXCEPT !.val[o][f] = s]
SetContainer(h, o, c) == [h EXCEPT !.cont[o] = c]
Contained(h, o) == h.cont[o] # NoValue

(* The containment a container feature id stands for: its opposite, or BASE - id. *)
ContainmentOf(id) == IF id = "-other" THEN "other" ELSE "left"

(* The feature id that an id given to EInverseAdd and EInverseRemove stands for. *)
IDOf(f, id) == IF id = "reverse" THEN Opposite(f) ELSE Base[f]
InverseOf(f) == IDOf(f, InverseID(Feature(f)))

-----------------------------------------------------------------------------
\* The basic accessors (feature/basicset, basicunset).
BasicSet(h, o, f, s) ==
  IF GoBasicSetter(Feature(f)) = "container"
  THEN SetContainer(h, o, IF s = NoValue THEN NoValue ELSE <<s[1], f>>)
  ELSE [Put(h, o, f, s) EXCEPT !.flag[o][f] = @ \/ HasESet(Feature(f))]

\* Wrong variant: the flag stays.
BasicUnsetValue(h, o, f) == Put(h, o, f, NoValue)

\* Wrong variant: the value stays.
BasicUnsetFlag(h, o, f) == [h EXCEPT !.flag[o][f] = FALSE]

BasicUnset(h, o, f) == [Put(h, o, f, NoValue) EXCEPT !.flag[o][f] = FALSE]

\* The value of the field or of the container, without resolution (feature/basicget).
Current(h, o, f) ==
  IF ~IsContainer(Feature(f)) THEN h.val[o][f]
  ELSE IF Contained(h, o) /\ h.cont[o][2] = f THEN <<h.cont[o][1]>> ELSE NoValue

(* The list after its getter is called: TypeScript's lazy action builds a new one. *)
ReadList(l, h, o, f) ==
  IF In(l, GoGetter(Feature(f), FALSE), TSGetter(Feature(f), FALSE)) = "lazyaction"
     /\ In(l, GoInit(Feature(f)), TSInit(Feature(f))) = "value"
  THEN Put(h, o, f, NoValue) ELSE h

\* EBasicInverseRemove: other leaves the feature f of o.
InverseRemove(l, h, o, other, f) ==
  LET variant == In(l, GoInverseRemove(Feature(f)), TSInverseRemove(Feature(f)))
      read == ReadList(l, h, o, f)
  IN  CASE variant = "list" -> Put(read, o, f, SelectSeq(read.val[o][f], LAMBDA x : x # other))
        [] variant = "container" -> SetContainer(h, o, NoValue)
        [] variant = "unset" -> BasicUnset(h, o, f)
        [] variant = "set" -> BasicSet(h, o, f, NoValue)

\* EInverseRemove of the runtime: an id under the base resets the container.
EInverseRemove(l, h, o, other, id) ==
  IF id \in Names THEN InverseRemove(l, h, o, other, id) ELSE SetContainer(h, o, NoValue)

RemoveFromContainer(l, h, o) ==
  IF Contained(h, o) THEN InverseRemove(l, h, h.cont[o][1], o, ContainmentOf(h.cont[o][2])) ELSE h

(***************************************************************************)
(* EBasicInverseAdd of a single reference first reads what it holds.  Go   *)
(* reads the field; TypeScript calls a getter, and the one of a lazy       *)
(* reference runs the initializer, which is generated to throw.            *)
(***************************************************************************)
ReadThrows(l, h, o, f) ==
  /\ l = "ts"
  /\ Read(TSCurrentGetter(Feature(f)), TSInit(Feature(f)), Feature(f),
          IF Current(h, o, f) = NoValue THEN "default" ELSE "given") = "panics"

\* EBasicInverseAdd: other joins the feature f of o.
InverseAdd(l, h, o, other, f) ==
  LET variant == In(l, GoInverseAdd(Feature(f)), TSInverseAdd(Feature(f)))
      read == ReadList(l, h, o, f)
      current == Current(h, o, f)
      left == IF current = NoValue THEN h ELSE EInverseRemove(l, h, current[1], o, IDOf(f, RemoveID(Feature(f))))
  IN  CASE variant = "list" -> Put(read, o, f, Append(read.val[o][f], other))
        [] variant = "containerbasic" -> BasicSet(RemoveFromContainer(l, h, o), o, f, <<other>>)
        [] variant = "containerset" -> SetContainer(RemoveFromContainer(l, h, o), o, <<other, f>>)
        [] variant = "single" -> IF ReadThrows(l, h, o, f) THEN [h EXCEPT !.thrown = TRUE]
                                 ELSE BasicSet(left, o, f, <<other>>)

\* EInverseAdd of the runtime: an id under the base makes other the container.
EInverseAdd(l, h, o, other, id) ==
  IF id \in Names THEN InverseAdd(l, h, o, other, id)
  ELSE SetContainer(RemoveFromContainer(l, h, o), o, <<other, id>>)

-----------------------------------------------------------------------------
\* The list of a many feature, with the flags its constructor gives it.
ListAdd(l, h, o, f, x) ==
  LET list == h.val[o][f]
      added == Put(h, o, f, Append(list, x))
  IN  IF h.thrown \/ x \in {list[i] : i \in DOMAIN list} THEN h
      ELSE IF In(l, GoListInverse(Feature(f)), TSListInverse(Feature(f)))
           THEN EInverseAdd(l, added, x, o, InverseOf(f)) ELSE added

ListRemove(l, h, o, f, x) ==
  LET removed == Put(h, o, f, SelectSeq(h.val[o][f], LAMBDA y : y # x))
  IN  IF In(l, GoListInverse(Feature(f)), TSListInverse(Feature(f)))
      THEN EInverseRemove(l, removed, x, o, InverseOf(f)) ELSE removed

ListClear(l, h, o, f) ==
  FoldLeft(LAMBDA g, x : ListRemove(l, g, o, f, x), h, h.val[o][f])

ListReplace(l, h, o, f, s) ==
  FoldLeft(LAMBDA g, x : ListAdd(l, g, o, f, x), ListClear(l, ReadList(l, h, o, f), o, f), s)

-----------------------------------------------------------------------------
\* The accessors of the interface.

\* Nothing is stored after a call that threw.
StoredAfter(h, o, f, s) == IF h.thrown THEN h ELSE BasicSet(h, o, f, s)

Setter(l, h, o, f, s) ==
  LET variant == In(l, GoSetter(Feature(f), FALSE), TSSetter(Feature(f), FALSE))
      old == Current(h, o, f)
      left == IF variant = "container" THEN RemoveFromContainer(l, h, o)
              ELSE IF old = NoValue THEN h ELSE EInverseRemove(l, h, old[1], o, InverseOf(f))
      joined == IF s = NoValue THEN left ELSE EInverseAdd(l, left, s[1], o, InverseOf(f))
      moves == IF variant = "container"
               THEN \/ s # (IF Contained(h, o) THEN <<h.cont[o][1]>> ELSE NoValue)
                    \/ s # NoValue /\ h.cont[o][2] # f
               ELSE s # old
  IN  CASE variant = "field" -> BasicSet(h, o, f, s)
        [] variant # "field" /\ moves -> StoredAfter(joined, o, f, s)
        [] variant = "container" /\ ~moves -> h
        [] variant = "inverse" /\ ~moves -> [h EXCEPT !.flag[o][f] = @ \/ HasESet(Feature(f))]

UnsetValue(l, h, o, f) ==
  LET variant == In(l, GoUnsetter(Feature(f), FALSE), TSUnsetter(Feature(f), FALSE))
      old == h.val[o][f]
      left == IF old = NoValue THEN h ELSE EInverseRemove(l, h, old[1], o, InverseOf(f))
  IN  IF variant \in {"list", "lazylist"} THEN ListClear(l, h, o, f)
      ELSE BasicUnset(IF variant = "inverse" THEN left ELSE h, o, f)

\* The getter: a single proxy is replaced by what it resolves to.
Getter(l, h, o, f) ==
  LET variant == In(l, GoGetter(Feature(f), FALSE), TSGetter(Feature(f), FALSE))
  IN  IF variant = "proxy" /\ ~IsBidirectional(Feature(f)) /\ h.val[o][f] # NoValue
      THEN Put(h, o, f, <<Resolved[h.val[o][f][1]]>>)
      ELSE ReadList(l, h, o, f)

\* The reflective methods.
ESet(l, h, o, f, s) ==
  IF In(l, GoESet(Feature(f)), TSESet(Feature(f))) = "list" THEN ListReplace(l, h, o, f, s)
  ELSE Setter(l, h, o, f, s)

EUnset(l, h, o, f) ==
  LET variant == In(l, GoEUnset(Feature(f)), TSEUnset(Feature(f)))
  IN  CASE variant = "clear" -> ListClear(l, ReadList(l, h, o, f), o, f)
        [] variant = "unset" -> UnsetValue(l, h, o, f)
        [] variant = "set" -> Setter(l, h, o, f, NoValue)

EIsSet(l, h, o, f) ==
  LET variant == In(l, GoComparison(Feature(f)), TSComparison(Feature(f)))
  IN  IF variant = "flag" THEN h.flag[o][f] ELSE Current(h, o, f) # NoValue

\* The setter TypeScript writes for a feature without one: a field is only stored.
SimpleSet(h, o, f, s) ==
  IF TSSimpleSet(Feature(f), FALSE) = "list" THEN ListReplace("ts", h, o, f, s) ELSE Put(h, o, f, s)

-----------------------------------------------------------------------------
(***************************************************************************)
(* The operations a program can call, as records, and what each does.      *)
(***************************************************************************)
Values(f) == {NoValue} \cup {<<x>> : x \in Targets(f)}
Pairs(f) == {<<x, y>> : x \in Targets(f), y \in Targets(f)}

Operations ==
  LET Of(f) ==
        LET On(names, values, able) ==
              IF able THEN [name : names, feature : {f}, object : Owners(f), value : values] ELSE {}
            m == Feature(f)
        IN  On({"set"}, Values(f), HasSet(m))
            \cup On({"unset"}, {NoValue}, HasUnset(m))
            \cup On({"eset"}, IF m.many THEN Pairs(f) ELSE Values(f), InESet(m))
            \cup On({"eunset"}, {NoValue}, InESet(m))
            \cup On({"read"}, {NoValue}, TRUE)
            \cup On({"add", "remove"}, {<<x>> : x \in Targets(f)}, m.many)
            \cup On({"clear"}, {NoValue}, m.many)
  IN  UNION {Of(f) : f \in {g \in Names : Has(g)}}

Apply(l, op, h) ==
  LET o == op.object
      f == op.feature
      read == ReadList(l, h, o, f)
  IN  CASE op.name = "set" -> Setter(l, h, o, f, op.value)
        [] op.name = "unset" -> UnsetValue(l, h, o, f)
        [] op.name = "eset" -> ESet(l, h, o, f, op.value)
        [] op.name = "eunset" -> EUnset(l, h, o, f)
        [] op.name = "read" -> Getter(l, h, o, f)
        [] op.name = "add" -> ListAdd(l, read, o, f, op.value[1])
        [] op.name = "remove" -> IF op.value[1] \in {read.val[o][f][i] : i \in DOMAIN read.val[o][f]}
                                 THEN ListRemove(l, read, o, f, op.value[1]) ELSE read
        [] op.name = "clear" -> ListClear(l, read, o, f)

-----------------------------------------------------------------------------
\* The objects as their constructors leave them.
NewHeap ==
  [val |-> [o \in Objs |-> [f \in Names |-> NoValue]],
   flag |-> [o \in Objs |-> [f \in Names |-> FALSE]],
   cont |-> [o \in Objs |-> NoValue],
   thrown |-> FALSE]

Init ==
  /\ lang \in {"go", "ts"}
  /\ shape \in Shapes
  /\ heap = NewHeap
  /\ pending = [a \in As |-> NoValue]
  /\ wanted = [a \in As |-> NoValue]
  /\ raced = {}
  /\ broken = FALSE

(* Only a proxy reference without other end is followed to what it resolves to. *)
Follows == IsProxy(shape.left) /\ ~shape.left.many /\ ~IsBidirectional(shape.left)

Given(a, s) ==
  /\ wanted' = IF Follows THEN [wanted EXCEPT ![a] = s] ELSE wanted
  /\ raced' = IF pending[a] # NoValue THEN raced \cup {a} ELSE raced \ {a}

(* A read that throws the elements of a list away (TypeScript, lazy action). *)
Discards(h) == \E a \in As : ReadList(lang, h, a, "left") # h

Call ==
  \E op \in Operations :
    /\ ~broken
    /\ heap' = Apply(lang, op, heap)
    /\ broken' = (Discards(heap) \/ heap'.thrown)
    /\ IF op.feature = "left" /\ op.name \in {"set", "unset", "eset", "eunset"}
       THEN Given(op.object, op.value) ELSE UNCHANGED <<wanted, raced>>
    /\ UNCHANGED <<lang, shape, pending>>

(* TypeScript: the setter of a feature that the interface does not let set. *)
CallSimpleSet ==
  \E f \in Names : \E o \in Owners(f), s \in Values(f) :
    /\ lang = "ts" /\ ~broken
    /\ Has(f) /\ TSHasSimpleSet(Feature(f))
    /\ heap' = SimpleSet(heap, o, f, s)
    /\ broken' = (Discards(heap) \/ ~Feature(f).many \/ heap'.thrown)
    /\ IF f = "left" THEN Given(o, s) ELSE UNCHANGED <<wanted, raced>>
    /\ UNCHANGED <<lang, shape, pending>>

(* TypeScript: the asynchronous getter keeps the proxy it found and waits. *)
StartAsync(a) ==
  /\ lang = "ts" /\ Follows /\ ~broken /\ pending[a] = NoValue
  /\ heap.val[a].left # NoValue
  /\ Resolved[heap.val[a].left[1]] # heap.val[a].left[1]
  /\ pending' = [pending EXCEPT ![a] = heap.val[a].left]
  /\ UNCHANGED <<lang, shape, heap, wanted, raced, broken>>

(* The resolution is there: the field is assigned, whatever it holds by now. *)
EndAsync(a) ==
  /\ pending[a] # NoValue /\ ~broken
  /\ heap' = Put(heap, a, "left", <<Resolved[pending[a][1]]>>)
  /\ pending' = [pending EXCEPT ![a] = NoValue]
  /\ UNCHANGED <<lang, shape, wanted, raced, broken>>

Next == Call \/ CallSimpleSet \/ \E a \in As : StartAsync(a) \/ EndAsync(a)

Spec == Init /\ [][Next]_vars

-----------------------------------------------------------------------------
TypeOK ==
  /\ lang \in {"go", "ts"}
  /\ shape \in Shapes
  /\ \A f \in Names, o \in Objs :
       heap.val[o][f] \in Seq(IF o \in Owners(f) THEN Targets(f) ELSE {})
       /\ (heap.val[o][f] # NoValue => Has(f) /\ ~IsContainer(Feature(f)))
  /\ heap.flag \in [Objs -> [Names -> BOOLEAN]]
  /\ \A o \in Objs : heap.cont[o] \in {NoValue} \cup ((As \X {"right", "-left", "-other"}))
  /\ pending \in [As -> {NoValue} \cup {<<b>> : b \in Bs}]
  /\ wanted \in [As -> {NoValue} \cup {<<b>> : b \in Bs}]
  /\ raced \subseteq As /\ broken \in BOOLEAN
  /\ heap.thrown \in {FALSE, broken}

Elements(s) == {s[i] : i \in DOMAIN s}
NamedOnce(s) == \A i, j \in DOMAIN s : s[i] = s[j] => i = j

(* The two ends of a reference name each other, and no end is named twice. *)
OppositesAgree ==
  ~broken =>
    /\ \A f \in Names, o \in Objs : NamedOnce(heap.val[o][f])
    /\ Has("right") =>
         \A a \in As, b \in Bs :
           b \in Elements(heap.val[a].left) <=> a \in Elements(Current(heap, b, "right"))

(* An object is where its container says, and nowhere else. *)
ContainedOnce ==
  ~broken =>
    \A a \in As, b \in Bs, f \in {"left", "other"} :
      Feature(f).containment /\ Has(f) =>
        (b \in Elements(heap.val[a][f])
           <=> Contained(heap, b) /\ heap.cont[b][1] = a /\ ContainmentOf(heap.cont[b][2]) = f)

(* What a call left is what it was called for: the value given, or none. *)
Honours(op, h) ==
  ~Discards(heap) /\ ~h.thrown =>
    /\ op.name \in {"set", "eset"}
         => Elements(Current(h, op.object, op.feature)) = Elements(op.value)
    /\ op.name \in {"unset", "eunset"} => ~EIsSet(lang, h, op.object, op.feature)

(* A value is always reported as set, and what is set reads back. *)
SetValuesAreSet ==
  ~broken =>
    /\ \A f \in Names, o \in Objs :
         Has(f) /\ o \in Owners(f) \ raced /\ Current(heap, o, f) # NoValue
           => EIsSet(lang, heap, o, f)
    /\ \A op \in Operations : Honours(op, Apply(lang, op, heap))

\* A single reference with another end, which TypeScript cannot always join.
JoinThrows(f) ==
  /\ InEInverseAdd(f) /\ TSInverseAdd(f) = "single"
  /\ HasInitMethod(f) /\ TSInit(f) = "panic"

Alike(go, ts) ==
  /\ ~go.thrown
  /\ IF ts.thrown THEN \E f \in Names : Has(f) /\ JoinThrows(Feature(f)) ELSE ts = go

(***************************************************************************)
(* The code of the two languages does the same to the same objects, but    *)
(* for the lists an action initializes.  Go never throws; TypeScript does  *)
(* when an object joins a lazy single reference, and never elsewhere.      *)
(***************************************************************************)
LanguagesAgree ==
  (~broken /\ \A f \in Names : ~(Has(f) /\ Feature(f).many /\ Feature(f).lazy = "action")) =>
    \A op \in Operations : Alike(Apply("go", op, heap), Apply("ts", op, heap))

(* Only a resolution that was pending when the reference was given replaces what was given. *)
LateResolution ==
  (Follows /\ ~broken) =>
    \A a \in As \ raced :
      Elements(heap.val[a].left)
        \in {Elements(wanted[a]), {Resolved[b] : b \in Elements(wanted[a])}}

(***************************************************************************)
(* The features of the shape, were they volatile, with bodies, attributes, *)
(* or with one of the `lazy` keys, "" for the rule of the package.         *)
(***************************************************************************)
Variants(lazies) ==
  {f \in {[Feature(n) EXCEPT !.volatile = v, !.body = b, !.property = p, !.kind = k,
             !.lazy = LazyMode(own, LazyKey, Feature(n))] :
            n \in {g \in {"left", "right"} : Has(g)}, v \in BOOLEAN, b \in BOOLEAN, p \in BOOLEAN,
            k \in {"attribute", "reference"}, own \in lazies} : Valid(f)}

(***************************************************************************)
(* Every member that the generated code of a feature uses is declared by   *)
(* the class, by the mock of its interface or by the interface the factory *)
(* is given, but for the features known not to compile.                    *)
(***************************************************************************)
CallsResolve ==
  heap = NewHeap =>
    \A v \in Variants({shape.left.lazy}), reserved \in BOOLEAN, renamed \in BOOLEAN, r \in BOOLEAN :
      LET f == [v EXCEPT !.reserved = reserved, !.renamed = renamed]
          go == GoView(f)
          ts == TSView(f)
          GoResolves == /\ GoUses(f, r) \subseteq GoDeclares(f, r)
                        /\ InterfaceDeclares(f, go) \cup MockTestUses(f, go) \subseteq MockDeclares(f, go)
                        /\ GoCreatorUses(f, go) \subseteq InterfaceDeclares(f, go)
          TSResolves == /\ TSUses(f, r) \subseteq TSDeclares(f, r)
                        /\ TSCreatorUses(f, ts) \subseteq TSInterfaceDeclares(f, ts)
      IN  IF lang = "go" THEN GoResolves <=> ~GoUndeclared(f, r) ELSE TSResolves <=> ~TSUndeclared(f, r)

(***************************************************************************)
(* What the change log says of the Go tests: those generated for lazy and  *)
(* for volatile features pass, whatever else the feature is.  The code     *)
(* does not do it: after an unsetter the test reads the feature again,     *)
(* which runs the initializer of a lazy reference, and that one panics;    *)
(* and the test of a volatile container expects a panic that never comes.  *)
(***************************************************************************)
GeneratedTestsPass ==
  (heap = NewHeap /\ lang = "go") =>
    \A f \in Variants({""} \cup LazyModes) : GoTestsPass(f)

(***************************************************************************)
(* The generated tests expect what the accessors do: in both languages for *)
(* every feature that is not lazy, in Go for the lazy lists, attributes    *)
(* and proxies too, and for the volatile features but the containments and *)
(* containers.                                                             *)
(***************************************************************************)
TestsFollowAccessors ==
  heap = NewHeap =>
    \A f \in Variants({""} \cup LazyModes) :
      LET contains == f.containment \/ IsContainer(f)
          single == IsReference(f) /\ ~f.many /\ ~IsProxy(f)
      IN  (f.volatile => ~contains) /\ (f.lazy # "no" => lang = "go" /\ ~single)
            => In(lang, GoTestsPass(f), TSTestsPass(f))
=============================================================================

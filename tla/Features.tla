-------------------------------- MODULE Features --------------------------------
(***************************************************************************)
(* What the generators decide for one structural feature: its facts        *)
(* (internal/model/feature.go, lazy.go), the accessors a class gets for it *)
(* and the variant of each (view_feature.go of both languages), the cases  *)
(* of the reflective methods (view_reflectives.go), and the members that   *)
(* the generated code of those variants calls.  The module Objects runs    *)
(* the variants; here they are functions of the feature.                   *)
(*                                                                         *)
(* A feature is a record of what the decisions read.  Its name is plain or *)
(* a word the language reserves, and a naming rule of the options may give *)
(* its setter and unsetter other names; it is volatile when its opposite   *)
(* is.                                                                     *)
(***************************************************************************)
EXTENDS Naturals, Sequences

\* The lazy modes of the `lazy` key.
LazyModes == {"no", "lambda", "function", "action"}

AllFeatures ==
  [kind : {"attribute", "reference"}, many : BOOLEAN, containment : BOOLEAN,
   proxies : BOOLEAN, changeable : BOOLEAN, unsettable : BOOLEAN,
   volatile : BOOLEAN, map : BOOLEAN, body : BOOLEAN, reserved : BOOLEAN,
   renamed : BOOLEAN, property : BOOLEAN,
   opposite : {"none", "plain", "containment"}, lazy : LazyModes]

(***************************************************************************)
(* The features of a valid Ecore model: an attribute has no other end, a   *)
(* container is single and contains nothing, a map is a containment list.  *)
(***************************************************************************)
Valid(f) ==
  /\ f.kind = "attribute" => f.opposite = "none" /\ ~f.containment /\ ~f.proxies
  /\ f.opposite = "containment" => ~f.many /\ ~f.containment
  /\ f.map => f.many /\ f.containment

(* The first row of a switch whose condition holds. *)
FirstOf(rows) ==
  rows[CHOOSE i \in DOMAIN rows : rows[i][1] /\ \A j \in 1..(i - 1) : ~rows[j][1]][2]

-----------------------------------------------------------------------------
\* The facts of a feature, under the names of FeatureInfo.
IsReference(f) == f.kind = "reference"
IsContainer(f) == f.opposite = "containment"
IsBidirectional(f) == f.opposite # "none"
IsUnsettable(f) == f.unsettable /\ ~IsContainer(f)
IsProxy(f) == IsReference(f) /\ ~IsContainer(f) /\ ~f.containment /\ f.proxies
IsField(f) == ~IsContainer(f) /\ ~f.volatile
HasESet(f) == IsUnsettable(f) /\ IsField(f) /\ ~f.many

\* The accessors of a feature.
HasSet(f) == f.changeable /\ ~f.many
HasUnset(f) == f.changeable /\ IsUnsettable(f)
HasIsSet(f) == IsUnsettable(f)
HasBasicGet(f) == IsProxy(f) /\ ~f.many
\* Wrong variant: a containment without other end gets no basic setter.
HasBasicSetOfOppositesOnly(f) == HasSet(f) /\ IsBidirectional(f) /\ ~f.volatile

HasBasicSet(f) ==
  /\ ~f.many
  /\ f.changeable \/ ~IsContainer(f)
  /\ (IsBidirectional(f) /\ ~f.volatile) \/ f.containment
HasBasicUnset(f) ==
  /\ IsUnsettable(f) /\ f.changeable /\ ~f.many
  /\ IsReference(f) /\ (IsBidirectional(f) \/ f.containment)

\* The lazy initialization, and the features each reflective method handles.
HasInitMethod(f) == ~f.volatile /\ f.lazy \in {"action", "function"}
InESet(f) == f.changeable
InEInverseAdd(f) == IsBidirectional(f) /\ ~f.volatile
InEInverseRemove(f) == f.containment \/ InEInverseAdd(f)

(***************************************************************************)
(* The mode of a package's `lazy` key for a feature type: the first token  *)
(* <<type, mode>> with a mode that is for any type or for that one.        *)
(***************************************************************************)
PackageLazyMode(tokens, type) ==
  LET Applies(i) == tokens[i][1] \in {"", type} /\ tokens[i][2] # ""
      first == {i \in DOMAIN tokens : Applies(i) /\ \A j \in 1..(i - 1) : ~Applies(j)}
  IN  IF first = {} THEN "no" ELSE tokens[CHOOSE i \in first : TRUE][2]

\* The mode of a feature: its own key, else the rule of its package for its type.
LazyMode(own, tokens, f) ==
  IF own # "" THEN own
  ELSE PackageLazyMode(tokens, FirstOf(<< <<f.many, "list">>, <<IsProxy(f), "proxy">>, <<TRUE, "">> >>))

-----------------------------------------------------------------------------
\* The variants of the accessors.  r: reflective delegation.
BodyOr(f, name) == IF f.body THEN "body" ELSE name

LazyVariant(f) ==
  FirstOf(<< <<f.lazy = "function", "lazyfunction">>, <<f.lazy = "action", "lazyaction">>,
             <<TRUE, "field">> >>)

GoGetter(f, r) ==
  FirstOf(<< <<r, "reflective">>, <<IsContainer(f), "container">>,
             <<f.volatile, BodyOr(f, "panic")>>, <<~f.many /\ IsProxy(f), "proxy">>,
             <<HasInitMethod(f), LazyVariant(f)>>, <<f.many, "list">>, <<TRUE, "field">> >>)

TSGetter(f, r) ==
  FirstOf(<< <<r, "reflective">>, <<IsContainer(f), "container">>,
             <<f.volatile, BodyOr(f, "panic")>>, <<~f.many /\ IsProxy(f), "proxy">>,
             <<HasInitMethod(f), LazyVariant(f)>>, <<f.lazy # "no", "field">>,
             <<f.many, "list">>, <<TRUE, "field">> >>)

TSGetterAsync(f, r) == FirstOf(<< <<r, "reflective">>, <<~f.volatile, "proxy">>, <<TRUE, "panic">> >>)

GoBasicGetter(f) ==
  FirstOf(<< <<IsContainer(f), "container">>, <<f.volatile, BodyOr(f, "panic")>>,
             <<HasInitMethod(f), LazyVariant(f)>>, <<TRUE, "field">> >>)
TSBasicGetter(f) == GoBasicGetter(f)

\* Wrong variant: a containment without other end is set as a plain field.
GoSetterOfOppositesOnly(f, r) ==
  FirstOf(<< <<r, "reflective">>, <<f.volatile, BodyOr(f, "panic")>>,
             <<IsContainer(f), "container">>, <<IsBidirectional(f), "inverse">>, <<TRUE, "field">> >>)

GoSetter(f, r) ==
  FirstOf(<< <<r, "reflective">>, <<f.volatile, BodyOr(f, "panic")>>,
             <<IsContainer(f), "container">>,
             <<IsBidirectional(f) \/ f.containment, "inverse">>, <<TRUE, "field">> >>)
TSSetter(f, r) == GoSetter(f, r)

(* TypeScript only: a readable feature that cannot be set has a setter of its own. *)
TSHasSimpleSet(f) == ~HasSet(f) /\ ~f.volatile /\ ~IsContainer(f)
TSSimpleSet(f, r) == FirstOf(<< <<f.many, "list">>, <<r, "reflective">>, <<TRUE, "field">> >>)

GoBasicSetter(f) ==
  FirstOf(<< <<IsContainer(f), "container">>, <<~f.volatile, "field">>, <<TRUE, BodyOr(f, "panic")>> >>)
TSBasicSetter(f) == GoBasicSetter(f)

GoUnsetter(f, r) ==
  FirstOf(<< <<r, "reflective">>, <<f.volatile, BodyOr(f, "panic")>>, <<f.many, "list">>,
             <<IsBidirectional(f) \/ f.containment, "inverse">>, <<TRUE, "field">> >>)

TSUnsetter(f, r) ==
  FirstOf(<< <<r, "reflective">>, <<f.volatile, BodyOr(f, "panic")>>,
             <<f.many /\ f.lazy = "function", "lazylist">>, <<f.many, "list">>,
             <<IsBidirectional(f) \/ f.containment, "inverse">>, <<TRUE, "field">> >>)

GoBasicUnsetter(f) == IF f.volatile THEN "panic" ELSE "field"
TSBasicUnsetter(f) == GoBasicUnsetter(f)

GoIsSetter(f, r) ==
  FirstOf(<< <<r, "reflective">>, <<f.volatile, BodyOr(f, "panic")>>, <<f.many, "list">>, <<TRUE, "field">> >>)
TSIsSetter(f, r) == GoIsSetter(f, r)

(* The initialization method: Go keeps the list an action finds, TypeScript rebuilds it. *)
GoInit(f) ==
  FirstOf(<< <<f.many /\ f.lazy = "action", "list">>, <<f.many, "value">>,
             <<f.lazy = "action" /\ IsProxy(f), "none">>,
             <<~IsReference(f), "value">>, <<TRUE, "panic">> >>)
TSInit(f) ==
  FirstOf(<< <<f.many, "value">>, <<f.lazy = "action" /\ IsProxy(f), "none">>,
             <<~IsReference(f), "value">>, <<TRUE, "panic">> >>)

-----------------------------------------------------------------------------
\* The cases of the reflective methods.
GoEGet(f) == FirstOf(<< <<IsProxy(f) /\ f.many, "proxylist">>, <<IsProxy(f), "proxy">>, <<TRUE, "get">> >>)
TSEGet(f) == GoEGet(f)

GoESet(f) ==
  FirstOf(<< <<f.map, "map">>, <<f.many, "list">>, <<IsReference(f), "reference">>, <<TRUE, "attribute">> >>)
TSESet(f) == FirstOf(<< <<f.map, "map">>, <<f.many, "list">>, <<TRUE, "set">> >>)

GoEUnset(f) ==
  FirstOf(<< <<f.many /\ ~IsUnsettable(f), "clear">>, <<HasUnset(f), "unset">>, <<TRUE, "set">> >>)
TSEUnset(f) ==
  FirstOf(<< <<f.many /\ ~IsUnsettable(f), "clear">>,
             <<HasUnset(f) /\ (~f.property \/ HasESet(f)), "unset">>, <<TRUE, "set">> >>)

(* Whether EIsSet reads the flag, the list, or compares the value with a default. *)
GoComparison(f) ==
  FirstOf(<< <<HasESet(f), "flag">>, <<f.many, "nonempty">>, <<IsContainer(f), "nonnil">>, <<TRUE, "default">> >>)
TSComparison(f) == GoComparison(f)

GoInverseAdd(f) ==
  FirstOf(<< <<f.map, "map">>, <<f.many, "list">>, <<IsContainer(f) /\ HasBasicSet(f), "containerbasic">>,
             <<IsContainer(f), "containerset">>, <<TRUE, "single">> >>)
TSInverseAdd(f) == GoInverseAdd(f)

(* What TypeScript reads a single reference with before an object joins it. *)
TSCurrentGetter(f) == IF IsProxy(f) THEN TSBasicGetter(f) ELSE TSGetter(f, FALSE)

GoInverseRemove(f) ==
  FirstOf(<< <<f.map, "map">>, <<f.many, "list">>, <<IsContainer(f) /\ ~HasBasicSet(f), "container">>,
             <<HasUnset(f), "unset">>, <<TRUE, "set">> >>)

\* Wrong variant: leaving an unsettable reference sets it to nothing.
TSInverseRemoveBySet(f) ==
  FirstOf(<< <<f.map, "map">>, <<f.many, "list">>, <<IsContainer(f) /\ ~HasBasicSet(f), "container">>,
             <<TRUE, "set">> >>)

TSInverseRemove(f) == GoInverseRemove(f)

-----------------------------------------------------------------------------
\* The other end.  An id is that of the opposite, or BASE - id without one.
InverseID(f) == IF IsBidirectional(f) THEN "reverse" ELSE "base"

\* The id the current value of a reference is removed with when another one joins.
RemoveID(f) == IF f.containment THEN "base" ELSE "reverse"

\* Wrong variant: a list with an other end that is no containment tells it nothing.
GoListInverseOfContainments(f) == f.containment

\* Whether the list of a many feature tells the elements (the flags of its constructor).
GoListInverse(f) == f.containment \/ IsBidirectional(f)
TSListInverse(f) == GoListInverse(f)

-----------------------------------------------------------------------------
(***************************************************************************)
(* The members of an implementation.  A name is the accessor prefix and    *)
(* the word it is put before; a renamed setter or unsetter is one word.    *)
(***************************************************************************)
SetterName(f) == IF f.renamed THEN <<"Renamed">> ELSE <<"Set", "Name">>
UnsetterName(f) == IF f.renamed THEN <<"RenamedUn">> ELSE <<"Unset", "Name">>
Basic(name) == <<"basic">> \o name

GoView(f) ==
  LET var == IF f.reserved THEN <<"name_">> ELSE <<"name">>
  IN  [var |-> var, flag |-> Append(var, "ESet"), init |-> <<"init", "Name">>,
       getter |-> <<"Get", "Name">>, setter |-> SetterName(f), unsetter |-> UnsetterName(f),
       isSetter |-> <<"IsSet", "Name">>, basicGetter |-> Basic(<<"Get", "Name">>),
       basicSetter |-> Basic(SetterName(f)), basicUnsetter |-> Basic(UnsetterName(f))]

\* The property of a feature, and the view where it names the basic setter.
TSProperty(f) == IF f.reserved THEN "Name_" ELSE "Name"
TSView(f) ==
  [GoView(f) EXCEPT !.var = <<"_name">>, !.flag = <<"_name", "ESet">>,
                    !.basicSetter = <<"basic", "Set", TSProperty(f)>>]

Members(cond, names) == IF cond THEN names ELSE {}

\* The accessors both languages write, and those of the interface of the class.
Accessors(f, r, v) ==
  {v.getter}
  \cup Members(HasSet(f), {v.setter})
  \cup Members(HasUnset(f), {v.unsetter})
  \cup Members(HasIsSet(f), {v.isSetter})
  \cup Members(~r /\ HasBasicGet(f), {v.basicGetter})
  \cup Members(~r /\ HasBasicSet(f), {v.basicSetter})
  \cup Members(~r /\ HasBasicUnset(f), {v.basicUnsetter})

InterfaceDeclares(f, v) ==
  {v.getter} \cup Members(HasSet(f), {v.setter})
             \cup Members(HasUnset(f), {v.unsetter}) \cup Members(HasIsSet(f), {v.isSetter})

(* The interface of the basic accessors, through which an extension overrides them. *)
BasicsDeclare(f, r, v) ==
  Members(~r /\ HasBasicGet(f), {v.basicGetter})
  \cup Members(~r /\ HasBasicSet(f), {v.basicSetter})
  \cup Members(~r /\ HasBasicUnset(f), {v.basicUnsetter})

(* The methods of the mock of a Go class, and those that the tests of the mock call. *)
MockDeclares(f, v) ==
  {v.getter} \cup Members(HasSet(f), {v.setter})
             \cup Members(HasUnset(f), {v.unsetter}) \cup Members(HasIsSet(f), {v.isSetter})
MockTestUses(f, v) ==
  {v.getter} \cup Members(HasSet(f), {v.setter})
             \cup Members(HasUnset(f), {v.unsetter}) \cup Members(HasIsSet(f), {v.isSetter})

\* The single proxies have an asynchronous getter in TypeScript.
IsAsyncGet(f) == IsProxy(f) /\ ~f.many
Async(name) == Append(name, "Async")

\* A TypeScript feature with property accessors: what reads it and what writes it.
Get(f) == <<"get", TSProperty(f)>>
Set(f) == <<"set", TSProperty(f)>>

(* A TypeScript interface: the property of a feature, read-only without setter, or its methods. *)
TSInterfaceDeclares(f, v) ==
  IF f.property THEN {Get(f)} \cup Members(HasSet(f), {Set(f)})
  ELSE {v.getter} \cup Members(IsAsyncGet(f), {Async(v.getter)})
                  \cup Members(HasSet(f), {v.setter})
                  \cup Members(HasUnset(f), {v.unsetter}) \cup Members(HasIsSet(f), {v.isSetter})

\* The accessor with which the factory puts a new element into its container.
AddsWith(f, v) == IF f.many THEN v.getter ELSE v.setter
TSAddsWith(f, v) ==
  IF ~f.property THEN AddsWith(f, v) ELSE IF f.many THEN Get(f) ELSE Set(f)

\* Create<X>FromContainer has the interface of the container: the class has the
\* container reference when the containment has this other end.
GoCreatorUses(f, v) == Members(f.containment /\ IsBidirectional(f), {AddsWith(f, v)})
TSCreatorUses(f, v) == Members(f.containment /\ IsBidirectional(f), {TSAddsWith(f, v)})

\* What a Go implementation declares for a feature: fields, initializer, accessors.
GoDeclares(f, r) ==
  LET v == GoView(f)
  IN  Members(~r /\ IsField(f), {v.var})
      \cup Members(~r /\ HasESet(f), {v.flag})
      \cup Members(HasInitMethod(f), {v.init})
      \cup Accessors(f, r, v)

\* What a TypeScript implementation declares, with the setter of a read-only feature.
TSDeclares(f, r) ==
  LET v == TSView(f)
  IN  Members(~r /\ IsField(f), {v.var})
      \cup Members(~r /\ HasESet(f), {v.flag})
      \cup Members(~r /\ HasInitMethod(f), {v.init})
      \cup Members(TSHasSimpleSet(f), {v.setter})
      \cup Members(IsAsyncGet(f), {Async(v.getter)})
      \cup Members(f.property, {Get(f)} \cup Members(HasSet(f) \/ TSHasSimpleSet(f), {Set(f)}))
      \cup Accessors(f, r, v)

(* The members that the accessors of every kind use, whatever the language. *)
AccessorUses(f, r, v, getter, setter, unsetter) ==
  LET Reads(g) == CASE g \in {"proxy", "list", "field"} -> {v.var}
                    [] g \in {"lazyfunction", "lazyaction"} -> {v.var, v.init}
                    [] OTHER -> {}
  IN  Reads(getter)
      \cup Members(~r /\ HasBasicGet(f), Reads(GoBasicGetter(f)))
      \cup Members(HasSet(f) /\ setter \in {"container", "inverse"}, {v.basicSetter})
      \cup Members(HasSet(f) /\ setter \in {"inverse", "field"}, {v.var})
      \cup Members(HasSet(f) /\ setter \in {"inverse", "field"} /\ HasESet(f), {v.flag})
      \cup Members(~r /\ HasBasicSet(f) /\ GoBasicSetter(f) = "field", {v.var})
      \cup Members(HasUnset(f) /\ unsetter \in {"list", "lazylist"}, {v.var})
      \cup Members(HasUnset(f) /\ unsetter = "field", {v.var, v.flag})
      \cup Members(HasUnset(f) /\ unsetter = "inverse", {v.var, v.flag, v.basicUnsetter})
      \cup Members(~r /\ HasBasicUnset(f) /\ GoBasicUnsetter(f) = "field", {v.var, v.flag})
      \cup Members(HasIsSet(f) /\ GoIsSetter(f, r) = "field", {v.flag})

(* The members the Go code of a feature uses: accessors, interfaces and reflective methods. *)
GoUses(f, r) ==
  LET v == GoView(f)
  IN  AccessorUses(f, r, v, GoGetter(f, r), GoSetter(f, r), GoUnsetter(f, r))
      \cup InterfaceDeclares(f, v) \cup BasicsDeclare(f, r, v)
      \cup Members(HasInitMethod(f) /\ f.lazy = "action" /\ GoInit(f) \in {"list", "value"}, {v.var})
      \cup Members(~r /\ IsProxy(f) /\ ~f.many, {v.basicGetter})
      \cup Members(~r /\ InESet(f) /\ ~f.many, {v.setter})
      \cup Members(~r /\ InESet(f) /\ GoEUnset(f) = "unset", {v.unsetter})
      \cup Members(~r /\ InESet(f) /\ GoEUnset(f) = "set", {v.setter})
      \cup Members(~r /\ InEInverseAdd(f) /\ GoInverseAdd(f) = "containerbasic", {v.basicSetter})
      \cup Members(~r /\ InEInverseAdd(f) /\ GoInverseAdd(f) = "single", {<<"name">>, v.basicSetter})
      \cup Members(~r /\ InEInverseRemove(f) /\ GoInverseRemove(f) = "unset", {v.basicUnsetter})
      \cup Members(~r /\ InEInverseRemove(f) /\ GoInverseRemove(f) = "set", {v.basicSetter})

(* The members the TypeScript code of a feature uses. *)
TSUses(f, r) ==
  LET v == TSView(f)
  IN  AccessorUses(f, r, v, TSGetter(f, r), TSSetter(f, r), TSUnsetter(f, r))
      \cup TSInterfaceDeclares(f, v)
      \cup Members(TSHasSimpleSet(f) /\ TSSimpleSet(f, r) = "field", {v.var})
      \cup Members(IsProxy(f) /\ ~f.many /\ TSGetterAsync(f, r) = "proxy", {v.var})
      \cup Members(~r /\ HasInitMethod(f) /\ f.lazy = "action" /\ TSInit(f) = "value", {v.var})
      \cup Members(~r /\ IsAsyncGet(f), {v.basicGetter, Async(v.getter)})
      \cup Members(~r /\ InESet(f) /\ ~f.many, {v.setter})
      \cup Members(~r /\ InESet(f) /\ TSEUnset(f) = "unset", {v.unsetter})
      \cup Members(~r /\ InESet(f) /\ TSEUnset(f) = "set", {v.setter})
      \cup Members(~r /\ InEInverseAdd(f) /\ TSInverseAdd(f) = "containerbasic", {v.basicSetter})
      \cup Members(~r /\ InEInverseAdd(f) /\ TSInverseAdd(f) = "single",
                   {Basic(v.setter), IF IsProxy(f) THEN v.basicGetter ELSE v.getter})
      \cup Members(~r /\ InEInverseRemove(f) /\ TSInverseRemove(f) = "unset", {<<"basic", "Unset", TSProperty(f)>>})
      \cup Members(~r /\ InEInverseRemove(f) /\ TSInverseRemove(f) = "set", {v.basicSetter})

\* The factory puts an element into a single containment that cannot be set.
Unreachable(f) == f.containment /\ IsBidirectional(f) /\ ~f.many /\ ~f.changeable

(***************************************************************************)
(* The features whose code does not compile, as the generators are.  Go    *)
(* declares no field with the reflective delegation, but writes the action *)
(* that assigns it; EBasicInverseAdd reads the name of a single reference  *)
(* and not the field, which a reserved word renames.                       *)
(***************************************************************************)
GoUndeclared(f, r) ==
  \/ Unreachable(f)
  \/ r /\ HasInitMethod(f) /\ f.lazy = "action" /\ GoInit(f) \in {"list", "value"}
  \/ ~r /\ f.reserved /\ InEInverseAdd(f) /\ GoInverseAdd(f) = "single"

(***************************************************************************)
(* TypeScript sets an unsettable list with property accessors to null, and *)
(* a volatile list has no setter; the reflective methods of the inverses   *)
(* put together names that are not those of renamed or reserved members.   *)
(***************************************************************************)
TSUndeclared(f, r) ==
  \/ Unreachable(f)
  \/ ~r /\ \/ f.property /\ f.many /\ f.volatile /\ HasUnset(f)
           \/ InEInverseAdd(f) /\ TSInverseAdd(f) = "single" /\ (f.reserved \/ f.renamed)
           \/ InEInverseRemove(f) /\ TSInverseRemove(f) = "unset" /\ (f.reserved \/ f.renamed)
=============================================================================

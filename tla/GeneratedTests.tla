----------------------------- MODULE GeneratedTests -----------------------------
(***************************************************************************)
(* The tests that the generators write for the accessors of a feature:     *)
(* internal/lang/golang/view_tests.go, internal/lang/typescript/           *)
(* view_tests.go and the templates of the tests.  A test is written from   *)
(* the facts of the feature, apart from the accessor it calls, and each    *)
(* chooses its variant by conditions of its own: what the test expects     *)
(* must be what the accessor does.                                         *)
(*                                                                         *)
(* An outcome is "panics", what is read ("default", "given" or "list"),    *)
(* "done", or "body" when it is up to a hand-written body.  The mocks of   *)
(* the Go tests fail on a call they do not expect and on one they miss.    *)
(***************************************************************************)
EXTENDS Features

Held == {"default", "given"}

\* The id of the other end of a feature, "none" without one.
ReverseID(f) == IF IsBidirectional(f) THEN "reverse" ELSE "none"

-----------------------------------------------------------------------------
\* What the accessors do.

(* A getter whose field holds held, init being what its initializer does. *)
Read(getter, init, f, held) ==
  CASE getter = "panic" -> "panics"
    [] getter = "body" -> "body"
    [] getter = "list" \/ (getter \in {"lazyfunction", "lazyaction"} /\ f.many) -> "list"
    [] getter = "lazyfunction" /\ held = "default" /\ init = "panic" -> "panics"
    [] getter = "lazyaction" /\ ~f.many /\ init = "panic" -> "panics"
    [] getter = "lazyaction" /\ ~f.many /\ init = "value" -> "default"
    [] OTHER -> held

GoRead(f, held) == Read(GoGetter(f, FALSE), GoInit(f), f, held)
TSRead(f, held) == Read(TSGetter(f, FALSE), TSInit(f), f, held)
GoBasicRead(f, held) == Read(GoBasicGetter(f), GoInit(f), f, held)

(* EGetFromID: the field of a single proxy is read without resolving it. *)
GoEGetOf(f, resolve, held) ==
  IF GoEGet(f) = "proxy" /\ ~resolve THEN GoBasicRead(f, held) ELSE GoRead(f, held)
TSEGetOf(f, resolve, held) ==
  IF TSEGet(f) = "proxy" /\ ~resolve THEN Read(TSBasicGetter(f), TSInit(f), f, held) ELSE TSRead(f, held)

\* A call of a setter or of an unsetter.
Done(variant) == FirstOf(<< <<variant = "panic", "panics">>, <<variant = "body", "body">>, <<TRUE, "done">> >>)

\* A call on the list of a getter.
OnList(read) == IF read = "list" THEN "done" ELSE read

\* The id that a setter or a list gives to the object it adds.
Told(inverse, f) == IF inverse THEN InverseID(f) ELSE "none"

-----------------------------------------------------------------------------
\* The variants of the Go tests, under the names of the source.

\* Wrong variant: the getter of a lazy proxy is expected to panic.
getTestKindOfInitializers(f) ==
  FirstOf(<< <<f.volatile /\ f.body, "volatilebody">>, <<f.volatile, "volatile">>,
             <<IsContainer(f), "container">>, <<f.map, "map">>, <<f.many, "list">>,
             <<IsReference(f) /\ HasInitMethod(f), "lazy">>, <<IsReference(f), "reference">>,
             <<HasInitMethod(f) /\ f.lazy = "action", "lazyattribute">>, <<TRUE, "attribute">> >>)

getTestKind(f) ==
  FirstOf(<< <<f.volatile /\ f.body, "volatilebody">>, <<f.volatile, "volatile">>,
             <<IsContainer(f), "container">>, <<f.map, "map">>, <<f.many, "list">>,
             <<IsReference(f) /\ HasInitMethod(f) /\ ~IsProxy(f), "lazy">>,
             <<IsReference(f), "reference">>,
             <<HasInitMethod(f) /\ f.lazy = "action", "lazyattribute">>, <<TRUE, "attribute">> >>)

setTestKind(f) ==
  FirstOf(<< <<f.volatile, "volatile">>, <<IsContainer(f), "container">>,
             <<IsBidirectional(f), "bidirectional">>, <<f.containment, "containment">>, <<TRUE, "default">> >>)

basicSetTestKind(f) == IF f.volatile /\ ~IsContainer(f) THEN "volatile" ELSE "default"

unsetTestKind(f) == FirstOf(<< <<f.volatile, "volatile">>, <<f.many, "list">>, <<TRUE, "default">> >>)

isSetTestKind(f) == FirstOf(<< <<f.volatile, "volatile">>, <<HasESet(f), "flag">>, <<TRUE, "false">> >>)

egetTestKind(f) ==
  FirstOf(<< <<f.volatile /\ f.body, "body">>,
             <<f.volatile \/ (HasInitMethod(f) /\ IsReference(f) /\ ~f.many /\ ~IsProxy(f)), "panics">>,
             <<f.many /\ IsReference(f) /\ ~f.map, "list">>, <<TRUE, "get">> >>)

esetTestKind(f) ==
  FirstOf(<< <<f.volatile, "volatile">>, <<IsContainer(f), "container">>, <<f.map, "map">>,
             <<f.many, "list">>, <<IsBidirectional(f), "bidirectional">>,
             <<f.containment, "containment">>, <<TRUE, "default">> >>)

eunsetTestKind(f) == FirstOf(<< <<f.volatile, "volatile">>, <<f.many, "list">>, <<TRUE, "default">> >>)

einverseAddTestKind(f) ==
  FirstOf(<< <<f.map, "none">>, <<f.many, "list">>, <<IsContainer(f), "container">>, <<TRUE, "single">> >>)

einverseRemoveTestKind(f) ==
  FirstOf(<< <<f.map, "map">>, <<f.many, "list">>, <<f.volatile, "volatile">>, <<TRUE, "single">> >>)

(* The id the mock of an element is told when it is added to a list. *)
inverseAddID(f) ==
  FirstOf(<< <<~IsReference(f), "none">>, <<f.containment /\ ~IsBidirectional(f), "base">>, <<TRUE, ReverseID(f)>> >>)

(* The id the mock of the previous value is told when another one joins. *)
TestRemoveID(f) == IF f.containment THEN "base" ELSE ReverseID(f)

(* Whether the value is read back from the field and not by EGetFromID. *)
readsField(f) == HasInitMethod(f) /\ ~f.many /\ ~IsContainer(f)

-----------------------------------------------------------------------------
(* A test passes when the accessor does what it expects; what a hand-written *)
(* body does is left to it.                                                  *)
Passes(expected, actual) == actual = "body" \/ expected = actual

GoReadBack(f, held) == IF readsField(f) THEN held ELSE GoEGetOf(f, FALSE, held)

GoGetPasses(f) ==
  LET kind == getTestKind(f)
  IN  \A held \in Held :
        CASE kind \in {"volatile", "lazy"} -> held = "given" \/ Passes("panics", GoRead(f, held))
          [] kind = "volatilebody" -> GoRead(f, held) = "body"
          [] kind \in {"map", "list"} -> Passes("list", GoRead(f, held))
          [] kind = "lazyattribute" -> Passes("default", GoRead(f, held))
          [] OTHER -> Passes(held, GoRead(f, held))

GoSetPasses(f) ==
  LET kind == setTestKind(f)
      told == Told(GoSetter(f, FALSE) \in {"container", "inverse"}, f)
  IN  HasSet(f) =>
        IF kind = "volatile" THEN Passes("panics", Done(GoSetter(f, FALSE)))
        ELSE /\ Passes("done", Done(GoSetter(f, FALSE)))
             /\ told = FirstOf(<< <<kind \in {"container", "bidirectional"}, "reverse">>,
                                  <<kind = "containment", "base">>, <<TRUE, "none">> >>)

GoBasicSetPasses(f) ==
  HasBasicSet(f) =>
    Passes(IF basicSetTestKind(f) = "volatile" THEN "panics" ELSE "done", Done(GoBasicSetter(f)))

GoUnsetPasses(f) ==
  LET kind == unsetTestKind(f)
      done == Done(GoUnsetter(f, FALSE))
  IN  HasUnset(f) =>
        IF kind = "volatile" THEN Passes("panics", done)
        ELSE done = "done" /\ GoRead(f, "default") = IF kind = "list" THEN "list" ELSE "default"

GoIsSetPasses(f) ==
  HasIsSet(f) =>
    CASE isSetTestKind(f) = "volatile" -> Passes("panics", Done(GoIsSetter(f, FALSE)))
      [] isSetTestKind(f) = "flag" -> GoIsSetter(f, FALSE) = "field" /\ GoComparison(f) = "flag"
      [] isSetTestKind(f) = "false" -> GoIsSetter(f, FALSE) = "list"

GoEGetPasses(f) ==
  LET got == {GoEGetOf(f, resolve, "default") : resolve \in BOOLEAN}
  IN  CASE egetTestKind(f) = "panics" -> \A g \in got : Passes("panics", g)
        [] egetTestKind(f) = "body" -> got = {"body"}
        [] egetTestKind(f) = "list" -> got = {"list"}
        [] egetTestKind(f) = "get" -> GoEGetOf(f, TRUE, "default") = GoRead(f, "default")

(* The comparison of a feature without a field calls its getter. *)
GoEIsSetPasses(f) ==
  LET read == IF IsField(f) THEN "default" ELSE OnList(GoRead(f, "default"))
  IN  IF f.volatile THEN Passes("panics", read) ELSE read # "panics"

GoESetPasses(f) ==
  LET kind == esetTestKind(f)
      done == IF GoESet(f) \in {"map", "list"} THEN OnList(GoRead(f, "default")) ELSE Done(GoSetter(f, FALSE))
  IN  InESet(f) =>
        CASE kind = "volatile" -> Passes("panics", done)
          [] kind = "map" -> done = "done"
          [] kind = "list" -> /\ done = "done"
                              /\ inverseAddID(f) = Told(GoListInverse(f), f)
          [] OTHER -> /\ done = "done"
                      /\ GoReadBack(f, "given") = "given" /\ GoReadBack(f, "default") = "default"

GoEUnsetPasses(f) ==
  LET kind == eunsetTestKind(f)
      done == CASE GoEUnset(f) = "clear" -> OnList(GoRead(f, "default"))
                [] GoEUnset(f) = "unset" -> Done(GoUnsetter(f, FALSE))
                [] GoEUnset(f) = "set" -> Done(GoSetter(f, FALSE))
  IN  InESet(f) =>
        CASE kind = "volatile" -> Passes("panics", done)
          [] kind = "list" -> done = "done" /\ GoEGetOf(f, FALSE, "default") = "list"
          [] kind = "default" -> done = "done" /\ GoReadBack(f, "default") = "default"

GoEInverseAddPasses(f) ==
  LET kind == einverseAddTestKind(f)
      joins == IF GoInverseAdd(f) = "containerset" THEN "done" ELSE Done(GoBasicSetter(f))
  IN  InEInverseAdd(f) =>
        CASE kind = "none" -> GoInverseAdd(f) = "map"
          [] kind = "list" -> GoRead(f, "default") = "list"
          [] kind = "container" -> joins = "done" /\ TestRemoveID(f) = "reverse" /\ GoRead(f, "given") = "given"
          [] kind = "single" -> joins = "done" /\ TestRemoveID(f) = RemoveID(f) /\ GoRead(f, "given") = "given"

GoEInverseRemovePasses(f) ==
  LET kind == einverseRemoveTestKind(f)
      leaves == CASE GoInverseRemove(f) \in {"map", "container"} -> "done"
                  [] GoInverseRemove(f) = "list" -> OnList(GoRead(f, "default"))
                  [] GoInverseRemove(f) = "unset" -> Done(GoBasicUnsetter(f))
                  [] GoInverseRemove(f) = "set" -> Done(GoBasicSetter(f))
  IN  InEInverseRemove(f) =>
        CASE kind = "map" -> leaves = "done" /\ Passes("list", GoRead(f, "default"))
          [] kind = "list" -> /\ Passes("done", leaves)
                              /\ leaves = "done" => inverseAddID(f) = Told(GoListInverse(f), f)
          [] kind = "volatile" -> Passes("panics", leaves)
          [] kind = "single" -> leaves = "done"

GoTestsPass(f) ==
  /\ GoGetPasses(f) /\ GoSetPasses(f) /\ GoBasicSetPasses(f) /\ GoUnsetPasses(f) /\ GoIsSetPasses(f)
  /\ GoEGetPasses(f) /\ GoEIsSetPasses(f) /\ GoESetPasses(f) /\ GoEUnsetPasses(f)
  /\ GoEInverseAddPasses(f) /\ GoEInverseRemovePasses(f)

-----------------------------------------------------------------------------
(***************************************************************************)
(* The variants of the TypeScript tests.  Their mocks do not mind a call   *)
(* they do not expect.                                                     *)
(***************************************************************************)
LazyReference(f) == f.lazy # "no" /\ IsReference(f) /\ ~f.many

getTestStrategy(f) ==
  FirstOf(<< <<f.volatile, "volatile">>, <<IsContainer(f), "container">>, <<f.many, "list">>,
             <<LazyReference(f), "lazy">>, <<TRUE, "held">> >>)

setTestStrategy(f) ==
  FirstOf(<< <<f.volatile, "volatile">>, <<IsContainer(f), "container">>,
             <<IsBidirectional(f), "bidirectional">>, <<TRUE, "field">> >>)

(* The features whose value the tests of an element are told with its id. *)
TSReadBack(f) == TSEGetOf(f, FALSE, "given") = "given"

TSAccessorTestsPass(f) ==
  LET getTest == getTestStrategy(f)
      setTest == setTestStrategy(f)
      set == Done(TSSetter(f, FALSE))
      unset == Done(TSUnsetter(f, FALSE))
      isSet == TSIsSetter(f, FALSE)
  IN  /\ Passes(FirstOf(<< <<getTest \in {"volatile", "lazy"}, "panics">>, <<getTest = "list", "list">>,
                           <<TRUE, "default">> >>), TSRead(f, "default"))
      /\ HasSet(f) => /\ Passes(IF setTest = "volatile" THEN "panics" ELSE "done", set)
                      /\ setTest \in {"container", "bidirectional"}
                           => Told(TSSetter(f, FALSE) \in {"container", "inverse"}, f) = "reverse"
      /\ HasBasicSet(f) => Passes("done", Done(TSBasicSetter(f)))
      /\ HasUnset(f) /\ ~f.property =>
           IF f.volatile THEN Passes("panics", unset)
           ELSE unset = "done" /\ TSRead(f, "default") = IF f.many THEN "list" ELSE "default"
      /\ HasIsSet(f) =>
           IF f.volatile THEN Passes("panics", Done(isSet))
           ELSE isSet = IF HasESet(f) THEN "field" ELSE "list"

(* The cases of the tests of the reflective methods (addReflectiveTests). *)
TSReflectiveTestsPass(f) ==
  LET got == {TSEGetOf(f, resolve, "default") : resolve \in BOOLEAN}
      compared == IF IsField(f) THEN "default" ELSE OnList(TSRead(f, "default"))
      eset == IF f.many THEN OnList(TSRead(f, "default")) ELSE Done(TSSetter(f, FALSE))
      eunset == CASE TSEUnset(f) = "clear" -> OnList(TSRead(f, "default"))
                  [] TSEUnset(f) = "unset" -> Done(TSUnsetter(f, FALSE))
                  [] TSEUnset(f) = "set" -> Done(TSSetter(f, FALSE))
      leaves == CASE TSInverseRemove(f) \in {"map", "container"} -> "done"
                  [] TSInverseRemove(f) = "list" -> OnList(TSRead(f, "default"))
                  [] TSInverseRemove(f) = "unset" -> Done(TSBasicUnsetter(f))
                  [] TSInverseRemove(f) = "set" -> Done(TSBasicSetter(f))
      throws == f.volatile \/ (HasInitMethod(f) /\ IsReference(f) /\ ~f.many /\ ~IsProxy(f))
  IN  /\ IF throws THEN \A g \in got : Passes("panics", g)
         ELSE IF f.many THEN got = {"list"} ELSE TSEGetOf(f, TRUE, "default") = TSRead(f, "default")
      /\ IF f.volatile THEN Passes("panics", compared) ELSE compared # "panics"
      /\ InESet(f) =>
           IF f.volatile THEN Passes("panics", eset) /\ Passes("panics", eunset)
           ELSE /\ eset = "done" /\ eunset = "done"
                /\ IF f.many THEN inverseAddID(f) = Told(TSListInverse(f), f)
                   ELSE TSReadBack(f) /\ TSEGetOf(f, FALSE, "default") = "default"
      /\ InEInverseAdd(f) /\ ~f.map => TSRead(f, "given") = IF f.many THEN "list" ELSE "given"
      /\ InEInverseRemove(f) => /\ Passes("done", leaves)
                                /\ f.map => Passes("list", TSRead(f, "default"))

TSTestsPass(f) == TSAccessorTestsPass(f) /\ TSReflectiveTestsPass(f)
=============================================================================

--------------------------- MODULE PackageContents ---------------------------
(***************************************************************************)
(* What the generated implementation of a package does to build its meta   *)
(* objects: the statements of createPackageContents,                       *)
(* initializePackageContents and initialize<Source>Annotations, in order,  *)
(* as internal/lang/golang/view_package_impl.go and                        *)
(* internal/lang/typescript/view_package_impl.go write them, and what each *)
(* statement does to the meta objects.                                     *)
(*                                                                         *)
(* A model is a function from packages to what the .ecore says of them.  A *)
(* reference names a classifier of a package.  The meta objects of a       *)
(* package are reached by paths: a classifier, then an index in one of its *)
(* lists.                                                                  *)
(***************************************************************************)
EXTENDS Naturals, Sequences, FiniteSets, TLC

LOCAL INSTANCE SequencesExt

Languages == {"go", "ts"}

\* The package of the metamodel: complete before any generated package.
Ecore == "ecore"

Nameless == "nameless"

Untyped == [package |-> "none", name |-> "none"]

NoPath == [classifier |-> "none", list |-> "none", at |-> 0, sub |-> 0]

PackageItself == [NoPath EXCEPT !.list = "package"]
ClassifierAt(c) == [NoPath EXCEPT !.classifier = c, !.list = "classifiers"]
FeatureAt(c, i) == [classifier |-> c, list |-> "features", at |-> i, sub |-> 0]
OperationAt(c, i) == [classifier |-> c, list |-> "operations", at |-> i, sub |-> 0]
ParameterAt(c, i, j) == [classifier |-> c, list |-> "parameters", at |-> i, sub |-> j]
LiteralAt(e, i) == [classifier |-> e, list |-> "literals", at |-> i, sub |-> 0]

PositionOf(elements, name) == SelectInSeq(elements, LAMBDA e : e.name = name)

OfKind(c, kind) == SelectSeq(c.features, LAMBDA f : f.kind = kind)

InEach(elements, Statements(_)) ==
  FlattenSeq([i \in DOMAIN elements |-> Statements(elements[i])])

(***************************************************************************)
(* The annotations of a package, model/package.go                          *)
(***************************************************************************)

\* The paths of the elements of a package in the containment order of EMF: the
\* operations of a class before its features.
Walk(p) ==
  LET OfOperation(c, i) ==
        <<OperationAt(c.name, i)>> \o [j \in DOMAIN c.operations[i].parameters |-> ParameterAt(c.name, i, j)]
      OfClass(c) ==
        <<ClassifierAt(c.name)>>
          \o FlattenSeq([i \in DOMAIN c.operations |-> OfOperation(c, i)])
          \o [i \in DOMAIN c.features |-> FeatureAt(c.name, i)]
      OfDataType(d) ==
        <<ClassifierAt(d.name)>> \o [i \in DOMAIN d.literals |-> LiteralAt(d.name, i)]
  IN  <<PackageItself>> \o InEach(p.classes, OfClass) \o InEach(p.dataTypes, OfDataType)

\* The annotations that are generated with one source.
emfAnnotations(p, source) ==
  InEach(Walk(p), LAMBDA path : SetToSeq({a \in p.annotations : a.on = path /\ a.source = source}))

\* The sources that have an initializer, in their order.
annotationSources(p) ==
  SelectSeq(p.sources, LAMBDA s : s \notin p.suppressed /\ \E a \in p.annotations : a.source = s)

(***************************************************************************)
(* The statements                                                          *)
(***************************************************************************)

\* A call of GetPackage or GetFactory of a package.
CallOf(fn, q) == [do |-> "call", unit |-> [fn |-> fn, of |-> q]]

\* The classifier that the getter of a reference finds, seen from p: packages
\* are compared by their names.
classifierGetter(m, p, ref) ==
  IF ref.package \notin {Ecore, "none"} /\ m[ref.package].name = m[p].name
  THEN [ref EXCEPT !.package = p]
  ELSE ref

\* The calls that the getter of a reference makes first.
CallsOf(m, p, ref) ==
  IF classifierGetter(m, p, ref).package \in {p, Ecore, "none"} THEN <<>> ELSE <<CallOf("package", ref.package)>>

\* A class is created with its features and its operations, in model order.
classCreation(c) ==
  <<[do |-> "createClass", name |-> c.name,
     kinds |-> [i \in DOMAIN c.features |-> c.features[i].kind], operations |-> Len(c.operations)]>>

dataTypeCreation(d) == <<[do |-> "createDataType", name |-> d.name]>>

superTypes(m, p, c) ==
  InEach(c.supers,
         LAMBDA s : CallsOf(m, p, s) \o <<[do |-> "super", on |-> ClassifierAt(c.name), type |-> classifierGetter(m, p, s)]>>)

\* Wrong variant: the index of a feature among the features of its kind.
IndexInKind(c, f) == FeatureAt(c.name, PositionOf(OfKind(c, f.kind), f.name))

\* The getter of a feature finds it by its index in the features of its class.
featureGetter(c, f) == FeatureAt(c.name, PositionOf(c.features, f.name))

\* The getter of the opposite of a reference is one of this package.
oppositeGetter(m, p, f) ==
  IF f.opposite = "none" THEN NoPath
  ELSE LET other == CHOOSE c \in ToSet(m[f.type.package].classes) : c.name = f.type.name
       IN  FeatureAt(other.name, PositionOf(other.features, f.opposite))

featureInitialization(m, p, c, f) ==
  CallsOf(m, p, f.type)
    \o <<[do |-> "feature", on |-> featureGetter(c, f), kind |-> f.kind, name |-> f.name,
          type |-> classifierGetter(m, p, f.type), opposite |-> oppositeGetter(m, p, f)]>>

\* The parameters of an operation without type have none either.
operationInitialization(m, p, c, i) ==
  LET op == c.operations[i]
      TypeOf(ref) == IF op.type = Untyped THEN Untyped ELSE ref
      Parameter(x) ==
        CallsOf(m, p, TypeOf(x.type))
          \o <<[do |-> "parameter", on |-> OperationAt(c.name, i), name |-> x.name,
                type |-> classifierGetter(m, p, TypeOf(x.type))]>>
  IN  CallsOf(m, p, op.type)
        \o <<[do |-> "operation", on |-> OperationAt(c.name, i), name |-> op.name, type |-> classifierGetter(m, p, op.type)]>>
        \o InEach(op.parameters, Parameter)

\* The attributes of a class come before its references, then its operations.
classInitialization(m, p, c) ==
  <<[do |-> "name", on |-> ClassifierAt(c.name)]>>
    \o InEach(OfKind(c, "attribute"), LAMBDA f : featureInitialization(m, p, c, f))
    \o InEach(OfKind(c, "reference"), LAMBDA f : featureInitialization(m, p, c, f))
    \o FlattenSeq([i \in DOMAIN c.operations |-> operationInitialization(m, p, c, i)])

dataTypeInitialization(d) ==
  <<[do |-> "name", on |-> ClassifierAt(d.name)]>>
    \o InEach(d.literals, LAMBDA l : <<[do |-> "literal", on |-> ClassifierAt(d.name), name |-> l]>>)

\* What is nested in an annotation: its annotations, then its contents in model
\* order; the Go contents that are no annotations are created by the factory of
\* their package, with the property annotationContents. TypeScript drops them.
nestedViews(lang, annotationContents, a) ==
  LET Nested(x) == <<[do |-> "nest", list |-> "eAnnotations", what |-> x]>>
      Content(x) ==
        IF x.class = Untyped THEN <<[do |-> "nest", list |-> "contents", what |-> x.label]>>
        ELSE IF lang = "go" /\ annotationContents
        THEN <<CallOf("factory", x.class.package), [do |-> "nest", list |-> "contents", what |-> x.label]>>
        ELSE <<>>
  IN  InEach(a.eAnnotations, Nested) \o InEach(a.contents, Content)

\* The annotations of one source, in the order of their elements.
initializersOf(lang, m, p, source) ==
  InEach(emfAnnotations(m[p], source),
         LAMBDA a : <<[do |-> "annotate", on |-> a.on, source |-> source]>> \o nestedViews(lang, m[p].annotationContents, a))

annotationInitializers(lang, m, p) ==
  InEach(annotationSources(m[p]), LAMBDA s : initializersOf(lang, m, p, s))

\* Wrong variant: a class is initialized as soon as it is created.
ClassByClass(m, p) ==
  InEach(m[p].dataTypes, dataTypeCreation)
    \o InEach(m[p].classes,
              LAMBDA c : classCreation(c) \o superTypes(m, p, c) \o classInitialization(m, p, c))

\* createPackageContents, then the super types and the classes.
classContents(m, p) ==
  InEach(m[p].classes, classCreation)
    \o InEach(m[p].dataTypes, dataTypeCreation)
    \o InEach(m[p].classes, LAMBDA c : superTypes(m, p, c))
    \o InEach(m[p].classes, LAMBDA c : classInitialization(m, p, c))

packageContents(lang, m, p) ==
  classContents(m, p) \o InEach(m[p].dataTypes, dataTypeInitialization) \o annotationInitializers(lang, m, p)

(***************************************************************************)
(* The meta objects                                                        *)
(***************************************************************************)

EmptyMeta == [factory |-> FALSE, served |-> FALSE, classifiers |-> <<>>, annotations |-> <<>>]

NewFeature(kind) == [kind |-> kind, name |-> Nameless, type |-> Untyped, opposite |-> NoPath]

NewOperation == [name |-> Nameless, type |-> Untyped, parameters |-> <<>>]

NewClassifier == [named |-> FALSE, supers |-> <<>>, features |-> <<>>, operations |-> <<>>, literals |-> <<>>]

\* Whether a path leads to a meta object.
Reaches(objects, path) ==
  IF path.list = "package" THEN TRUE
  ELSE /\ path.classifier \in DOMAIN objects.classifiers
       /\ LET c == objects.classifiers[path.classifier]
          IN  CASE path.list = "classifiers" -> TRUE
                [] path.list = "features" -> path.at \in DOMAIN c.features
                [] path.list = "operations" -> path.at \in DOMAIN c.operations
                [] path.list = "parameters" ->
                     path.at \in DOMAIN c.operations /\ path.sub \in DOMAIN c.operations[path.at].parameters
                [] path.list = "literals" -> path.at \in DOMAIN c.literals

\* Whether the classifier of a reference exists.
Exists(meta, ref) ==
  ref.package \notin {Ecore, "none"} => ref.name \in DOMAIN meta[ref.package].classifiers

\* Whether a statement of p finds all that it reads, of the kind it casts to.
Defined(meta, p, s) ==
  /\ "on" \in DOMAIN s => Reaches(meta[p], s.on)
  /\ "type" \in DOMAIN s => Exists(meta, s.type)
  /\ s.do = "feature" =>
       /\ meta[p].classifiers[s.on.classifier].features[s.on.at].kind = s.kind
       /\ s.opposite # NoPath =>
            /\ Reaches(meta[p], s.opposite)
            /\ meta[p].classifiers[s.opposite.classifier].features[s.opposite.at].kind = "reference"
  /\ s.do = "nest" => meta[p].annotations # <<>>

\* The meta objects of a package after a statement.
Execute(objects, s) ==
  CASE s.do = "factory" -> [objects EXCEPT !.factory = TRUE]
    [] s.do = "share" -> [objects EXCEPT !.served = TRUE]
    [] s.do = "createClass" ->
         LET new == [NewClassifier EXCEPT
                       !.features = [i \in DOMAIN s.kinds |-> NewFeature(s.kinds[i])],
                       !.operations = [i \in 1 .. s.operations |-> NewOperation]]
         IN  [objects EXCEPT !.classifiers = @ @@ (s.name :> new)]
    [] s.do = "createDataType" -> [objects EXCEPT !.classifiers = @ @@ (s.name :> NewClassifier)]
    [] s.do = "super" -> [objects EXCEPT !.classifiers[s.on.classifier].supers = Append(@, s.type)]
    [] s.do = "name" -> [objects EXCEPT !.classifiers[s.on.classifier].named = TRUE]
    [] s.do = "feature" ->
         [objects EXCEPT !.classifiers[s.on.classifier].features[s.on.at] =
            [@ EXCEPT !.name = s.name, !.type = s.type, !.opposite = s.opposite]]
    [] s.do = "operation" ->
         [objects EXCEPT !.classifiers[s.on.classifier].operations[s.on.at] =
            [@ EXCEPT !.name = s.name, !.type = s.type]]
    [] s.do = "parameter" ->
         [objects EXCEPT !.classifiers[s.on.classifier].operations[s.on.at].parameters =
            Append(@, [name |-> s.name, type |-> s.type])]
    [] s.do = "literal" -> [objects EXCEPT !.classifiers[s.on.classifier].literals = Append(@, s.name)]
    [] s.do = "annotate" ->
         [objects EXCEPT !.annotations =
            Append(@, [on |-> s.on, source |-> s.source, eAnnotations |-> <<>>, contents |-> <<>>])]
    [] s.do = "nest" -> [objects EXCEPT !.annotations[Len(objects.annotations)][s.list] = Append(@, s.what)]
=============================================================================

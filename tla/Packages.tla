------------------------------- MODULE Packages -------------------------------
(***************************************************************************)
(* The generated packages and factories at run time: their instances are   *)
(* built on first use, by whoever calls GetPackage or GetFactory first,    *)
(* and building one calls others.                                          *)
(*                                                                         *)
(*   - Go (templates/package/instance.tmpl, templates/factory/instance.tmpl)*)
(*     guards each with a sync.Once: the others wait until it is built, and *)
(*     a goroutine that needs what it is itself building waits for ever.   *)
(*   - TypeScript (templates/package/impl.tmpl, templates/factory/impl.tmpl)*)
(*     has one thread, and sets _instance before it calls initialize: who  *)
(*     calls meanwhile is given what is being built.                       *)
(*                                                                         *)
(* A unit is one of those instances: what builds it is a program of calls  *)
(* of other units and of statements on the meta objects of its package     *)
(* (PackageContents).                                                      *)
(***************************************************************************)
EXTENDS PackageContents

LOCAL INSTANCE Functions

CONSTANTS
  Models,  \* the models: names -> a language and what the .ecore says of each package
  Threads  \* the goroutines, or the successive callers of TypeScript

VARIABLES
  model,  \* the model that the code is generated from
  code,   \* the generated code: units -> the program that builds it
  once,   \* units -> "idle", "running" or "done"
  pc,     \* units -> the number of their instructions executed
  stack,  \* threads -> the units it is building, each called by the one before
  todo,   \* threads -> the units it has to get
  got,    \* threads -> the units it has got
  meta,   \* packages -> their meta objects
  lost    \* whether a statement read a meta object that does not exist

vars == <<model, code, once, pc, stack, todo, got, meta, lost>>

lang == Models[model].lang

packages == Models[model].packages

UnitOf(fn, p) == [fn |-> fn, of |-> p]

UnitsOf(m) == {UnitOf(fn, p) : fn \in {"package", "factory"}, p \in DOMAIN m}

Units == UnitsOf(packages)

\* Wrong variant: a shared package takes its factory from GetFactory too.
FactoryOfItsOwn(m, p) == <<CallOf("factory", p), [do |-> "factory"]>>

\* The factory that the constructor gives to Initialize: GetFactory(), or a new
\* factory of the data types for a shared package.
PackageFactory(m, p) ==
  IF m[p].shared THEN <<[do |-> "factory"]>> ELSE <<CallOf("factory", p), [do |-> "factory"]>>

\* The program that builds a unit: the factory of an implementation of a shared
\* package is given that package.
Program(l, m, u) ==
  IF u.fn = "package" THEN PackageFactory(m, u.of) \o packageContents(l, m, u.of)
  ELSE IF m[u.of].shared THEN <<CallOf("package", u.of), [do |-> "share"]>>
  ELSE <<>>

\* The elements that a model refers to are in it: every program calls units of its model.
ASSUME PackagesAssumption ==
  \A name \in DOMAIN Models :
    LET m == Models[name].packages
    IN  \A u \in UnitsOf(m) :
          LET program == Program(Models[name].lang, m, u)
          IN  /\ Len(program) \in Nat
              /\ \A i \in 1 .. Len(program) :
                   program[i].do = "call" => program[i].unit \in UnitsOf(m)

\* What a caller gets: a package, a factory, or both, to Install the
\* implementation of a shared package.
Requests ==
  {<<u>> : u \in Units} \cup {<<UnitOf("package", p), UnitOf("factory", p)>> : p \in {q \in DOMAIN packages : packages[q].shared}}

Building(t) == stack[t] # <<>>

\* The unit that a thread is building.
Current(t) == stack[t][Len(stack[t])]

Ended(u) == pc[u] = Len(code[u])

Instruction(u) == code[u][pc[u] + 1]

\* One thread at a time runs TypeScript, until its call returns.
MayRun(t) == lang = "ts" => \A o \in Threads \ {t} : ~Building(o)

Init ==
  /\ model \in DOMAIN Models
  /\ code = [u \in Units |-> Program(lang, packages, u)]
  /\ once = [u \in Units |-> "idle"]
  /\ pc = [u \in Units |-> 0]
  /\ stack = [t \in Threads |-> <<>>]
  /\ todo \in [Threads -> Requests]
  /\ got = [t \in Threads |-> {}]
  /\ meta = [p \in DOMAIN packages |-> EmptyMeta]
  /\ lost = FALSE

\* Wrong variant: Go hands out an instance that is being built.
Handed(u) == once[u] # "idle"

\* A call returns at once: in Go when the instance is built, in TypeScript when
\* there is one.
Available(u) == once[u] = "done" \/ (lang = "ts" /\ once[u] = "running")

\* The first call of a unit starts to build it.
Start(t, u) ==
  /\ once[u] = "idle"
  /\ once' = [once EXCEPT ![u] = "running"]
  /\ stack' = [stack EXCEPT ![t] = Append(@, u)]
  /\ UNCHANGED <<model, code, pc, todo, got, meta, lost>>

\* A caller gets its next unit, or starts to build it.
Get(t) ==
  /\ ~lost
  /\ ~Building(t)
  /\ todo[t] # <<>>
  /\ MayRun(t)
  /\ LET u == Head(todo[t])
     IN  \/ Start(t, u)
         \/ /\ Available(u)
            /\ todo' = [todo EXCEPT ![t] = Tail(@)]
            /\ got' = [got EXCEPT ![t] = @ \cup {u}]
            /\ UNCHANGED <<model, code, once, pc, stack, meta, lost>>

\* The unit that a thread is building calls another one.
Call(t) ==
  /\ ~lost
  /\ Building(t)
  /\ ~Ended(Current(t))
  /\ Instruction(Current(t)).do = "call"
  /\ LET u == Instruction(Current(t)).unit
     IN  \/ Start(t, u)
         \/ /\ Available(u)
            /\ pc' = [pc EXCEPT ![Current(t)] = @ + 1]
            /\ UNCHANGED <<model, code, once, stack, todo, got, meta, lost>>

\* A statement on the meta objects of the package that a thread is building.
Do(t) ==
  /\ ~lost
  /\ Building(t)
  /\ ~Ended(Current(t))
  /\ Instruction(Current(t)).do # "call"
  /\ LET s == Instruction(Current(t))
         p == Current(t).of
     IN  IF Defined(meta, p, s)
         THEN /\ meta' = [meta EXCEPT ![p] = Execute(@, s)]
              /\ lost' = lost
         ELSE /\ meta' = meta
              /\ lost' = TRUE
  /\ pc' = [pc EXCEPT ![Current(t)] = @ + 1]
  /\ UNCHANGED <<model, code, once, stack, todo, got>>

\* A unit is built: its call returns.
Return(t) ==
  /\ ~lost
  /\ Building(t)
  /\ Ended(Current(t))
  /\ once' = [once EXCEPT ![Current(t)] = "done"]
  /\ stack' = [stack EXCEPT ![t] = SubSeq(@, 1, Len(@) - 1)]
  /\ UNCHANGED <<model, code, pc, todo, got, meta, lost>>

Step(t) == Get(t) \/ Call(t) \/ Do(t) \/ Return(t)

Next == \E t \in Threads : Step(t)

Spec == Init /\ [][Next]_vars

\* A goroutine that can run is run, and so is the one thread of TypeScript.
FairSpec == Spec /\ \A t \in Threads : WF_vars(Step(t))

(***************************************************************************)
(* Correctness                                                             *)
(***************************************************************************)

\* The types that a class of a package names.
TypesOf(c) ==
  Range(c.supers)
    \cup {f.type : f \in Range(c.features)}
    \cup UNION {{op.type} \cup {x.type : x \in Range(op.parameters)} : op \in Range(c.operations)}

\* A package refers to another one of the same name.
Homonym(p) ==
  \E c \in Range(packages[p].classes) : \E ref \in TypesOf(c) :
    /\ ref.package \notin {p, Ecore, "none"}
    /\ packages[ref.package].name = packages[p].name

\* The feature at a path has the name of the opposite that the model says.
IsOpposite(p, path, name) ==
  IF name = "none" THEN path = NoPath
  ELSE meta[p].classifiers[path.classifier].features[path.at].name = name

IsFeature(p, o, f) ==
  /\ [o EXCEPT !.opposite = NoPath] = [f EXCEPT !.opposite = NoPath]
  /\ IsOpposite(p, o.opposite, f.opposite)

\* The parameters of an operation without type have no type.
IsOperation(o, op) ==
  /\ [name |-> o.name, type |-> o.type] = [name |-> op.name, type |-> op.type]
  /\ o.parameters =
       [j \in DOMAIN op.parameters |-> IF op.type = Untyped THEN [op.parameters[j] EXCEPT !.type = Untyped] ELSE op.parameters[j]]

IsClass(p, o, c) ==
  /\ o.named
  /\ o.supers = c.supers
  /\ DOMAIN o.features = DOMAIN c.features /\ DOMAIN o.operations = DOMAIN c.operations
  /\ \A i \in DOMAIN c.features : IsFeature(p, o.features[i], c.features[i])
  /\ \A i \in DOMAIN c.operations : IsOperation(o.operations[i], c.operations[i])

\* The annotations of the package but the suppressed ones, each once, with what
\* the language keeps of their contents.
AreAnnotations(p, annotations) ==
  LET Kept == {a \in packages[p].annotations : a.source \notin packages[p].suppressed}
      Contents(a) ==
        SelectSeq(a.contents, LAMBDA x : x.class = Untyped \/ (lang = "go" /\ packages[p].annotationContents))
  IN  /\ Len(annotations) = Cardinality(Kept)
      /\ Range(annotations) =
           {[on |-> a.on, source |-> a.source, eAnnotations |-> a.eAnnotations,
             contents |-> [i \in DOMAIN Contents(a) |-> Contents(a)[i].label]] : a \in Kept}

\* The meta objects of a package are those that the model describes.
AsDescribed(p) ==
  LET objects == meta[p].classifiers
      Described == Range(packages[p].classes) \cup Range(packages[p].dataTypes)
  IN  /\ meta[p].factory
      /\ DOMAIN objects = {d.name : d \in Described}
      /\ \A c \in Range(packages[p].classes) : IsClass(p, objects[c.name], c)
      /\ \A d \in Range(packages[p].dataTypes) : objects[d.name].named /\ objects[d.name].literals = d.literals
      /\ AreAnnotations(p, meta[p].annotations)

\* No statement of an initialization reads a meta object that is not created
\* yet, of another kind or in a package that is not there: neither the forward
\* references of a package, nor those of packages that need each other, nor the
\* elements that the annotations are put on.
NothingIsLost == ~lost

\* What GetPackage and GetFactory return is whole, whoever asked first: a
\* package has the meta objects of the model, and the factory of an
\* implementation has the shared package. A package that refers to another one
\* of its name is the exception: its getters find the classifiers of its own.
ServedWhole ==
  \A t \in Threads : \A u \in got[t] :
    IF u.fn = "package" THEN AsDescribed(u.of) <=> ~Homonym(u.of)
    ELSE meta[u.of].served = packages[u.of].shared

\* Every call of GetPackage, GetFactory and Install returns.
CallsReturn == \A t \in Threads : <>(todo[t] = <<>>)
=============================================================================

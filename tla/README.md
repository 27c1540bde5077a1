# soft.gen, specified

TLA+ models of soft.gen, a generator of Go and TypeScript code from Ecore models, with what TLC
checks of them on small instances and what TLAPS proves of them for every value of their constants.
The source is the reference: every definition stands for lines of the repository, listed in
`PROJECT.json` under `map`.

- [The system](#the-system): its parts, their state, what is hard about them
- [The modules](#the-modules): what models what
- [The runs](#the-runs): questions, bounds, answers
- [The proofs](#the-proofs)
- [Where the code and its documentation part](#where-the-code-and-its-documentation-part)
- [What is not modelled](#what-is-not-modelled)
- [The plan](#the-plan)

## The system

`soft.gen go -m shop.ecore -o folder` is a short-lived sequential process over an output folder that
lives long: it loads a model, resolves properties, and for each selected entry point lists files,
renders them from view models, merges each with what is on disk, formats and writes it. What is
concurrent is around it: users who edit the files, other runs into the same folder, signals, and the
revisions of the model and of the generator between two runs. What is intricate is inside it: several
algorithms on class hierarchies whose results, computed file by file, must agree in the generated code.

| part | source | state | operations | called by, calls |
|---|---|---|---|---|
| command | `cmd/soft.gen` | options | parse, run, exit code | user → engine |
| engine | `internal/engine` | report of the run | select entry points, run, seal folders with manifests | command → model, props, language, writer |
| writer | `internal/writer` | the files on disk | merge regions, format, compare, write; print a difference | engine → file system |
| properties | `internal/props`, `lang/common/lists.go` | layers of values | load, set, look up, merge lists | engine, languages |
| model | `internal/model` | memoised facts on packages, classes, features | order of classes, base and mixins, ids, names, annotations | languages → soft.go |
| naming | `internal/naming` | none | cases, keywords, naming rules | languages, model |
| templates | `internal/tmpl` | parsed templates | load with overrides, lint, execute | engine, languages |
| Go | `internal/lang/golang` | the scope of the file being made | list files, build views, qualify identifiers | engine → model, props |
| TypeScript | `internal/lang/typescript` | the same | the same, and the module files | engine → model, props |
| generated features | `view_feature.go`, `view_reflectives.go`, `templates/feature`, `templates/reflectives` of both languages | objects: a field and a flag per feature, a container | accessors, `EGet`…`EInverseRemove`, each with one of several bodies | programs → soft.go, soft.ts, the other end of a reference |
| generated tests | `view_tests.go` of both languages, `templates/test(s)` | none | one test for each accessor | `go test`, the runner of TypeScript → generated features |
| generated packages | `view_package_impl.go`, `templates/package`, `templates/factory` | instances of packages and factories, their meta objects | `GetPackage`, `GetFactory`, `Install` | programs, one another |

The last three run in the programs of the users, not in the generator: their source is the views, which
choose the bodies, and the templates, which have them.

What is hard to get right, and to test, in each of them:

| part | hazard | what correct means |
|---|---|---|
| writer | code of users inside generated files; `os.WriteFile` truncates before it writes; a read and a write with users and runs in between | a region survives any sequence of edits, revisions, failures and kills, or its loss is announced; a run is a sequence of atomic regenerations |
| engine | stops at the first error, at a signal, between entry points; overlapping runs | a success is complete, a manifest comes after every file it speaks for, `--diff` says the truth, every run ends |
| properties | first file against last option; empty against missing; two readers of one property | the documented order, whatever the order of the options |
| class order | chains that cross, leave the package, run in a circle | a class after those above it, once, none lost, the order of the model otherwise; the loop ends |
| class facts | diamonds, interfaces in a chain, mixins of mixins; constants written from other constants | the tables of all generated classes agree: a reflective read reaches its feature |
| Go imports | aliases that depend on all packages of the file, found last | every identifier names the package it was asked of |
| Go files | halves of a model generated by different commands in any order | Go packages whose names are declared once and resolve |
| TypeScript modules | evaluation order of a module that re-exports itself; halves of a shared package made by different runs | no class is evaluated before its base; every import finds its name |
| features | two ends of a reference written by two classes, each by flags of its own; a proxy resolved while others write | opposite ends agree, one container, the two languages alike; a call has its declaration |
| generated tests | what a test expects is computed apart from what is tested | a generated test passes |
| packages | instances built on first use, in one another, by several goroutines; forward references | nothing is read before it exists, what is returned is whole, every call returns |

`PROJECT.json` lists each hazard at its line, with the properties that watch it.

## The modules

Every module keeps the names of the code where it can. Definitions marked *Wrong variant* are
plausible bugs, each used to check that a property can fail.

### The write path

```
Regions            lines of a file, PreserveRegions            MCRegions
  RegionsProofs
Writer             one file: Output, OutputFails, IsSame, IsLost
  Workspace        EXTENDS Writer: the folder, its users, the revisions
    Regeneration   what users are promised (abstract)
    Generation     EXTENDS Workspace: runs                      MCGeneration
      GenerationProofs
```

`Regions` has `regions.go` round by round: `indexRegions` takes the next region of the existing file,
`PreserveRegions` the next line or region of the generated text, one action each, with the error of a
region without end; a second merge follows the first. What opens a region and where it ends are operators
on the lines (`Opens`, `Spans`), with the quirks of the code: a start marker inside a region is a line,
and a later region of an id replaces the earlier one. In `Generation` the region of a file is one value and `Writer` says what `Write` makes of it; the
two levels share their cases (a region whose end marker is found, is missing while another one is
mentioned, is mentioned nowhere).

`Generation` has one action per step of a process that another actor can come between:

| action | code |
|---|---|
| `Start`, `Refuse` | `Run` up to the loop: the names of the entry points, the model, the properties |
| `NextEntry`, `EntryFails` | the context is looked at, then `ep.Files` |
| `Read`, `ReadFails`, `Preview` | `Render`, `os.ReadFile`, merge, format; compare or list in the preview modes |
| `Open`, `OpenFails`, `Write`, `WriteFails` | `os.WriteFile`: truncate, then write |
| `Seal`, `Finish` | `writeManifests`, the return of `Run` |
| `Kill`, `Cancel`, `UserStep`, `Upgrade` | the environment |

`Regeneration` is the abstract specification: a file is replaced at once by the merge of the generated
text with the file as it is then, and nothing else but users, torn writes and revisions changes the
folder. `Generation` implements it under the refinement mapping `Published`: a file being rewritten
counts as the file it was until its write is done or aborted.

### Properties

`Properties` has the options in any order, the loading of the files, the values the engine sets, and two
ways of reading: `Lookup`, and `ListProperty` with `PathsIn` for `packages`. A value is a sequence of
tokens; only for `packages` do tokens matter. One run (`go_files`) has it beside `GoFiles` and
`ImportAliases`: the three are stages of a Go generation.

### The model and what is made of it

`ClassOrder` is `orderedClasses` statement by statement: one action for each turn of its two loops. Its
hierarchies are arbitrary, the cyclic ones included, because nothing rejects them before.

`ClassFacts` has, as recursive functions over an acyclic hierarchy, what a class extends, mixes in and
implements (`class.go`), and the values of the constants of its members (`ids.go`). A feature and an
operation go through the same code; the module has *members*.

`Reflection` runs the generated code: a read of a feature of an object walks `EDerivedFeatureID` then
`EGetFromID` through the implementations that embed one another, each with tables computed for its own
class. It extends `ClassFacts`; soft.go's own methods are external. Beside the walk it has the mocks that
embed one another in the same way, what the generated tests of `EDerivedFeatureID` expect, and the
constants that the interface of the package declares.

`ImportAliases` is the scope of a generated Go file: `qualify` while the view is built, one action per
round of `computeImportAliases`, `finish`. A path is a sequence of segments and a segment a sequence of
words, because segments are joined by `_`, which may also be part of one.

`GoFiles` says, for each entry point and command line, which files it lists, at which path, in which Go
package, what each declares and what it refers to. An action runs one entry point of one command line in
the folder. Import paths are sequences of characters where `outputDirectory` cuts them.

`TSModule` extends `ClassOrder`: once the classes are ordered, `internal.ts` is made of them, one action
for each turn of the loop over the implementations, and a JavaScript engine loads it, file by file. One run checks both: the order on every hierarchy, the module on every
acyclic one. What the order does not read (the interfaces, the hand-written extensions, the entry point)
is chosen by the action that reads it first.

`TSImports` extends `TSModule` with the names: what each generated file declares and what it imports, the
module that `imports.go` and `modules.go` look for it in (the interfaces, the implementations, another
package), and what `internal.ts` and `index.ts` export of it. `SubClasses` are the classes that live in
sub-packages: files of theirs are generated, and no loop of `view_module.go` exports them. The entry points of a package may have
run together or apart, with the property `packages` of each run.

### The generated code

```
Features           the facts of a feature and the bodies both languages choose for it
  GeneratedTests   what the generated tests expect of them
    Objects        objects that run these bodies                       MCObjects
      ObjectsProofs
PackageContents    the program that builds a package, and what it does to the meta objects
  Packages         instances, built on first use by several threads    MCPackages
    PackagesProofs
```

`Features` has a feature as a record of the flags that Ecore and the annotation give it, the facts that
`model/feature.go` and `lazy.go` draw from them, and one operator for each function of a view that
chooses a body, in each language: the body is a name. Beside them it has what the views declare and
what they call (interfaces, mocks, creators, reflective cases), which `CallsResolve` compares.

`Objects` gives each body its effect on a heap of objects: values, flags, containers. A *shape* is a
reference of a class `A`, in the class `B` its opposite or none, and maybe one more containment of `A`; an
initial state has a language, a shape and new objects. `Call` is any accessor or reflective call by a
program, `CallSimpleSet` an assignment to a TypeScript property that the interface has as read-only,
`StartAsync` and `EndAsync` are the two halves of `getXXXAsync`, around its `await`.
In every state `LanguagesAgree` compares what the code of the two languages would do. They part in one
place: `EBasicInverseAdd` of a single reference looks at what it holds, Go in the field, TypeScript by a
getter (`TSCurrentGetter`), and the getter of a lazy reference runs an initializer that is generated to
throw (`ReadThrows`). The call then ends where it is, which is `thrown` in the heap. `EInverseAdd`, the lists and the containers of soft.go and soft.ts are
external. Notifications are left out: nothing of what they report is read back.

`GeneratedTests` has the kind of test that the views choose for each method, and for each kind when the
bodies under test satisfy it. It is independent of the heap: a test works on mocks. `GeneratedTestsPass` is what the change
log says of the Go tests, and what the run `tests` refutes, see [below](#where-the-code-and-its-documentation-part).
`TestsFollowAccessors` is what holds: all tests pass, in both languages, of the features that are not
lazy, in Go of the lazy lists, attributes and proxies as well, and of the volatile features unless they are containments or
containers.

`PackageContents` writes the statements of `createPackageContents`, `initializePackageContents` and the
initializers of annotations, in the order of the views; an element is reached by the path of getters
that the statement has. `Packages` executes them. An action is one instruction of a thread, so
that goroutines interleave between any two; `sync.Once` makes the others wait in Go, while TypeScript
has one thread and hands out the instance that is being built.

## The runs

All exhaustive; each property of the passing runs has a mutant that the same run refutes.

| run | bounds | what it shows |
|---|---|---|
| `regions` | texts of up to 4 lines over 5 and 4 kinds of line, two ids | every merge keeps the regions (`RegionsSurvive`), keeps nothing else (`NothingElseKept`) and is a fixed point (`MergeIsStable`), unless the template has a region without end, which is an error, or two regions of one id with different lines (`IsAmbiguous`). Four lines hold two regions, a start marker in a region, an unended one |
| `generation` | two processes into one folder with one manifest, each for the model, the tests or both; 3 revisions (a file list fails in the second, the third renames the region and has a failing template), edits of the region and of its end marker in any file that no run is rewriting, failures, kills | `UserCodeKept`; `SealedLast`, with two writers of the manifest; `RegeneratesAtomically` (the refinement): one regeneration at a time is what the folder sees |
| `diff` | one process, 2 revisions, six command lines, cancellations, every other edit, between two runs | `SuccessIsComplete`; `WriteLeavesNoDifference` and `DiffIsTruthful`: a generation, then `--diff`, agree, in both directions; `RunsEnd` |
| `reflection` | 4 classes, at most 2 super types each, every choice of interfaces; all or all but one class own a member | `ReadsTheFeature`, `ImplementedOnce`, `ConstantsArePositions`. Four classes make a diamond and a mixin of a mixin |
| `go_files` | 8 projects of one or two implementations, shared or not, with and without a module; 6 entry points in any order. Properties: four keys, up to two `-p` entries and two files, in any order, three annotations. Aliases: files of up to 3 identifiers of 24 packages, in directories of up to 3 names | the five properties of the folder; `DocumentedOrder`; `NamesIdentify`, `IdentifiersResolve`. Two entries and two files are what "first" and "last" need, three packages what it takes for one to leave the rounds while others grow |
| `ts_module` | 3 classes of the package with a data type between them and 1 class of another, all 5⁴ hierarchies, the cyclic ones included; then every choice of interfaces, with and without extensions, three entry points; no sub-package | `ChainsPrecede`, `EveryClassPlaced` and `Returns` of the order; `BasesAreLoaded`, `ImportsResolve` of the module. Three classes and a detour make a chain that meets placed classes, one that leaves the package and comes back, and cycles with and without a tail |
| `objects` | 296 shapes, two objects of each class, a proxy, any sequence of calls. `left`: single or many, a containment or not, proxies, changeable, unsettable or lazy of both modes. `right`: none; the container of a containment, changeable or not; a plain reference, single or many, changeable, unsettable, or single and lazy of both modes. With a containment, one more containment | `OppositesAgree`, `ContainedOnce`, `SetValuesAreSet`, `LanguagesAgree`, `LateResolution` of the heap; `CallsResolve`, `TestsFollowAccessors` of all the features such a shape could have. Two objects of each class are what moving an object from one to another takes |
| `packages` | a package and one built on it, 2 classes and 3, both languages, shared or not, of one name or two, cyclic in TypeScript; 2 threads | `NothingIsLost`, `ServedWhole`, `CallsReturn`. Two packages can wait for each other, and the third one would add no new kind of call |

Four more runs expect a violation, `bare`, `mappings`, `exports` and `tests`: each checks one sentence of
the documentation that the code does not keep, see [below](#where-the-code-and-its-documentation-part).

Not in the shapes of `objects`: an end `right` that is a proxy, a lazy list or a lazy container; lazy
references that are unsettable or unchangeable (the tests of these are in `TestsFollowAccessors`); volatile
features, of which the generated code keeps nothing (their members are in `CallsResolve`).

The objects of one class are exchangeable in `objects` and `tests`, and the processes in `generation`:
these runs have symmetry, and no liveness property.

`CHECK_DEADLOCK FALSE` is set where the system stops: a resolved store of properties, a returned
function, a finished file, a loaded module, a feature whose body panics, packages that everybody has. In `Generation` and `GoFiles` it can always go on, and the
runs check that.

### Fairness

`Generation!FairSpec` assumes weak fairness of each process: the operating system schedules it, and
`engine.Run` waits for nobody. It assumes nothing of users, signals, cancellations and upgrades. A step
that can fail may fail or not; the fairness is of the disjunction. `ClassOrder!Spec` assumes weak
fairness of the only action that is enabled, and so does `TSModule!ModuleSpec`: a sequential function
runs until it returns. `Packages!FairSpec` assumes it of each thread: a goroutine that does not wait for
a `sync.Once` is scheduled, and the calls of TypeScript run to their end.

## The proofs

TLAPS checks every proof; a module of proofs EXTENDS the module it is about.

**`GenerationProofs`**, for every language, workspace, set of requests and number of processes:

- `TypeCorrect`: `Spec => []TypeOK`.
- `UserCodeIsKept`: `Spec => []UserCodeKept`, provided that no user removes the last end marker of a
  file for good (`"bare" \notin Edits`; the run `bare` shows that it is needed) and nobody edits a file
  that a run is rewriting (`EditsDuring # "always"`). `Separate`, the guard of `Start`, is what the
  repository leaves to the callers: runs at the same time write different files.

  `UserCodeKept` alone is not inductive: a process may have read a file long before it writes it. The
  invariant `CodeInv` adds what it holds in hand. `WorkOK`: a run works on files of its request and its
  hand is the head of its queue; `ApartOK`: processes that write have disjoint requests, so a file is in
  one hand (`OneHand`); `HandOK`: the text in hand is what `Write` makes of the file as it is, or as it
  was when it was truncated; `DiskOK`: regions are where the language preserves them and have their end
  marker. Then `Write` puts back the code (`OutputKeeps`), from the assumption that formatting
  is idempotent on the code of a region.

- `GenerationRefinesRegeneration`: `Spec => RegeneratesAtomically`, whatever the edits of end markers,
  provided that `EditsDuring # "always"` (a user who edits a file between its read and its write loses
  the edit). Each step maps to one of `Regeneration` or to none: `Open` to `Tear` of a manifest and to
  nothing for a file, `Write` to `Regenerate`, an abort of an open file to `Tear`, edits and revisions to
  themselves. The invariant `AtomicInv` adds two parts to `WorkOK` and `ApartOK`. `RevOK`: a run works on
  the current revision. `TakenOK`: what is in hand is what `Write` makes of what was read, which is still
  on disk, or was truncated by that run. Without it `Write` could publish the merge of an older file.

On the outcome of a run, in the same module and for the same constants:

| theorem | property | hypotheses |
|---|---|---|
| `SuccessMeansComplete` | `SuccessIsComplete` | none |
| `ManifestsAreLast` | `SealedLast` | no edit of a file that is being rewritten, and `LeavesWritten`: during a run nobody deletes a file or writes outside its regions |
| `GeneratedFilesSettle` | the half of the next one on the generated files, for any number of runs | `Undisturbed`: no edit during a run, and a language that has regions has a formatter |
| `NothingIsLeftToWrite` | `WriteLeavesNoDifference` | `Undisturbed`, `OneRun` |
| `DiffTellsTheTruth` | `DiffIsTruthful` | no edit during a run, `OneRun` |

The invariants follow a file through a run. `AccountOK`: each file a run was asked for is reported, in
its queue, or listed by an entry point to come; it is what makes a success complete. `WrittenOK`: what
a run reports of its files is on disk, of its revision, and settled: a generation would leave it as it
is (`OutputSettles`: `Write` applied to its own output changes nothing, by the idempotence of the merge
and of the formatter). `ComparedOK`, for `--diff`: each status of the report is what a comparison with the
disk would still give.

Two hypotheses came out of the failing proofs. Without a formatter, a region that a user saved with CRLF
keeps its carriage returns in the merged text, and `IsSame`, which normalises only the file, would say
that it differs at every run: `HasRegions => HasFormatter` is true of Go (`golang/language.go:93`, `:98`), and TypeScript has no
regions (`typescript/language.go:107`). `OneRun`: the manifest of a folder is shared, and another process
may rewrite it between the comparison and the end of the run.

**`RegionsProofs`**, for texts of any length, over any lines, markers and ids:

- `UserCodeSurvives`: `Spec => []RegionsSurvive`; `OnlyRegionsKept`: `Spec => []NothingElseKept`;
  `SecondGenerationStable`: `Spec => []MergeIsStable`.

The inductive invariant has a part for each loop. `IndexInv`: what the first loop has indexed is the last
region of each id among those it has gone through. `CopyInv`: the output is, piece by piece, the lines of
the template outside of its regions and the regions that the index has, or the template's (`Copied`).
`AgainInv` is about the second merge, of the output of the first with the same template: its output is so
far the beginning of what it reads (`Settled`), and both loops stand at the same place of the template
(`Aligned`). That is what makes stability inductive: equal output alone does not say that the next marker
of the output is the next marker of the template, because a user's region may hold start markers. The
lemmas are one for each kind of round (`LineCopied`, `RegionCopied`, `LineAligned`, `RegionAligned`,
`EndAligned`).

The attempt without `IsAmbiguous` failed for a reason: see
[below](#where-the-code-and-its-documentation-part).

**`ClassOrderProofs`**, for every hierarchy, cyclic or not, and any number of classes:

- `ClassesAreOrdered`, `ClassesArePlacedOnce`, `ClassesAreAllPlaced`, from the invariant `IInv`: the
  classes of the current chain are those that the inner loop went through and that were not placed;
  what is above a placed class is placed before it, or is on a cycle with it, or is still to be
  reached by the inner loop. *Above* is the least closed set, stated without recursion.

and for every module made of such an order, on `TSModule` and `TSImports`:

- `LoadingNeverFails`: `ModuleSpec => []BasesAreLoaded`; `ImportsReachTheirNames`:
  `ModuleSpec => []ImportsResolve`. Both assume `SubClasses = {}`: a class may extend one of a
  sub-package, which `internal.ts` leaves out.
- `SubPackagesAreLeftOut`: `ModuleSpec => []OwnFilesExported`, for any sub-packages: what `internal.ts`
  exports is what the entry point generates but the files of the classes of sub-packages. It is the
  sentence of `view_module.go:9` with its one exception, of which the run `exports` has the counterexample.

The choices of interfaces, of extensions (`Extensions`) and of entry points are any.

The first one is what the order is for, and does not follow from `ChainsPrecede` alone. The class that an
implementation extends is found by going up the first super types as long as they are interfaces
(`classExtendsClass`). That this ends is a fact on finite hierarchies: a climb that met only interfaces
would be a finite set closed under the first super type, of which a smallest one is a cycle
(`EndlessIsCyclic`, `ClimbEnds`). Then the class found is above the one that extends it, hence before it
in the order (`BaseIsBefore`). The invariant `ModuleInv` adds to `IInv` that a started module has a
finished order (`StageOK`), which files are exported so far (`ExportsOK`), that each needs only files
before it (`Sound`), and that the engine has loaded a beginning of them (`LoadedOK`).

The last one compares what the views use with what the files reached declare. `KnownUses` bounds the
names that each file uses, by the module they come from and the entry points (`Known`); the base class of
an implementation is one of them because the climb ends at a class that is no interface. `InternalHasAll`,
`InternalHasClasses`, `SharedHasAll`, `IndexHasTypes` and `OtherHas` say which of them each path reaches,
from the files that the invariant says `internal.ts` lists, and `OneImport` puts both together. The
imports that do not resolve are not assumed away: `Unexported` lists them and the theorem has equality.

**`PropertiesProofs`**, for every set of keys and texts, and any number of `-p` and `-P` options:

- `LookupIsDocumented`: `OptionsSpec => []DocumentedOrder`. The
  invariant says what each layer is after the options taken so far: the entry of a key is that of the
  last option that gives it, the value in the files is that of the first file that has it. The first and
  the last of a sequence are a least and a greatest position, which two lemmas show to exist.

**`GoFilesProofs`**, for any models, command lines and projects:

- `SplitAlwaysWhole`: `generateInterfaces` and `generateImplementations` list together what
  `generateModel` lists.
- `OrderNeverMatters`: the folder is the union of what the commands list whatever their order, assuming
  `LinesAgree`: two command lines of a project that list one path list one file there. The theorems below
  rest on it, a file of the folder being one that some command lists.
- `NoReferenceDangles`: `ReferencesResolve`, assuming `LinesAgree` and `OneInstance`: a sub-package has
  its instance where the root has it. It is the condition that `paths.go:74` leaves open.
- `NothingDeclaredTwice`: `DeclaredOnce`, assuming `LinesAgree`, `OneModule` (the lines of a project have
  one module and one package of interfaces) and `ReservedNames` (no class is called `package` or
  `factory`). Two files that declare one name are of one kind, hence of one name, hence at one path.
- `DirectoriesArePackages`: `PackagesAreDirectories`, assuming `OneModule` and `PathsUnderModule`: import
  paths begin with the module, where `outputDirectory` cuts them.

The same module has the theorems of `ImportAliases`, for any set of paths:

- `NamesAreDistinct` and `AliasesAreNoLonger`. The invariant says that the name of a path is a prefix of
  its segments, that a path still growing shares all the segments of the rounds before, and that one that
  stopped ends with a segment of its own or has no segment left.
- `EveryIdentifierResolves`: `ScopeSpec => []IdentifiersResolve`, assuming `AliasesApart`: `splitPath` and the
  joined segments tell the packages of the file apart. That is where `imports.go:134` can go wrong: the
  theorem says that it goes wrong nowhere else.

**`ReflectionProofs`**, for any acyclic hierarchy of any size, whatever its interfaces and the classes
that declare a member:

- `ConstantsAgree`: `Spec => []ConstantsArePositions`; `MembersImplementedOnce`:
  `Spec => []ImplementedOnce`; `ReadingIsRight`: `Spec => []ReadsTheFeature`.

The facts of a class are recursive functions. `Recursion` shows, without a theorem of the library that
takes an operator, that a step which reads a function only below a number defines a function
(`IsStep`: the step is itself a function, a value that a lemma can be about), and `ClassInduction` is the
induction that goes with it. From there:

- the members of a class begin with those of its first super type (`AllMembers`, on what
  `appendUnique` returns), hence with those of the class it extends (`ExtendedClass`): so the constant
  written from the base class is the position (`IDIsPosition`), and an implementation that runs for an
  object of a class below it means the same member by an id (`SameConstant`);
- a member of a class is one of a mixin, or of the class it extends, or has the id of the class that
  declares it already (`MemberIsReached`): nothing is lost between the mixins, which begin after the base
  class, and the chain of implementations, which skips the interfaces (`AfterTheBase`).

The invariant `ReadInv` follows a read. While the id is translated, the feature is one of the class that
runs or needs no translation (`Translating`); while the value is asked for, the id is the one of the
feature in the object, and the class that runs has the feature (`Getting`): so a case answers before the
chain ends, and no case of another feature does.

**`ObjectsProofs`**, for any valid features, objects and resolutions:

- `OnlyRacesResolveLate`: `Spec => []LateResolution`, whatever the calls around the awaits. Outside of
  races, the reference of an object is what the program last gave it or what that resolves to. This is
  inductive with a second part: the pending resolution is that of what was last given. The lemmas go
  through the bodies: those of a reference that resolves proxies, in each language, and those of the
  other containment of the class, which may set or unset its `B` but touches no reference.

The other four say, for any number of objects and any such shapes, what the run checks for two objects of
each class. They assume that the shapes have single references (`SingleShape`: `left` is a single
reference and no container, and `right`, when there is one, is single and agrees about the containment).
This limits what is explored and assumes nothing of the code: 108 of the 296 shapes of `objects` are of
that kind, and other flags make more. The values of the other shapes are lists that the code filters and
compares element by element, which is out of the provers' reach.

- `SingleOppositesAgree`: `Spec => []OppositesAgree`; `SingleContainedOnce`: `Spec => []ContainedOnce`.
- `SingleValuesAreSet`: `Spec => []SetValuesAreSet`.
- `SingleLanguagesAgree`: `Spec => []LanguagesAgree`, the lazy references included: no accessor of Go
  throws, one of TypeScript only where an end that is joined is lazy and its initializer throws
  (`JoinThrows`), and otherwise the heaps are equal. `ApplyAgrees` has it for any heap that is `Sound`.

The four share one invariant, `SingleInv`: until an accessor leaves the inverses aside or throws (`broken`),
the links are `Sound` and every value that did not race has its flag (`FlagOK`). `Sound` has what the
properties leave out and a step needs: only the feature that its class has holds a value, and of the right
class (`Owned`), a container is an `A` that a containment names (`Located`), a containment holds what names it as
its container (`Contains`), two ends that are not containers name each other (`Paired`). That this is
inductive is about the order of the calls in a body. A setter first tells the old value that it left, then
the new one, whose `EInverseAdd` takes it from its former container or its former other end, which are
told in turn; only then does it store. In between the links are not sound. The lemmas say what each call leaves:
`Stores` and `Moves` for the basic accessors, `LeavesAny` for the old value, `JoinsContainment`,
`JoinsEnd` and `JoinsOwner` for the new one. Their sum is a new link that undoes the old ones of both
objects (`Joined` for a containment, `Married` for two ends), and `JoinedKeeps` and `MarriedKeeps` show that such
a link keeps `Sound`, whatever the body it comes from.

**`PackagesProofs`**, for any packages, factories and number of threads, whatever the statements of the
programs besides their calls:

- `NothingIsServedEarly`: in Go, what a goroutine has got is built, and so is all that its initialization
  called (`BuiltBeforeServed`).
- `NobodyWaitsForEver`: as long as a caller has something to get, some thread can go on
  (`SomeoneGoesOn`), in TypeScript whatever the packages, in Go when no unit needs itself (`Acyclic`).
  `CallsReturn` is its liveness half.
- `WhatIsServedStays`: no step changes the meta objects of a package that is built (`BuiltIsFinal`, an
  action property).

The invariant describes the stacks of the threads: a unit being built is in one stack, once
(`OneBuilder`); each unit of a stack is at its call of the one above it (`Chained`); the calls that a
unit has made are of units that are built (`CalledIsBuilt`). Hence a thread that waits, waits for a unit
in another stack, and among the units being built one calls none of them. `Acyclic` is met by the Go
models of the run. It excludes a shared Go package with an annotation whose contents
(`annotationContents`) are objects of its own classes: the package would call its factory and the factory
the package. The parts of the invariant were checked by TLC on the run `packages` before.

### Assumptions on constants

Each is named in the module that declares the constants, and a run evaluates it. `WriterAssumption`: a
generated file is not called like the manifest, only files with regions keep code of users, the
formatter is idempotent on the code of a region and does not break it. `LayersAssumption`: a layer
gives texts of tokens to keys. `ObjectsAssumption`: classes are disjoint, a resolved proxy is no proxy,
the features of a shape are valid and not volatile. `TextsAssumption`: texts are sequences
of lines. `HierarchyAssumption` and `ModuleAssumption`: the classifiers of a package are classes and
data types, its classes finitely many, none called like the package or the factory, whose files it would
share. `PackagesAssumption`: the elements that a model
refers to are in it, so that every program calls units of its own model. The hypotheses named above
(`LinesAgree`, `AliasesApart`, `SingleShape`...) are not assumptions of a module: there are command lines
and models that break them, as described for each.

### Only model-checked

- The liveness properties: `RunsEnd`, `Returns`, `CallsReturn`. TLAPS 1.4.5 proves nothing of `ENABLED`.
- The properties of `Objects`, but `LateResolution`, where a reference is many-valued: their lists are
  folded and filtered, which is induction over data. `CallsResolve` and `TestsFollowAccessors`, which range over
  all features: the run goes through every one there is.
- The properties of `Packages` on what the statements do (`NothingIsLost`, `ServedWhole`): the programs
  are made by flattening sequences.

## Where the code and its documentation part

Four are runs that expect a violation, and findings of `PROJECT.json` with the lines:

- `bare` (`UserCodeKept`): the only end marker of a file removed, the region is overwritten without an error or a
  warning (`regions.go:90`), where `regions.go:107` means to report a region without an end.
- `mappings` (`MappingsInOrder`): for `packages`, the annotation of the model overrides the command line (`lists.go:48`),
  against the order of `README.md:317`, and `-p packages=` hides the packages of a file
  (`props.go:217`), against `README.md:320`. `DocumentedOrder` says that the keys read by `Lookup` follow
  the documentation.
- `exports` (`EveryFileExported`): the files of the classes of a TypeScript sub-package are generated in the folder of the
  root package and not exported by its `internal.ts` (`view_module.go:29`), against the comment of
  `view_module.go:9`; the enums of the sub-package are.
- `tests` (`GeneratedTestsPass`): `CHANGELOG.md:157` and `:163` say that the generated tests pass on lazy
  and on volatile features. After the unsetter the test of a lazy reference reads it again, and its
  initializer panics (`view_tests.go:466`); the tests of volatile containers and volatile containment lists expect a
  panic that does not come. The body that a user writes for a volatile feature is unknown: its tests are
  taken to pass.

Others were met while modelling. They have no run: the constants of the runs keep away from them, or a
definition of the model names them as exceptions, so that the properties say there are no others.

Of the generator:

- A template with two regions of one id and different lines never settles: the index keeps the later of
  the two (`regions.go:109`), the merge gives it to both (`regions.go:69`), so that the first generation
  over its own output changes the file and `--diff` reports it although nobody edited.
- The import path `mz/i` counts as one of the module `m` (`paths.go:103`), against `paths.go:91`.
- Directories `b/c`, `y/c` and `x/b_c` in one file give one alias to two packages (`imports.go:134`).
- The classes of a sub-package with a path of its own refer to a `GetPackage` that no entry point
  generates (`paths.go:74`, `language.go`).
- The implementations of a shared TypeScript package, generated without the path of its interfaces,
  import these from their own `internal.ts`; a class that extends one of another package imports an
  implementation that the `index.ts` of that package does not export (`TSImports`, `Unexported`).

Of the generated code, by the operator that has the exceptions:

- `GoUndeclared`, `TSUndeclared`: the creator of a single unchangeable containment calls a setter that is
  not declared; with the reflective delegation, the initializer of a Go lazy `action` feature assigns a
  field that is not declared; members with reserved or renamed names are called by another name in
  `einverseadd` and `einverseremove`; a volatile unsettable TypeScript list with property accessors is
  unset by a setter it has not.
- `JoinThrows`: in TypeScript, an object that joins a lazy single reference from its other end has it read by a getter
  that throws (`einverseadd.tmpl:50`, `view_reflectives.go:194`), when the other end may have stored
  its half already; the Go code reads the field (`golang/view_reflectives.go:291`).
- `TestsFollowAccessors` leaves out the tests of lazy features of TypeScript, of which some fail as those
  of Go do.
- `Homonym`: a package that refers to another one of its own name finds its own classifiers, because the
  getters compare names (`view_package_impl.go:455`).
- `raced`: a TypeScript `getXXXAsync` assigns what a proxy resolved to after its `await`, also when
  another value was set meanwhile (`getterasync.tmpl:18`).
- `broken`: a TypeScript lazy `action` list is rebuilt at every read (`init.tmpl`), and the accessor of
  an unchangeable single feature leaves its inverse alone (`simpleset.tmpl`).

## What is not modelled

- Texts: names, types, documentation, layout, the unified diff, the parsing of property files and of XMI.
  A model of them character by character would be the code again. Where a conversion decides
  a property it is there (joined aliases, cut import paths, normalised line endings).
- The external formatter, `urfave/cli`, soft.go and soft.ts, except for what the generated code calls of
  them: reflective calls, lists, containers, inverses, meta objects.
- Cyclic inheritances, but in `ClassOrder`: the other functions of `model` recurse on them without end,
  and Ecore forbids them.
- An interface that is not abstract (Ecore forbids it), two classes whose file names are equal, a shared
  package without `module`: the assumptions of `GoFiles`.
- Operations and generics: their views only copy what the model has; the conversions of data types;
  notifications.
- What is imported from the sub-packages of a TypeScript package and loaded of them (`SubClasses = {}` in
  `ts_module`; `exports` has a sub-package, and finds its classes missing), and the name of the namespace of an
  import, which two modules may share (`modules.go:171`).

## The plan

In order of importance; the first four blocks are done.

1. Write path (`Regions`, `Writer`, `Workspace`, `Generation`, `Regeneration`), then the algorithms
   whose errors spread (`ClassOrder`, `ImportAliases`, `ClassFacts` and `Reflection`), the layers of
   properties (`Properties`), the files of the two languages (`GoFiles`, `TSModule` over `ClassOrder`).
   Proofs of the write path and its refinement, the order, the aliases and the order of the commands.
2. The generated code at work: `Features`, `Objects`, `GeneratedTests`; `PackageContents`, `Packages`.
3. The modules and the imports of TypeScript: `TSImports`.
4. Proofs of the outcome of a run, the properties, the identifiers and the files of Go, the late
   resolution, the building of packages, the regions, the loading and the imports of TypeScript modules,
   the reflection, the links of single references.
5. Operations (`EInvokeFromID`, with the tables of `Reflection`), the constants and the containers of
   `ids.go` and `class.go:155`, the line breaking of `layout.go`: it ends, and no line is longer than
   the width unless it cannot be broken.
6. Pure algorithms against reference definitions: the splitting of names, naming rules, the longest
   common subsequence and the hunks of `diff.go`, the Java properties parser, the lint of templates.

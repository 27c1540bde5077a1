------------------------------- MODULE GoFiles -------------------------------
(***************************************************************************)
(* The files the Go generator (internal/lang/golang) writes in an output   *)
(* folder: for every entry point, the files it lists, the directory and    *)
(* the Go package of each, and what the file declares and refers to in     *)
(* that package and in others.                                             *)
(*                                                                         *)
(* A model is generated by several commands: generateModel, or             *)
(* generateInterfaces once and generateImplementations once per            *)
(* implementation, then tests and mocks, in an order the user chooses.     *)
(* "project" is the set of command lines (their properties) used for one   *)
(* model and one output folder, "files" the folder and "done" what ran.    *)
(* How one file is written is the subject of Generation.                   *)
(***************************************************************************)
EXTENDS Naturals, Sequences

LOCAL INSTANCE SequencesExt

CONSTANTS
    Packages,    \* the packages of the model: the root and its sub-packages
    Root,        \* the package the entry points are called with
    Classes,     \* the classes of the root and of its sub-packages
    Interfaces,  \* the classes with interface="true"
    Abstract,    \* the classes with abstract="true"
    Enums,       \* the enums of the root and of its sub-packages
    Owner,       \* the package of a classifier
    NoModule,    \* the property module is not set
    Projects     \* the sets of command lines a folder may be generated by

ASSUME ModelAssumption ==
    /\ Root \in Packages
    /\ Interfaces \subseteq Abstract /\ Abstract \subseteq Classes
    /\ Owner \in [Classes \cup Enums -> Packages]

VARIABLES
    project,     \* the command lines of the behaviour
    files,       \* the files of the output folder
    done         \* the pairs <<entry point, command line>> that ran

vars == <<project, files, done>>

-----------------------------------------------------------------------------
(* The paths of the packages. A path "github.com/x/y/y" is its directory,  *)
(* the sequence of its characters, and the name of the package.            *)

InterfaceIndex == 1
ImplementationIndex == 2
MockIndex == 3

\* A spec "interface#implementation#mock" with missing parts: the last part
\* stands for them. A package without a spec is at "<name>/<name>".
PathAt(line, p, index) ==
    LET spec == line.specs[p] IN
    IF spec = <<>> THEN [dir |-> <<p>>, name |-> p]
    ELSE IF index > Len(spec) THEN spec[Len(spec)] ELSE spec[index]

InterfacePath(line, p) == PathAt(line, p, InterfaceIndex)
ImplementationPath(line, p) == PathAt(line, p, ImplementationIndex)
MockPath(line, p) == PathAt(line, p, MockIndex)

IsShared(line, p) ==
    /\ line.packageInstance = "interfaces"
    /\ InterfacePath(line, p) # ImplementationPath(line, p)

InstancePath(line, p) ==
    IF IsShared(line, p) THEN InterfacePath(line, p) ELSE ImplementationPath(line, p)

\* Wrong variant: every file with the interfaces.
InterfaceOutputDirectory(line, p, index) ==
    LET dir == InterfacePath(line, p).dir IN
    IF line.module = NoModule THEN <<p>>
    ELSE IF IsPrefix(line.module, dir) /\ dir # line.module
         THEN SubSeq(dir, Len(line.module) + 2, Len(dir)) ELSE <<>>

\* The directory of a package in the output folder: its import path minus the
\* module and the character after it.
OutputDirectory(line, p, index) ==
    LET dir == PathAt(line, p, index).dir IN
    IF line.module = NoModule THEN <<p>>
    ELSE IF dir = line.module THEN <<>>
    ELSE IF Len(dir) > Len(line.module) /\ IsPrefix(line.module, dir)
         THEN SubSeq(dir, Len(line.module) + 2, Len(dir))
    ELSE <<p>>

InterfaceDirectory(line, p) == OutputDirectory(line, p, InterfaceIndex)
ImplementationDirectory(line, p) == OutputDirectory(line, p, ImplementationIndex)
MockDirectory(line, p) == OutputDirectory(line, p, MockIndex)
InstanceDirectory(line, p) ==
    IF IsShared(line, p) THEN InterfaceDirectory(line, p) ELSE ImplementationDirectory(line, p)

-----------------------------------------------------------------------------
(* The files. "declares" holds the declarations that must be unique in the *)
(* Go package "pkg" of the file, "uses" the declarations <<package path,   *)
(* declaration>> it refers to.                                             *)

GoFile(dir, name, pkg, declares, uses) ==
    [path |-> <<dir, name>>,
     body |-> [pkg |-> pkg, declares |-> declares, uses |-> uses]]

Type(x) == <<"interface", x>>
Impl(x) == <<"implementation", x>>
Mock(x) == <<"mock", x>>
GetPackage == <<"singleton", "GetPackage">>
GetFactory == <<"singleton", "GetFactory">>
Install == <<"function", "Install">>

InterfaceFile(line, c) ==
    LET pkg == InterfacePath(line, Owner[c]) IN
    GoFile(InterfaceDirectory(line, Owner[c]), <<c, ".go">>, pkg, {Type(c)}, {})

EnumFile(line, e) ==
    LET pkg == InterfacePath(line, Owner[e]) IN
    GoFile(InterfaceDirectory(line, Owner[e]), <<e, ".go">>, pkg, {Type(e)}, {})

\* Wrong variant: the singletons are generated with the interfaces.
InstanceWithTheInterfaces(line, p) == TRUE

\* The singletons are generated with the interfaces when the implementation is
\* in the same Go package.
SamePackage(line, p) == ImplementationPath(line, p) = InterfacePath(line, p)

PackageInterfaceFile(line, p) ==
    LET pkg == InterfacePath(line, p)
        instance == IF SamePackage(line, p) THEN {GetPackage} ELSE {} IN
    GoFile(InterfaceDirectory(line, p), <<"package", ".go">>, pkg,
           {Type("package")} \cup instance,
           {<<pkg, Impl("package")>> : i \in instance})

FactoryInterfaceFile(line, p) ==
    LET pkg == InterfacePath(line, p)
        instance == IF SamePackage(line, p) THEN {GetFactory} ELSE {} IN
    GoFile(InterfaceDirectory(line, p), <<"factory", ".go">>, pkg,
           {Type("factory")} \cup instance,
           {<<pkg, Impl("factory")>> : i \in instance})

ImplementationFile(line, c) ==
    LET p == Owner[c]
        pkg == ImplementationPath(line, p) IN
    GoFile(ImplementationDirectory(line, p), <<c, "_impl.go">>, pkg, {Impl(c)},
           {<<InterfacePath(line, p), Type(c)>>, <<InstancePath(line, p), GetPackage>>})

\* Wrong variant: the instance is left to the interface file of a shared package.
PackageWithoutInstance(line, p) ==
    LET pkg == InstancePath(line, p)
        factory == IF IsShared(line, p) THEN Impl("factory") ELSE GetFactory IN
    GoFile(InstanceDirectory(line, p), <<"package", "_impl.go">>, pkg,
           {Impl("package")} \cup (IF InterfacePath(line, p) # pkg THEN {GetPackage} ELSE {}),
           {<<InterfacePath(line, p), Type("package")>>, <<pkg, factory>>})

\* The package of an unshared package takes the factory of the same Go package,
\* a shared one makes the factory of its data types.
PackageImplementationFile(line, p) ==
    LET pkg == InstancePath(line, p)
        shared == IsShared(line, p) IN
    GoFile(InstanceDirectory(line, p), <<"package", "_impl.go">>, pkg,
           {Impl("package")}
               \cup (IF InterfacePath(line, p) # pkg \/ shared THEN {GetPackage} ELSE {}),
           {<<InterfacePath(line, p), Type("package")>>,
            <<pkg, IF shared THEN Impl("factory") ELSE GetFactory>>})

\* generateFactory: the factory of the data types of a shared package is with
\* the interfaces, the factory of an implementation with the implementation.
FactoryFile(line, p, dataTypesOnly) ==
    LET pkg == IF dataTypesOnly THEN InterfacePath(line, p) ELSE ImplementationPath(line, p)
        dir == IF dataTypesOnly THEN InterfaceDirectory(line, p)
                                ELSE ImplementationDirectory(line, p)
        shared == IsShared(line, p)
        install == shared /\ ~dataTypesOnly
        concrete == Classes \ Abstract IN
    GoFile(dir, <<"factory", "_impl.go">>, pkg,
           {Impl("factory")}
               \cup (IF InterfacePath(line, p) # pkg THEN {GetFactory} ELSE {})
               \cup (IF install THEN {Install} ELSE {}),
           (IF install THEN {<<InstancePath(line, p), GetPackage>>, <<pkg, GetFactory>>} ELSE {})
           \cup (IF dataTypesOnly THEN {}
                 ELSE {<<InterfacePath(line, p), Type("factory")>>}
                      \cup {<<ImplementationPath(line, Owner[c]), Impl(c)>> : c \in concrete}))

FactoryImplementationFile(line, p) == FactoryFile(line, p, FALSE)
DataTypeFactoryFile(line, p) == FactoryFile(line, p, TRUE)

MockFile(line, c) ==
    LET p == Owner[c] IN
    GoFile(MockDirectory(line, p), <<c, "_mock.go">>, MockPath(line, p), {Mock(c)}, {})

\* Wrong variant: the test of a mock takes the name of the file of the mock.
MockTestAsTheMock(line, c) ==
    LET p == Owner[c]
        pkg == MockPath(line, p) IN
    GoFile(MockDirectory(line, p), <<c, "_mock.go">>, pkg, {}, {<<pkg, Mock(c)>>})

MockTestFile(line, c) ==
    LET p == Owner[c]
        pkg == MockPath(line, p) IN
    GoFile(MockDirectory(line, p), <<c, "_mock_test.go">>, pkg, {}, {<<pkg, Mock(c)>>})

ImplementationTestFile(line, c) ==
    LET p == Owner[c]
        pkg == ImplementationPath(line, p) IN
    GoFile(ImplementationDirectory(line, p), <<c, "_impl_test.go">>, pkg, {},
           {<<pkg, Impl(c)>>, <<MockPath(line, p), Mock(c)>>})

FactoryTestFile(line, p) ==
    LET pkg == ImplementationPath(line, p) IN
    GoFile(ImplementationDirectory(line, p), <<"factory", "_impl_test.go">>, pkg, {},
           {<<pkg, Impl("factory")>>})

PackageTestFile(line, p) ==
    LET pkg == InstancePath(line, p) IN
    GoFile(InstanceDirectory(line, p), <<"package", "_impl_test.go">>, pkg, {},
           {<<pkg, GetPackage>>})

-----------------------------------------------------------------------------
(* The entry points. *)

EntryPoints == {"generateModel", "generateInterfaces", "generateImplementations",
                "generateTests", "generateMocks", "generateMocksTests"}

Implemented == Classes \ Interfaces

InterfaceFiles(line) ==
    {InterfaceFile(line, c) : c \in Classes} \cup {EnumFile(line, e) : e \in Enums}
    \cup {PackageInterfaceFile(line, Root), FactoryInterfaceFile(line, Root)}

ImplementationFiles(line) == {ImplementationFile(line, c) : c \in Implemented}

generateModel(line) ==
    InterfaceFiles(line) \cup ImplementationFiles(line)
    \cup {PackageImplementationFile(line, Root), FactoryImplementationFile(line, Root)}
    \cup (IF IsShared(line, Root) THEN {DataTypeFactoryFile(line, Root)} ELSE {})

generateInterfaces(line) ==
    InterfaceFiles(line)
    \cup (IF IsShared(line, Root)
          THEN {PackageImplementationFile(line, Root), DataTypeFactoryFile(line, Root)}
          ELSE {})

\* Wrong variant: the package is always generated with the interfaces.
ImplementationsWithoutPackage(line) ==
    ImplementationFiles(line) \cup {FactoryImplementationFile(line, Root)}

generateImplementations(line) ==
    ImplementationFiles(line)
    \cup {FactoryImplementationFile(line, Root)}
    \cup (IF IsShared(line, Root) THEN {} ELSE {PackageImplementationFile(line, Root)})

generateTests(line) ==
    {ImplementationTestFile(line, c) : c \in Implemented}
    \cup {FactoryTestFile(line, Root), PackageTestFile(line, Root)}

generateMocks(line) == {MockFile(line, c) : c \in Classes}

generateMocksTests(line) == {MockTestFile(line, c) : c \in Classes}

FilesOf(ep, line) ==
    CASE ep = "generateModel" -> generateModel(line)
      [] ep = "generateInterfaces" -> generateInterfaces(line)
      [] ep = "generateImplementations" -> generateImplementations(line)
      [] ep = "generateTests" -> generateTests(line)
      [] ep = "generateMocks" -> generateMocks(line)
      [] ep = "generateMocksTests" -> generateMocksTests(line)

-----------------------------------------------------------------------------
PathsOf(fs) == {f.path : f \in fs}

\* A file replaces the one at its path.
Written(fs) == {f \in files : f.path \notin PathsOf(fs)} \cup fs

Init ==
    /\ project \in Projects
    /\ files = {}
    /\ done = {}

\* A run of the generator with one entry point.
Generate(ep, line) ==
    /\ files' = Written(FilesOf(ep, line))
    /\ done' = done \cup {<<ep, line>>}
    /\ UNCHANGED project

Next == \E ep \in EntryPoints, line \in project : Generate(ep, line)

Spec == Init /\ [][Next]_vars

-----------------------------------------------------------------------------
(* Properties *)

TypeOK ==
    /\ project \in Projects
    /\ done \subseteq EntryPoints \X project
    /\ files \subseteq UNION {FilesOf(ep, line) : ep \in EntryPoints, line \in project}

\* No run writes one path twice: in the folder a path names one file, so no
\* file the generator lists is lost under another one (writer.go overwrites).
OneFilePerPath == \A f, g \in files : f.path = g.path => f = g

\* The Go compiler takes the files of a directory as one package: all the files of
\* a directory are in the Go package they were generated for and, with a module,
\* all the files of a package are in one directory.
PackagesAreDirectories ==
    \A f, g \in files :
        /\ f.path[1] = g.path[1] => f.body.pkg = g.body.pkg
        /\ f.body.pkg = g.body.pkg =>
               f.path[1] = g.path[1] \/ \E line \in project : line.module = NoModule

\* A Go package declares a name once: the interface files and the implementation
\* files never both hold GetPackage, GetFactory or the factory implementation,
\* whichever commands ran, and no file is lost under another one of its path.
DeclaredOnce ==
    /\ OneFilePerPath
    /\ \A f, g \in files :
           f # g /\ f.body.pkg = g.body.pkg => f.body.declares \cap g.body.declares = {}

\* The interfaces and the implementations of a command line were generated.
IsGenerated(line) ==
    \/ <<"generateModel", line>> \in done
    \/ {<<"generateInterfaces", line>>, <<"generateImplementations", line>>} \subseteq done

Declared == UNION {{<<f.body.pkg, d>> : d \in f.body.declares} : f \in files}

\* The tests and the mocks of a command line were generated too.
IsTested(line) ==
    /\ IsGenerated(line)
    /\ {<<"generateTests", line>>, <<"generateMocks", line>>, <<"generateMocksTests", line>>} \subseteq done

\* Once the interfaces and the implementations of a command line are generated,
\* in whatever order and among the runs of other implementations, every name
\* their files refer to is declared in the Go package they look for it in: the
\* one GetPackage of the package instance, the factory of the package, the
\* implementations the factory creates. The tests and the mocks resolve too, once
\* they are all generated.
ReferencesResolve ==
    \A line \in project : \A f \in files :
        \/ IsGenerated(line) /\ f \in generateModel(line)
        \/ IsTested(line) /\ f \in generateTests(line) \cup generateMocksTests(line)
        => f.body.uses \subseteq Declared

\* "generateInterfaces once, then generateImplementations once per
\* implementation": the two give what generateModel gives.
SplitIsWhole ==
    \A line \in project :
        generateInterfaces(line) \cup generateImplementations(line) = generateModel(line)

\* The folder holds the files of the commands that ran, whatever their order: no
\* run changes or loses what another one wrote, for another implementation or
\* for the interfaces.
OrderDoesNotMatter ==
    files = UNION {FilesOf(run[1], run[2]) : run \in done}

\* Two commands of one project that list the same path list the same file: what
\* distinct implementation paths under the module give.
LinesAgree ==
    \A prj \in Projects : \A l, m \in prj, e, d \in EntryPoints :
        \A f \in FilesOf(e, l), g \in FilesOf(d, m) : f.path = g.path => f = g
=============================================================================

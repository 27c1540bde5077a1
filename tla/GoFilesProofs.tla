---------------------------- MODULE GoFilesProofs ----------------------------
(***************************************************************************)
(* Theorems about the files of the Go generator, for every model, every    *)
(* command line and every order of the commands, and about the scope of    *)
(* one file, for every set of package paths.                               *)
(***************************************************************************)
EXTENDS ImportAliases, GoFiles, FiniteSetTheorems, SequenceTheorems, TLAPS

LOCAL INSTANCE SequencesExt

\* Generating the interfaces and then an implementation, each by its entry point,
\* lists exactly the files generateModel lists (language.go modelFiles,
\* interfaceFiles, implementationFiles): nothing is left to generateModel alone.
LEMMA SplitLine ==
    ASSUME NEW line
    PROVE  generateInterfaces(line) \cup generateImplementations(line) = generateModel(line)
<1>1. CASE IsShared(line, Root)
  BY <1>1, Zenon DEF generateInterfaces, generateImplementations, generateModel
<1>2. CASE ~IsShared(line, Root)
  BY <1>2, Zenon DEF generateInterfaces, generateImplementations, generateModel
<1> QED BY <1>1, <1>2

\* The split of the documentation is whole in every behaviour.
THEOREM SplitAlwaysWhole == Spec => []SplitIsWhole
<1>1. SplitIsWhole
  BY SplitLine DEF SplitIsWhole
<1> QED BY <1>1, PTL

\* The files of the folder always are files of the entry points and the command
\* lines of the behaviour (run.go Run writes what Files lists, nothing else).
THEOREM TypeCorrect == Spec => []TypeOK
<1>1. Init => TypeOK
  BY DEF Init, TypeOK
<1>2. TypeOK /\ [Next]_vars => TypeOK'
  <2> SUFFICES ASSUME TypeOK, [Next]_vars PROVE TypeOK'
    OBVIOUS
  <2>1. ASSUME NEW ep \in EntryPoints, NEW line \in project, Generate(ep, line)
        PROVE  TypeOK'
    <3>1. project' = project
      BY <2>1 DEF Generate
    <3>2. files' \subseteq UNION {FilesOf(e, l) : e \in EntryPoints, l \in project}
      BY <2>1 DEF Generate, Written, TypeOK
    <3>3. done' \subseteq EntryPoints \X project
      BY <2>1 DEF Generate, TypeOK
    <3> QED BY <3>1, <3>2, <3>3 DEF TypeOK
  <2>2. CASE UNCHANGED vars
    BY <2>2 DEF vars, TypeOK
  <2> QED BY <2>1, <2>2 DEF Next
<1> QED BY <1>1, <1>2, PTL DEF Spec
-----------------------------------------------------------------------------
(* The order of the commands. *)

\* A written set of files replaces only files equal to one of its own.
LEMMA WrittenAdds ==
    ASSUME TypeOK, LinesAgree, NEW ep \in EntryPoints, NEW line \in project
    PROVE  Written(FilesOf(ep, line)) = files \cup FilesOf(ep, line)
<1> DEFINE fs == FilesOf(ep, line)
<1>1. ASSUME NEW f \in files, f.path \in PathsOf(fs)
      PROVE  f \in fs
  <2>1. PICK g \in fs : f.path = g.path
    BY <1>1 DEF PathsOf
  <2>2. PICK e \in EntryPoints, l \in project : f \in FilesOf(e, l)
    BY <1>1 DEF TypeOK
  <2>3. project \in Projects
    BY DEF TypeOK
  <2>4. f = g
    BY <2>1, <2>2, <2>3 DEF LinesAgree
  <2> QED BY <2>1, <2>4
<1> HIDE DEF fs
<1>2. Written(fs) = files \cup fs
  BY <1>1 DEF Written
<1> QED BY <1>2 DEF fs

\* When the command lines of a project agree on the paths they share, the folder
\* is the union of what the commands list, whatever their number and their order,
\* and it holds one file per path (writer.go Write overwrites a file).
THEOREM OrderNeverMatters ==
    ASSUME LinesAgree
    PROVE  Spec => [](OrderDoesNotMatter /\ OneFilePerPath)
<1> DEFINE Inv == TypeOK /\ OrderDoesNotMatter
<1>1. Init => OrderDoesNotMatter
  BY DEF Init, OrderDoesNotMatter
<1>2. Inv /\ [Next]_vars => OrderDoesNotMatter'
  <2> SUFFICES ASSUME TypeOK, OrderDoesNotMatter, [Next]_vars PROVE OrderDoesNotMatter'
    OBVIOUS
  <2>1. ASSUME NEW ep \in EntryPoints, NEW line \in project, Generate(ep, line)
        PROVE  OrderDoesNotMatter'
    <3> DEFINE Of(run) == FilesOf(run[1], run[2])
               run0 == <<ep, line>>
    <3>1. files' = files \cup FilesOf(ep, line)
      BY <2>1, WrittenAdds DEF Generate
    <3>2. done' = done \cup {run0}
      BY <2>1 DEF Generate
    <3>3. Of(run0) = FilesOf(ep, line)
      OBVIOUS
    <3>4. files = UNION {Of(run) : run \in done}
      BY DEF OrderDoesNotMatter
    <3> HIDE DEF Of, run0
    <3>5. files' = UNION {Of(run) : run \in done'}
      BY <3>1, <3>2, <3>3, <3>4
    <3> QED BY <3>5 DEF OrderDoesNotMatter, Of
  <2>2. CASE UNCHANGED vars
    BY <2>2 DEF vars, OrderDoesNotMatter
  <2> QED BY <2>1, <2>2 DEF Next
<1>3. TypeOK => OneFilePerPath
  <2> SUFFICES ASSUME TypeOK, NEW f \in files, NEW g \in files, f.path = g.path
               PROVE  f = g
    BY DEF OneFilePerPath
  <2>1. project \in Projects
    BY DEF TypeOK
  <2>2. PICK e \in EntryPoints, l \in project : f \in FilesOf(e, l)
    BY DEF TypeOK
  <2>3. PICK d \in EntryPoints, m \in project : g \in FilesOf(d, m)
    BY DEF TypeOK
  <2> QED BY <2>1, <2>2, <2>3 DEF LinesAgree
<1> QED BY <1>1, <1>2, <1>3, TypeCorrect, PTL DEF Spec
-----------------------------------------------------------------------------
(* The references. *)

\* The classes of a sub-package find GetPackage where the one package instance is:
\* their implementations call the GetPackage of their own package (paths.go
\* PackageInstancePath), and only the root's instance is generated.
OneInstance ==
    \A prj \in Projects : \A line \in prj : \A c \in Classes :
        InstancePath(line, Owner[c]) = InstancePath(line, Root)

\* What a set of files declares.
DeclaredBy(fs) == UNION {{<<f.body.pkg, d>> : d \in f.body.declares} : f \in fs}

\* A file of a set declares its names in its package.
LEMMA Declares ==
    ASSUME NEW fs, NEW f \in fs, NEW d \in f.body.declares
    PROVE  <<f.body.pkg, d>> \in DeclaredBy(fs)
BY DEF DeclaredBy

\* One package instance and one factory are declared where the instance and the
\* implementation of the root are, in the interface file or the implementation
\* file (view_package_interface.go, view_package_impl.go, view_factory.go).
LEMMA Singletons ==
    ASSUME NEW line
    PROVE  /\ <<InstancePath(line, Root), GetPackage>> \in DeclaredBy(generateModel(line))
           /\ <<ImplementationPath(line, Root), GetFactory>> \in DeclaredBy(generateModel(line))
           /\ <<InstancePath(line, Root), Impl("package")>> \in DeclaredBy(generateModel(line))
           /\ <<ImplementationPath(line, Root), Impl("factory")>> \in DeclaredBy(generateModel(line))
           /\ IsShared(line, Root) =>
                  <<InstancePath(line, Root), Impl("factory")>> \in DeclaredBy(generateModel(line))
<1> DEFINE fs == generateModel(line)
           pi == PackageInterfaceFile(line, Root)
           fi == FactoryInterfaceFile(line, Root)
           pp == PackageImplementationFile(line, Root)
           ff == FactoryImplementationFile(line, Root)
<1>1. pi \in fs /\ fi \in fs /\ pp \in fs /\ ff \in fs
  BY DEF generateModel, InterfaceFiles
<1>2. pi.body.pkg = InterfacePath(line, Root) /\ fi.body.pkg = InterfacePath(line, Root)
  BY DEF PackageInterfaceFile, FactoryInterfaceFile, GoFile
<1>3. pp.body.pkg = InstancePath(line, Root) /\ ff.body.pkg = ImplementationPath(line, Root)
  BY DEF PackageImplementationFile, FactoryImplementationFile, FactoryFile, GoFile
<1>4. SamePackage(line, Root) => GetPackage \in pi.body.declares /\ GetFactory \in fi.body.declares
  BY DEF PackageInterfaceFile, FactoryInterfaceFile, GoFile
<1>5. /\ Impl("package") \in pp.body.declares
      /\ ~SamePackage(line, Root) => GetPackage \in pp.body.declares
  BY DEF PackageImplementationFile, GoFile, SamePackage, InstancePath
<1>6. /\ Impl("factory") \in ff.body.declares
      /\ ~SamePackage(line, Root) => GetFactory \in ff.body.declares
  BY DEF FactoryImplementationFile, FactoryFile, GoFile, SamePackage
<1>7. SamePackage(line, Root) =>
          /\ ~IsShared(line, Root)
          /\ InterfacePath(line, Root) = InstancePath(line, Root)
          /\ InterfacePath(line, Root) = ImplementationPath(line, Root)
  BY DEF SamePackage, InstancePath, IsShared
<1>8. ASSUME IsShared(line, Root)
      PROVE  <<InstancePath(line, Root), Impl("factory")>> \in DeclaredBy(fs)
  <2> DEFINE df == DataTypeFactoryFile(line, Root)
  <2>1. df \in fs
    BY <1>8 DEF generateModel
  <2>2. df.body.pkg = InstancePath(line, Root) /\ Impl("factory") \in df.body.declares
    BY <1>8 DEF DataTypeFactoryFile, FactoryFile, GoFile, InstancePath
  <2> HIDE DEF df, fs
  <2> QED BY <2>1, <2>2, Declares
<1> HIDE DEF fs, pi, fi, pp, ff
<1>9. <<InstancePath(line, Root), GetPackage>> \in DeclaredBy(fs)
  BY <1>1, <1>2, <1>3, <1>4, <1>5, <1>7, Declares
<1>10. <<ImplementationPath(line, Root), GetFactory>> \in DeclaredBy(fs)
  BY <1>1, <1>2, <1>3, <1>4, <1>6, <1>7, Declares
<1>11. /\ <<InstancePath(line, Root), Impl("package")>> \in DeclaredBy(fs)
       /\ <<ImplementationPath(line, Root), Impl("factory")>> \in DeclaredBy(fs)
  BY <1>1, <1>3, <1>5, <1>6, Declares
<1> QED BY <1>8, <1>9, <1>10, <1>11 DEF fs

\* Every class has its interface, every class that is not an interface its
\* implementation, every class its mock (language.go modelFiles, mockFiles).
LEMMA ClassesDeclared ==
    ASSUME NEW line, NEW c \in Classes
    PROVE  /\ <<InterfacePath(line, Owner[c]), Type(c)>> \in DeclaredBy(generateModel(line))
           /\ c \in Implemented =>
                  <<ImplementationPath(line, Owner[c]), Impl(c)>> \in DeclaredBy(generateModel(line))
           /\ <<MockPath(line, Owner[c]), Mock(c)>> \in DeclaredBy(generateMocks(line))
<1> DEFINE fs == generateModel(line)
           ms == generateMocks(line)
           i == InterfaceFile(line, c)
           m == MockFile(line, c)
<1>1. i \in fs /\ i.body.pkg = InterfacePath(line, Owner[c]) /\ Type(c) \in i.body.declares
  BY DEF generateModel, InterfaceFiles, InterfaceFile, GoFile
<1>2. m \in ms /\ m.body.pkg = MockPath(line, Owner[c]) /\ Mock(c) \in m.body.declares
  BY DEF generateMocks, MockFile, GoFile
<1>3. ASSUME c \in Implemented
      PROVE  <<ImplementationPath(line, Owner[c]), Impl(c)>> \in DeclaredBy(fs)
  <2> DEFINE f == ImplementationFile(line, c)
  <2>1. f \in fs
    BY <1>3 DEF generateModel, ImplementationFiles
  <2>2. f.body.pkg = ImplementationPath(line, Owner[c]) /\ Impl(c) \in f.body.declares
    BY DEF ImplementationFile, GoFile
  <2> HIDE DEF f, fs
  <2> QED BY <2>1, <2>2, Declares
<1> HIDE DEF fs, ms, i, m
<1>4. /\ <<InterfacePath(line, Owner[c]), Type(c)>> \in DeclaredBy(fs)
      /\ <<MockPath(line, Owner[c]), Mock(c)>> \in DeclaredBy(ms)
  BY <1>1, <1>2, Declares
<1> QED BY <1>3, <1>4 DEF fs, ms

\* What the files of a model refer to, its files declare.
LEMMA ModelResolves ==
    ASSUME OneInstance, NEW prj \in Projects, NEW line \in prj, NEW f \in generateModel(line)
    PROVE  f.body.uses \subseteq DeclaredBy(generateModel(line))
<1> DEFINE D == DeclaredBy(generateModel(line))
<1>1. CASE f \in InterfaceFiles(line)
  <2>1. ASSUME NEW x, f = InterfaceFile(line, x) \/ f = EnumFile(line, x)
        PROVE  f.body.uses = {}
    BY <2>1 DEF InterfaceFile, EnumFile, GoFile
  <2>2. SamePackage(line, Root) =>
            /\ InterfacePath(line, Root) = InstancePath(line, Root)
            /\ InterfacePath(line, Root) = ImplementationPath(line, Root)
    BY DEF SamePackage, InstancePath
  <2>3. CASE f = PackageInterfaceFile(line, Root)
    <3>1. f.body.uses = {<<InterfacePath(line, Root), Impl("package")>> :
                            i \in IF SamePackage(line, Root) THEN {GetPackage} ELSE {}}
      BY <2>3 DEF PackageInterfaceFile, GoFile
    <3> QED BY <3>1, <2>2, Singletons
  <2>4. CASE f = FactoryInterfaceFile(line, Root)
    <3>1. f.body.uses = {<<InterfacePath(line, Root), Impl("factory")>> :
                            i \in IF SamePackage(line, Root) THEN {GetFactory} ELSE {}}
      BY <2>4 DEF FactoryInterfaceFile, GoFile
    <3> QED BY <3>1, <2>2, Singletons
  <2> QED BY <1>1, <2>1, <2>3, <2>4 DEF InterfaceFiles
<1>2. CASE f \in ImplementationFiles(line)
  <2>1. PICK c \in Implemented : f = ImplementationFile(line, c)
    BY <1>2 DEF ImplementationFiles
  <2>2. c \in Classes
    BY DEF Implemented
  <2>3. f.body.uses = {<<InterfacePath(line, Owner[c]), Type(c)>>,
                       <<InstancePath(line, Owner[c]), GetPackage>>}
    BY <2>1 DEF ImplementationFile, GoFile
  <2>4. InstancePath(line, Owner[c]) = InstancePath(line, Root)
    BY <2>2 DEF OneInstance
  <2> QED BY <2>2, <2>3, <2>4, Singletons, ClassesDeclared
<1> DEFINE it == InterfacePath(line, Root)
<1>3. <<it, Type("package")>> \in D /\ <<it, Type("factory")>> \in D
  <2> DEFINE fs == generateModel(line)
             p == PackageInterfaceFile(line, Root)
             g == FactoryInterfaceFile(line, Root)
  <2>1. p \in fs /\ g \in fs
    BY DEF generateModel, InterfaceFiles
  <2>2. /\ p.body.pkg = it /\ Type("package") \in p.body.declares
        /\ g.body.pkg = it /\ Type("factory") \in g.body.declares
    BY DEF PackageInterfaceFile, FactoryInterfaceFile, GoFile
  <2> HIDE DEF fs, p, g, it
  <2>3. <<it, Type("package")>> \in DeclaredBy(fs) /\ <<it, Type("factory")>> \in DeclaredBy(fs)
    BY <2>1, <2>2, Declares
  <2> QED BY <2>3 DEF fs
<1>4. CASE f = PackageImplementationFile(line, Root)
  <2>1. f.body.uses = {<<it, Type("package")>>,
                       <<InstancePath(line, Root),
                         IF IsShared(line, Root) THEN Impl("factory") ELSE GetFactory>>}
    BY <1>4 DEF PackageImplementationFile, GoFile
  <2>2. ~IsShared(line, Root) => InstancePath(line, Root) = ImplementationPath(line, Root)
    BY DEF InstancePath
  <2> QED BY <2>1, <2>2, <1>3, Singletons
<1>5. CASE f = FactoryImplementationFile(line, Root)
  <2> DEFINE concrete == Classes \ Abstract
             of == ImplementationPath(line, Root)
  <2>1. f.body.uses \subseteq
            {<<InstancePath(line, Root), GetPackage>>, <<of, GetFactory>>, <<it, Type("factory")>>}
            \cup {<<ImplementationPath(line, Owner[c]), Impl(c)>> : c \in concrete}
    BY <1>5 DEF FactoryImplementationFile, FactoryFile, GoFile
  <2>2. ASSUME NEW c \in concrete
        PROVE  <<ImplementationPath(line, Owner[c]), Impl(c)>> \in D
    <3>1. c \in Implemented /\ c \in Classes
      BY ModelAssumption DEF Implemented
    <3> QED BY <3>1, ClassesDeclared
  <2> QED BY <2>1, <2>2, <1>3, Singletons
<1>6. CASE f = DataTypeFactoryFile(line, Root) /\ IsShared(line, Root)
  <2>1. f.body.uses = {}
    BY <1>6 DEF DataTypeFactoryFile, FactoryFile, GoFile
  <2> QED BY <2>1
<1>7. \/ f \in InterfaceFiles(line) \cup ImplementationFiles(line)
      \/ f = PackageImplementationFile(line, Root)
      \/ f = FactoryImplementationFile(line, Root)
      \/ f = DataTypeFactoryFile(line, Root) /\ IsShared(line, Root)
  <2>1. f \in generateModel(line)
    OBVIOUS
  <2>2. \/ f \in InterfaceFiles(line) \cup ImplementationFiles(line)
        \/ f \in {PackageImplementationFile(line, Root), FactoryImplementationFile(line, Root)}
        \/ f \in IF IsShared(line, Root) THEN {DataTypeFactoryFile(line, Root)} ELSE {}
    BY <2>1, Zenon DEF generateModel
  <2>3. f \in (IF IsShared(line, Root) THEN {DataTypeFactoryFile(line, Root)} ELSE {})
            => f = DataTypeFactoryFile(line, Root) /\ IsShared(line, Root)
    OBVIOUS
  <2>4. f \in {PackageImplementationFile(line, Root), FactoryImplementationFile(line, Root)}
            => \/ f = PackageImplementationFile(line, Root)
               \/ f = FactoryImplementationFile(line, Root)
    BY Zenon
  <2> QED BY <2>2, <2>3, <2>4, Zenon
<1> QED BY <1>1, <1>2, <1>4, <1>5, <1>6, <1>7

\* What the tests refer to, the files of the model and the mocks declare.
LEMMA TestsResolve ==
    ASSUME NEW line, NEW f \in generateTests(line) \cup generateMocksTests(line)
    PROVE  f.body.uses \subseteq DeclaredBy(generateModel(line) \cup generateMocks(line))
<1> DEFINE D == DeclaredBy(generateModel(line) \cup generateMocks(line))
<1>1. DeclaredBy(generateModel(line)) \subseteq D /\ DeclaredBy(generateMocks(line)) \subseteq D
  BY DEF DeclaredBy
<1> HIDE DEF D
<1>2. ASSUME NEW c \in Implemented, f = ImplementationTestFile(line, c)
      PROVE  f.body.uses \subseteq D
  <2>1. f.body.uses = {<<ImplementationPath(line, Owner[c]), Impl(c)>>,
                       <<MockPath(line, Owner[c]), Mock(c)>>}
    BY <1>2 DEF ImplementationTestFile, GoFile
  <2>2. c \in Classes
    BY DEF Implemented
  <2> QED BY <2>1, <2>2, <1>1, ClassesDeclared
<1>3. ASSUME f = FactoryTestFile(line, Root)
      PROVE  f.body.uses \subseteq D
  <2>1. f.body.uses = {<<ImplementationPath(line, Root), Impl("factory")>>}
    BY <1>3 DEF FactoryTestFile, GoFile
  <2>2. <<ImplementationPath(line, Root), Impl("factory")>> \in DeclaredBy(generateModel(line))
    BY Singletons
  <2> QED BY <2>1, <2>2, <1>1
<1>4. ASSUME f = PackageTestFile(line, Root)
      PROVE  f.body.uses \subseteq D
  <2>1. f.body.uses = {<<InstancePath(line, Root), GetPackage>>}
    BY <1>4 DEF PackageTestFile, GoFile
  <2>2. <<InstancePath(line, Root), GetPackage>> \in DeclaredBy(generateModel(line))
    BY Singletons
  <2> QED BY <2>1, <2>2, <1>1
<1>5. ASSUME NEW c \in Classes, f = MockTestFile(line, c)
      PROVE  f.body.uses \subseteq D
  <2>1. f.body.uses = {<<MockPath(line, Owner[c]), Mock(c)>>}
    BY <1>5 DEF MockTestFile, GoFile
  <2> QED BY <2>1, <1>1, ClassesDeclared
<1>6. f.body.uses \subseteq D
  <2>1. CASE f \in generateTests(line)
    <3>1. \/ \E c \in Implemented : f = ImplementationTestFile(line, c)
          \/ f = FactoryTestFile(line, Root) \/ f = PackageTestFile(line, Root)
      BY <2>1, Zenon DEF generateTests
    <3> QED BY <3>1, <1>2, <1>3, <1>4
  <2>2. CASE f \in generateMocksTests(line)
    <3>1. \E c \in Classes : f = MockTestFile(line, c)
      BY <2>2, Zenon DEF generateMocksTests
    <3> QED BY <3>1, <1>5
  <2> QED BY <2>1, <2>2
<1> QED BY <1>6 DEF D

\* Once the interfaces and the implementations of a command line are generated, in
\* any order and among the runs of any other command lines that agree with it on
\* the paths they share, every name their files refer to is declared where they
\* look for it, provided the sub-packages find the one package instance.
THEOREM NoReferenceDangles ==
    ASSUME LinesAgree, OneInstance
    PROVE  Spec => []ReferencesResolve
<1>1. TypeOK /\ OrderDoesNotMatter => ReferencesResolve
  <2> SUFFICES ASSUME TypeOK, OrderDoesNotMatter, NEW line \in project, NEW f \in files,
                      \/ IsGenerated(line) /\ f \in generateModel(line)
                      \/ IsTested(line) /\ f \in generateTests(line) \cup generateMocksTests(line)
               PROVE  f.body.uses \subseteq Declared
    BY DEF ReferencesResolve
  <2>1. ASSUME NEW run \in done
        PROVE  FilesOf(run[1], run[2]) \subseteq files
    BY <2>1 DEF OrderDoesNotMatter
  <2>2. ASSUME NEW ep, <<ep, line>> \in done
        PROVE  FilesOf(ep, line) \subseteq files
    BY <2>1, <2>2
  <2>3. project \in Projects
    BY DEF TypeOK
  <2>4. IsGenerated(line)
    BY DEF IsTested
  <2>5. generateModel(line) \subseteq files
    <3>1. CASE <<"generateModel", line>> \in done
      BY <3>1, <2>2 DEF FilesOf
    <3>2. CASE <<"generateInterfaces", line>> \in done /\ <<"generateImplementations", line>> \in done
      <4>1. FilesOf("generateInterfaces", line) = generateInterfaces(line)
        BY DEF FilesOf
      <4>2. FilesOf("generateImplementations", line) = generateImplementations(line)
        BY DEF FilesOf
      <4> QED BY <3>2, <4>1, <4>2, <2>2, SplitLine
    <3> QED BY <2>4, <3>1, <3>2 DEF IsGenerated
  <2>6. ASSUME NEW fs, fs \subseteq files
        PROVE  DeclaredBy(fs) \subseteq Declared
    BY <2>6 DEF DeclaredBy, Declared
  <2>7. CASE f \in generateModel(line)
    BY <2>3, <2>5, <2>6, <2>7, ModelResolves
  <2>8. CASE IsTested(line) /\ f \in generateTests(line) \cup generateMocksTests(line)
    <3>1. FilesOf("generateMocks", line) = generateMocks(line)
      BY DEF FilesOf
    <3>2. generateMocks(line) \subseteq files
      BY <2>2, <2>8, <3>1 DEF IsTested
    <3>3. DeclaredBy(generateModel(line) \cup generateMocks(line)) \subseteq Declared
      BY <2>5, <2>6, <3>2
    <3> QED BY <2>8, <3>3, TestsResolve
  <2> QED BY <2>7, <2>8
<1> QED BY <1>1, TypeCorrect, OrderNeverMatters, PTL
-----------------------------------------------------------------------------
(* The places of the files. *)

\* The command lines of a project have one module and, for the root, one package
\* of interfaces ("generateInterfaces once").
OneModule ==
    \A prj \in Projects : \A l, m \in prj :
        /\ l.module = m.module
        /\ InterfacePath(l, Root) = InterfacePath(m, Root)

\* No classifier has the file names of the package and its factory.
ReservedNames == {"package", "factory"} \cap (Classes \cup Enums) = {}

\* A path under the module.
Under(module, dir) ==
    LET from == Len(module) + 1 IN
    Len(dir) > from /\ SubSeq(dir, 1, from) = Append(module, "/")

\* What two packages of two lines have: with a module their directories are at or
\* under it and tell the packages apart, without one a package has one path.
PathsApart(l, m, p, q, i, j) ==
    LET path == PathAt(l, p, i) IN
    IF l.module = NoModule
    THEN path = PathAt(m, p, j)
    ELSE /\ l.module \in Seq(STRING) /\ path.dir \in Seq(STRING)
         /\ path.dir = l.module \/ Under(l.module, path.dir)
         /\ path.dir = PathAt(m, q, j).dir => path = PathAt(m, q, j)

\* The import path of a package is the module or a path under the module, and the
\* packages of one directory have one name; without a module, where directories
\* are names, a package has one path (paths.go OutputDirectory).
PathsUnderModule ==
    \A prj \in Projects : \A l, m \in prj :
        \A p, q \in Packages, i, j \in {InterfaceIndex, ImplementationIndex, MockIndex} :
            PathsApart(l, m, p, q, i, j)

\* The files a command line may generate.
AllFiles(line) == UNION {FilesOf(ep, line) : ep \in EntryPoints}

\* A file of an entry point is one of the files its line lists.
LEMMA ListedFiles ==
    ASSUME NEW line, NEW f \in AllFiles(line)
    PROVE  f \in InterfaceFiles(line) \cup ImplementationFiles(line)
                \cup {PackageImplementationFile(line, Root), FactoryImplementationFile(line, Root)}
                \cup (IF IsShared(line, Root) THEN {DataTypeFactoryFile(line, Root)} ELSE {})
                \cup generateTests(line) \cup generateMocks(line) \cup generateMocksTests(line)
<1> DEFINE all == generateModel(line) \cup generateTests(line) \cup generateMocks(line)
                      \cup generateMocksTests(line)
<1>1. PICK ep \in EntryPoints : f \in FilesOf(ep, line)
  BY DEF AllFiles
<1>2. ep = "generateModel" => f \in all
  BY <1>1 DEF FilesOf
<1>3. ep = "generateInterfaces" => f \in all
  BY <1>1, SplitLine DEF FilesOf
<1>4. ep = "generateImplementations" => f \in all
  BY <1>1, SplitLine DEF FilesOf
<1>5. ep = "generateTests" => f \in all
  BY <1>1 DEF FilesOf
<1>6. ep = "generateMocks" => f \in all
  BY <1>1 DEF FilesOf
<1>7. ep = "generateMocksTests" => f \in all
  BY <1>1 DEF FilesOf
<1>8. f \in all
  BY <1>1, <1>2, <1>3, <1>4, <1>5, <1>6, <1>7 DEF EntryPoints
<1> QED BY <1>8, Zenon DEF generateModel

\* The directory of a package that has the given path.
Place(module, p, path) ==
    IF module = NoModule THEN <<p>>
    ELSE IF path.dir = module THEN <<>>
    ELSE IF Len(path.dir) > Len(module) /\ IsPrefix(module, path.dir)
         THEN SubSeq(path.dir, Len(module) + 2, Len(path.dir))
    ELSE <<p>>

\* A directory depends on the module, the package and its path only.
LEMMA Directories ==
    ASSUME NEW line, NEW p
    PROVE  /\ InterfaceDirectory(line, p) = Place(line.module, p, InterfacePath(line, p))
           /\ ImplementationDirectory(line, p) = Place(line.module, p, ImplementationPath(line, p))
           /\ MockDirectory(line, p) = Place(line.module, p, MockPath(line, p))
           /\ InstanceDirectory(line, p) = Place(line.module, p, InstancePath(line, p))
<1>1. ASSUME NEW i
      PROVE  OutputDirectory(line, p, i) = Place(line.module, p, PathAt(line, p, i))
  BY DEF OutputDirectory, Place
<1>2. /\ InterfaceDirectory(line, p) = Place(line.module, p, InterfacePath(line, p))
      /\ ImplementationDirectory(line, p) = Place(line.module, p, ImplementationPath(line, p))
      /\ MockDirectory(line, p) = Place(line.module, p, MockPath(line, p))
  BY <1>1 DEF InterfaceDirectory, ImplementationDirectory, MockDirectory,
              InterfacePath, ImplementationPath, MockPath
<1>3. CASE IsShared(line, p)
  BY <1>2, <1>3 DEF InstanceDirectory, InstancePath
<1>4. CASE ~IsShared(line, p)
  BY <1>2, <1>4 DEF InstanceDirectory, InstancePath
<1> QED BY <1>2, <1>3, <1>4

\* The package a declaration is of, and the end of the name of its file.
OwnerOf(x) == IF x \in {"package", "factory"} THEN Root ELSE Owner[x]
EndOf == [kind \in {"interface", "implementation", "mock"} |->
             CASE kind = "interface" -> ".go"
               [] kind = "implementation" -> "_impl.go"
               [] kind = "mock" -> "_mock.go"]

\* The path of the file of a type, an implementation or a mock follows from the
\* module and the Go package; the singletons have one of two places.
Described(line, f, d) ==
    \/ /\ d[1] \in DOMAIN EndOf
       /\ f.path = <<Place(line.module, OwnerOf(d[2]), f.body.pkg), <<d[2], EndOf[d[1]]>>>>
    \/ /\ d = Install
       /\ f.path = <<Place(line.module, Root, f.body.pkg), <<"factory", "_impl.go">>>>
    \/ /\ d = GetPackage
       /\ \/ f = PackageInterfaceFile(line, Root) /\ SamePackage(line, Root)
          \/ /\ f = PackageImplementationFile(line, Root)
             /\ InterfacePath(line, Root) = InstancePath(line, Root) => IsShared(line, Root)
    \/ /\ d = GetFactory
       /\ \/ f = FactoryInterfaceFile(line, Root) /\ SamePackage(line, Root)
          \/ f = FactoryImplementationFile(line, Root) /\ ~SamePackage(line, Root)

\* The names of two declarations.
LEMMA Kinds ==
    /\ \A x : Type(x)[1] = "interface" /\ Type(x)[2] = x
    /\ \A x : Impl(x)[1] = "implementation" /\ Impl(x)[2] = x
    /\ \A x : Mock(x)[1] = "mock" /\ Mock(x)[2] = x
    /\ DOMAIN EndOf = {"interface", "implementation", "mock"}
    /\ EndOf["interface"] = ".go" /\ EndOf["implementation"] = "_impl.go" /\ EndOf["mock"] = "_mock.go"
    /\ OwnerOf("package") = Root /\ OwnerOf("factory") = Root
    /\ ReservedNames => \A x \in Classes \cup Enums : OwnerOf(x) = Owner[x]
    /\ GetPackage[1] = "singleton" /\ GetFactory[1] = "singleton" /\ GetPackage # GetFactory
    /\ Install[1] = "function"
BY DEF Type, Impl, Mock, EndOf, OwnerOf, ReservedNames, GetPackage, GetFactory, Install

\* Every declaration of every file is described.
LEMMA DeclarationsDescribed ==
    ASSUME ReservedNames, NEW line, NEW f \in AllFiles(line), NEW d \in f.body.declares
    PROVE  Described(line, f, d)
<1>1. ASSUME NEW x \in Classes \cup Enums, f = InterfaceFile(line, x) \/ f = EnumFile(line, x)
      PROVE  Described(line, f, d)
  <2>1. /\ d = Type(x) /\ f.body.pkg = InterfacePath(line, Owner[x])
        /\ f.path = <<InterfaceDirectory(line, Owner[x]), <<x, ".go">>>>
    BY <1>1 DEF InterfaceFile, EnumFile, GoFile
  <2> QED BY <2>1, Kinds, Directories DEF Described
<1>2. CASE f = PackageInterfaceFile(line, Root)
  <2>1. /\ d = Type("package") \/ (d = GetPackage /\ SamePackage(line, Root))
        /\ f.body.pkg = InterfacePath(line, Root)
        /\ f.path = <<InterfaceDirectory(line, Root), <<"package", ".go">>>>
    BY <1>2 DEF PackageInterfaceFile, GoFile
  <2> QED BY <1>2, <2>1, Kinds, Directories DEF Described
<1>3. CASE f = FactoryInterfaceFile(line, Root)
  <2>1. /\ d = Type("factory") \/ (d = GetFactory /\ SamePackage(line, Root))
        /\ f.body.pkg = InterfacePath(line, Root)
        /\ f.path = <<InterfaceDirectory(line, Root), <<"factory", ".go">>>>
    BY <1>3 DEF FactoryInterfaceFile, GoFile
  <2> QED BY <1>3, <2>1, Kinds, Directories DEF Described
<1>4. CASE f \in ImplementationFiles(line)
  <2>1. PICK c \in Implemented : f = ImplementationFile(line, c)
    BY <1>4 DEF ImplementationFiles
  <2>2. c \in Classes
    BY DEF Implemented
  <2>3. /\ d = Impl(c) /\ f.body.pkg = ImplementationPath(line, Owner[c])
        /\ f.path = <<ImplementationDirectory(line, Owner[c]), <<c, "_impl.go">>>>
    BY <2>1 DEF ImplementationFile, GoFile
  <2> QED BY <2>2, <2>3, Kinds, Directories DEF Described
<1>5. CASE f = PackageImplementationFile(line, Root)
  <2>1. /\ \/ d = Impl("package")
           \/ /\ d = GetPackage
              /\ InterfacePath(line, Root) = InstancePath(line, Root) => IsShared(line, Root)
        /\ f.body.pkg = InstancePath(line, Root)
        /\ f.path = <<InstanceDirectory(line, Root), <<"package", "_impl.go">>>>
    BY <1>5 DEF PackageImplementationFile, GoFile
  <2> QED BY <1>5, <2>1, Kinds, Directories DEF Described
<1>6. CASE f = FactoryImplementationFile(line, Root)
  <2>1. /\ f.body.pkg = ImplementationPath(line, Root)
        /\ f.path = <<ImplementationDirectory(line, Root), <<"factory", "_impl.go">>>>
    BY <1>6 DEF FactoryImplementationFile, FactoryFile, GoFile
  <2>2. d \in {Impl("factory"), Install} \/ (d = GetFactory /\ ~SamePackage(line, Root))
    BY <1>6 DEF FactoryImplementationFile, FactoryFile, GoFile, SamePackage
  <2> QED BY <1>6, <2>1, <2>2, Kinds, Directories DEF Described
<1>7. CASE f = DataTypeFactoryFile(line, Root)
  <2>1. /\ d = Impl("factory")
        /\ f.body.pkg = InterfacePath(line, Root)
        /\ f.path = <<InterfaceDirectory(line, Root), <<"factory", "_impl.go">>>>
    BY <1>7 DEF DataTypeFactoryFile, FactoryFile, GoFile
  <2> QED BY <1>7, <2>1, Kinds, Directories DEF Described
<1>8. CASE f \in generateMocks(line)
  <2>1. PICK c \in Classes : f = MockFile(line, c)
    BY <1>8 DEF generateMocks
  <2>2. /\ d = Mock(c) /\ f.body.pkg = MockPath(line, Owner[c])
        /\ f.path = <<MockDirectory(line, Owner[c]), <<c, "_mock.go">>>>
    BY <2>1 DEF MockFile, GoFile
  <2> QED BY <2>2, Kinds, Directories DEF Described
<1>9. f \notin generateTests(line) \cup generateMocksTests(line)
  BY DEF generateTests, generateMocksTests, ImplementationTestFile, FactoryTestFile,
         PackageTestFile, MockTestFile, GoFile
<1>10. \/ f \in InterfaceFiles(line) \/ f \in ImplementationFiles(line) \/ f \in generateMocks(line)
       \/ f = PackageImplementationFile(line, Root) \/ f = FactoryImplementationFile(line, Root)
       \/ f = DataTypeFactoryFile(line, Root)
  BY <1>9, ListedFiles
<1>11. CASE f \in InterfaceFiles(line)
  BY <1>11, <1>1, <1>2, <1>3 DEF InterfaceFiles
<1> QED BY <1>4, <1>5, <1>6, <1>7, <1>8, <1>10, <1>11

\* A Go package declares a name once, whatever commands ran in whatever order, when
\* the command lines agree on the paths they share, have one module and one package
\* of interfaces, and no classifier has a reserved name.
THEOREM NothingDeclaredTwice ==
    ASSUME LinesAgree, OneModule, ReservedNames
    PROVE  Spec => []DeclaredOnce
<1>1. TypeOK /\ OneFilePerPath => DeclaredOnce
  <2> SUFFICES ASSUME TypeOK, NEW f \in files, NEW g \in files, f.body.pkg = g.body.pkg,
                      NEW d \in f.body.declares, d \in g.body.declares
               PROVE  f = g
    BY DEF DeclaredOnce
  <2>1. project \in Projects
    BY DEF TypeOK
  <2>2. PICK l \in project : f \in AllFiles(l)
    BY DEF TypeOK, AllFiles
  <2>3. PICK m \in project : g \in AllFiles(m)
    BY DEF TypeOK, AllFiles
  <2>4. l.module = m.module /\ InterfacePath(l, Root) = InterfacePath(m, Root)
    BY <2>1 DEF OneModule
  <2>5. ASSUME NEW a \in project, NEW b \in project, NEW h \in AllFiles(a), NEW k \in AllFiles(b),
               h.path = k.path
        PROVE  h = k
    BY <2>1, <2>5 DEF LinesAgree, AllFiles
  <2>6. Described(l, f, d) /\ Described(m, g, d)
    BY <2>2, <2>3, DeclarationsDescribed
  <2>7. CASE d[1] \in DOMAIN EndOf
    <3>1. d # Install /\ d # GetPackage /\ d # GetFactory
      BY <2>7, Kinds
    <3>2. f.path = g.path
      BY <2>4, <2>6, <3>1 DEF Described
    <3> QED BY <2>2, <2>3, <2>5, <3>2
  <2>8. CASE d = Install
    <3>1. d[1] \notin DOMAIN EndOf /\ d # GetPackage /\ d # GetFactory
      BY <2>8, Kinds
    <3>2. f.path = g.path
      BY <2>4, <2>6, <3>1 DEF Described
    <3> QED BY <2>2, <2>3, <2>5, <3>2
  <2>9. ASSUME NEW line
        PROVE  /\ PackageInterfaceFile(line, Root).path =
                      <<InterfaceDirectory(line, Root), <<"package", ".go">>>>
               /\ PackageInterfaceFile(line, Root).body.pkg = InterfacePath(line, Root)
               /\ GetPackage \in PackageInterfaceFile(line, Root).body.declares
                      <=> SamePackage(line, Root)
               /\ PackageImplementationFile(line, Root).path =
                      <<InstanceDirectory(line, Root), <<"package", "_impl.go">>>>
               /\ PackageImplementationFile(line, Root).body.pkg = InstancePath(line, Root)
    <3>1. GetPackage # Type("package")
      BY DEF GetPackage, Type
    <3> QED BY <3>1 DEF PackageInterfaceFile, PackageImplementationFile, GoFile
  <2>10. ASSUME NEW a \in project, NEW b \in project, SamePackage(a, Root)
         PROVE  SamePackage(b, Root)
    <3> DEFINE h == PackageInterfaceFile(a, Root)
               k == PackageInterfaceFile(b, Root)
    <3>1. h \in generateModel(a) /\ k \in generateModel(b)
      BY DEF generateModel, InterfaceFiles
    <3>2. h \in AllFiles(a) /\ k \in AllFiles(b)
      <4>1. \A line : generateModel(line) \subseteq AllFiles(line)
        BY DEF AllFiles, FilesOf, EntryPoints
      <4> HIDE DEF h, k
      <4> QED BY <3>1, <4>1
    <3>3. a.module = b.module /\ InterfacePath(a, Root) = InterfacePath(b, Root)
      BY <2>1 DEF OneModule
    <3>4. h.path = k.path
      BY <2>9, <3>3, Directories
    <3>5. h = k
      BY <2>5, <3>2, <3>4
    <3> QED BY <2>9, <2>10, <3>5
  <2>11. ASSUME NEW line, SamePackage(line, Root)
         PROVE  ~IsShared(line, Root) /\ InterfacePath(line, Root) = InstancePath(line, Root)
    BY <2>11 DEF SamePackage, IsShared, InstancePath
  <2>12. CASE d = GetPackage
    <3>1. d[1] \notin DOMAIN EndOf /\ d # Install /\ d # GetFactory
      BY <2>12, Kinds
    <3>2. SamePackage(l, Root) <=> SamePackage(m, Root)
      BY <2>10
    <3>3. ASSUME NEW a \in project, NEW h, Described(a, h, d), SamePackage(a, Root)
          PROVE  h = PackageInterfaceFile(a, Root)
      BY <2>11, <3>1, <3>3 DEF Described
    <3>4. ASSUME NEW a \in project, NEW h, Described(a, h, d), ~SamePackage(a, Root)
          PROVE  h = PackageImplementationFile(a, Root)
      BY <3>1, <3>4 DEF Described
    <3>5. f.path = g.path
      BY <2>4, <2>6, <2>9, <3>2, <3>3, <3>4, Directories
    <3> QED BY <2>2, <2>3, <2>5, <3>5
  <2>13. CASE d = GetFactory
    <3>1. d[1] \notin DOMAIN EndOf /\ d # Install /\ d # GetPackage
      BY <2>13, Kinds
    <3>2. SamePackage(l, Root) <=> SamePackage(m, Root)
      BY <2>10
    <3>3. ASSUME NEW line
          PROVE  /\ FactoryInterfaceFile(line, Root).path =
                        <<InterfaceDirectory(line, Root), <<"factory", ".go">>>>
                 /\ FactoryInterfaceFile(line, Root).body.pkg = InterfacePath(line, Root)
                 /\ FactoryImplementationFile(line, Root).path =
                        <<ImplementationDirectory(line, Root), <<"factory", "_impl.go">>>>
                 /\ FactoryImplementationFile(line, Root).body.pkg = ImplementationPath(line, Root)
      BY DEF FactoryInterfaceFile, FactoryImplementationFile, FactoryFile, GoFile
    <3>4. f.path = g.path
      <4>1. CASE SamePackage(l, Root)
        <5>1. f = FactoryInterfaceFile(l, Root) /\ g = FactoryInterfaceFile(m, Root)
          BY <2>6, <3>1, <3>2, <4>1 DEF Described
        <5> QED BY <5>1, <2>4, <3>3, Directories
      <4>2. CASE ~SamePackage(l, Root)
        <5>1. f = FactoryImplementationFile(l, Root) /\ g = FactoryImplementationFile(m, Root)
          BY <2>6, <3>1, <3>2, <4>2 DEF Described
        <5>2. ImplementationPath(l, Root) = ImplementationPath(m, Root)
          BY <5>1, <3>3
        <5> QED BY <5>1, <5>2, <2>4, <3>3, Directories
      <4> QED BY <4>1, <4>2
    <3> QED BY <2>2, <2>3, <2>5, <3>4
  <2>14. d[1] \in DOMAIN EndOf \/ d = Install \/ d = GetPackage \/ d = GetFactory
    BY <2>6 DEF Described
  <2> QED BY <2>7, <2>8, <2>12, <2>13, <2>14
<1> QED BY <1>1, TypeCorrect, OrderNeverMatters, PTL
-----------------------------------------------------------------------------
(* Packages and directories. *)

Indices == {InterfaceIndex, ImplementationIndex, MockIndex}

\* Every file is in the directory of one of the three paths of a package.
Placed(line, f) ==
    \E p \in Packages, i \in Indices :
        /\ f.path[1] = Place(line.module, p, PathAt(line, p, i))
        /\ f.body.pkg = PathAt(line, p, i)

\* The four paths of a package are three.
LEMMA FourPaths ==
    ASSUME NEW line, NEW p \in Packages, NEW f,
           \/ /\ f.path[1] = InterfaceDirectory(line, p)
              /\ f.body.pkg = InterfacePath(line, p)
           \/ /\ f.path[1] = ImplementationDirectory(line, p)
              /\ f.body.pkg = ImplementationPath(line, p)
           \/ f.path[1] = MockDirectory(line, p) /\ f.body.pkg = MockPath(line, p)
           \/ f.path[1] = InstanceDirectory(line, p) /\ f.body.pkg = InstancePath(line, p)
    PROVE  Placed(line, f)
<1> DEFINE At(i) == /\ f.path[1] = Place(line.module, p, PathAt(line, p, i))
                    /\ f.body.pkg = PathAt(line, p, i)
<1>1. InstancePath(line, p) \in {InterfacePath(line, p), ImplementationPath(line, p)}
  BY DEF InstancePath
<1>2. At(InterfaceIndex) \/ At(ImplementationIndex) \/ At(MockIndex)
  BY <1>1, Directories DEF InterfacePath, ImplementationPath, MockPath
<1> HIDE DEF At
<1>3. \E i \in Indices : At(i)
  BY <1>2 DEF Indices
<1> QED BY <1>3 DEF At, Placed

\* So it is for every file an entry point lists.
LEMMA FilesPlaced ==
    ASSUME NEW line, NEW f \in AllFiles(line)
    PROVE  Placed(line, f)
<1>1. Root \in Packages /\ \A x \in Classes \cup Enums : Owner[x] \in Packages
  BY ModelAssumption
<1>2. Implemented \subseteq Classes
  BY DEF Implemented
<1>3. CASE f \in InterfaceFiles(line)
  <2>1. \E p \in Packages : f.path[1] = InterfaceDirectory(line, p) /\ f.body.pkg = InterfacePath(line, p)
    BY <1>1, <1>3 DEF InterfaceFiles, InterfaceFile, EnumFile, PackageInterfaceFile,
                      FactoryInterfaceFile, GoFile
  <2> QED BY <2>1, FourPaths
<1>4. CASE f \in ImplementationFiles(line)
  <2>1. PICK c \in Implemented : f = ImplementationFile(line, c)
    BY <1>4 DEF ImplementationFiles
  <2>2. /\ f.path[1] = ImplementationDirectory(line, Owner[c])
        /\ f.body.pkg = ImplementationPath(line, Owner[c])
    BY <2>1 DEF ImplementationFile, GoFile
  <2> QED BY <2>2, <1>1, <1>2, FourPaths
<1>5. CASE f = PackageImplementationFile(line, Root)
  <2>1. f.path[1] = InstanceDirectory(line, Root) /\ f.body.pkg = InstancePath(line, Root)
    BY <1>5 DEF PackageImplementationFile, GoFile
  <2> QED BY <2>1, <1>1, FourPaths
<1>6. CASE f = FactoryImplementationFile(line, Root)
  <2>1. f.path[1] = ImplementationDirectory(line, Root) /\ f.body.pkg = ImplementationPath(line, Root)
    BY <1>6 DEF FactoryImplementationFile, FactoryFile, GoFile
  <2> QED BY <2>1, <1>1, FourPaths
<1>7. CASE f = DataTypeFactoryFile(line, Root)
  <2>1. f.path[1] = InterfaceDirectory(line, Root) /\ f.body.pkg = InterfacePath(line, Root)
    BY <1>7 DEF DataTypeFactoryFile, FactoryFile, GoFile
  <2> QED BY <2>1, <1>1, FourPaths
<1>8. CASE f \in generateTests(line)
  <2>1. ASSUME NEW c \in Implemented, f = ImplementationTestFile(line, c)
        PROVE  /\ f.path[1] = ImplementationDirectory(line, Owner[c])
               /\ f.body.pkg = ImplementationPath(line, Owner[c])
    BY <2>1 DEF ImplementationTestFile, GoFile
  <2>2. ASSUME f = FactoryTestFile(line, Root)
        PROVE  /\ f.path[1] = ImplementationDirectory(line, Root)
               /\ f.body.pkg = ImplementationPath(line, Root)
    BY <2>2 DEF FactoryTestFile, GoFile
  <2>3. ASSUME f = PackageTestFile(line, Root)
        PROVE  /\ f.path[1] = InstanceDirectory(line, Root)
               /\ f.body.pkg = InstancePath(line, Root)
    BY <2>3 DEF PackageTestFile, GoFile
  <2>4. \/ \E c \in Implemented : f = ImplementationTestFile(line, c)
        \/ f = FactoryTestFile(line, Root) \/ f = PackageTestFile(line, Root)
    BY <1>8, Zenon DEF generateTests
  <2> QED BY <2>1, <2>2, <2>3, <2>4, <1>1, <1>2, FourPaths
<1>9. CASE f \in generateMocks(line) \cup generateMocksTests(line)
  <2>1. PICK c \in Classes : f = MockFile(line, c) \/ f = MockTestFile(line, c)
    BY <1>9 DEF generateMocks, generateMocksTests
  <2>2. /\ f.path[1] = MockDirectory(line, Owner[c])
        /\ f.body.pkg = MockPath(line, Owner[c])
    BY <2>1 DEF MockFile, MockTestFile, GoFile
  <2> QED BY <2>2, <1>1, FourPaths
<1>10. \/ f \in InterfaceFiles(line) \/ f \in ImplementationFiles(line) \/ f \in generateTests(line)
       \/ f \in generateMocks(line) \cup generateMocksTests(line)
       \/ f = PackageImplementationFile(line, Root) \/ f = FactoryImplementationFile(line, Root)
       \/ f = DataTypeFactoryFile(line, Root)
  BY ListedFiles
<1> QED BY <1>3, <1>4, <1>5, <1>6, <1>7, <1>8, <1>9, <1>10

\* Two paths at or under a module have the same rest only if they are the same.
LEMMA RestDeterminesPath ==
    ASSUME NEW module \in Seq(STRING), module # NoModule, NEW p, NEW q,
           NEW x, x.dir \in Seq(STRING), x.dir = module \/ Under(module, x.dir),
           NEW y, y.dir \in Seq(STRING), y.dir = module \/ Under(module, y.dir)
    PROVE  /\ Place(module, p, x) = Place(module, q, y) => x.dir = y.dir
           /\ Place(module, p, x) = Place(module, q, x)
<1> DEFINE n == Len(module)
           Rest(z) == SubSeq(z, n + 2, Len(z))
<1>1. n \in Nat
  OBVIOUS
<1>2. ASSUME NEW z \in Seq(STRING), Len(z) > n + 1, SubSeq(z, 1, n + 1) = Append(module, "/")
      PROVE  /\ \A r, path : path.dir = z => Place(module, r, path) = Rest(z)
             /\ Rest(z) \in Seq(STRING) /\ Len(Rest(z)) = Len(z) - (n + 1) /\ Rest(z) # <<>>
             /\ \A k \in 1 .. n + 1 : z[k] = Append(module, "/")[k]
             /\ \A k \in n + 2 .. Len(z) : z[k] = Rest(z)[k - (n + 1)]
  <2>1. Len(z) \in Nat /\ n + 2 \in Nat /\ n + 2 <= Len(z) + 1
    BY <1>1, <1>2
  <2>2. \A k \in 1 .. n + 1 : z[k] = SubSeq(z, 1, n + 1)[k]
    BY <1>1, <1>2
  <2>3. \A k \in 1 .. n + 1 : z[k] = Append(module, "/")[k]
    BY <1>2, <2>2
  <2>4. SubSeq(z, 1, n) = module
    <3>1. \A k \in 1 .. n : module[k] = Append(module, "/")[k]
      OBVIOUS
    <3>2. SubSeq(z, 1, n) \in Seq(STRING) /\ Len(SubSeq(z, 1, n)) = n
      BY <1>1, <1>2
    <3>3. \A k \in 1 .. n : SubSeq(z, 1, n)[k] = module[k]
      <4> SUFFICES ASSUME NEW k \in 1 .. n PROVE SubSeq(z, 1, n)[k] = module[k]
        OBVIOUS
      <4>1. SubSeq(z, 1, n)[k] = z[k]
        BY <1>1, <1>2
      <4>2. z[k] = Append(module, "/")[k]
        BY <1>1, <2>3
      <4> QED BY <4>1, <4>2, <3>1
    <3> QED BY <1>1, <3>2, <3>3
  <2>5. IsPrefix(module, z)
    BY <1>1, <1>2, <2>4 DEF IsPrefix
  <2>6. z # module
    BY <1>1, <1>2
  <2>7. \A r, path : path.dir = z => Place(module, r, path) = Rest(z)
    BY <1>1, <1>2, <2>5, <2>6 DEF Place
  <2>8. Rest(z) \in Seq(STRING) /\ Len(Rest(z)) = Len(z) - (n + 1)
    BY <1>1, <1>2, <2>1
  <2>9. Rest(z) # <<>>
    BY <1>1, <1>2, <2>8
  <2>10. \A k \in n + 2 .. Len(z) : z[k] = Rest(z)[k - (n + 1)]
    BY <1>1, <1>2, <2>1
  <2> QED BY <2>3, <2>7, <2>8, <2>9, <2>10
<1>3. ASSUME NEW r, NEW path, path.dir = module
      PROVE  Place(module, r, path) = <<>>
  BY <1>3 DEF Place
<1>4. ASSUME NEW a \in Seq(STRING), NEW b \in Seq(STRING), Len(a) > n + 1, Len(b) > n + 1,
             SubSeq(a, 1, n + 1) = Append(module, "/"), SubSeq(b, 1, n + 1) = Append(module, "/"),
             Rest(a) = Rest(b)
      PROVE  a = b
  <2>1. Len(a) = Len(b)
    BY <1>1, <1>2, <1>4
  <2>2. \A k \in 1 .. n + 1 : a[k] = b[k]
    BY <1>2, <1>4
  <2>3. \A k \in n + 2 .. Len(a) : a[k] = b[k]
    BY <1>2, <1>4, <2>1
  <2>4. \A k \in 1 .. Len(a) : a[k] = b[k]
    BY <1>1, <2>2, <2>3
  <2> QED BY <2>1, <2>4
<1>5. Under(module, x.dir) => /\ \A r : Place(module, r, x) = Rest(x.dir)
                              /\ Rest(x.dir) # <<>>
  BY <1>2 DEF Under
<1>6. Under(module, y.dir) => /\ \A r : Place(module, r, y) = Rest(y.dir)
                              /\ Rest(y.dir) # <<>>
  BY <1>2 DEF Under
<1>7. /\ Under(module, x.dir) /\ Under(module, y.dir)
      /\ Rest(x.dir) = Rest(y.dir)
      => x.dir = y.dir
  BY <1>4 DEF Under
<1> HIDE DEF Rest
<1> QED BY <1>3, <1>5, <1>6, <1>7

\* The files of one directory always are of one Go package, and with a module the
\* files of one package are in one directory, whatever commands ran, when the paths
\* of the packages are under the module and tell the packages apart.
THEOREM DirectoriesArePackages ==
    ASSUME OneModule, PathsUnderModule
    PROVE  Spec => []PackagesAreDirectories
<1>1. TypeOK => PackagesAreDirectories
  <2> SUFFICES ASSUME TypeOK, NEW f \in files, NEW g \in files
               PROVE  /\ f.path[1] = g.path[1] => f.body.pkg = g.body.pkg
                      /\ f.body.pkg = g.body.pkg =>
                             \/ f.path[1] = g.path[1]
                             \/ \E line \in project : line.module = NoModule
    BY DEF PackagesAreDirectories
  <2>1. project \in Projects
    BY DEF TypeOK
  <2>2. PICK l \in project : f \in AllFiles(l)
    BY DEF TypeOK, AllFiles
  <2>3. PICK m \in project : g \in AllFiles(m)
    BY DEF TypeOK, AllFiles
  <2>4. l.module = m.module
    BY <2>1 DEF OneModule
  <2>5. PICK p \in Packages, i \in Indices :
            /\ f.path[1] = Place(l.module, p, PathAt(l, p, i))
            /\ f.body.pkg = PathAt(l, p, i)
    BY <2>2, FilesPlaced DEF Placed
  <2>6. PICK q \in Packages, j \in Indices :
            /\ g.path[1] = Place(l.module, q, PathAt(m, q, j))
            /\ g.body.pkg = PathAt(m, q, j)
    BY <2>3, <2>4, FilesPlaced DEF Placed
  <2> DEFINE x == PathAt(l, p, i)
             y == PathAt(m, q, j)
  <2>7. PathsApart(l, m, p, q, i, j) /\ PathsApart(l, m, p, p, i, j) /\ PathsApart(m, l, q, p, j, i)
    BY <2>1 DEF PathsUnderModule, Indices
  <2> HIDE DEF x, y
  <2>8. CASE l.module = NoModule
    <3>1. f.path[1] = <<p>> /\ g.path[1] = <<q>>
      BY <2>5, <2>6, <2>8 DEF Place
    <3>2. x = PathAt(m, p, j)
      BY <2>7, <2>8 DEF PathsApart, x
    <3> QED BY <2>5, <2>6, <2>8, <3>1, <3>2 DEF x, y
  <2>9. CASE l.module # NoModule
    <3>1. /\ l.module \in Seq(STRING) /\ x.dir \in Seq(STRING)
          /\ x.dir = l.module \/ Under(l.module, x.dir)
          /\ x.dir = y.dir => x = y
      BY <2>7, <2>9 DEF PathsApart, x, y
    <3>2. y.dir \in Seq(STRING) /\ (y.dir = l.module \/ Under(l.module, y.dir))
      BY <2>4, <2>7, <2>9 DEF PathsApart, y
    <3>3. /\ Place(l.module, p, x) = Place(l.module, q, y) => x.dir = y.dir
          /\ Place(l.module, p, x) = Place(l.module, q, x)
      BY <2>9, <3>1, <3>2, RestDeterminesPath
    <3> QED BY <2>5, <2>6, <3>1, <3>3 DEF x, y
  <2> QED BY <2>8, <2>9 DEF x, y
<1> QED BY <1>1, TypeCorrect, PTL

(***************************************************************************)
(* The scope of a file: for every set of package paths, the rounds of      *)
(* computeImportAliases end with segments that tell the packages apart,    *)
(* and that are no longer than the other packages make necessary.          *)
(***************************************************************************)

\* splitPath returns a sequence.
LEMMA SplitPathType ==
  ASSUME NEW p \in Paths
  PROVE  /\ Cardinality(Kept(p)) \in Nat
         /\ DOMAIN splitPath(p) = 1 .. Cardinality(Kept(p))
         /\ Len(splitPath(p)) = Cardinality(Kept(p))
         /\ splitPath(p) \in Seq({splitPath(p)[k] : k \in 1 .. Cardinality(Kept(p))})
<1>1. Len(p) \in Nat
  BY PathsAssumption
<1>2. IsFiniteSet(1 .. Len(p))
  BY <1>1, FS_Interval
<1>3. IsFiniteSet(Kept(p))
  BY <1>2, FS_Subset DEF Kept
<1>4. Cardinality(Kept(p)) \in Nat
  BY <1>3, FS_CardinalityType
<1> DEFINE n == Cardinality(Kept(p))
           T == {splitPath(p)[k] : k \in 1 .. n}
<1>5. splitPath(p) = [k \in 1 .. n |-> splitPath(p)[k]]
  BY DEF splitPath
<1>6. splitPath(p) \in [1 .. n -> T]
  BY <1>5
<1>7. splitPath(p) \in Seq(T)
  BY <1>4, <1>6
<1>8. DOMAIN splitPath(p) = 1 .. n
  BY <1>5
<1>9. Len(splitPath(p)) = n
  BY <1>4, <1>7, <1>8, LenProperties
<1> QED BY <1>4, <1>7, <1>8, <1>9

(***************************************************************************)
(* The inductive invariant                                                 *)
(***************************************************************************)

SegmentsOf(p) == {splitPath(p)[k] : k \in 1 .. Len(splitPath(p))}

\* The name of p holds the first segments of its reversed path.
Prefix(p) ==
  /\ names[p] \in Seq(SegmentsOf(p))
  /\ Len(names[p]) <= Len(splitPath(p))
  /\ \A k \in 1 .. Len(names[p]) : names[p][k] = splitPath(p)[k]

\* Another path has the segment of p at the position k.
SharedAt(p, k) == \E q \in used \ {p} : k <= Len(splitPath(q)) /\ splitPath(q)[k] = splitPath(p)[k]

\* The name of p does not grow any more: it ends with a segment that no other
\* path has there, or it is the whole path.
Settled(p) ==
  \/ Len(names[p]) = Len(splitPath(p))
  \/ Len(names[p]) >= 1 /\ ~SharedAt(p, Len(names[p]))

Growing(p) ==
  /\ Len(names[p]) = index
  /\ \A k \in 1 .. index : SharedAt(p, k)

IInv ==
  /\ used \in SUBSET Paths
  /\ remaining \in SUBSET used
  /\ index \in Nat
  /\ step \in {"build", "alias", "done"}
  /\ DOMAIN names = Paths
  /\ \A p \in Paths : Prefix(p)
  /\ step = "build" => index = 0 /\ remaining = {} /\ \A p \in Paths : names[p] = <<>>
  /\ step # "build" => \A p \in used : IF p \in remaining THEN Growing(p) ELSE Settled(p)
  /\ step = "done" => remaining = {}
  /\ \A p \in used : \A k \in 1 .. Len(names[p]) - 1 : SharedAt(p, k)

\* The initial state satisfies the invariant.
LEMMA InitInv == ScopeInit => IInv
<1> SUFFICES ASSUME ScopeInit PROVE IInv
  OBVIOUS
<1>1. ASSUME NEW p \in Paths PROVE Prefix(p) /\ names[p] = <<>>
  <2>1. names[p] = <<>> /\ Len(<<>>) = 0 /\ <<>> \in Seq(SegmentsOf(p))
    BY EmptySeq DEF ScopeInit
  <2>2. Len(splitPath(p)) \in Nat
    BY SplitPathType
  <2> QED BY <2>1, <2>2 DEF Prefix
<1> QED BY <1>1 DEF ScopeInit, IInv

\* An identifier is written.
LEMMA QualifyInv ==
  ASSUME IInv, NEW p \in Paths, Qualify(p)
  PROVE  IInv'
<1>1. step = "build" /\ step' = step /\ names' = names /\ index' = index /\ remaining' = remaining
  BY DEF Qualify
<1>2. used' \in SUBSET Paths
  BY DEF IInv, Qualify
<1>3. \A q \in Paths : Prefix(q)'
  BY <1>1 DEF IInv, Prefix
<1>4. \A q \in Paths : Len(names[q]) = 0
  BY <1>1, EmptySeq DEF IInv
<1>5. \A q \in used' : \A k \in 1 .. Len(names'[q]) - 1 : SharedAt(q, k)'
  BY <1>1, <1>2, <1>4
<1> QED BY <1>1, <1>2, <1>3, <1>5 DEF IInv

\* finish begins.
LEMMA FinishInv == IInv /\ Finish => IInv'
<1> SUFFICES ASSUME IInv, Finish PROVE IInv'
  OBVIOUS
<1>1. \A p \in Paths : Prefix(p)'
  BY DEF IInv, Finish, Prefix
<1>2. \A p \in used : Growing(p)'
  BY EmptySeq DEF IInv, Finish, Growing
<1>3. \A p \in used' : \A k \in 1 .. Len(names'[p]) - 1 : SharedAt(p, k)'
  BY DEF IInv, Finish, SharedAt
<1> QED BY <1>1, <1>2, <1>3 DEF IInv, Finish

\* The aliases are put in the body.
LEMMA ImportInv == IInv /\ Import => IInv'
<1> SUFFICES ASSUME IInv, Import PROVE IInv'
  OBVIOUS
<1>1. \A p \in Paths : Prefix(p)'
  BY DEF IInv, Import, Prefix
<1>2. \A p \in used : Settled(p)'
  BY DEF IInv, Import, Settled, SharedAt
<1>3. \A p \in used' : \A k \in 1 .. Len(names'[p]) - 1 : SharedAt(p, k)'
  BY DEF IInv, Import, SharedAt
<1> QED BY <1>1, <1>2, <1>3 DEF IInv, Import

\* What a round does with the name of a path that may grow.
LEMMA NameGrows ==
  ASSUME IInv, Extend, NEW p \in remaining, HasSegment(p)
  PROVE  /\ Prefix(p)'
         /\ Len(names'[p]) = index + 1
         /\ Shared(p) <=> SharedAt(p, index + 1)
<1> DEFINE n == Cardinality(Kept(p))
<1>1. p \in used /\ p \in Paths
  BY DEF IInv
<1>2. /\ n \in Nat
      /\ Len(splitPath(p)) = n
  BY <1>1, SplitPathType
<1>3. Len(names[p]) = index /\ index \in Nat /\ index < n
  BY <1>1, <1>2 DEF IInv, Extend, Growing, HasSegment
<1>4. /\ names[p] \in Seq(SegmentsOf(p))
      /\ \A k \in 1 .. index : names[p][k] = splitPath(p)[k]
  BY <1>1, <1>3 DEF IInv, Prefix
<1>5. Segment(p) \in SegmentsOf(p) /\ Segment(p) = splitPath(p)[index + 1]
  BY <1>2, <1>3 DEF Segment, SegmentsOf
<1>6. names'[p] = Append(names[p], Segment(p))
  BY <1>1 DEF Extend
<1>7. /\ names'[p] \in Seq(SegmentsOf(p))
      /\ Len(names'[p]) = index + 1
      /\ \A k \in 1 .. index : names'[p][k] = names[p][k]
      /\ names'[p][index + 1] = Segment(p)
  BY <1>3, <1>4, <1>5, <1>6, AppendProperties
<1>8. \A k \in 1 .. index + 1 : names'[p][k] = splitPath(p)[k]
  BY <1>3, <1>4, <1>5, <1>7
<1>9. Prefix(p)'
  BY <1>2, <1>3, <1>7, <1>8 DEF Prefix
<1>10. ASSUME NEW q \in used
       PROVE  HasSegment(q) <=> index + 1 <= Len(splitPath(q))
  <2>1. Len(splitPath(q)) \in Nat
    BY SplitPathType DEF IInv
  <2> QED BY <1>3, <2>1 DEF HasSegment
<1>11. Shared(p) <=> SharedAt(p, index + 1)
  BY <1>10 DEF Shared, SharedAt, Segment
<1> QED BY <1>7, <1>9, <1>11

\* A round.
LEMMA ExtendInv == IInv /\ Extend => IInv'
<1> SUFFICES ASSUME IInv, Extend PROVE IInv'
  OBVIOUS
<1>1. /\ step = "alias" /\ step' = step /\ used' = used /\ index' = index + 1
      /\ remaining' = {p \in remaining : StillGrowing(p)}
      /\ index \in Nat
      /\ used \in SUBSET Paths /\ remaining \in SUBSET used
      /\ DOMAIN names' = Paths
  BY DEF IInv, Extend
<1>2. ASSUME NEW p \in Paths, ~(p \in remaining /\ HasSegment(p))
      PROVE  names'[p] = names[p]
  BY <1>2 DEF Extend
<1>3. \A p \in Paths : Prefix(p)'
  <2> SUFFICES ASSUME NEW p \in Paths PROVE Prefix(p)'
    OBVIOUS
  <2>1. CASE p \in remaining /\ HasSegment(p)
    BY <2>1, NameGrows
  <2>2. CASE ~(p \in remaining /\ HasSegment(p))
    BY <2>2, <1>2 DEF IInv, Prefix
  <2> QED BY <2>1, <2>2
<1>4. ASSUME NEW p \in used
      PROVE  /\ IF p \in remaining' THEN Growing(p)' ELSE Settled(p)'
             /\ \A k \in 1 .. Len(names'[p]) - 1 : SharedAt(p, k)'
  <2>1. Len(splitPath(p)) \in Nat
    BY <1>1, SplitPathType
  <2>2. \A k : SharedAt(p, k)' <=> SharedAt(p, k)
    BY <1>1 DEF SharedAt
  <2>3. CASE p \in remaining /\ HasSegment(p)
    <3>1. /\ Len(names'[p]) = index + 1
          /\ Shared(p) <=> SharedAt(p, index + 1)
      BY <2>3, NameGrows
    <3>2. \A k \in 1 .. index : SharedAt(p, k)
      BY <1>1, <2>3 DEF IInv, Growing
    <3>3. p \in remaining' <=> SharedAt(p, index + 1)
      BY <1>1, <2>3, <3>1 DEF StillGrowing
    <3>4. CASE SharedAt(p, index + 1)
      <4>1. \A k \in 1 .. index + 1 : SharedAt(p, k)
        BY <1>1, <3>2, <3>4
      <4>2. Growing(p)'
        BY <1>1, <2>2, <3>1, <4>1 DEF Growing
      <4> QED BY <1>1, <2>2, <3>1, <3>2, <3>3, <3>4, <4>2
    <3>5. CASE ~SharedAt(p, index + 1)
      <4>1. Settled(p)'
        BY <1>1, <2>2, <3>1, <3>5 DEF Settled
      <4> QED BY <1>1, <2>2, <3>1, <3>2, <3>3, <3>5, <4>1
    <3> QED BY <3>4, <3>5
  <2>4. CASE p \in remaining /\ ~HasSegment(p)
    <3>1. names'[p] = names[p]
      BY <1>1, <1>2, <2>4
    <3>2. p \notin remaining'
      BY <1>1, <2>4 DEF StillGrowing
    <3>3. Len(names[p]) = index /\ Len(names[p]) <= Len(splitPath(p))
      BY <1>1, <2>4 DEF IInv, Growing, Prefix
    <3>4. Len(names'[p]) = Len(splitPath(p))
      BY <1>1, <2>1, <2>4, <3>1, <3>3 DEF HasSegment
    <3>5. Settled(p)'
      BY <3>4 DEF Settled
    <3>6. \A k \in 1 .. Len(names'[p]) - 1 : SharedAt(p, k)'
      BY <2>2, <3>1 DEF IInv
    <3> QED BY <3>2, <3>5, <3>6
  <2>5. CASE p \notin remaining
    <3>1. names'[p] = names[p]
      BY <1>1, <1>2, <2>5
    <3>2. p \notin remaining'
      BY <1>1, <2>5
    <3>3. Settled(p)
      BY <1>1, <2>5 DEF IInv
    <3>4. Settled(p)'
      BY <2>2, <3>1, <3>3 DEF Settled
    <3>5. \A k \in 1 .. Len(names'[p]) - 1 : SharedAt(p, k)'
      BY <2>2, <3>1 DEF IInv
    <3> QED BY <3>2, <3>4, <3>5
  <2> QED BY <2>3, <2>4, <2>5
<1> QED BY <1>1, <1>3, <1>4 DEF IInv

\* The invariant holds in every state.
THEOREM Invariance == ScopeSpec => []IInv
<1>1. ScopeInit => IInv
  BY InitInv
<1>2. IInv /\ [ScopeNext]_scopeVars => IInv'
  <2> SUFFICES ASSUME IInv, [ScopeNext]_scopeVars PROVE IInv'
    OBVIOUS
  <2>1. ASSUME NEW p \in Paths, Qualify(p) PROVE IInv'
    BY <2>1, QualifyInv
  <2>2. CASE Finish
    BY <2>2, FinishInv
  <2>3. CASE Extend
    BY <2>3, ExtendInv
  <2>4. CASE Import
    BY <2>4, ImportInv
  <2>5. CASE UNCHANGED scopeVars
    <3>1. \A p \in Paths : Prefix(p)'
      BY <2>5 DEF scopeVars, IInv, Prefix
    <3>2. \A p, k : SharedAt(p, k)' <=> SharedAt(p, k)
      BY <2>5 DEF scopeVars, SharedAt
    <3>3. step # "build" => \A p \in used : IF p \in remaining THEN Growing(p)' ELSE Settled(p)'
      BY <2>5, <3>2 DEF scopeVars, IInv, Growing, Settled
    <3> QED BY <2>5, <3>1, <3>2, <3>3 DEF scopeVars, IInv
  <2> QED BY <2>1, <2>2, <2>3, <2>4, <2>5 DEF ScopeNext
<1> QED BY <1>1, <1>2, PTL DEF ScopeSpec

\* Whatever the paths of a file, two packages get the same segments only when
\* splitPath makes no difference between their paths.
THEOREM NamesAreDistinct == ScopeSpec => []NamesIdentify
<1>1. IInv => NamesIdentify
  <2> SUFFICES ASSUME IInv, step = "done", NEW p \in used, NEW q \in used, names[p] = names[q]
               PROVE  splitPath(p) = splitPath(q)
    BY DEF NamesIdentify
  <2>1. p \in Paths /\ q \in Paths /\ p \notin remaining /\ q \notin remaining
    BY DEF IInv
  <2>2. Settled(p) /\ Settled(q) /\ Prefix(p) /\ Prefix(q)
    BY <2>1 DEF IInv
  <2> DEFINE m == Len(names[p])
  <2>3. m \in Nat /\ Len(splitPath(p)) \in Nat /\ Len(splitPath(q)) \in Nat
    BY <2>1, <2>2, SplitPathType, LenProperties DEF Prefix
  <2>4. \A k \in 1 .. m : splitPath(p)[k] = splitPath(q)[k]
    BY <2>2 DEF Prefix
  <2>5. m <= Len(splitPath(p)) /\ m <= Len(splitPath(q))
    BY <2>2 DEF Prefix
  <2>6. CASE p # q
    <3>1. m >= 1 => SharedAt(p, m) /\ SharedAt(q, m)
      BY <2>3, <2>4, <2>5, <2>6 DEF SharedAt
    <3>2. Len(splitPath(p)) = m /\ Len(splitPath(q)) = m
      BY <2>2, <3>1 DEF Settled
    <3>3. /\ splitPath(p) = [k \in 1 .. m |-> splitPath(p)[k]]
          /\ splitPath(q) = [k \in 1 .. m |-> splitPath(q)[k]]
      <4>1. Cardinality(Kept(p)) = m /\ Cardinality(Kept(q)) = m
        BY <2>1, <3>2, SplitPathType
      <4> QED BY <4>1 DEF splitPath
    <3> QED BY <2>4, <3>3
  <2> QED BY <2>6
<1> QED BY <1>1, Invariance, PTL

\* Whatever the paths of a file, an alias holds a directory only when another
\* path has the segments that come after it.
THEOREM AliasesAreNoLonger == ScopeSpec => []AliasesAreShort
<1>1. IInv => AliasesAreShort
  <2> SUFFICES ASSUME IInv, NEW p \in used, NEW k \in 1 .. Len(names[p]) - 1
               PROVE  \E q \in used \ {p} : k <= Len(splitPath(q)) /\ splitPath(q)[k] = names[p][k]
    BY DEF AliasesAreShort
  <2>1. p \in Paths /\ Prefix(p) /\ SharedAt(p, k)
    BY DEF IInv
  <2>2. k \in 1 .. Len(names[p])
    BY <2>1, LenProperties DEF Prefix
  <2>3. names[p][k] = splitPath(p)[k]
    BY <2>1, <2>2 DEF Prefix
  <2> QED BY <2>1, <2>3 DEF SharedAt
<1> QED BY <1>1, Invariance, PTL

(***************************************************************************)
(* The identifiers                                                         *)
(***************************************************************************)

\* The m last segments of a path, from the last one, and the alias they give.
Ending(p, m) == [k \in 1 .. m |-> splitPath(p)[k]]

Text(p, m) == Joined(Reverse(Ending(p, m)))

\* What the names of the packages have to be for aliases that are only joined
\* segments: splitPath and the joined segments tell the packages apart, none is
\* empty, and an alias that is the name of its directory is the name of its package.
AliasesApart ==
  \A p, q \in Paths \ {packagePath} :
    /\ splitPath(p) = splitPath(q) => p = q
    /\ \A m \in 1 .. Len(splitPath(p)) :
         /\ Text(p, m) # NoAlias
         /\ \A n \in 1 .. Len(splitPath(q)) : Text(p, m) = Text(q, n) => Ending(p, m) = Ending(q, n)
         /\ Text(p, m) = Words[Last(Front(p))] /\ Last(Front(p)) \notin Dotted =>
              Words[Last(p)] = Text(p, m)

\* The name of a package is an ending of its path, and no alias is empty.
LEMMA NamesAreEndings ==
  ASSUME IInv, step = "alias", remaining = {}, NEW p \in used
  PROVE  /\ names[p] = Ending(p, Len(names[p]))
         /\ Len(names[p]) \in 1 .. Len(splitPath(p))
         /\ Alias(p) = Text(p, Len(names[p]))
<1> DEFINE n == Len(names[p])
<1>1. p \in Paths /\ Prefix(p) /\ Settled(p)
  BY DEF IInv
<1>2. Cardinality(Kept(p)) \in Nat /\ Len(splitPath(p)) = Cardinality(Kept(p))
  BY <1>1, SplitPathType
<1>3. Len(splitPath(p)) >= 1
  <2>1. 1 \in Kept(p) /\ Kept(p) \subseteq 1 .. Len(p) /\ Len(p) \in Nat
    BY <1>1, PathsAssumption DEF Kept
  <2>i. IsFiniteSet(1 .. Len(p))
    BY <2>1, FS_Interval
  <2>2. IsFiniteSet(Kept(p))
    BY <2>1, <2>i, FS_Subset
  <2>3. Cardinality(Kept(p)) # 0
    BY <2>1, <2>2, FS_EmptySet
  <2> QED BY <1>2, <2>3
<1>4. names[p] \in Seq(SegmentsOf(p)) /\ n \in Nat /\ n <= Len(splitPath(p))
  BY <1>1 DEF Prefix
<1>5. n >= 1
  BY <1>1, <1>3 DEF Settled
<1>6. names[p] = [k \in 1 .. n |-> names[p][k]]
  BY <1>4
<1>7. \A k \in 1 .. n : names[p][k] = splitPath(p)[k]
  BY <1>1 DEF Prefix
<1>8. names[p] = Ending(p, n)
  BY <1>6, <1>7 DEF Ending
<1> QED BY <1>2, <1>4, <1>5, <1>8 DEF Alias, Text

\* What stands before an identifier, and what is imported.
Spelled ==
  /\ Len(asked) \in Nat
  /\ DOMAIN body = 1 .. Len(asked)
  /\ \A i \in 1 .. Len(asked) :
       /\ asked[i] \in Paths
       /\ asked[i] # packagePath => asked[i] \in used
       /\ body[i] = IF asked[i] = packagePath THEN NoAlias
                    ELSE IF step = "done" THEN Alias(asked[i]) ELSE asked[i]
  /\ packagePath \notin used
  /\ step = "done" => imports = {[alias |-> IF NamedAsItsDirectory(p) THEN NoAlias ELSE Alias(p),
                                  dir |-> packageDirectoryFromPath(p)] : p \in used}

\* The names are final when the aliases are put in the body.
NamesFinal ==
  step = "done" =>
    \A p \in used : /\ names[p] = Ending(p, Len(names[p]))
                    /\ Len(names[p]) \in 1 .. Len(splitPath(p))
                    /\ Alias(p) = Text(p, Len(names[p]))

SInv ==
  /\ asked \in Seq(Paths)
  /\ body \in Seq(Paths \cup {NoAlias} \cup {Alias(p) : p \in Paths})
  /\ Spelled
  /\ NamesFinal

\* A path is no alias.
LEMMA PathsAreNotEmpty == \A p \in Paths : p # NoAlias
<1> SUFFICES ASSUME NEW p \in Paths, p = NoAlias PROVE FALSE
  OBVIOUS
<1>1. Len(p) = 0
  BY EmptySeq DEF NoAlias
<1> QED BY <1>1, PathsAssumption

\* An identifier is written with its placeholder, and its package is to import.
LEMMA QualifySpells ==
  ASSUME IInv, SInv, NEW p \in Paths, Qualify(p)
  PROVE  SInv'
<1> DEFINE n == Len(asked)
           mark == IF p = packagePath THEN NoAlias ELSE p
           T == Paths \cup {NoAlias} \cup {Alias(q) : q \in Paths}
<1>1. /\ step = "build" /\ step' = "build" /\ names' = names
      /\ asked' = Append(asked, p) /\ body' = Append(body, mark)
      /\ used' = IF p = packagePath THEN used ELSE used \cup {p}
  BY DEF Qualify, OwnPackage
<1>2. asked \in Seq(Paths) /\ body \in Seq(T) /\ mark \in T /\ Len(body) = n /\ n \in Nat
  <2>1. asked \in Seq(Paths) /\ body \in Seq(T) /\ DOMAIN body = 1 .. n /\ n \in Nat
    BY DEF SInv, Spelled
  <2>2. DOMAIN body = 1 .. Len(body) /\ Len(body) \in Nat
    BY <2>1, LenProperties
  <2> QED BY <2>1, <2>2
<1>3. /\ asked' \in Seq(Paths) /\ Len(asked') = n + 1 /\ asked'[n + 1] = p
      /\ \A i \in 1 .. n : asked'[i] = asked[i]
  BY <1>1, <1>2, AppendProperties
<1>4. /\ body' \in Seq(T) /\ DOMAIN body' = 1 .. n + 1 /\ body'[n + 1] = mark
      /\ \A i \in 1 .. n : body'[i] = body[i]
  <2> HIDE DEF T, mark
  <2>1. body' \in Seq(T) /\ Len(body') = n + 1 /\ body'[n + 1] = mark
        /\ \A i \in 1 .. n : body'[i] = body[i]
    BY <1>1, <1>2, AppendProperties
  <2> QED BY <2>1, LenProperties
<1>5. T' = T
  BY <1>1 DEF Alias
<1>6. ASSUME NEW i \in 1 .. n + 1
      PROVE  /\ asked'[i] \in Paths
             /\ asked'[i] # packagePath => asked'[i] \in used'
             /\ body'[i] = IF asked'[i] = packagePath THEN NoAlias ELSE asked'[i]
  <2>1. CASE i = n + 1
    BY <1>1, <1>3, <1>4, <2>1
  <2>2. CASE i \in 1 .. n
    BY <1>1, <1>3, <1>4, <2>2 DEF SInv, Spelled
  <2> QED BY <1>2, <2>1, <2>2
<1>7. packagePath \notin used'
  BY <1>1 DEF SInv, Spelled
<1> HIDE DEF T
<1>8. Spelled'
  BY <1>1, <1>2, <1>3, <1>4, <1>6, <1>7 DEF Spelled
<1>9. NamesFinal'
  BY <1>1 DEF NamesFinal
<1> QED BY <1>3, <1>4, <1>5, <1>8, <1>9 DEF SInv, T

\* The aliases take the places of the placeholders.
LEMMA ImportSpells ==
  ASSUME IInv, SInv, Import
  PROVE  SInv'
<1> DEFINE n == Len(asked)
           T == Paths \cup {NoAlias} \cup {Alias(q) : q \in Paths}
<1>1. /\ step = "alias" /\ remaining = {} /\ step' = "done" /\ UNCHANGED <<asked, used, names>>
      /\ body' = [i \in DOMAIN body |-> IF body[i] = NoAlias THEN NoAlias ELSE Alias(body[i])]
      /\ imports' = {[alias |-> IF NamedAsItsDirectory(p) THEN NoAlias ELSE Alias(p),
                      dir |-> packageDirectoryFromPath(p)] : p \in used}
  BY DEF Import
<1>2. /\ n \in Nat /\ DOMAIN body = 1 .. n
      /\ \A i \in 1 .. n : /\ asked[i] \in Paths
                           /\ asked[i] # packagePath => asked[i] \in used
                           /\ body[i] = IF asked[i] = packagePath THEN NoAlias ELSE asked[i]
  BY <1>1 DEF SInv, Spelled
<1>3. \A i \in 1 .. n : body'[i] = IF asked[i] = packagePath THEN NoAlias ELSE Alias(asked[i])
  BY <1>1, <1>2, PathsAreNotEmpty
<1>4. \A p : Alias(p)' = Alias(p) /\ (NamedAsItsDirectory(p)' <=> NamedAsItsDirectory(p))
  BY <1>1 DEF Alias, NamedAsItsDirectory
<1>5. body' = [i \in 1 .. n |-> body'[i]] /\ \A i \in 1 .. n : body'[i] \in T
  BY <1>1, <1>2, <1>3
<1> HIDE DEF T
<1>6. body' \in Seq(T)
  BY <1>2, <1>5
<1>7. T' = T
  BY <1>1, <1>4 DEF T
<1>8. Spelled'
  <2>1. imports' = {[alias |-> IF NamedAsItsDirectory(p)' THEN NoAlias ELSE Alias(p)',
                     dir |-> packageDirectoryFromPath(p)] : p \in used'}
    BY <1>1, <1>4
  <2>2. DOMAIN body' = 1 .. n
    BY <1>5
  <2> QED BY <1>1, <1>2, <1>3, <1>4, <2>1, <2>2 DEF SInv, Spelled
<1>9. NamesFinal'
  BY <1>1, <1>4, NamesAreEndings DEF NamesFinal
<1> QED BY <1>1, <1>6, <1>7, <1>8, <1>9 DEF SInv, T

\* Every identifier keeps its spelling.
LEMMA Spelling == ScopeSpec => []SInv
<1>1. ScopeInit => SInv
  <2> SUFFICES ASSUME ScopeInit PROVE SInv
    OBVIOUS
  <2>1. asked = <<>> /\ body = <<>> /\ used = {} /\ step = "build"
    BY DEF ScopeInit
  <2>2. Spelled /\ NamesFinal
    BY <2>1 DEF Spelled, NamesFinal
  <2> QED BY <2>1, <2>2, EmptySeq DEF SInv
<1>2. IInv /\ SInv /\ [ScopeNext]_scopeVars => SInv'
  <2> SUFFICES ASSUME IInv, SInv, [ScopeNext]_scopeVars PROVE SInv'
    OBVIOUS
  <2>1. ASSUME NEW p \in Paths, Qualify(p) PROVE SInv'
    BY <2>1, QualifySpells
  <2>2. CASE Import
    BY <2>2, ImportSpells
  <2>3. CASE Finish \/ Extend
    <3>1. /\ UNCHANGED <<asked, body, used, imports>>
          /\ step # "done" /\ step' # "done"
      BY <2>3 DEF Finish, Extend
    <3>2. Spelled'
      BY <3>1 DEF SInv, Spelled
    <3>3. NamesFinal'
      BY <3>1 DEF NamesFinal
    <3>4. body' \in Seq(Paths \cup {NoAlias})
      <4>1. DOMAIN body = 1 .. Len(asked) /\ Len(asked) \in Nat
        BY DEF SInv, Spelled
      <4>2. \A i \in 1 .. Len(asked) : body[i] \in Paths \cup {NoAlias}
        BY <3>1 DEF SInv, Spelled
      <4>3. body = [i \in 1 .. Len(asked) |-> body[i]]
        BY <4>1 DEF SInv
      <4> QED BY <3>1, <4>1, <4>2, <4>3
    <3>5. body' \in Seq(Paths \cup {NoAlias} \cup {Alias(p)' : p \in Paths})
      BY <3>4
    <3> QED BY <3>1, <3>2, <3>3, <3>5 DEF SInv
  <2>4. CASE UNCHANGED scopeVars
    <3>1. \A p : Alias(p)' = Alias(p) /\ (NamedAsItsDirectory(p)' <=> NamedAsItsDirectory(p))
      BY <2>4 DEF scopeVars, Alias, NamedAsItsDirectory
    <3>2. Spelled'
      BY <2>4, <3>1 DEF scopeVars, SInv, Spelled
    <3>3. NamesFinal'
      BY <2>4, <3>1 DEF scopeVars, SInv, NamesFinal
    <3> QED BY <2>4, <3>1, <3>2, <3>3 DEF scopeVars, SInv
  <2> QED BY <2>1, <2>2, <2>3, <2>4 DEF ScopeNext
<1> QED BY <1>1, <1>2, Invariance, PTL DEF ScopeSpec

\* Whatever the number of identifiers and of packages, the name before an identifier
\* is the one of exactly one import, that of the package it was asked of, provided
\* the joined segments tell the packages apart (imports.go:134 joins them by "_").
THEOREM EveryIdentifierResolves ==
  ASSUME AliasesApart
  PROVE  ScopeSpec => []IdentifiersResolve
<1>1. IInv /\ SInv /\ NamesIdentify => IdentifiersResolve
  <2> SUFFICES ASSUME IInv, SInv, NamesIdentify, step = "done", NEW i \in 1 .. Len(asked),
                      asked[i] # packagePath, NEW p \in used
               PROVE  \E spec \in imports :
                        /\ spec.dir = packageDirectoryFromPath(p)
                        /\ ImportedAs(spec, p) = body[i] <=> p = asked[i]
    BY DEF IdentifiersResolve, SInv, Spelled
  <2> DEFINE q == asked[i]
             spec == [alias |-> IF NamedAsItsDirectory(p) THEN NoAlias ELSE Alias(p),
                      dir |-> packageDirectoryFromPath(p)]
  <2>1. q \in used /\ body[i] = Alias(q) /\ spec \in imports
    BY DEF SInv, Spelled
  <2>2. p \in Paths \ {packagePath} /\ q \in Paths \ {packagePath}
    BY <2>1 DEF IInv, SInv, Spelled
  <2>3. /\ names[p] = Ending(p, Len(names[p])) /\ Len(names[p]) \in 1 .. Len(splitPath(p))
        /\ Alias(p) = Text(p, Len(names[p]))
    BY DEF SInv, NamesFinal
  <2>4. /\ names[q] = Ending(q, Len(names[q])) /\ Len(names[q]) \in 1 .. Len(splitPath(q))
        /\ Alias(q) = Text(q, Len(names[q]))
    BY <2>1 DEF SInv, NamesFinal
  <2>5. ImportedAs(spec, p) = Alias(p)
    <3>1. Alias(p) # NoAlias
      BY <2>2, <2>3 DEF AliasesApart
    <3>2. CASE NamedAsItsDirectory(p)
      <4>1. Text(p, Len(names[p])) = Words[Last(Front(p))] /\ Last(Front(p)) \notin Dotted
        BY <2>3, <3>2 DEF NamedAsItsDirectory, packageDirectoryFromPath
      <4>2. Words[Last(p)] = Alias(p)
        BY <2>2, <2>3, <4>1 DEF AliasesApart
      <4> QED BY <3>2, <4>2 DEF ImportedAs
    <3>3. CASE ~NamedAsItsDirectory(p)
      BY <3>1, <3>3 DEF ImportedAs
    <3> QED BY <3>2, <3>3
  <2>6. Alias(p) = Alias(q) => p = q
    <3> SUFFICES ASSUME Alias(p) = Alias(q) PROVE p = q
      OBVIOUS
    <3>1. Ending(p, Len(names[p])) = Ending(q, Len(names[q]))
      BY <2>2, <2>3, <2>4 DEF AliasesApart
    <3>2. names[p] = names[q]
      BY <2>3, <2>4, <3>1
    <3>3. splitPath(p) = splitPath(q)
      BY <2>1, <3>2 DEF NamesIdentify
    <3> QED BY <2>2, <3>3 DEF AliasesApart
  <2>7. spec.dir = packageDirectoryFromPath(p)
    OBVIOUS
  <2> HIDE DEF q, spec
  <2>8. ImportedAs(spec, p) = body[i] <=> p = q
    BY <2>1, <2>5, <2>6
  <2> QED BY <2>1, <2>7, <2>8 DEF q
<1> QED BY <1>1, Invariance, Spelling, NamesAreDistinct, PTL
=============================================================================

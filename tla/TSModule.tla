------------------------------ MODULE TSModule -------------------------------
(***************************************************************************)
(* The module files of the TypeScript generator (typescript/view_module.go)*)
(* and what loading them does. internal.ts exports the files of a package  *)
(* one by one; every file imports internal.ts only, so a JavaScript engine *)
(* that loads internal.ts evaluates the files in the order of its exports. *)
(* A class whose base class is not evaluated yet stops the loading.        *)
(*                                                                         *)
(* The module runs on the result of ClassOrder: orderedClasses first, on   *)
(* any hierarchy, then the exports made from it, then their loading.       *)
(***************************************************************************)
EXTENDS ClassOrder, FiniteSets

CONSTANTS
    SubClasses,   \* the classes of the sub-packages of the package
    Enums,        \* the enums of the package and of its sub-packages, in model order
    Extensions    \* the sets of elements that may have a hand-written extension

VARIABLES
    interfaces,   \* the classes with interface="true"
    extended,     \* the elements with a hand-written extension, the factory included
    mode,         \* the entry points run: the whole package or one half of a shared one
    stage,        \* "none", "exporting", or "written" once internal.ts is generated
    exported,     \* how many classes the loop of implementationExports has taken
    internal,     \* the exports of internal.ts
    loaded,       \* the files evaluated
    failed        \* a file was evaluated before the class it extends

moduleVars == <<interfaces, extended, mode, stage, exported, internal, loaded, failed>>

Factory == "Factory"

\* A model is finite. A class that is called like the package or the factory would
\* have the files of these.
ASSUME ModuleAssumption ==
    /\ IsFiniteSet(Classes)
    /\ SubClasses \subseteq Classes \ Package
    /\ Enums \in Seq(NamesOf(Enums))
    /\ "Package" \notin Classes /\ Factory \notin Classes
    /\ Extensions \subseteq SUBSET (Classes \cup {Factory})

AllClasses == Package \cup SubClasses

-----------------------------------------------------------------------------
(* The files the entry points generate (language.go). *)

File(kind, x) == <<kind, x>>

InterfacesOf(classes) == {File("interface", c) : c \in classes}
ImplementationsOf(classes) == {File("implementation", c) : c \in classes \ interfaces}
EnumFiles == {File("enum", e) : e \in NamesOf(Enums)}
PackageInterfaceFiles == {File("interface", "Package"), File("interface", Factory), File("constants", "Package")}
PackageImplementationFiles == {File("implementation", "Package"), File("implementation", Factory)}

modelFiles ==
    InterfacesOf(AllClasses) \cup ImplementationsOf(AllClasses) \cup EnumFiles
    \cup PackageInterfaceFiles \cup PackageImplementationFiles

\* generateInterfaces and generateImplementations of a shared package.
interfaceFiles ==
    InterfacesOf(AllClasses) \cup EnumFiles \cup PackageInterfaceFiles \cup PackageImplementationFiles

implementationFiles ==
    ImplementationsOf(AllClasses) \cup {File("implementation", Factory)}

Generated ==
    CASE mode = "model" -> modelFiles
      [] mode = "interfaces" -> interfaceFiles
      [] mode = "implementations" -> implementationFiles

-----------------------------------------------------------------------------
(* The exports of internal.ts (view_module.go), in order. *)

interfaceExports ==
    [i \in DOMAIN result |-> File("interface", result[i])]
    \o [i \in DOMAIN Enums |-> File("enum", Enums[i])]
    \o <<File("interface", "Package"), File("interface", Factory), File("constants", "Package")>>

\* Wrong variant: the extension before the class it extends.
ExtensionFirst(c) ==
    IF c \in extended THEN <<File("extension", c), File("implementation", c)>>
                      ELSE <<File("implementation", c)>>

ClassExports(c) ==
    IF c \in extended THEN <<File("implementation", c), File("extension", c)>>
                      ELSE <<File("implementation", c)>>

packageImplementationExports ==
    <<File("implementation", "Package"), File("implementation", Factory)>>
    \o (IF Factory \in extended THEN <<File("extension", Factory)>> ELSE <<>>)

\* What comes before the exports of the implementations, and after.
exportsBefore == IF mode = "implementations" THEN <<>> ELSE interfaceExports

exportsAfter ==
    IF mode = "implementations" THEN <<File("implementation", Factory)>>
                                ELSE packageImplementationExports

-----------------------------------------------------------------------------
(* The class the implementation of a class extends: the first class that is *)
(* no interface along its first super types (classExtends, classExtendsClass). *)

\* The first super type of a class, and of each interface that the climb meets.
Climbed(c) ==
    {b \in Classes \cup {None} :
        \A S \in SUBSET (Classes \cup {None}) :
            super[c] \in S /\ (\A i \in S \cap interfaces : super[i] \in S) => b \in S}

ExtendsClass(c) == CHOOSE b \in Climbed(c) : b \notin interfaces

\* The files of the module whose class the file needs when it is evaluated; the
\* classes of another module are evaluated before.
Needs(f) ==
    CASE f[1] = "extension" -> {File("implementation", f[2])}
      [] f[1] = "implementation" /\ f[2] \in Classes ->
            LET base == ExtendsClass(f[2]) IN
            IF base \notin AllClasses THEN {}
            ELSE {File(IF base \in extended THEN "extension" ELSE "implementation", base)}
      [] OTHER -> {}

-----------------------------------------------------------------------------
\* The first super types of the classes form no cycle: with one, the generator
\* does not return (classExtendsClass).
Acyclic == \A c \in Classes : c \notin Above(c)

ModuleInit ==
    /\ Init
    /\ interfaces = {}
    /\ extended = {}
    /\ mode = "model"
    /\ stage = "none"
    /\ exported = 0
    /\ internal = <<>>
    /\ loaded = <<>>
    /\ failed = FALSE

Order == Next /\ UNCHANGED moduleVars

\* The views read the order of the classes, and the first to read the rest: the
\* annotations of the model, the properties and the entry points asked for are
\* any, and chosen here.
Generate ==
    /\ Returned /\ Acyclic /\ stage = "none"
    /\ interfaces' \in SUBSET Classes
    /\ extended' \in Extensions
    /\ mode' \in {"model", "interfaces", "implementations"}
    /\ stage' = "exporting"
    /\ UNCHANGED <<vars, exported, loaded, failed>>
    /\ internal' = exportsBefore'

\* The interfaces of a shared package have no implementations.
Exporting == stage = "exporting" /\ mode # "interfaces" /\ exported < Len(result)

SkipInterface ==
    /\ Exporting /\ result[exported + 1] \in interfaces
    /\ exported' = exported + 1
    /\ UNCHANGED <<vars, interfaces, extended, mode, stage, internal, loaded, failed>>

ExportClass ==
    /\ Exporting /\ result[exported + 1] \notin interfaces
    /\ internal' = internal \o ClassExports(result[exported + 1])
    /\ exported' = exported + 1
    /\ UNCHANGED <<vars, interfaces, extended, mode, stage, loaded, failed>>

WriteModule ==
    /\ stage = "exporting" /\ ~Exporting
    /\ internal' = internal \o exportsAfter
    /\ stage' = "written"
    /\ UNCHANGED <<vars, interfaces, extended, mode, exported, loaded, failed>>

\* The engine evaluates the next file exported.
Load ==
    /\ stage = "written" /\ ~failed
    /\ Len(loaded) < Len(internal)
    /\ LET f == internal[Len(loaded) + 1] IN
       /\ loaded' = Append(loaded, f)
       /\ failed' = ~(Needs(f) \subseteq NamesOf(loaded))
    /\ UNCHANGED <<vars, interfaces, extended, mode, stage, exported, internal>>

ModuleNext == Order \/ Generate \/ SkipInterface \/ ExportClass \/ WriteModule \/ Load

\* One program after the other, each of them sequential: they run until they end.
ModuleSpec ==
    /\ ModuleInit /\ [][ModuleNext]_<<vars, moduleVars>>
    /\ WF_<<vars, moduleVars>>(ModuleNext)

-----------------------------------------------------------------------------
(* Properties *)

ModuleTypeOK ==
    /\ interfaces \subseteq Classes
    /\ loaded = SubSeq(internal, 1, Len(loaded))
    /\ failed \in BOOLEAN

\* "a class follows the classes it extends" (view_module.go:9-11): the order of
\* the first super types puts every base class, interfaces skipped and
\* extensions included, before the classes that extend it, across the classes of
\* other packages, so that loading internal.ts never stops.
BasesAreLoaded == ~failed

\* "internal.ts exports every file of the package" (view_module.go:9-11). It does
\* not (the run exports): the files are those of AllClasses in language.go, the
\* exports those of OrderedClasses in view_module.go, which leaves out the classes
\* of the sub-packages, whose files are in the folder of the package all the same.
EveryFileExported == stage = "written" => Generated \subseteq NamesOf(internal)

SubPackageFiles == InterfacesOf(SubClasses) \cup ImplementationsOf(SubClasses)

\* What internal.ts does export: each file that the entry point of its package or
\* half generates, but for the classes of sub-packages, and nothing else besides
\* the hand-written extensions.
OwnFilesExported ==
    stage = "written" =>
        {f \in NamesOf(internal) : f[1] # "extension"} = Generated \ SubPackageFiles
=============================================================================

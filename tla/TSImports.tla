------------------------------ MODULE TSImports ------------------------------
(***************************************************************************)
(* The imports of the TypeScript files (typescript/imports.go, modules.go) *)
(* and the names that the modules they come from export (view_module.go).  *)
(*                                                                         *)
(* Every name of another file is written as <module>/<name>.  A file       *)
(* imports from the path of the module the names it does not declare       *)
(* itself: ./internal.js for its own package, and for another module, or   *)
(* the interfaces of a shared package, the path that the `paths` property  *)
(* gives it: a file of this name, or what the package exports.             *)
(***************************************************************************)
EXTENDS TSModule

Shared == mode # "model"

\* What `packages` gives the package: a module, or one for the interfaces and one
\* for the implementations, which make a shared package.
moduleParts == IF Shared THEN <<"own", "implementation">> ELSE <<"own">>

indexModule(index) ==
    IF index > Len(moduleParts) THEN moduleParts[Len(moduleParts)] ELSE moduleParts[index]
interfaceModule == indexModule(1)
implementationModule == indexModule(2)

Foreign == Classes \ AllClasses

-----------------------------------------------------------------------------
(* The names.  A type has the name of its file; a function is <<"get", _>> *)
(* for the instance of a package or of a factory, and the conversions of   *)
(* an enum.                                                                *)

Getter(x) == <<"get", x>>
Conversions(e) == {<<"fromString", e>>, <<"toString", e>>}
SharedFunctions == {<<"function", "getFactory">>, <<"function", "install">>}

\* The names that a file of the package exports, in a run of these entry points.
Declares(f, run) ==
    {f} \cup CASE f[1] = "enum" -> Conversions(f[2])
               [] f = File("interface", "Package") -> {Getter("Package")}
               [] f = File("interface", Factory) /\ run = "model" -> {Getter(Factory)}
               [] f = File("implementation", Factory) /\ run = "implementations" -> SharedFunctions
               [] OTHER -> {}

publicNames ==
    InterfacesOf(NamesOf(result)) \cup EnumFiles \cup PackageInterfaceFiles \cup {Getter("Package")}

indexNames ==
    CASE mode = "model" -> publicNames \cup {Getter(Factory)}
      [] mode = "interfaces" -> publicNames
      [] mode = "implementations" -> {File("implementation", Factory)} \cup SharedFunctions

-----------------------------------------------------------------------------
(* The names a file uses: sets of <<module, name>>. *)

Of(module, names) == {module} \X names

BuiltClass(x) == File(IF x \in extended THEN "extension" ELSE "implementation", x)

\* The types of features and parameters are the interfaces of the classes and the
\* enums, whose literals are default values.
Types == Of(interfaceModule, InterfacesOf(AllClasses) \cup EnumFiles) \cup Of("other", InterfacesOf(Foreign))

\* The meta objects of the classes of a file are read from their packages.
Packages == Of(interfaceModule, {Getter("Package")}) \cup Of("other", {Getter("Package")})

constants == Of(interfaceModule, {File("constants", "Package")})

classExtends(c) ==
    LET base == ExtendsClass(c)
    IN  CASE base = None -> {}
          [] base \in Foreign -> Of("other", {BuiltClass(base)})
          [] OTHER -> Of(implementationModule, {BuiltClass(base)})

implementationUses(c) ==
    Types \cup Packages \cup constants \cup classExtends(c)
    \cup (IF Shared THEN Of(implementationModule, {<<"function", "getFactory">>}) ELSE {})

packageInterfaceUses ==
    Of(IF Shared THEN interfaceModule ELSE implementationModule, {File("implementation", "Package")})

factoryInterfaceUses ==
    Types \cup (IF Shared THEN {} ELSE Of(interfaceModule, {BuiltClass(Factory)}))

\* The factory of the objects; with a shared package, another one has the data types.
dataTypeConversions == Of(interfaceModule, EnumFiles \cup UNION {Conversions(e) : e \in NamesOf(Enums)})

factoryImplementationUses ==
    Types \cup constants \cup Of(interfaceModule, {File("interface", Factory)})
    \cup Of(implementationModule, {BuiltClass(c) : c \in AllClasses \ interfaces})
    \cup (IF Shared THEN Packages ELSE dataTypeConversions)

dataTypeFactoryUses == constants \cup dataTypeConversions

packageImplementationUses ==
    Packages \cup constants \cup Types \cup Of(interfaceModule, {File("interface", "Package")})
    \cup (IF Shared THEN Of(interfaceModule, {BuiltClass(Factory)})
                    ELSE Of(interfaceModule, {Getter(Factory), File("interface", Factory)}))

Uses(f) ==
    CASE f = File("interface", "Package") -> packageInterfaceUses
      [] f = File("interface", Factory) -> factoryInterfaceUses
      [] f = File("implementation", "Package") -> packageImplementationUses
      [] f = File("implementation", Factory) ->
            IF mode = "interfaces" THEN dataTypeFactoryUses ELSE factoryImplementationUses
      [] f[1] = "interface" /\ f[2] \in AllClasses -> Types
      [] f[1] = "implementation" /\ f[2] \in AllClasses -> implementationUses(f[2])
      [] OTHER -> {}

\* The types a file declares, in the module of its interfaces or of its classes.
declared(f) ==
    CASE f[1] = "interface" -> Of(interfaceModule, {f})
      [] f = File("implementation", "Package") -> Of(interfaceModule, {f})
      [] f = File("implementation", Factory) /\ mode = "interfaces" -> Of(interfaceModule, {f})
      [] OTHER -> Of(implementationModule, {f})

imports(f) == Uses(f) \ declared(f)

-----------------------------------------------------------------------------
(* The import paths.  `paths` gives a module a file of the other package,  *)
(* its index.ts or its internal.ts, or nothing, "".                        *)

Paths == [{"own", "other"} -> {"", "index", "internal"}]
Internal == <<"this", "internal">>

\* The modules that the property gives a path.
Given(paths) == {m \in DOMAIN paths : paths[m] # ""}

\* Wrong variant: the implementations of a shared package keep the name of their module.
InternalOfTheInterfaces(paths) ==
    IF Shared THEN {interfaceModule} \ Given(paths) ELSE {interfaceModule}

\* The modules whose files are those of internal.ts. A run that generates the
\* implementations of a shared package may be given the path of its interfaces.
InternalModules(paths) ==
    IF Shared THEN {implementationModule} \cup ({interfaceModule} \ Given(paths))
              ELSE {interfaceModule}

modulePaths(paths) ==
    [m \in Given(paths) \cup InternalModules(paths) |->
        IF m \in InternalModules(paths) THEN Internal ELSE <<m, paths[m]>>]

\* A module without path is imported by its name: what its index.ts exports.
modulePath(m, paths) == IF m \in DOMAIN modulePaths(paths) THEN modulePaths(paths)[m] ELSE <<m, "index">>

Exports(files, run) == UNION {Declares(f, run) : f \in NamesOf(files)}

\* The other package is generated by the same generator, whole.
Exported(path) ==
    CASE path = Internal -> Exports(internal, mode)
      [] path = <<"own", "internal">> -> Exports(interfaceExports \o packageImplementationExports, "interfaces")
      [] path = <<"own", "index">> -> publicNames
      [] path = <<"other", "internal">> ->
            InterfacesOf(Foreign) \cup {BuiltClass(c) : c \in Foreign} \cup {Getter("Package")}
      [] path = <<"other", "index">> -> InterfacesOf(Foreign) \cup {Getter("Package")}
      [] OTHER -> {}

Unresolved(f, paths) == {id \in imports(f) : id[2] \notin Exported(modulePath(id[1], paths))}

-----------------------------------------------------------------------------
(* Properties *)

(***************************************************************************)
(* The imports that resolve to nothing: those of a run that generates the  *)
(* implementations of a shared package and is not given the path of the    *)
(* interfaces; those of the interfaces themselves when they are imported   *)
(* through their index.ts, which the path of an annotation does to them;   *)
(* and the class of another package that a class extends, when the path of *)
(* the other module is not that of its internal.ts.                        *)
(***************************************************************************)
Unexported(f, paths) ==
    {id \in imports(f) :
        \/ mode = "implementations" /\ paths["own"] = "" /\ id[1] = "own"
        \/ mode = "interfaces" /\ paths["own"] = "index" /\ id[1] = "own"
           /\ id[2][1] \in {"implementation", "extension", "fromString", "toString"}
        \/ id[1] = "other" /\ paths["other"] # "internal" /\ id[2][1] \in {"implementation", "extension"}}

\* Every name that a file imports, from a module of the package or from another
\* one, is exported by the file that the import reaches, and index.ts exports
\* nothing that internal.ts does not: the views qualify the names one by one
\* (imports.go), the module files list files and names of their own.
ImportsResolve ==
    (stage = "written" /\ loaded = <<>>) =>
        /\ indexNames \subseteq Exports(internal, mode)
        /\ \A paths \in Paths : \A f \in Generated : Unresolved(f, paths) = Unexported(f, paths)
=============================================================================

----------------------------- MODULE Properties -----------------------------
(***************************************************************************)
(* The properties of a run: the -p entries of the command line             *)
(* (cmd/soft.gen/keyvalues.go), the -P files and the layers of             *)
(* internal/props/props.go, the values that internal/engine/run.go sets,   *)
(* and the list properties of internal/lang/common, which merge layers     *)
(* instead of letting the first one win.                                   *)
(*                                                                         *)
(* A value is the sequence of its tokens; only for the property "packages" *)
(* do they matter: a token gives the paths of a package.  An undeclared    *)
(* key has no declaration but a value all the same.                        *)
(***************************************************************************)
EXTENDS Naturals, Sequences

LOCAL INSTANCE FiniteSetsExt

CONSTANTS
  Keys,          \* the keys of the properties
  Tokens,        \* what their values are made of, [by, key, spec] for "packages"
  Texts,         \* their values, Empty among them
  Entries,       \* the values that a -p entry may give
  NotGiven,      \* what a layer that does not hold a key has for it
  Files,         \* the property files: key |-> text or NotGiven
  Annotations,   \* the generator annotations that the root package may have
  DeclaredKeys,  \* the declared keys, the reserved ones included
  PackageScoped, \* the ones that the annotation is read for
  Default,       \* declared key |-> default value, or Empty
  EngineValues,  \* the keys that the engine sets |-> their values
  DefaultSpecs,  \* the tokens of the packages known without the property
  Mapped,        \* the packages that a list may map: [uri, name]
  MaxEntries     \* bound: the -p entries, and the -P files

Empty == <<>>

ASSUME LayersAssumption ==
  /\ "packages" \in Keys
  /\ \A t \in Tokens : t.spec # NotGiven
  /\ Texts \subseteq Seq(Tokens) /\ DefaultSpecs \in Seq(Tokens)
  /\ Empty \in Texts /\ Entries \subseteq Texts
  /\ NotGiven \notin Texts
  /\ \A layer \in Files \cup Annotations : layer \in [Keys -> Texts \cup {NotGiven}]
  /\ PackageScoped \subseteq DeclaredKeys /\ DeclaredKeys \subseteq Keys
  /\ Default \in [DeclaredKeys -> Texts]
  /\ DOMAIN EngineValues \subseteq Keys
  /\ EngineValues \in [DOMAIN EngineValues -> Texts]
  /\ MaxEntries \in Nat

VARIABLES
  annotation,  \* the generator annotation of the root package
  arguments,   \* the -p entries, in order
  paths,       \* the -P files, in order
  cli,         \* keyValues.values, then the layer cli
  fileLayer,   \* the layer files
  loaded,      \* how many files it was loaded from
  set,         \* the layer set
  stage        \* "options" are parsed, "new" loads the files, "resolved"

optionVars == <<annotation, arguments, paths, cli, fileLayer, loaded, set, stage>>

Nothing == [k \in Keys |-> NotGiven]

OptionsInit ==
  /\ annotation \in Annotations
  /\ arguments = <<>>
  /\ paths = <<>>
  /\ cli = Nothing
  /\ fileLayer = Nothing
  /\ loaded = 0
  /\ set = Nothing
  /\ stage = "options"

WithEntry(k, v) == [cli EXCEPT ![k] = v]

\* -p k=v: a later value of the same key wins.
AddEntry(k, v) ==
  /\ stage = "options"
  /\ Len(arguments) < MaxEntries
  /\ arguments' = Append(arguments, [key |-> k, value |-> v])
  /\ cli' = WithEntry(k, v)
  /\ UNCHANGED <<annotation, paths, fileLayer, loaded, set, stage>>

\* -P f
AddFile(f) ==
  /\ stage = "options"
  /\ Len(paths) < MaxEntries
  /\ paths' = Append(paths, f)
  /\ UNCHANGED <<annotation, arguments, cli, fileLayer, loaded, set, stage>>

\* The command line is parsed and props.New begins.
Parsed ==
  /\ stage = "options"
  /\ stage' = "new"
  /\ UNCHANGED <<annotation, arguments, paths, cli, fileLayer, loaded, set>>

\* Wrong variant: the last file defining the key wins.
OverriddenBy(f) == [k \in Keys |-> IF f[k] # NotGiven THEN f[k] ELSE fileLayer[k]]

\* The first file defining a key wins.
CompletedBy(f) == [k \in Keys |-> IF fileLayer[k] = NotGiven THEN f[k] ELSE fileLayer[k]]

LoadFile ==
  /\ stage = "new"
  /\ loaded < Len(paths)
  /\ loaded' = loaded + 1
  /\ fileLayer' = CompletedBy(paths[loaded'])
  /\ UNCHANGED <<annotation, arguments, paths, cli, set, stage>>

\* props.New returns, and resolveProperties sets nsURI and templates.
SetEngineValues ==
  /\ stage = "new"
  /\ loaded = Len(paths)
  /\ set' = [k \in Keys |-> IF k \in DOMAIN EngineValues THEN EngineValues[k] ELSE NotGiven]
  /\ stage' = "resolved"
  /\ UNCHANGED <<annotation, arguments, paths, cli, fileLayer, loaded>>

OptionsNext ==
  \/ \E k \in Keys, v \in Entries : AddEntry(k, v)
  \/ \E f \in Files : AddFile(f)
  \/ Parsed
  \/ LoadFile
  \/ SetEngineValues

OptionsSpec == OptionsInit /\ [][OptionsNext]_optionVars

(***************************************************************************)
(* Reading a property                                                      *)
(***************************************************************************)

Provides(v) == v \notin {NotGiven, Empty}

Annotated(k) == IF k \in PackageScoped THEN annotation[k] ELSE NotGiven

DefaultOf(k) == IF k \in DeclaredKeys THEN Default[k] ELSE NotGiven

Layers(k) ==
  <<[layer |-> "cli", value |-> set[k]], [layer |-> "cli", value |-> cli[k]],
    [layer |-> "file", value |-> fileLayer[k]], [layer |-> "annotation", value |-> Annotated(k)],
    [layer |-> "default", value |-> DefaultOf(k)]>>

\* Lookup: the first layer that gives a value.
Lookup(k) ==
  LET giving == {i \in DOMAIN Layers(k) : Provides(Layers(k)[i].value)}
  IN  IF giving = {} THEN [layer |-> "none", value |-> Empty] ELSE Layers(k)[Min(giving)]

\* CLI: the raw value of the command line, else of the files.
CLI(k) == IF cli[k] # NotGiven THEN cli[k] ELSE fileLayer[k]

ListOf(v) == IF v = NotGiven THEN Empty ELSE v

\* ListProperty: the command line, then the annotation.
ListProperty(k) == ListOf(CLI(k)) \o ListOf(annotation[k])

\* The positions of the tokens that give paths to a package.
SpecsOf(list, by, key) == {i \in DOMAIN list : list[i].by = by /\ list[i].key = key}

\* Spec: the paths that a list gives to a package, by its nsURI, else by its
\* name; ParsePackageSpecs keeps the last token.
PathsIn(list, p) ==
  LET byURI  == SpecsOf(list, "uri", p.uri)
      byName == SpecsOf(list, "name", p.name)
  IN  IF byURI # {} THEN list[Max(byURI)].spec
      ELSE IF byName # {} THEN list[Max(byName)].spec
      ELSE NotGiven

PathsFor(p) == PathsIn(DefaultSpecs \o ListProperty("packages"), p)

(***************************************************************************)
(* Correctness                                                             *)
(***************************************************************************)

Layer == [Keys -> Texts \cup {NotGiven}]

OptionsTypeOK ==
  /\ {annotation, cli, fileLayer, set} \subseteq Layer
  /\ arguments \in Seq([key : Keys, value : Texts])
  /\ paths \in Seq(Files)
  /\ loaded \in 0 .. Len(paths)
  /\ stage \in {"options", "new", "resolved"}

\* What the user wrote for a key: its last -p entry, and the first of the -P
\* files that holds it.
LastEntry(k) ==
  LET entries == {i \in DOMAIN arguments : arguments[i].key = k}
  IN  IF entries = {} THEN NotGiven ELSE arguments[Max(entries)].value

FirstFile(k) ==
  LET defining == {i \in DOMAIN paths : paths[i][k] # NotGiven}
  IN  IF defining = {} THEN NotGiven ELSE paths[Min(defining)][k]

\* README.md:317-321: the command line, the property files (the first one that
\* defines the key), the annotation of the root package for the properties
\* marked package, the default value; an empty value does not hide the lower
\* layers. Only the engine comes before the command line. Whatever the order of
\* the options, a key has the value that what the user wrote calls for.
DocumentedOrder ==
  stage = "resolved" =>
    \A k \in Keys :
      LET sources == <<IF k \in DOMAIN EngineValues THEN EngineValues[k] ELSE NotGiven,
                       LastEntry(k), FirstFile(k),
                       IF k \in PackageScoped THEN annotation[k] ELSE NotGiven,
                       IF k \in DeclaredKeys THEN Default[k] ELSE NotGiven>>
      IN  /\ Lookup(k).value = Empty <=> \A i \in DOMAIN sources : ~Provides(sources[i])
          /\ Provides(Lookup(k).value) =>
               \E i \in DOMAIN sources :
                 /\ Lookup(k).value = sources[i]
                 /\ \A j \in 1 .. i - 1 : ~Provides(sources[j])

\* README.md:317-321 of the property "packages", package by package: the paths of
\* a package are those of the first layer that maps it, and an empty value, which
\* maps none, hides no lower layer. The code does otherwise (the run mappings):
\* ListProperty puts the annotation after the command line, where the last token
\* wins, and CLI returns an empty -p entry instead of the value of the files.
MappingsInOrder ==
  stage = "resolved" =>
    \A p \in Mapped :
      LET layers == <<ListOf(LastEntry("packages")), ListOf(FirstFile("packages")),
                      ListOf(annotation["packages"]), DefaultSpecs>>
          mapping == {i \in DOMAIN layers : PathsIn(layers[i], p) # NotGiven}
      IN  PathsFor(p) = IF mapping = {} THEN NotGiven ELSE PathsIn(layers[Min(mapping)], p)
=============================================================================

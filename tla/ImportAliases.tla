--------------------------- MODULE ImportAliases ----------------------------
(***************************************************************************)
(* The scope of a generated Go file: internal/lang/golang/imports.go.      *)
(* While the view of the file is built, qualify writes a placeholder for   *)
(* each identifier of another package; once the body is rendered, finish   *)
(* knows every package used, chooses their aliases, puts them in place of  *)
(* the placeholders and writes the import block.                           *)
(*                                                                         *)
(* A package path is a sequence of segments: the directories, then the     *)
(* name of the package.  A segment is a name without a structure, of which *)
(* only the words between "_" and "." matter.                              *)
(***************************************************************************)
EXTENDS Naturals, Sequences, FiniteSets

LOCAL INSTANCE SequencesExt

CONSTANTS
  Paths,          \* the package paths of the model and of the Go library
  packagePath,    \* the package of the file
  Words,          \* segment |-> the words between its "_" and "."
  Dotted,         \* the segments with a "."
  MaxReferences   \* bound: the identifiers of the body

ASSUME PathsAssumption ==
  /\ \A p \in Paths : DOMAIN p = 1 .. Len(p) /\ Len(p) \in Nat \ {0, 1}
  /\ packagePath \in Paths

VARIABLES
  asked,      \* the package of each identifier of the body
  body,       \* what stands before the identifier: <<>>, a placeholder, an alias
  used,       \* the packages to import
  names,      \* the segments of each alias, from the last one of the path
  index,      \* the position of the segments that the next round compares
  remaining,  \* the paths whose alias may grow
  step,       \* "build" the view, "alias" the packages, or "done"
  imports     \* the import block

scopeVars == <<asked, body, used, names, index, remaining, step, imports>>

NoAlias == <<>>

packageDirectoryFromPath(p) == Front(p)

\* The positions of a path kept by splitPath: one of consecutive duplicates.
Kept(p) == {i \in 1 .. Len(p) : i = 1 \/ p[i] # p[i - 1]}

\* The segments of a path from the last one, consecutive duplicates dropped.
splitPath(p) ==
  [k \in 1 .. Cardinality(Kept(p)) |->
     p[CHOOSE i \in Kept(p) : Cardinality({j \in Kept(p) : j > i}) = k - 1]]

HasSegment(p) == index < Len(splitPath(p))

\* The map segment of a round: the segment of each path at the position index.
Segment(p) == splitPath(p)[index + 1]

ScopeInit ==
  /\ asked = <<>>
  /\ body = <<>>
  /\ used = {}
  /\ names = [p \in Paths |-> <<>>]
  /\ index = 0
  /\ remaining = {}
  /\ step = "build"
  /\ imports = {}

\* Wrong variant: a package with the name of the file's package is taken for it.
SameName(p) == p[Len(p)] = packagePath[Len(packagePath)]

OwnPackage(p) == p = packagePath

\* qualify: an identifier of the path p is written.
Qualify(p) ==
  /\ step = "build"
  /\ Len(asked) < MaxReferences
  /\ asked' = Append(asked, p)
  /\ IF OwnPackage(p)
     THEN body' = Append(body, NoAlias) /\ used' = used
     ELSE body' = Append(body, p) /\ used' = used \cup {p}
  /\ UNCHANGED <<names, index, remaining, step, imports>>

\* The template is rendered and finish begins.
Finish ==
  /\ step = "build"
  /\ step' = "alias"
  /\ remaining' = used
  /\ UNCHANGED <<asked, body, used, names, index, imports>>

\* Wrong variant: the paths are compared without their directories.
SharedByName(p) == index = 0 /\ \E q \in used \ {p} : HasSegment(q) /\ Segment(q) = Segment(p)

\* Another path has the segment of p, at the same position.
Shared(p) == \E q \in used \ {p} : HasSegment(q) /\ Segment(q) = Segment(p)

StillGrowing(p) == HasSegment(p) /\ Shared(p)

\* One round of computeImportAliases.
Extend ==
  /\ step = "alias"
  /\ remaining # {}
  /\ names' = [p \in Paths |->
                 IF p \in remaining /\ HasSegment(p) THEN Append(names[p], Segment(p)) ELSE names[p]]
  /\ remaining' = {p \in remaining : StillGrowing(p)}
  /\ index' = index + 1
  /\ UNCHANGED <<asked, body, used, step, imports>>

\* The words of segments joined by "_", "." being replaced by "_".
Joined(segments) == FlattenSeq([i \in DOMAIN segments |-> Words[segments[i]]])

Alias(p) == Joined(Reverse(names[p]))

\* Whether the alias of p, as a text, is the last segment of its directory.
NamedAsItsDirectory(p) ==
  LET dir == packageDirectoryFromPath(p)
  IN  Alias(p) = Words[Last(dir)] /\ Last(dir) \notin Dotted

\* finish: the placeholders are replaced and the imports are listed.
Import ==
  /\ step = "alias"
  /\ remaining = {}
  /\ step' = "done"
  /\ body' = [i \in DOMAIN body |-> IF body[i] = NoAlias THEN NoAlias ELSE Alias(body[i])]
  /\ imports' = {[alias |-> IF NamedAsItsDirectory(p) THEN NoAlias ELSE Alias(p),
                  dir |-> packageDirectoryFromPath(p)] : p \in used}
  /\ UNCHANGED <<asked, used, names, index, remaining>>

ScopeNext == (\E p \in Paths : Qualify(p)) \/ Finish \/ Extend \/ Import

ScopeSpec == ScopeInit /\ [][ScopeNext]_scopeVars

(***************************************************************************)
(* Correctness                                                             *)
(***************************************************************************)

ScopeTypeOK ==
  /\ \A i \in 1 .. Len(asked) : asked[i] \in Paths
  /\ Len(body) = Len(asked)
  /\ used \in SUBSET (Paths \ {packagePath})
  /\ DOMAIN names = Paths
  /\ index \in Nat
  /\ remaining \in SUBSET used
  /\ step \in {"build", "alias", "done"}

\* The name that the Go compiler gives to an import: its alias, or the name
\* that the package of the directory declares.
ImportedAs(spec, p) == IF spec.alias # NoAlias THEN spec.alias ELSE Words[Last(p)]

\* imports.go:17-19: "an identifier of the file's own package is bare, an
\* identifier of another package is prefixed by the alias of that package, and
\* every package used is imported". The name before an identifier is the one of
\* exactly one import, that of the package the identifier was asked of.
IdentifiersResolve ==
  step = "done" =>
    \A i \in 1 .. Len(asked) :
      IF asked[i] = packagePath
      THEN body[i] = NoAlias
      ELSE /\ asked[i] \in used
           /\ \A p \in used :
                \E spec \in imports :
                  /\ spec.dir = packageDirectoryFromPath(p)
                  /\ ImportedAs(spec, p) = body[i] <=> p = asked[i]

\* Two packages never get the same segments, when splitPath tells them apart.
NamesIdentify ==
  step = "done" =>
    \A p, q \in used : names[p] = names[q] => splitPath(p) = splitPath(q)

\* An alias holds the directories of a path only when another path of the file
\* has, at the same positions, the segments before: the alias of a package whose
\* name is its own is that name, whatever the other packages.
AliasesAreShort ==
  step = "done" =>
    \A p \in used :
      \A k \in 1 .. Len(names[p]) - 1 :
        \E q \in used \ {p} : k <= Len(splitPath(q)) /\ splitPath(q)[k] = names[p][k]
=============================================================================

------------------------------- MODULE Writer -------------------------------
(***************************************************************************)
(* What Writer.Write makes of one file, and what it works on: the data of  *)
(* a generation.  internal/writer/writer.go, with the user code region of  *)
(* a file seen as one value; module Regions has its lines.                 *)
(***************************************************************************)
EXTENDS Naturals, Sequences, FiniteSets

CONSTANTS
  MaxRevision,  \* bound on the revisions of the inputs
  Files,        \* the generated files: records of a folder and a name
  Protected,    \* the files written with WithRegions
  Declares,     \* revision, file |-> the id of its region, or NoId
  NoId,
  Code,         \* what a user may write in a region
  Empty,        \* the region as generated
  Broken,       \* the code the formatter refuses
  Neat,         \* code |-> the code as formatted
  HasRegions,   \* the language has a region syntax
  HasFormatter  \* formatterOf gives a formatter

(***************************************************************************)
(* Paths and texts                                                         *)
(***************************************************************************)
Revisions == 1 .. MaxRevision

ManifestName == ".soft.gen.yaml"

Folders == {f.dir : f \in Files}

ManifestPath(d) == [dir |-> d, name |-> ManifestName]

Manifests == {ManifestPath(d) : d \in Folders}

Paths == Files \cup Manifests

\* No text of a revision: a torn text, or one edited outside its region.
Foreign == 0

Ids == {NoId} \cup {Declares[r][f] : r \in Revisions, f \in Files}

(***************************************************************************)
(* A text is the revision that generated what is outside its region, the   *)
(* region it holds, whether the end marker of the region can be found      *)
(* ("paired"), is gone while the file still mentions one ("unpaired"), or  *)
(* is mentioned nowhere ("bare"), and whether its lines end with CRLF.     *)
(***************************************************************************)
MarksKinds == {"paired", "unpaired", "bare"}

Texts == [outside : {Foreign} \cup Revisions, region : Ids, code : Code,
          marks : MarksKinds, crlf : BOOLEAN]

Text(r, id) == [outside |-> r, region |-> id, code |-> Empty, marks |-> "paired", crlf |-> FALSE]

\* What os.ReadFile gives: no error and the bytes, or ErrNotExist and none.
Missing == [exists |-> FALSE, text |-> Text(Foreign, NoId)]

Stored(t) == [exists |-> TRUE, text |-> t]

Contents == [exists : BOOLEAN, text : Texts]

\* The header and the body of a file, or its manifest.
Rendered(r, path) == Text(r, IF path \in Files THEN Declares[r][path] ELSE NoId)

(***************************************************************************)
(* A file has a region only where the language has regions and marks the   *)
(* file Protected.  A formatter accepts what it formatted, and leaves it   *)
(* as it is.  The folders are numbered in the order of their paths.        *)
(***************************************************************************)
ASSUME WriterAssumption ==
  /\ MaxRevision \in Nat \ {0}
  /\ \A f \in Files : f.name # ManifestName /\ f.dir \in Nat
  /\ Protected \subseteq Files
  /\ HasRegions \in BOOLEAN /\ (~HasRegions => Protected = {})
  /\ HasFormatter \in BOOLEAN
  /\ \A r \in Revisions, f \in Files \ Protected : Declares[r][f] = NoId
  /\ Empty \in Code
  /\ Neat \in [Code -> Code]
  /\ \A c \in Code : Neat[Neat[c]] = Neat[c] /\ (c \notin Broken => Neat[c] \notin Broken)

(***************************************************************************)
(* Writer.Write: what it makes of the file on disk and of the generated    *)
(* text                                                                    *)
(***************************************************************************)
Normalized(t) == [t EXCEPT !.crlf = FALSE]

\* parseRegions finds no region in a text that mentions no end marker.
ParsedRegion(t) == IF t.marks = "bare" THEN NoId ELSE t.region

ParseFails(t) == t.region # NoId /\ t.marks = "unpaired"

\* Wrong variant: the run does not pass WithRegions.
MergesNothing(path, old) == FALSE

Merges(path, old) == HasRegions /\ path \in Protected /\ old.exists

IsLost(path, old, new) ==
  Merges(path, old) /\ ParsedRegion(old.text) \notin {NoId, new.region}

Merged(path, old, new) ==
  IF Merges(path, old) /\ ParsedRegion(old.text) # NoId /\ old.text.region = new.region
  THEN [new EXCEPT !.code = old.text.code, !.crlf = old.text.crlf /\ old.text.code # Empty]
  ELSE new

Formatted(t) == IF HasFormatter THEN [t EXCEPT !.code = Neat[t.code], !.crlf = FALSE] ELSE t

\* Wrong variant: the file is formatted before its regions are put back.
OutputFormattedFirst(r, path, old) == Merged(path, old, Formatted(Rendered(r, path)))

\* What Write would put at path, given the file on disk.
Output(r, path, old) == Formatted(Merged(path, old, Rendered(r, path)))

OutputFails(r, path, old) ==
  \/ Merges(path, old) /\ ParseFails(old.text)
  \/ HasFormatter /\ Merged(path, old, Rendered(r, path)).code \in Broken

\* The comparison of --diff.
IsSame(old, t) == old.exists /\ Normalized(old.text) = t

=============================================================================

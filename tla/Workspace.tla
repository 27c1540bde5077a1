----------------------------- MODULE Workspace -----------------------------
(***************************************************************************)
(* The output folder between and around the runs: the files on disk, the   *)
(* users who edit them, and the revision of the inputs of the generator.   *)
(***************************************************************************)
EXTENDS Writer

CONSTANT Edits \* the kinds of edits the users make

VARIABLES
  rev,   \* the revision of the model, the properties and the generator
  disk,  \* the files under the output folder
  owned  \* history: the code the user last wrote in the region of a file

files == <<rev, disk, owned>>

NoCode == "no code"

EditKinds == {"region", "unpaired", "bare", "outside", "crlf", "delete"}

ASSUME EditsAssumption == Edits \subseteq EditKinds /\ NoCode \notin Code

FilesInit ==
  /\ rev = 1
  /\ disk = [path \in Paths |-> Missing]
  /\ owned = [f \in Files |-> NoCode]

Edit(f, text) ==
  /\ disk[f].exists
  /\ disk' = [disk EXCEPT ![f] = Stored(text)]
  /\ UNCHANGED rev

EditRegion(f, code) ==
  /\ "region" \in Edits
  /\ disk[f].text.region # NoId
  /\ Edit(f, [disk[f].text EXCEPT !.code = code])
  /\ owned' = [owned EXCEPT ![f] = code]

\* The user removes the end marker, or puts it back.
EditMarks(f, marks) ==
  /\ marks \in Edits \cup {"paired"}
  /\ disk[f].text.region # NoId
  /\ Edit(f, [disk[f].text EXCEPT !.marks = marks])
  /\ UNCHANGED owned

EditOutside(f) ==
  /\ "outside" \in Edits
  /\ Edit(f, [disk[f].text EXCEPT !.outside = Foreign])
  /\ UNCHANGED owned

\* An editor, or a checkout, turns the line endings of the file.
ToCRLF(f) ==
  /\ "crlf" \in Edits
  /\ Edit(f, [disk[f].text EXCEPT !.crlf = TRUE])
  /\ UNCHANGED owned

Delete(f) ==
  /\ "delete" \in Edits
  /\ disk[f].exists
  /\ disk' = [disk EXCEPT ![f] = Missing]
  /\ owned' = [owned EXCEPT ![f] = NoCode]
  /\ UNCHANGED rev

UserEdits(f) ==
  \/ \E code \in Code : EditRegion(f, code)
  \/ \E marks \in MarksKinds : EditMarks(f, marks)
  \/ EditOutside(f) \/ ToCRLF(f) \/ Delete(f)

NewRevision ==
  /\ rev < MaxRevision
  /\ rev' = rev + 1
  /\ UNCHANGED <<disk, owned>>

FilesTypeOK ==
  /\ rev \in Revisions
  /\ disk \in [Paths -> Contents]
  /\ owned \in [Files -> Code \cup {NoCode}]

\* The region of f holds what its user last wrote, formatted or not.
HoldsCode(content, code) ==
  /\ content.exists
  /\ content.text.region # NoId
  /\ content.text.code \in {code, Neat[code]}
=============================================================================

---------------------------- MODULE Regeneration ----------------------------
(***************************************************************************)
(* What the users of the generator are promised: regenerating replaces a   *)
(* file at once by the merge of the generated text with the file as it is  *)
(* then, and nothing else but its users changes a file.  A write that does *)
(* not complete tears the one file it was writing; a manifest may be seen  *)
(* torn while several runs write it.                                       *)
(***************************************************************************)
EXTENDS Workspace

\* One file is regenerated.  A region whose loss was announced is its user's
\* no more.
Regenerate(path) ==
  LET text == Output(rev, path, disk[path])
  IN  /\ ~OutputFails(rev, path, disk[path])
      /\ disk' = [disk EXCEPT ![path] = Stored(text)]
      /\ owned' = IF IsLost(path, disk[path], text)
                  THEN [owned EXCEPT ![path] = NoCode] ELSE owned
      /\ UNCHANGED rev

\* A write fails, or is killed, after it truncated the file.
Tear(path) ==
  /\ disk' = [disk EXCEPT ![path] = Stored(Text(Foreign, NoId))]
  /\ owned' = IF path \in Files THEN [owned EXCEPT ![path] = NoCode] ELSE owned
  /\ UNCHANGED rev

Next ==
  \/ NewRevision
  \/ \E path \in Paths : Regenerate(path) \/ Tear(path)
  \/ \E f \in Files : UserEdits(f)

Spec == FilesInit /\ [][Next]_files
=============================================================================

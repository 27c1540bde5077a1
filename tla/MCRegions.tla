----------------------------- MODULE MCRegions -----------------------------
(***************************************************************************)
(* PreserveRegions over every pair of short texts.                         *)
(***************************************************************************)
EXTENDS Regions

CONSTANTS MaxExisting, MaxGenerated \* bounds on the lengths of the texts

Line(mark, word) == [mark |-> mark, word |-> word]

Texts(alphabet, max) == UNION {[1 .. n -> alphabet] : n \in 0 .. max}

MCLines == [mark : Marks, word : {"A", "B", "user", "gen", ""}]

MCExisting ==
  Texts({Line("start", "A"), Line("start", "B"), Line("end", ""), Line("mention", ""), Line("text", "user")},
        MaxExisting)

\* One region twice takes five lines to be ambiguous.
Twice == <<Line("start", "A"), Line("text", "gen"), Line("end", ""), Line("start", "A"), Line("end", "")>>

MCGenerated ==
  {Twice} \cup
  Texts({Line("start", "A"), Line("start", "B"), Line("end", ""), Line("text", "gen")}, MaxGenerated)
=============================================================================

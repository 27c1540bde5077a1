------------------------------ MODULE Regions ------------------------------
(***************************************************************************)
(* The user code regions of a generated file: internal/writer/regions.go.  *)
(* A region is a line holding a start marker and an id, the lines a user   *)
(* owns, and a line that is the end marker.  Regenerating a file keeps the *)
(* lines of the regions of the file on disk: parseRegions indexes these,   *)
(* PreserveRegions copies the generated text with them.                    *)
(*                                                                         *)
(* A text is a sequence of lines.  What the code tells apart in a line is  *)
(* the marker it carries (mark) and the id that follows it (word).  Each   *)
(* round of the two loops is an action; what the regions of a text are is  *)
(* said apart, without a loop, by Opens and Spans.                         *)
(***************************************************************************)
EXTENDS Naturals, Sequences

CONSTANTS
  Lines,     \* the lines: records with a mark and a word
  Existing,  \* the texts that a file may have
  Generated  \* the texts that a template may render

ASSUME TextsAssumption == Existing \subseteq Seq(Lines) /\ Generated \subseteq Seq(Lines)

VARIABLES
  existing,  \* the text on disk
  generated, \* the text of the template
  step,      \* "parse", "preserve", "done" or "failed"
  i,         \* the line that a loop is at
  regions,   \* the lines of the regions of the file, by id
  out,       \* the lines of the result
  seen,      \* the ids that the generated text declares, up to i
  lost,      \* the ids that are warned about
  again      \* whether the text on disk is what the same template gave before

vars == <<existing, generated, step, i, regions, out, seen, lost, again>>

(***************************************************************************)
(* The markers                                                             *)
(***************************************************************************)

\* "mention": a line that contains the end marker text but is not the marker.
Marks == {"text", "start", "end", "mention"}

Starts(text, k) == text[k].mark = "start"

Ends(text, k) == text[k].mark = "end"

MentionsEnd(text) == \E k \in 1 .. Len(text) : text[k].mark \in {"end", "mention"}

\* The scan for the end marker after line k stops at line j.
IsEndOf(text, k, j) ==
  /\ j \in k + 1 .. Len(text)
  /\ Ends(text, j)
  /\ \A m \in k + 1 .. j - 1 : ~Ends(text, m)

HasNoEnd(text, k) == \A j \in k + 1 .. Len(text) : ~Ends(text, j)

\* The lines between two lines.
Between(text, k, j) == SubSeq(text, k + 1, j - 1)

(***************************************************************************)
(* parseRegions                                                            *)
(***************************************************************************)
Parsing == step = "parse" /\ MentionsEnd(existing) /\ i <= Len(existing)

SkipLine ==
  /\ Parsing /\ ~Starts(existing, i)
  /\ i' = i + 1
  /\ UNCHANGED <<existing, generated, step, regions, out, seen, lost, again>>

\* Wrong variant: of two regions of one id the first one is kept.
IndexFirst ==
  /\ Parsing /\ Starts(existing, i)
  /\ \E j \in i + 1 .. Len(existing) :
       LET id == existing[i].word
       IN  /\ IsEndOf(existing, i, j)
           /\ regions' = [d \in DOMAIN regions \cup {id} |->
                IF d \in DOMAIN regions THEN regions[d] ELSE Between(existing, i, j)]
           /\ i' = j + 1
  /\ UNCHANGED <<existing, generated, step, out, seen, lost, again>>

IndexRegion ==
  /\ Parsing /\ Starts(existing, i)
  /\ \E j \in i + 1 .. Len(existing) :
       LET id == existing[i].word
       IN  /\ IsEndOf(existing, i, j)
           /\ regions' = [d \in DOMAIN regions \cup {id} |->
                IF d = id THEN Between(existing, i, j) ELSE regions[d]]
           /\ i' = j + 1
  /\ UNCHANGED <<existing, generated, step, out, seen, lost, again>>

ParseFails ==
  /\ Parsing /\ Starts(existing, i) /\ HasNoEnd(existing, i)
  /\ step' = "failed"
  /\ UNCHANGED <<existing, generated, i, regions, out, seen, lost, again>>

(***************************************************************************)
(* PreserveRegions                                                         *)
(***************************************************************************)
Parsed == step = "parse" /\ (MentionsEnd(existing) => i > Len(existing))

\* A file without regions is replaced.
KeepGenerated ==
  /\ Parsed /\ DOMAIN regions = {}
  /\ out' = generated
  /\ step' = "done"
  /\ UNCHANGED <<existing, generated, i, regions, seen, lost, again>>

StartPreserving ==
  /\ Parsed /\ DOMAIN regions # {}
  /\ i' = 1
  /\ step' = "preserve"
  /\ UNCHANGED <<existing, generated, regions, out, seen, lost, again>>

Preserving == step = "preserve" /\ i <= Len(generated)

CopyLine ==
  /\ Preserving /\ ~Starts(generated, i)
  /\ out' = Append(out, generated[i])
  /\ i' = i + 1
  /\ UNCHANGED <<existing, generated, step, regions, seen, lost, again>>

\* The lines of a region of the generated text: those of the file, if it has it.
Kept(j) ==
  LET id == generated[i].word
  IN  IF id \in DOMAIN regions THEN regions[id] ELSE Between(generated, i, j)

\* Wrong variant: the kept lines come before the generated ones.
CopyBoth ==
  /\ Preserving /\ Starts(generated, i)
  /\ \E j \in i + 1 .. Len(generated) :
       /\ IsEndOf(generated, i, j)
       /\ out' = out \o <<generated[i]>> \o Kept(j) \o Between(generated, i, j) \o <<generated[j]>>
       /\ seen' = seen \cup {generated[i].word}
       /\ i' = j + 1
  /\ UNCHANGED <<existing, generated, step, regions, lost, again>>

\* Wrong variant: the end marker is skipped with the generated lines.
CopyWithoutEnd ==
  /\ Preserving /\ Starts(generated, i)
  /\ \E j \in i + 1 .. Len(generated) :
       /\ IsEndOf(generated, i, j)
       /\ out' = out \o <<generated[i]>> \o Kept(j)
       /\ seen' = seen \cup {generated[i].word}
       /\ i' = j + 1
  /\ UNCHANGED <<existing, generated, step, regions, lost, again>>

CopyRegion ==
  /\ Preserving /\ Starts(generated, i)
  /\ \E j \in i + 1 .. Len(generated) :
       /\ IsEndOf(generated, i, j)
       /\ out' = out \o <<generated[i]>> \o Kept(j) \o <<generated[j]>>
       /\ seen' = seen \cup {generated[i].word}
       /\ i' = j + 1
  /\ UNCHANGED <<existing, generated, step, regions, lost, again>>

PreserveFails ==
  /\ Preserving /\ Starts(generated, i) /\ HasNoEnd(generated, i)
  /\ step' = "failed"
  /\ UNCHANGED <<existing, generated, i, regions, out, seen, lost, again>>

Return ==
  /\ step = "preserve" /\ i > Len(generated)
  /\ lost' = DOMAIN regions \ seen
  /\ step' = "done"
  /\ UNCHANGED <<existing, generated, i, regions, out, seen, again>>

(***************************************************************************)
(* The result is written, and the file generated once more.                *)
(***************************************************************************)
Init ==
  /\ existing \in Existing
  /\ generated \in Generated
  /\ step = "parse"
  /\ i = 1
  /\ regions = <<>>
  /\ out = <<>>
  /\ seen = {}
  /\ lost = {}
  /\ again = FALSE

Again ==
  /\ step = "done"
  /\ existing' = out
  /\ step' = "parse"
  /\ i' = 1
  /\ regions' = <<>>
  /\ out' = <<>>
  /\ seen' = {}
  /\ lost' = {}
  /\ again' = TRUE
  /\ UNCHANGED generated

Next ==
  \/ SkipLine \/ IndexRegion \/ ParseFails
  \/ KeepGenerated \/ StartPreserving
  \/ CopyLine \/ CopyRegion \/ PreserveFails \/ Return
  \/ Again

Spec == Init /\ [][Next]_vars

(***************************************************************************)
(* The regions of a text                                                   *)
(***************************************************************************)

\* A start marker opens a region unless it is inside one: every region that is
\* opened before a line is ended before it.
Clear(text, k) ==
  \A m \in 1 .. k - 1 : Starts(text, m) => \E j \in m + 1 .. k - 1 : Ends(text, j)

Opens(text) == {k \in 1 .. Len(text) : Starts(text, k) /\ Clear(text, k)}

\* The regions, as the lines of their markers.
Spans(text) ==
  {r \in (1 .. Len(text)) \X (1 .. Len(text)) : r[1] \in Opens(text) /\ IsEndOf(text, r[1], r[2])}

Word(text, r) == text[r[1]].word

Body(text, r) == Between(text, r[1], r[2])

\* Of two regions of one id in a file the later counts.
LastSpans(text) ==
  {r \in Spans(text) : \A q \in Spans(text) : Word(text, q) = Word(text, r) => q[1] <= r[1]}

\* The lines that are of no region, the markers of the regions among them.
Outside(text) ==
  {k \in 1 .. Len(text) :
     \A o \in Opens(text) : o < k => \E j \in o + 1 .. k : Ends(text, j)}

\* A region of the template that is not ended: it is an error when the file has regions.
IsUnterminated(text) == \E k \in Opens(text) : HasNoEnd(text, k)

\* Two regions of the template have one id and different lines.
IsAmbiguous(text) ==
  \E r, q \in Spans(text) : Word(text, r) = Word(text, q) /\ Body(text, r) # Body(text, q)

(***************************************************************************)
(* Properties                                                              *)
(***************************************************************************)

\* The user code is found again where it was: every region of the result that
\* the file on disk has holds the lines the user had in it, and the regions of
\* the file that the result has not are warned about, and no other. The lines
\* of a region may hold start markers: no scan may see them as regions.
RegionsSurvive ==
  step = "done" =>
    \A r \in LastSpans(existing) :
      LET id == Word(existing, r)
          found == {q \in Spans(out) : Word(out, q) = id}
      IN  /\ found = {} <=> id \in lost
          /\ \A q \in found : Body(out, q) = Body(existing, r)

\* The lines from one text to the other: each has one, in order, and is that line.
Matches(f, s, t) ==
  /\ f \in [Outside(s) -> Outside(t)]
  /\ \A k, m \in Outside(s) : k < m => f[k] < f[m]
  /\ \A m \in Outside(t) : \E k \in Outside(s) : f[k] = m
  /\ \A k \in Outside(s) : s[k] = t[f[k]]

\* Only the insides of regions come from the disk: the other lines of the result
\* are those of the generated text, and so is a region that the file has not.
NothingElseKept ==
  step = "done" =>
    \E f \in [Outside(out) -> Outside(generated)] :
      /\ Matches(f, out, generated)
      /\ \A r \in Spans(out) :
           \/ \E q \in Spans(existing) : Word(existing, q) = Word(out, r)
           \/ Body(out, r) = Between(generated, f[r[1]], f[r[2]])

\* Regenerating what was just written changes nothing, loses nothing and does
\* not fail, as long as the template ends its regions, and gives those of one id
\* the same lines. A diff run after a generation relies on it.
MergeIsStable ==
  again /\ ~IsUnterminated(generated) /\ ~IsAmbiguous(generated) =>
    /\ step # "failed"
    /\ step = "done" => out = existing /\ lost = {}
=============================================================================

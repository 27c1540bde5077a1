-------------------------- MODULE GenerationProofs --------------------------
(***************************************************************************)
(* Proofs about Generation, for any language, any set of files and         *)
(* requests and any number of processes.                                   *)
(***************************************************************************)
EXTENDS Generation, FiniteSetTheorems, SequenceTheorems, TLAPS

USE DEF Revisions

(***************************************************************************)
(* The texts that Write makes                                              *)
(***************************************************************************)

\* The path of a manifest (manifest.go ManifestName) is never that of a generated
\* file: what holds of the files is not disturbed by the sealing of their folders.
LEMMA PathsAreApart == Files \cap Manifests = {}
BY WriterAssumption DEF Manifests, ManifestPath

\* A file and a manifest alike have a folder of the workspace, the one manifestPaths
\* takes from the report.
LEMMA FolderOf ==
  ASSUME NEW path \in Paths
  PROVE  path.dir \in Folders
<1>1. CASE path \in Files
  BY <1>1 DEF Folders
<1>2. CASE path \in Manifests
  BY <1>2 DEF Manifests, ManifestPath
<1>. QED BY <1>1, <1>2 DEF Paths

\* The text of any revision, or of a user, is a text, whatever region it declares.
LEMMA TextType ==
  ASSUME NEW r \in {Foreign} \cup Revisions, NEW id \in Ids
  PROVE  Text(r, id) \in Texts
BY WriterAssumption DEF Text, Texts, MarksKinds

\* What Body.Render gives (run.go) for a file or a manifest is a text.
LEMMA RenderedType ==
  ASSUME NEW r \in Revisions, NEW path \in Paths
  PROVE  Rendered(r, path) \in Texts
BY TextType DEF Rendered, Ids

\* A file that os.ReadFile does not find is a content.
LEMMA MissingType == Missing \in Contents
BY TextType DEF Missing, Contents, Ids

\* What os.WriteFile leaves is a content.
LEMMA StoredType ==
  ASSUME NEW t \in Texts
  PROVE  Stored(t) \in Contents
BY DEF Stored, Contents

\* So is the file that os.WriteFile has truncated and not written.
LEMMA TornType == Stored(Text(Foreign, NoId)) \in Contents
BY TextType, StoredType DEF Ids

\* Preserving the regions of an existing file (writer.go, PreserveRegions) gives a
\* text.
LEMMA MergedType ==
  ASSUME NEW path, NEW old \in Contents, NEW new \in Texts
  PROVE  Merged(path, old, new) \in Texts
<1>1. old.text \in Texts
  BY DEF Contents
<1>2. [new EXCEPT !.code = old.text.code,
                  !.crlf = old.text.crlf /\ old.text.code # Empty] \in Texts
  BY <1>1 DEF Texts
<1>. QED BY <1>2 DEF Merged

\* So does the formatter of the language (writer.go, WithFormatter).
LEMMA FormattedType ==
  ASSUME NEW t \in Texts
  PROVE  Formatted(t) \in Texts
BY WriterAssumption DEF Formatted, Texts

\* So does the whole of Write before it compares: render, merge, format.
LEMMA OutputType ==
  ASSUME NEW r \in Revisions, NEW path \in Paths, NEW old \in Contents
  PROVE  Output(r, path, old) \in Texts
BY RenderedType, MergedType, FormattedType DEF Output

(***************************************************************************)
(* Type correctness                                                        *)
(***************************************************************************)

\* The workspace before any run is well typed.
LEMMA InitTypeOK == Init => TypeOK
<1>. SUFFICES ASSUME Init PROVE TypeOK
  OBVIOUS
<1>1. FilesTypeOK
  BY MissingType, WriterAssumption DEF Init, FilesInit, FilesTypeOK
<1>2. Nothing \in [step : Steps, path : Paths \cup {Nothing.path}, old : Contents, text : Texts]
  BY MissingType DEF Nothing, Steps, Contents
<1>3. NoJob \in Jobs
  BY WriterAssumption DEF NoJob, Jobs
<1>. QED
  BY <1>1, <1>2, <1>3 DEF Init, TypeOK, Working

\* The folders of a report (manifestPaths) are a finite number of folders of the
\* workspace.
LEMMA ReportFolders ==
  ASSUME TypeOK, NEW p \in Procs
  PROVE  LET ds == {path.dir : path \in Reported(p)}
         IN  ds \subseteq Folders /\ IsFiniteSet(ds) /\ Cardinality(ds) \in Nat
<1>. DEFINE n == Len(report[p])
            ds == {path.dir : path \in Reported(p)}
            dirOf == [i \in 1 .. n |-> report[p][i].path.dir]
            Result == [path : Paths, status : Statuses]
<1>1. report[p] \in Seq(Result)
  BY DEF TypeOK
<1>2. n \in Nat
  BY <1>1
<1>3. \A i \in 1 .. n : report[p][i].path \in Paths
  <2>. TAKE i \in 1 .. n
  <2>1. report[p][i] \in Result
    BY <1>1, ElementOfSeq
  <2>. QED BY <2>1
<1>4. ds \subseteq Folders
  BY <1>3, FolderOf DEF Reported
<1>5. dirOf \in Surjection(1 .. n, ds)
  BY DEF Surjection, Reported
<1>. HIDE DEF dirOf, ds
<1>6. IsFiniteSet(ds)
  BY <1>2, <1>5, FS_Interval, FS_Surjection
<1>. QED BY <1>4, <1>6, FS_CardinalityType DEF ds

\* The manifests of a run are a sequence of paths.
LEMMA SealType ==
  ASSUME TypeOK, NEW p \in Procs,
         NEW q \in SortedManifests({path.dir : path \in Reported(p)})
  PROVE  q \in Seq(Manifests) /\ q \in Seq(Paths)
<1>. DEFINE ds == {path.dir : path \in Reported(p)}
<1>1. ds \subseteq Folders /\ Cardinality(ds) \in Nat
  BY ReportFolders
<1>2. q \in [1 .. Cardinality(ds) -> Manifests]
  BY <1>1 DEF SortedManifests, Manifests
<1>. HIDE DEF ds
<1>3. \A c \in Nat : [1 .. c -> Manifests] \subseteq Seq(Manifests)
  OBVIOUS
<1>4. Seq(Manifests) \subseteq Seq(Paths)
  BY DEF Paths
<1>. QED BY <1>1, <1>2, <1>3, <1>4

\* selectEntryPoints (run.go) gives entry points of the language, asked for by name or
\* by default.
LEMMA SelectionType ==
  ASSUME NEW names \in Seq(STRING), NamesOf(names) \subseteq EntryPoints
  PROVE  Selection(names) \in Seq(EntryPoints)
<1>1. names \in Seq(EntryPoints)
  <2>1. \A i \in 1 .. Len(names) : names[i] \in EntryPoints
    BY DEF NamesOf
  <2>. QED BY <2>1
<1>. QED BY <1>1, RunAssumption DEF Selection

\* A request that is taken or refused (run.go) leaves the state well typed, provided
\* that the phase and the entry points it sets are.
LEMMA LaunchType ==
  ASSUME TypeOK, NEW p \in Procs,
         NEW request \in [names : Seq(STRING), diff : BOOLEAN, dryRun : BOOLEAN, manifest : BOOLEAN],
         Launch(p, request), phase' \in [Procs -> {"idle", "succeeded", "failed", "killed"} \cup Working],
         todo' \in [Procs -> Seq(EntryPoints)]
  PROVE  TypeOK'
<1>. DEFINE new == [names |-> request.names, diff |-> request.diff, dryRun |-> request.dryRun,
                    manifest |-> request.manifest, rev |-> rev]
<1>1. rev \in Revisions
  BY DEF TypeOK, FilesTypeOK
<1>2. new \in Jobs
  BY <1>1 DEF Jobs
<1>3. job \in [Procs -> Jobs]
  BY DEF TypeOK, Jobs
<1>4. job' = [job EXCEPT ![p] = new] /\ hand' = hand /\ rev' = rev /\ disk' = disk /\ owned' = owned
  BY DEF Launch, files
<1>. HIDE DEF new
<1>5. FilesTypeOK' /\ job' \in [Procs -> Jobs]
  BY <1>2, <1>3, <1>4 DEF TypeOK, FilesTypeOK
<1>6. queue' \in [Procs -> Seq(Paths)] /\ cancelled' \in [Procs -> BOOLEAN]
  BY DEF Launch, TypeOK
<1>7. report' \in [Procs -> Seq([path : Paths, status : Statuses])]
  <2>. DEFINE Results == Seq([path : Paths, status : Statuses])
  <2>1. report' = [report EXCEPT ![p] = <<>>] /\ report \in [Procs -> Results]
    BY DEF Launch, TypeOK
  <2>2. <<>> \in Results
    BY EmptySeq
  <2>3. report' \in [Procs -> Results]
    <3>. HIDE DEF Results
    <3>. QED BY <2>1, <2>2
  <2>. QED BY <2>3
<1>. QED BY <1>4, <1>5, <1>6, <1>7 DEF TypeOK

\* A user's edit of a file leaves the files well typed.
LEMMA EditType ==
  ASSUME TypeOK, NEW f \in Files, UserEdits(f)
  PROVE  FilesTypeOK'
<1>1. disk[f].text \in Texts
  BY DEF TypeOK, FilesTypeOK, Contents, Paths
<1>2. ASSUME NEW t \in Texts, Edit(f, t)
      PROVE  disk' \in [Paths -> Contents] /\ rev' \in Revisions
  BY <1>2, StoredType DEF Edit, TypeOK, FilesTypeOK
<1>3. ASSUME NEW code \in Code, EditRegion(f, code) PROVE FilesTypeOK'
  <2>1. [disk[f].text EXCEPT !.code = code] \in Texts
    BY <1>1 DEF Texts
  <2>. QED BY <1>2, <1>3, <2>1 DEF EditRegion, TypeOK, FilesTypeOK
<1>4. ASSUME NEW marks \in MarksKinds, EditMarks(f, marks) PROVE FilesTypeOK'
  <2>1. [disk[f].text EXCEPT !.marks = marks] \in Texts
    BY <1>1 DEF Texts
  <2>. QED BY <1>2, <1>4, <2>1 DEF EditMarks, TypeOK, FilesTypeOK
<1>5. ASSUME EditOutside(f) PROVE FilesTypeOK'
  <2>1. [disk[f].text EXCEPT !.outside = Foreign] \in Texts
    BY <1>1 DEF Texts
  <2>. QED BY <1>2, <1>5, <2>1 DEF EditOutside, TypeOK, FilesTypeOK
<1>6. ASSUME ToCRLF(f) PROVE FilesTypeOK'
  <2>1. [disk[f].text EXCEPT !.crlf = TRUE] \in Texts
    BY <1>1 DEF Texts
  <2>. QED BY <1>2, <1>6, <2>1 DEF ToCRLF, TypeOK, FilesTypeOK
<1>7. ASSUME Delete(f) PROVE FilesTypeOK'
  BY <1>7, MissingType DEF Delete, TypeOK, FilesTypeOK
<1>. QED BY <1>3, <1>4, <1>5, <1>6, <1>7 DEF UserEdits

\* The file a run takes from its queue, what is on disk of it and what Write makes of
\* it are well typed.
LEMMA TakenType ==
  ASSUME TypeOK, NEW p \in Procs, Takes(p)
  PROVE  /\ queue[p] \in Seq(Paths) /\ Current(p) \in Paths
         /\ Tail(queue[p]) \in Seq(Paths)
         /\ disk[Current(p)] \in Contents
         /\ Made(p) \in Texts
<1>1. queue[p] \in Seq(Paths) /\ queue[p] # <<>>
  BY DEF TypeOK, Takes
<1>2. Current(p) \in Paths /\ Tail(queue[p]) \in Seq(Paths)
  BY <1>1, HeadTailProperties DEF Current
<1>3. disk[Current(p)] \in Contents /\ job[p].rev \in Revisions
  BY <1>2 DEF TypeOK, FilesTypeOK, Jobs
<1>. QED BY <1>1, <1>2, <1>3, OutputType DEF Made

\* Appending a FileResult (run.go) leaves the queue and the report well typed.
LEMMA ReportsType ==
  ASSUME TypeOK, NEW p \in Procs, queue[p] # <<>>, NEW path \in Paths,
         NEW status \in Statuses, Reports(p, path, status)
  PROVE  /\ queue' \in [Procs -> Seq(Paths)]
         /\ report' \in [Procs -> Seq([path : Paths, status : Statuses])]
<1>. DEFINE Result == [path : Paths, status : Statuses]
<1>1. Tail(queue[p]) \in Seq(Paths)
  BY HeadTailProperties DEF TypeOK
<1>2. Append(report[p], [path |-> path, status |-> status]) \in Seq(Result)
  <2>1. report[p] \in Seq(Result) /\ [path |-> path, status |-> status] \in Result
    BY DEF TypeOK
  <2>. HIDE DEF Result
  <2>. QED BY <2>1, AppendProperties
<1>. QED BY <1>1, <1>2 DEF TypeOK, Reports

\* Every action keeps the types: one case for each action of Next.
LEMMA TypeOKStep == TypeOK /\ WorkOK /\ [Next]_vars => TypeOK'
<1>. SUFFICES ASSUME TypeOK, WorkOK, [Next]_vars PROVE TypeOK'
  OBVIOUS
<1>. USE DEF TypeOK
<1>1. ASSUME NEW p \in Procs, NEW request \in Requests, Start(p, request)
      PROVE  TypeOK'
  <2>1. request \in [names : Seq(STRING), diff : BOOLEAN, dryRun : BOOLEAN, manifest : BOOLEAN]
    BY RunAssumption
  <2>2. Selection(request.names) \in Seq(EntryPoints)
    BY <1>1, <2>1, SelectionType DEF Start, Accepted
  <2>3. phase' \in [Procs -> {"idle", "succeeded", "failed", "killed"} \cup Working]
    BY <1>1 DEF Start, Working
  <2>4. todo' \in [Procs -> Seq(EntryPoints)]
    BY <1>1, <2>2 DEF Start
  <2>5. Launch(p, request)
    BY <1>1 DEF Start
  <2>. HIDE DEF TypeOK
  <2>. QED BY <2>1, <2>3, <2>4, <2>5, LaunchType
<1>2. ASSUME NEW p \in Procs, NEW request \in Requests, Refuse(p, request)
      PROVE  TypeOK'
  <2>1. request \in [names : Seq(STRING), diff : BOOLEAN, dryRun : BOOLEAN, manifest : BOOLEAN]
    BY RunAssumption
  <2>2. phase' \in [Procs -> {"idle", "succeeded", "failed", "killed"} \cup Working]
    BY <1>2 DEF Refuse
  <2>3. todo' \in [Procs -> Seq(EntryPoints)]
    BY <1>2 DEF Refuse
  <2>4. Launch(p, request)
    BY <1>2 DEF Refuse
  <2>. HIDE DEF TypeOK
  <2>. QED BY <2>1, <2>2, <2>3, <2>4, LaunchType
<1>3. ASSUME NEW p \in Procs, NextEntry(p) PROVE TypeOK'
  <2>1. Head(todo[p]) \in EntryPoints /\ Tail(todo[p]) \in Seq(EntryPoints)
    BY <1>3, HeadTailProperties DEF NextEntry
  <2>2. Lists[job[p].rev][Head(todo[p])] \in Seq(Files)
    <3>1. job[p].rev \in Revisions
      BY DEF Jobs
    <3>2. Lists \in [Revisions -> [EntryPoints -> Seq(Files)]]
      BY RunAssumption
    <3>. HIDE DEF TypeOK
    <3>. QED BY <2>1, <3>1, <3>2
  <2>3. Lists[job[p].rev][Head(todo[p])] \in Seq(Paths)
    BY <2>2 DEF Paths
  <2>. QED BY <1>3, <2>1, <2>3 DEF NextEntry, files, FilesTypeOK
<1>4. ASSUME NEW p \in Procs, EntryFails(p) PROVE TypeOK'
  BY <1>4 DEF EntryFails, files, FilesTypeOK
<1>5. ASSUME NEW p \in Procs, Seal(p) PROVE TypeOK'
  BY <1>5, SealType DEF Seal, files, FilesTypeOK, Working
<1>6. ASSUME NEW p \in Procs, Finish(p) PROVE TypeOK'
  BY <1>6 DEF Finish, files, FilesTypeOK
<1>7. ASSUME NEW p \in Procs, Preview(p) PROVE TypeOK'
  <2>. DEFINE status == CASE ~job[p].diff -> "skipped"
                          [] IsSame(disk[Current(p)], Made(p)) -> "same"
                          [] OTHER -> "different"
  <2>1. status \in Statuses
    BY DEF Statuses
  <2>2. Reports(p, Current(p), status)
    BY <1>7 DEF Preview
  <2>3. Current(p) \in Paths /\ queue[p] # <<>>
    BY <1>7, TakenType DEF Preview, Takes
  <2>. HIDE DEF status
  <2>4. queue' \in [Procs -> Seq(Paths)] /\ report' \in [Procs -> Seq([path : Paths, status : Statuses])]
    BY <2>1, <2>2, <2>3, ReportsType
  <2>. QED BY <1>7, <2>4 DEF Preview, files, FilesTypeOK
<1>8. ASSUME NEW p \in Procs, Read(p) PROVE TypeOK'
  <2>1. [step |-> "read", path |-> Current(p), old |-> disk[Current(p)], text |-> Made(p)]
          \in [step : Steps, path : Paths \cup {Nothing.path}, old : Contents, text : Texts]
    BY <1>8, TakenType DEF Read, Steps
  <2>. QED BY <1>8, <2>1 DEF Read, files, FilesTypeOK
<1>9. ASSUME NEW p \in Procs, ReadFails(p) PROVE TypeOK'
  BY <1>9 DEF ReadFails, files, FilesTypeOK
<1>10. Nothing \in [step : Steps, path : Paths \cup {Nothing.path}, old : Contents, text : Texts]
  BY MissingType DEF Nothing, Steps, Contents
<1>11. ASSUME NEW p \in Procs, Open(p) PROVE TypeOK'
  <2>1. Stored(Text(Foreign, NoId)) \in Contents
    BY TornType
  <2>2. disk' \in [Paths -> Contents]
    BY <1>11, <2>1 DEF Open, FilesTypeOK
  <2>3. [hand[p] EXCEPT !.step = "open"]
          \in [step : Steps, path : Paths \cup {Nothing.path}, old : Contents, text : Texts]
    BY DEF Steps
  <2>4. hand' = [hand EXCEPT ![p] = [hand[p] EXCEPT !.step = "open"]]
    BY <1>11 DEF Open
  <2>. QED BY <1>11, <2>2, <2>3, <2>4 DEF Open, FilesTypeOK
<1>12. ASSUME NEW p \in Procs, OpenFails(p) PROVE TypeOK'
  BY <1>12, <1>10 DEF OpenFails, files, FilesTypeOK
<1>13. ASSUME NEW p \in Procs, Write(p) PROVE TypeOK'
  <2>1. queue[p] # <<>> /\ hand[p].path \in Paths
    <3>1. queue[p] \in Seq(Paths)
      OBVIOUS
    <3>2. queue[p] # <<>> /\ hand[p].path = Head(queue[p])
      BY <1>13 DEF Write, WorkOK, WorkOf
    <3>. HIDE DEF TypeOK
    <3>. QED BY <3>1, <3>2, HeadTailProperties
  <2>2. Reports(p, hand[p].path, "written") /\ "written" \in Statuses
    BY <1>13 DEF Write, Statuses
  <2>3. queue' \in [Procs -> Seq(Paths)] /\ report' \in [Procs -> Seq([path : Paths, status : Statuses])]
    BY <2>1, <2>2, ReportsType
  <2>4. disk' \in [Paths -> Contents]
    BY <1>13, StoredType DEF Write, FilesTypeOK
  <2>5. owned' \in [Files -> Code \cup {NoCode}]
    BY <1>13 DEF Write, FilesTypeOK
  <2>. QED BY <1>13, <1>10, <2>3, <2>4, <2>5 DEF Write, FilesTypeOK
<1>14. ASSUME NEW p \in Procs, Torn(p) PROVE owned' \in [Files -> Code \cup {NoCode}]
  BY <1>14 DEF Torn, FilesTypeOK
<1>15. ASSUME NEW p \in Procs, WriteFails(p) PROVE TypeOK'
  BY <1>15, <1>10, <1>14 DEF WriteFails, FilesTypeOK
<1>16. ASSUME NEW p \in Procs, Kill(p) PROVE TypeOK'
  BY <1>16, <1>10, <1>14 DEF Kill, FilesTypeOK
<1>17. ASSUME NEW p \in Procs, Cancel(p) PROVE TypeOK'
  BY <1>17 DEF Cancel, files, FilesTypeOK
<1>18. ASSUME Upgrade PROVE TypeOK'
  <2>1. rev' \in Revisions
    BY <1>18, WriterAssumption DEF Upgrade, NewRevision, FilesTypeOK
  <2>. QED BY <1>18, <2>1 DEF Upgrade, NewRevision, runVars, FilesTypeOK
<1>19. ASSUME NEW f \in Files, UserStep(f) PROVE TypeOK'
  BY <1>19, EditType DEF UserStep, runVars
<1>20. CASE UNCHANGED vars
  BY <1>20 DEF vars, FilesTypeOK
<1>. QED
  BY <1>1, <1>2, <1>3, <1>4, <1>5, <1>6, <1>7, <1>8, <1>9, <1>11, <1>12, <1>13, <1>15,
     <1>16, <1>17, <1>18, <1>19, <1>20 DEF Next, Step

(***************************************************************************)
(* A run works on what it planned                                          *)
(***************************************************************************)

\* The head of a queue is one of its files, and its tail has no other.
LEMMA NamesOfHead ==
  ASSUME NEW S, NEW s \in Seq(S), s # <<>>
  PROVE  Head(s) \in NamesOf(s) /\ NamesOf(Tail(s)) \subseteq NamesOf(s)
<1>1. Len(s) \in Nat /\ Len(s) > 0 /\ Head(s) = s[1]
  OBVIOUS
<1>2. Head(s) \in NamesOf(s)
  BY <1>1 DEF NamesOf
<1>3. ASSUME NEW i \in 1 .. Len(Tail(s)) PROVE Tail(s)[i] \in NamesOf(s)
  <2>1. Tail(s)[i] = s[i + 1] /\ i + 1 \in 1 .. Len(s)
    BY HeadTailProperties
  <2>. QED BY <2>1 DEF NamesOf
<1>. QED BY <1>2, <1>3 DEF NamesOf

\* What a process does leaves alone the work of the others.
LEMMA WorkFrame ==
  ASSUME NEW q \in Procs, WorkOf(q), phase'[q] = phase[q], job'[q] = job[q],
         todo'[q] = todo[q], queue'[q] = queue[q], hand'[q] = hand[q]
  PROVE  WorkOf(q)'
BY DEF WorkOf, Running, Previews

\* Every action keeps a run to the files of its request, then to manifests, and its
\* hand to the head of its queue: one case for each action that touches a process.
LEMMA WorkOKStep == TypeOK /\ WorkOK /\ [Next]_vars => WorkOK'
<1>. SUFFICES ASSUME TypeOK, WorkOK, [Next]_vars PROVE WorkOK'
  OBVIOUS
<1>t. /\ phase \in [Procs -> {"idle", "succeeded", "failed", "killed"} \cup Working]
      /\ todo \in [Procs -> Seq(EntryPoints)] /\ queue \in [Procs -> Seq(Paths)]
      /\ DOMAIN job = Procs /\ DOMAIN hand = Procs
  BY DEF TypeOK
<1>w. \A q \in Procs : WorkOf(q)
  BY DEF WorkOK
<1>n. Nothing.step = "none"
  BY DEF Nothing
<1>1. ASSUME NEW p \in Procs, NEW request \in Requests, Start(p, request)
      PROVE  WorkOK'
  <2>1. ASSUME NEW q \in Procs \ {p} PROVE WorkOf(q)'
    BY <1>1, <1>t, <1>w, WorkFrame DEF Start, Launch
  <2>2. hand'[p].step = "none"
    BY <1>1, <1>w DEF Start, Launch, WorkOf
  <2>3. todo'[p] = Selection(job'[p].names) /\ queue'[p] = <<>>
    BY <1>1, <1>t DEF Start, Launch
  <2>4. WorkOf(p)'
    BY <2>2, <2>3 DEF WorkOf, NamesOf
  <2>. QED BY <2>1, <2>4 DEF WorkOK
<1>2. ASSUME NEW p \in Procs, NEW request \in Requests, Refuse(p, request)
      PROVE  WorkOK'
  <2>1. ASSUME NEW q \in Procs \ {p} PROVE WorkOf(q)'
    BY <1>2, <1>t, <1>w, WorkFrame DEF Refuse, Launch
  <2>2. hand'[p].step = "none"
    BY <1>2, <1>w DEF Refuse, Launch, WorkOf
  <2>3. ~Running(p)'
    BY <1>2, <1>t DEF Refuse, Running, Working
  <2>. QED BY <2>1, <2>2, <2>3 DEF WorkOK, WorkOf
<1>3. ASSUME NEW p \in Procs, NextEntry(p) PROVE WorkOK'
  <2>1. ASSUME NEW q \in Procs \ {p} PROVE WorkOf(q)'
    BY <1>3, <1>t, <1>w, WorkFrame DEF NextEntry
  <2>2. Head(todo[p]) \in NamesOf(todo[p]) /\ NamesOf(Tail(todo[p])) \subseteq NamesOf(todo[p])
    BY <1>3, <1>t, NamesOfHead DEF NextEntry
  <2>3. NamesOf(todo[p]) \subseteq NamesOf(Selection(job[p].names))
    BY <1>3, <1>w DEF NextEntry, WorkOf, Running, Working
  <2>4. NamesOf(Lists[job[p].rev][Head(todo[p])]) \subseteq Planned(job[p].rev, job[p].names)
    BY <2>2, <2>3 DEF Planned
  <2>5. /\ todo'[p] = Tail(todo[p]) /\ queue'[p] = Lists[job[p].rev][Head(todo[p])]
        /\ job' = job /\ hand' = hand /\ phase' = phase
    BY <1>3, <1>t DEF NextEntry
  <2>6. hand[p].step = "none"
    BY <1>3, <1>w DEF NextEntry, WorkOf
  <2>7. WorkOf(p)'
    BY <2>2, <2>3, <2>4, <2>5, <2>6 DEF WorkOf
  <2>. QED BY <2>1, <2>7 DEF WorkOK
<1>4. ASSUME NEW p \in Procs, EntryFails(p) PROVE WorkOK'
  <2>1. ASSUME NEW q \in Procs \ {p} PROVE WorkOf(q)'
    BY <1>4, <1>t, <1>w, WorkFrame DEF EntryFails
  <2>2. hand'[p].step = "none" /\ ~Running(p)'
    BY <1>4, <1>t, <1>w DEF EntryFails, WorkOf, Running, Working
  <2>. QED BY <2>1, <2>2 DEF WorkOK, WorkOf
<1>5. ASSUME NEW p \in Procs, Seal(p) PROVE WorkOK'
  <2>1. ASSUME NEW q \in Procs \ {p} PROVE WorkOf(q)'
    BY <1>5, <1>t, <1>w, WorkFrame DEF Seal
  <2>2. PICK s \in SortedManifests({path.dir : path \in Reported(p)}) :
          queue' = [queue EXCEPT ![p] = s]
    BY <1>5 DEF Seal
  <2>3. NamesOf(s) \subseteq Manifests
    <3>1. s \in Seq(Manifests)
      BY SealType
    <3>. QED BY <3>1, ElementOfSeq DEF NamesOf
  <2>4. hand'[p].step = "none" /\ todo'[p] = todo[p] /\ job' = job /\ queue'[p] = s
    BY <1>5, <1>t, <1>w, <2>2 DEF Seal, WorkOf
  <2>5. NamesOf(todo[p]) \subseteq NamesOf(Selection(job[p].names))
    BY <1>5, <1>w DEF Seal, WorkOf, Running, Working
  <2>6. WorkOf(p)'
    BY <2>3, <2>4, <2>5 DEF WorkOf
  <2>. QED BY <2>1, <2>6 DEF WorkOK
<1>6. ASSUME NEW p \in Procs, Finish(p) PROVE WorkOK'
  <2>1. ASSUME NEW q \in Procs \ {p} PROVE WorkOf(q)'
    BY <1>6, <1>t, <1>w, WorkFrame DEF Finish
  <2>2. hand'[p].step = "none" /\ ~Running(p)'
    BY <1>6, <1>t, <1>w DEF Finish, WorkOf, Running, Working
  <2>. QED BY <2>1, <2>2 DEF WorkOK, WorkOf
<1>7. ASSUME NEW p \in Procs, queue[p] # <<>>, queue' = [queue EXCEPT ![p] = Tail(@)],
             hand'[p].step = "none", \A q \in Procs \ {p} : hand'[q] = hand[q],
             UNCHANGED <<phase, job, todo>>
      PROVE  WorkOK'
  <2>1. ASSUME NEW q \in Procs \ {p} PROVE WorkOf(q)'
    BY <1>7, <1>t, <1>w, WorkFrame
  <2>2. NamesOf(queue'[p]) \subseteq NamesOf(queue[p])
    BY <1>7, <1>t, NamesOfHead
  <2>3. WorkOf(p)'
    BY <1>7, <1>w, <2>2 DEF WorkOf, Running
  <2>. QED BY <2>1, <2>3 DEF WorkOK
<1>8. ASSUME NEW p \in Procs, Preview(p) PROVE WorkOK'
  BY <1>7, <1>8 DEF Preview, Takes, Reports
<1>9. ASSUME NEW p \in Procs, Write(p) PROVE WorkOK'
  <2>1. queue[p] # <<>> /\ hand'[p] = Nothing /\ \A q \in Procs \ {p} : hand'[q] = hand[q]
    BY <1>9, <1>t, <1>w DEF Write, WorkOf
  <2>. QED BY <1>7, <1>9, <1>n, <2>1 DEF Write, Reports
<1>10. ASSUME NEW p \in Procs, Read(p) PROVE WorkOK'
  <2>1. ASSUME NEW q \in Procs \ {p} PROVE WorkOf(q)'
    BY <1>10, <1>t, <1>w, WorkFrame DEF Read
  <2>2. WorkOf(p)'
    BY <1>10, <1>t, <1>w DEF Read, Takes, Current, WorkOf, Running
  <2>. QED BY <2>1, <2>2 DEF WorkOK
<1>11. ASSUME NEW p \in Procs, Open(p) PROVE WorkOK'
  <2>1. ASSUME NEW q \in Procs \ {p} PROVE WorkOf(q)'
    BY <1>11, <1>t, <1>w, WorkFrame DEF Open
  <2>2. hand'[p].path = hand[p].path
    BY <1>11, <1>t DEF Open
  <2>3. WorkOf(p)'
    BY <1>11, <1>t, <1>w, <2>2 DEF Open, WorkOf, Running
  <2>. QED BY <2>1, <2>3 DEF WorkOK
<1>12. ASSUME NEW p \in Procs, hand'[p].step = "none", ~Running(p)',
              \A q \in Procs \ {p} : phase'[q] = phase[q] /\ hand'[q] = hand[q],
              UNCHANGED <<job, todo, queue>>
       PROVE  WorkOK'
  <2>1. ASSUME NEW q \in Procs \ {p} PROVE WorkOf(q)'
    BY <1>12, <1>w, WorkFrame
  <2>. QED BY <1>12, <2>1 DEF WorkOK, WorkOf
<1>13. ASSUME NEW p \in Procs, ReadFails(p) PROVE WorkOK'
  BY <1>12, <1>13, <1>t DEF ReadFails, Takes, Running, Working
<1>14. ASSUME NEW p \in Procs, OpenFails(p) \/ WriteFails(p) \/ Kill(p) PROVE WorkOK'
  <2>1. /\ phase'[p] \in {"failed", "killed"} /\ hand'[p] = Nothing
        /\ \A q \in Procs \ {p} : phase'[q] = phase[q] /\ hand'[q] = hand[q]
        /\ UNCHANGED <<job, todo, queue>>
    BY <1>14, <1>t DEF OpenFails, WriteFails, Kill
  <2>. QED BY <1>12, <1>n, <2>1 DEF Running, Working
<1>15. ASSUME UNCHANGED <<phase, job, todo, queue, hand>> PROVE WorkOK'
  BY <1>15, <1>w, WorkFrame DEF WorkOK
<1>16. ASSUME NEW p \in Procs, Cancel(p) PROVE WorkOK'
  BY <1>15, <1>16 DEF Cancel
<1>17. ASSUME Upgrade PROVE WorkOK'
  BY <1>15, <1>17 DEF Upgrade, runVars
<1>18. ASSUME NEW f \in Files, UserStep(f) PROVE WorkOK'
  BY <1>15, <1>18 DEF UserStep, runVars
<1>19. CASE UNCHANGED vars
  BY <1>15, <1>19 DEF vars
<1>. QED
  BY <1>1, <1>2, <1>3, <1>4, <1>5, <1>6, <1>8, <1>9, <1>10, <1>11, <1>13, <1>14, <1>16,
     <1>17, <1>18, <1>19 DEF Next, Step

(***************************************************************************)
(* Runs that write work on different files                                 *)
(***************************************************************************)

\* A step that starts no run and changes no request keeps the runs apart.
LEMMA ApartFrame ==
  ASSUME ApartOK, \A q \in Procs : job'[q] = job[q] /\ (Running(q)' => Running(q))
  PROVE  ApartOK'
<1>. SUFFICES ASSUME NEW p \in Procs, NEW q \in Procs, p # q, Writes(p)', Writes(q)'
              PROVE  Planned(job'[p].rev, job'[p].names) \cap Planned(job'[q].rev, job'[q].names) = {}
  BY DEF ApartOK
<1>1. Writes(p) /\ Writes(q)
  BY DEF Writes, Previews
<1>. QED BY <1>1 DEF ApartOK

\* No step of a run but Start brings it to work, or changes its request: a step that
\* seals its folders goes on, and one that ends it leaves it ended.
LEMMA NothingStarts ==
  ASSUME TypeOK, NEW p \in Procs, Step(p) \/ Kill(p)
  PROVE  job' = job /\ \A q \in Procs : Running(q)' => Running(q)
<1>t. phase \in [Procs -> {"idle", "succeeded", "failed", "killed"} \cup Working]
  BY DEF TypeOK
<1>1. job' = job
  BY DEF Step, NextEntry, EntryFails, Seal, Finish, Preview, Read, ReadFails, Open, OpenFails,
         Write, WriteFails, Kill
<1>2. CASE Seal(p)
  BY <1>1, <1>2, <1>t DEF Seal, Running, Working
<1>3. CASE \/ EntryFails(p) \/ Finish(p) \/ ReadFails(p)
           \/ OpenFails(p) \/ WriteFails(p) \/ Kill(p)
  <2>1. \A q \in Procs : phase'[q] = phase[q] \/ phase'[q] \in {"failed", "succeeded", "killed"}
    BY <1>3, <1>t DEF EntryFails, Finish, ReadFails, OpenFails, WriteFails, Kill
  <2>. QED BY <1>1, <2>1 DEF Running, Working
<1>4. CASE NextEntry(p) \/ Preview(p) \/ Read(p) \/ Open(p) \/ Write(p)
  BY <1>1, <1>4 DEF NextEntry, Preview, Read, Open, Write, Running
<1>. QED BY <1>2, <1>3, <1>4 DEF Step

\* Every action keeps the runs that write on different files; only Start can bring two
\* together, and its guard is what the callers of soft.gen promise.
LEMMA ApartOKStep == TypeOK /\ ApartOK /\ [Next]_vars => ApartOK'
<1>. SUFFICES ASSUME TypeOK, ApartOK, [Next]_vars PROVE ApartOK'
  OBVIOUS
<1>t. /\ phase \in [Procs -> {"idle", "succeeded", "failed", "killed"} \cup Working]
      /\ DOMAIN job = Procs
  BY DEF TypeOK
<1>1. ASSUME NEW p \in Procs, NEW request \in Requests, Start(p, request)
      PROVE  ApartOK'
  <2>1. /\ job'[p].names = request.names /\ job'[p].rev = rev
        /\ Previews(job'[p]) = Previews(request)
    BY <1>1, <1>t DEF Start, Launch, Previews
  <2>2. \A q \in Procs \ {p} : job'[q] = job[q] /\ phase'[q] = phase[q]
    BY <1>1, <1>t DEF Start, Launch
  <2>3. ASSUME NEW q \in Procs \ {p}, Writes(p)', Writes(q)'
        PROVE  Planned(rev, request.names) \cap Planned(job[q].rev, job[q].names) = {}
    <3>1. Running(q) /\ ~Previews(job[q]) /\ ~Previews(request)
      BY <2>1, <2>2, <2>3 DEF Writes, Running, Previews
    <3>. QED BY <1>1, <3>1 DEF Start, Separate
  <2>4. ASSUME NEW q \in Procs \ {p}, NEW r \in Procs \ {p}, q # r, Writes(q)', Writes(r)'
        PROVE  Planned(job[q].rev, job[q].names) \cap Planned(job[r].rev, job[r].names) = {}
    <3>1. Writes(q) /\ Writes(r)
      BY <2>2, <2>4 DEF Writes, Running, Previews
    <3>. QED BY <2>4, <3>1 DEF ApartOK
  <2>. SUFFICES ASSUME NEW q \in Procs, NEW r \in Procs, q # r, Writes(q)', Writes(r)'
                PROVE  Planned(job'[q].rev, job'[q].names) \cap Planned(job'[r].rev, job'[r].names) = {}
    BY DEF ApartOK
  <2>5. CASE q = p
    BY <2>1, <2>2, <2>3, <2>5
  <2>6. CASE r = p
    <3>1. Planned(rev, request.names) \cap Planned(job[q].rev, job[q].names) = {}
      BY <2>3, <2>6
    <3>. QED BY <2>1, <2>2, <2>6, <3>1
  <2>7. CASE q # p /\ r # p
    BY <2>2, <2>4, <2>7
  <2>. QED BY <2>5, <2>6, <2>7
<1>2. ASSUME NEW p \in Procs, NEW request \in Requests, Refuse(p, request)
      PROVE  ApartOK'
  <2>1. ~Running(p)' /\ \A q \in Procs \ {p} : job'[q] = job[q] /\ phase'[q] = phase[q]
    BY <1>2, <1>t DEF Refuse, Launch, Running, Working
  <2>. SUFFICES ASSUME NEW q \in Procs, NEW r \in Procs, q # r, Writes(q)', Writes(r)'
                PROVE  Planned(job'[q].rev, job'[q].names) \cap Planned(job'[r].rev, job'[r].names) = {}
    BY DEF ApartOK
  <2>2. q # p /\ r # p
    BY <2>1 DEF Writes
  <2>3. Writes(q) /\ Writes(r)
    BY <2>1, <2>2 DEF Writes, Running, Previews
  <2>. QED BY <2>1, <2>2, <2>3 DEF ApartOK
<1>3. ASSUME NEW p \in Procs, Step(p) \/ Kill(p) PROVE ApartOK'
  BY <1>3, NothingStarts, ApartFrame
<1>4. ASSUME UNCHANGED <<phase, job>> PROVE ApartOK'
  BY <1>4, ApartFrame DEF Running
<1>5. ASSUME NEW p \in Procs, Cancel(p) PROVE ApartOK'
  BY <1>4, <1>5 DEF Cancel
<1>6. ASSUME Upgrade \/ (\E f \in Files : UserStep(f)) \/ UNCHANGED vars PROVE ApartOK'
  BY <1>4, <1>6 DEF Upgrade, UserStep, runVars, vars
<1>. QED BY <1>1, <1>2, <1>3, <1>5, <1>6 DEF Next

\* A file is in the hands of one process.
LEMMA OneHand ==
  ASSUME TypeOK, WorkOK, ApartOK,
         NEW p \in Procs, NEW q \in Procs, p # q,
         hand[p].step # "none", hand[q].step # "none", hand[p].path \in Files
  PROVE  hand[q].path # hand[p].path
<1>1. ASSUME NEW r \in Procs, hand[r].step # "none", hand[r].path \in Files
      PROVE  Writes(r) /\ hand[r].path \in Planned(job[r].rev, job[r].names)
  <2>1. Writes(r) /\ queue[r] # <<>> /\ hand[r].path = Head(queue[r])
    BY <1>1 DEF WorkOK, WorkOf, Writes
  <2>2. queue[r] \in Seq(Paths)
    BY DEF TypeOK
  <2>3. hand[r].path \in NamesOf(queue[r])
    BY <2>1, <2>2, NamesOfHead
  <2>4. NamesOf(queue[r]) \subseteq Planned(job[r].rev, job[r].names) \cup Manifests
    BY <2>1 DEF WorkOK, WorkOf, Writes
  <2>. QED BY <1>1, <2>1, <2>3, <2>4, PathsAreApart
<1>2. SUFFICES ASSUME hand[q].path = hand[p].path PROVE FALSE
  OBVIOUS
<1>3. Writes(p) /\ Writes(q)
  BY <1>1, <1>2
<1>4. hand[p].path \in Planned(job[p].rev, job[p].names) \cap Planned(job[q].rev, job[q].names)
  BY <1>1, <1>2
<1>. QED BY <1>3, <1>4 DEF ApartOK

(***************************************************************************)
(* What Write keeps                                                        *)
(***************************************************************************)

\* Of the region a user owns, unless its loss is announced.
LEMMA OutputKeeps ==
  ASSUME NEW r \in Revisions, NEW f \in Files, NEW old \in Contents, NEW code \in Code,
         Sound(f, old), HoldsCode(old, code), ~IsLost(f, old, Output(r, f, old))
  PROVE  HoldsCode(Stored(Output(r, f, old)), code)
<1>. DEFINE new == Rendered(r, f)
            merged == Merged(f, old, new)
<1>1. old.exists /\ old.text.region # NoId /\ old.text.code \in {code, Neat[code]}
  BY DEF HoldsCode
<1>2. old.text.marks # "bare" /\ f \in Protected
  BY <1>1 DEF Sound
<1>3. Merges(f, old) /\ ParsedRegion(old.text) = old.text.region
  BY <1>1, <1>2, WriterAssumption DEF Merges, ParsedRegion
<1>4. new \in Texts /\ merged \in Texts /\ old.text \in Texts
  BY RenderedType, MergedType DEF Paths, Contents
<1>5. merged.region = new.region
  BY <1>4 DEF Merged, Texts
<1>6. Formatted(merged).region = merged.region
  BY <1>4 DEF Formatted, Texts
<1>7. old.text.region = new.region
  BY <1>1, <1>3, <1>5, <1>6 DEF IsLost, Output
<1>8. merged.code = old.text.code
  BY <1>1, <1>3, <1>4, <1>7 DEF Merged, Texts
<1>9. Neat[code] \in Code /\ Neat[Neat[code]] = Neat[code]
  BY WriterAssumption
<1>10. Formatted(merged).code \in {code, Neat[code]}
  <2>1. CASE HasFormatter
    <3>1. Formatted(merged).code = Neat[merged.code]
      BY <1>4, <2>1 DEF Formatted, Texts
    <3>. QED BY <1>1, <1>8, <1>9, <3>1
  <2>2. CASE ~HasFormatter
    BY <1>1, <1>8, <2>2 DEF Formatted
  <2>. QED BY <2>1, <2>2
<1>. HIDE DEF merged
<1>. QED BY <1>1, <1>5, <1>6, <1>7, <1>10 DEF HoldsCode, Stored, Output, merged

\* What Write makes has its end markers, and has a region only where the language
\* preserves regions (WithRegions).
LEMMA OutputSound ==
  ASSUME NEW r \in Revisions, NEW f \in Files, NEW old \in Contents
  PROVE  Sound(f, Stored(Output(r, f, old)))
<1>. DEFINE new == Rendered(r, f)
            merged == Merged(f, old, new)
<1>1. new \in Texts /\ merged \in Texts
  BY RenderedType, MergedType DEF Paths
<1>2. new.marks = "paired" /\ new.region = Declares[r][f]
  BY DEF Rendered, Text
<1>3. merged.marks = new.marks /\ merged.region = new.region
  BY <1>1 DEF Merged, Texts
<1>4. Formatted(merged).marks = merged.marks /\ Formatted(merged).region = merged.region
  BY <1>1 DEF Formatted, Texts
<1>5. new.region # NoId => f \in Protected
  BY <1>2, WriterAssumption
<1>. HIDE DEF merged, new
<1>. QED BY <1>2, <1>3, <1>4, <1>5 DEF Sound, Stored, Output, merged, new

(***************************************************************************)
(* The code of the users is kept                                           *)
(***************************************************************************)
HandFrame(q) ==
  /\ hand'[q] = hand[q]
  /\ job'[q] = job[q]
  /\ hand[q].path \in Files => /\ disk'[hand[q].path] = disk[hand[q].path]
                               /\ owned'[hand[q].path] = owned[hand[q].path]

\* A process whose file, request and hand a step leaves alone still holds what Write
\* made of that file.
LEMMA HandFrameKeeps ==
  ASSUME NEW q \in Procs, HandOf(q), hand[q].step # "none" => HandFrame(q), hand'[q] = hand[q]
  PROVE  HandOf(q)'
BY DEF HandOf, HandFrame

\* The parts of CodeInv that an action of one process changes.
Kept(f) ==
  owned[f] # NoCode =>
    \/ HoldsCode(disk[f], owned[f])
    \/ \E p \in Procs : Running(p) /\ hand[p].step = "open" /\ hand[p].path = f

\* The parts of the type invariant that the steps below rest on.
LEMMA CodeTypes ==
  ASSUME TypeOK
  PROVE  /\ \A f \in Files : disk[f] \in Contents /\ owned[f] \in Code \cup {NoCode}
         /\ DOMAIN disk = Paths /\ DOMAIN owned = Files
         /\ DOMAIN hand = Procs /\ DOMAIN phase = Procs
         /\ \A p \in Procs : job[p].rev \in Revisions /\ hand[p].old \in Contents
BY DEF TypeOK, FilesTypeOK, Paths, Jobs

\* A user who edits a file no run has opened leaves it with its end marker, and with
\* the code the user owns, and touches no other file.
LEMMA EditKeeps ==
  ASSUME TypeOK, "bare" \notin Edits, NEW f \in Files, UserEdits(f), DiskOK, Kept(f),
         \A p \in Procs : ~(hand[p].step = "open" /\ hand[p].path = f)
  PROVE  /\ Sound(f, disk'[f])
         /\ owned'[f] # NoCode => HoldsCode(disk'[f], owned'[f])
         /\ \A g \in Files \ {f} : disk'[g] = disk[g] /\ owned'[g] = owned[g]
<1>1. /\ disk[f] \in Contents /\ disk[f].text \in Texts
      /\ owned[f] \in Code \cup {NoCode} /\ f \in DOMAIN disk
      /\ DOMAIN disk = Paths /\ DOMAIN owned = Files
  BY CodeTypes DEF Contents, Paths
<1>2. Sound(f, disk[f]) /\ (owned[f] # NoCode => HoldsCode(disk[f], owned[f]))
  BY DEF DiskOK, Kept
<1>3. ASSUME NEW code \in Code, EditRegion(f, code)
      PROVE  /\ Sound(f, disk'[f]) /\ HoldsCode(disk'[f], code) /\ owned'[f] = code
             /\ \A g \in Files \ {f} : disk'[g] = disk[g] /\ owned'[g] = owned[g]
  <2>. DEFINE t == [disk[f].text EXCEPT !.code = code]
  <2>1. t.region = disk[f].text.region /\ t.marks = disk[f].text.marks /\ t.code = code
    BY <1>1 DEF Texts
  <2>2. disk' = [disk EXCEPT ![f] = Stored(t)] /\ owned' = [owned EXCEPT ![f] = code]
    BY <1>3 DEF EditRegion, Edit
  <2>3. disk[f].text.region # NoId
    BY <1>3 DEF EditRegion
  <2>. HIDE DEF t
  <2>. QED BY <1>1, <1>2, <2>1, <2>2, <2>3 DEF Sound, HoldsCode, Stored
<1>4. ASSUME NEW t \in Texts, Edit(f, t), owned' = owned,
             t.region = disk[f].text.region, t.code = disk[f].text.code,
             t.marks = "bare" => disk[f].text.marks = "bare"
      PROVE  /\ Sound(f, disk'[f]) /\ (owned'[f] # NoCode => HoldsCode(disk'[f], owned'[f]))
             /\ \A g \in Files \ {f} : disk'[g] = disk[g] /\ owned'[g] = owned[g]
  BY <1>1, <1>2, <1>4 DEF Edit, Sound, HoldsCode, Stored
<1>5. ASSUME NEW marks \in MarksKinds, EditMarks(f, marks)
      PROVE  /\ Sound(f, disk'[f]) /\ (owned'[f] # NoCode => HoldsCode(disk'[f], owned'[f]))
             /\ \A g \in Files \ {f} : disk'[g] = disk[g] /\ owned'[g] = owned[g]
  <2>. DEFINE t == [disk[f].text EXCEPT !.marks = marks]
  <2>1. t \in Texts /\ t.region = disk[f].text.region /\ t.code = disk[f].text.code
        /\ t.marks = marks
    BY <1>1 DEF Texts
  <2>2. Edit(f, t) /\ owned' = owned /\ marks # "bare"
    BY <1>5 DEF EditMarks
  <2>. HIDE DEF t
  <2>. QED BY <1>4, <2>1, <2>2
<1>6. ASSUME EditOutside(f)
      PROVE  /\ Sound(f, disk'[f]) /\ (owned'[f] # NoCode => HoldsCode(disk'[f], owned'[f]))
             /\ \A g \in Files \ {f} : disk'[g] = disk[g] /\ owned'[g] = owned[g]
  <2>. DEFINE t == [disk[f].text EXCEPT !.outside = Foreign]
  <2>1. t \in Texts /\ t.region = disk[f].text.region /\ t.code = disk[f].text.code
        /\ t.marks = disk[f].text.marks
    BY <1>1 DEF Texts
  <2>2. Edit(f, t) /\ owned' = owned
    BY <1>6 DEF EditOutside
  <2>. HIDE DEF t
  <2>. QED BY <1>4, <2>1, <2>2
<1>7. ASSUME ToCRLF(f)
      PROVE  /\ Sound(f, disk'[f]) /\ (owned'[f] # NoCode => HoldsCode(disk'[f], owned'[f]))
             /\ \A g \in Files \ {f} : disk'[g] = disk[g] /\ owned'[g] = owned[g]
  <2>. DEFINE t == [disk[f].text EXCEPT !.crlf = TRUE]
  <2>1. t \in Texts /\ t.region = disk[f].text.region /\ t.code = disk[f].text.code
        /\ t.marks = disk[f].text.marks
    BY <1>1 DEF Texts
  <2>2. Edit(f, t) /\ owned' = owned
    BY <1>7 DEF ToCRLF
  <2>. HIDE DEF t
  <2>. QED BY <1>4, <2>1, <2>2
<1>8. ASSUME Delete(f)
      PROVE  /\ Sound(f, disk'[f]) /\ owned'[f] = NoCode
             /\ \A g \in Files \ {f} : disk'[g] = disk[g] /\ owned'[g] = owned[g]
  BY <1>1, <1>8 DEF Delete, Sound, Missing, Text
<1>. QED BY <1>3, <1>5, <1>6, <1>7, <1>8 DEF UserEdits

\* A step that changes no file, no owner and no hand, but for hands it empties
\* before they open a file.
LEMMA QuietKeeps ==
  ASSUME HandOK, DiskOK, UserCodeKept, UNCHANGED <<disk, owned>>,
         \A q \in Procs : \/ hand'[q].step = "none" /\ hand[q].step # "open"
                          \/ hand'[q] = hand[q] /\ (hand[q].step # "none" =>
                               job'[q] = job[q] /\ phase'[q] = phase[q])
  PROVE  HandOK' /\ DiskOK' /\ UserCodeKept'
<1>1. HandOK'
  <2>. SUFFICES ASSUME NEW q \in Procs PROVE HandOf(q)'
    BY DEF HandOK
  <2>1. CASE hand'[q].step = "none"
    BY <2>1 DEF HandOf
  <2>2. CASE hand'[q] = hand[q] /\ hand[q].step # "none"
    BY <2>2, HandFrameKeeps DEF HandOK, HandFrame
  <2>. QED BY <2>1, <2>2
<1>2. DiskOK'
  BY DEF DiskOK, Sound
<1>3. UserCodeKept'
  BY DEF UserCodeKept, HoldsCode, Running
<1>. QED BY <1>1, <1>2, <1>3

\* Truncating a file (os.WriteFile) loses no code that is not in hand: the process that
\* holds the file read it as it was.
LEMMA OpenKeeps ==
  ASSUME TypeOK, WorkOK, ApartOK, HandOK, DiskOK, UserCodeKept, NEW p \in Procs, Open(p)
  PROVE  HandOK' /\ DiskOK' /\ UserCodeKept'
<1>. DEFINE path == hand[p].path
            torn == Stored(Text(Foreign, NoId))
<1>1. /\ hand' = [hand EXCEPT ![p] = [hand[p] EXCEPT !.step = "open"]]
      /\ disk' = [disk EXCEPT ![path] = torn]
      /\ owned' = owned /\ job' = job /\ phase' = phase
      /\ hand[p].step = "read" /\ Running(p)
  BY DEF Open
<1>2. /\ hand \in [Procs -> [step : Steps, path : Paths \cup {Nothing.path},
                             old : Contents, text : Texts]]
      /\ DOMAIN disk = Paths
  BY CodeTypes DEF TypeOK
<1>3. \A q \in Procs \ {p} : hand[q].step # "none" /\ hand[q].path \in Files => hand[q].path # path
  BY <1>1, OneHand
<1>4. /\ hand'[p].step = "open" /\ hand'[p].path = path
      /\ hand'[p].old = hand[p].old /\ hand'[p].text = hand[p].text
  BY <1>1, <1>2
<1>5. \A q \in Procs \ {p} : hand'[q] = hand[q]
  BY <1>1, <1>2
<1>6. \A f \in Files \ {path} : disk'[f] = disk[f]
  BY <1>1, <1>2 DEF Paths
<1>7. path \in Files => disk'[path] = torn /\ Sound(path, torn)
  BY <1>1, <1>2 DEF Paths, Sound, Stored, Text
<1>8. HandOK'
  <2>1. ASSUME NEW q \in Procs \ {p} PROVE HandOf(q)'
    BY <1>1, <1>3, <1>5, <1>6, HandFrameKeeps DEF HandOK, HandFrame
  <2>2. HandOf(p)'
    <3>. SUFFICES ASSUME path \in Files, owned[path] # NoCode PROVE HoldsCode(hand[p].old, owned[path])
      BY <1>1, <1>4 DEF HandOK, HandOf
    <3>1. hand[p].old = disk[path]
      BY <1>1 DEF HandOK, HandOf
    <3>2. ~\E q \in Procs : hand[q].step = "open" /\ hand[q].path = path
      BY <1>1, <1>3
    <3>. QED BY <3>1, <3>2 DEF UserCodeKept
  <2>. QED BY <2>1, <2>2 DEF HandOK
<1>9. DiskOK'
  BY <1>6, <1>7 DEF DiskOK, Sound
<1>10. UserCodeKept'
  <2>. SUFFICES ASSUME NEW f \in Files, owned'[f] # NoCode
                PROVE  \/ HoldsCode(disk'[f], owned'[f])
                       \/ \E q \in Procs : Running(q)' /\ hand'[q].step = "open" /\ hand'[q].path = f
    BY DEF UserCodeKept
  <2>1. CASE f = path
    BY <1>1, <1>4, <2>1 DEF Running
  <2>2. CASE f # path
    <3>1. \/ HoldsCode(disk[f], owned[f])
          \/ \E q \in Procs \ {p} : Running(q) /\ hand[q].step = "open" /\ hand[q].path = f
      BY <1>1, <2>2 DEF UserCodeKept
    <3>. QED BY <1>1, <1>5, <1>6, <2>2, <3>1 DEF Running
  <2>. QED BY <2>1, <2>2
<1>. QED BY <1>8, <1>9, <1>10

\* Writing a file leaves the code of its user in it, unless Write warned that it is
\* lost.
LEMMA WriteKeeps ==
  ASSUME TypeOK, WorkOK, ApartOK, HandOK, DiskOK, UserCodeKept, NEW p \in Procs, Write(p)
  PROVE  HandOK' /\ DiskOK' /\ UserCodeKept'
<1>. DEFINE path == hand[p].path
<1>1. /\ hand' = [hand EXCEPT ![p] = Nothing]
      /\ disk' = [disk EXCEPT ![path] = Stored(hand[p].text)]
      /\ owned' = IF IsLost(path, hand[p].old, hand[p].text)
                  THEN [owned EXCEPT ![path] = NoCode] ELSE owned
      /\ job' = job /\ phase' = phase /\ hand[p].step = "open"
  BY DEF Write
<1>2. DOMAIN hand = Procs /\ DOMAIN disk = Paths /\ DOMAIN owned = Files
      /\ job[p].rev \in Revisions /\ hand[p].old \in Contents
      /\ \A f \in Files : owned[f] \in Code \cup {NoCode}
  BY CodeTypes
<1>3. \A q \in Procs \ {p} : hand[q].step # "none" /\ hand[q].path \in Files => hand[q].path # path
  BY <1>1, OneHand
<1>4. hand'[p] = Nothing /\ \A q \in Procs \ {p} : hand'[q] = hand[q]
  BY <1>1, <1>2
<1>5. \A f \in Files \ {path} : disk'[f] = disk[f] /\ owned'[f] = owned[f]
  BY <1>1, <1>2 DEF Paths
<1>6. ASSUME path \in Files
      PROVE  /\ Sound(path, disk'[path])
             /\ owned'[path] # NoCode => HoldsCode(disk'[path], owned'[path])
  <2>1. /\ Sound(path, hand[p].old) /\ hand[p].text = Output(job[p].rev, path, hand[p].old)
        /\ owned[path] # NoCode => HoldsCode(hand[p].old, owned[path])
    BY <1>1, <1>6 DEF HandOK, HandOf
  <2>2. disk'[path] = Stored(hand[p].text)
    BY <1>1, <1>2, <1>6 DEF Paths
  <2>3. Sound(path, disk'[path])
    BY <1>2, <1>6, <2>1, <2>2, OutputSound
  <2>4. ASSUME owned'[path] # NoCode PROVE HoldsCode(disk'[path], owned'[path])
    <3>1. owned'[path] = owned[path] /\ ~IsLost(path, hand[p].old, hand[p].text)
      BY <1>1, <1>2, <1>6, <2>4
    <3>2. owned[path] \in Code
      BY <1>2, <1>6, <2>4, <3>1
    <3>. QED BY <1>2, <1>6, <2>1, <2>2, <2>4, <3>1, <3>2, OutputKeeps
  <2>. QED BY <2>3, <2>4
<1>7. HandOK'
  <2>1. ASSUME NEW q \in Procs \ {p} PROVE HandOf(q)'
    BY <1>1, <1>3, <1>4, <1>5, HandFrameKeeps DEF HandOK, HandFrame
  <2>2. HandOf(p)'
    BY <1>4 DEF HandOf, Nothing
  <2>. QED BY <2>1, <2>2 DEF HandOK
<1>8. DiskOK'
  BY <1>5, <1>6 DEF DiskOK, Sound
<1>9. UserCodeKept'
  <2>. SUFFICES ASSUME NEW f \in Files, owned'[f] # NoCode
                PROVE  \/ HoldsCode(disk'[f], owned'[f])
                       \/ \E q \in Procs : Running(q)' /\ hand'[q].step = "open" /\ hand'[q].path = f
    BY DEF UserCodeKept
  <2>1. CASE f = path
    BY <1>6, <2>1
  <2>2. CASE f # path
    <3>1. \/ HoldsCode(disk[f], owned[f])
          \/ \E q \in Procs \ {p} : Running(q) /\ hand[q].step = "open" /\ hand[q].path = f
      BY <1>5, <2>2 DEF UserCodeKept
    <3>. QED BY <1>1, <1>4, <1>5, <2>2, <3>1 DEF Running
  <2>. QED BY <2>1, <2>2
<1>. QED BY <1>7, <1>8, <1>9

\* A run that ends with a file in hand: what it tore is its user's no more.
LEMMA TornKeeps ==
  ASSUME TypeOK, WorkOK, ApartOK, HandOK, DiskOK, UserCodeKept, NEW p \in Procs,
         Torn(p), hand' = [hand EXCEPT ![p] = Nothing], UNCHANGED <<disk, job>>,
         \A q \in Procs \ {p} : phase'[q] = phase[q]
  PROVE  HandOK' /\ DiskOK' /\ UserCodeKept'
<1>. DEFINE path == hand[p].path
<1>1. DOMAIN hand = Procs /\ DOMAIN owned = Files
  BY CodeTypes
<1>2. hand'[p] = Nothing /\ \A q \in Procs \ {p} : hand'[q] = hand[q]
  BY <1>1
<1>3. /\ \A f \in Files : owned'[f] = owned[f] \/ owned'[f] = NoCode
      /\ \A f \in Files \ {path} : owned'[f] = owned[f]
      /\ hand[p].step = "open" /\ path \in Files => owned'[path] = NoCode
  BY <1>1 DEF Torn
<1>4. HandOK'
  <2>1. ASSUME NEW q \in Procs \ {p} PROVE HandOf(q)'
    BY <1>2, <1>3 DEF HandOK, HandOf
  <2>2. HandOf(p)'
    BY <1>2 DEF HandOf, Nothing
  <2>. QED BY <2>1, <2>2 DEF HandOK
<1>5. DiskOK'
  BY DEF DiskOK, Sound
<1>6. UserCodeKept'
  <2>. SUFFICES ASSUME NEW f \in Files, owned'[f] # NoCode
                PROVE  \/ HoldsCode(disk'[f], owned'[f])
                       \/ \E q \in Procs : Running(q)' /\ hand'[q].step = "open" /\ hand'[q].path = f
    BY DEF UserCodeKept
  <2>1. owned'[f] = owned[f] /\ ~(hand[p].step = "open" /\ path = f)
    BY <1>3
  <2>2. \/ HoldsCode(disk[f], owned[f])
        \/ \E q \in Procs \ {p} : Running(q) /\ hand[q].step = "open" /\ hand[q].path = f
    BY <2>1 DEF UserCodeKept
  <2>. QED BY <1>2, <2>1, <2>2 DEF Running
<1>. QED BY <1>4, <1>5, <1>6

\* Reading a file to rewrite it (writer.go) puts in hand what Write makes of it as it
\* is.
LEMMA ReadKeeps ==
  ASSUME TypeOK, HandOK, DiskOK, UserCodeKept, NEW p \in Procs, Read(p)
  PROVE  HandOK' /\ DiskOK' /\ UserCodeKept'
<1>. DEFINE path == Current(p)
<1>1. /\ hand' = [hand EXCEPT ![p] = [step |-> "read", path |-> path,
                                      old |-> disk[path], text |-> Made(p)]]
      /\ disk' = disk /\ owned' = owned /\ job' = job /\ phase' = phase
      /\ hand[p].step = "none"
  BY DEF Read, Takes, files
<1>2. /\ hand'[p] = [step |-> "read", path |-> path, old |-> disk[path], text |-> Made(p)]
      /\ \A q \in Procs \ {p} : hand'[q] = hand[q]
  BY <1>1, CodeTypes
<1>3. HandOK'
  <2>1. ASSUME NEW q \in Procs \ {p} PROVE HandOf(q)'
    BY <1>1, <1>2, HandFrameKeeps DEF HandOK, HandFrame
  <2>2. HandOf(p)'
    BY <1>1, <1>2 DEF HandOf, DiskOK, Made
  <2>. QED BY <2>1, <2>2 DEF HandOK
<1>4. DiskOK'
  BY <1>1 DEF DiskOK, Sound
<1>5. UserCodeKept'
  BY <1>1, <1>2 DEF UserCodeKept, HoldsCode, Running
<1>. QED BY <1>3, <1>4, <1>5

\* Users who keep away from the files that runs rewrite touch no file in hand.
LEMMA EditsApart ==
  ASSUME EditsDuring # "always", WorkOK, NEW f \in Files, MayEdit(f)
  PROVE  \A p \in Procs : hand[p].step # "none" => hand[p].path # f
<1>1. CASE EditsDuring = "idle"
  BY <1>1 DEF MayEdit, WorkOK, WorkOf
<1>2. CASE EditsDuring = "apart"
  BY <1>2 DEF MayEdit, InHand
<1>. QED BY <1>1, <1>2, RunAssumption

\* An edit keeps the code of every user, when it removes no end marker for good and
\* comes to no file that a run holds.
LEMMA UserStepKeeps ==
  ASSUME "bare" \notin Edits, EditsDuring # "always",
         TypeOK, WorkOK, HandOK, DiskOK, UserCodeKept, NEW f \in Files, UserStep(f)
  PROVE  HandOK' /\ DiskOK' /\ UserCodeKept'
<1>1. \A p \in Procs : hand[p].step # "none" => hand[p].path # f
  BY EditsApart DEF UserStep
<1>2. /\ Sound(f, disk'[f])
      /\ owned'[f] # NoCode => HoldsCode(disk'[f], owned'[f])
      /\ \A g \in Files \ {f} : disk'[g] = disk[g] /\ owned'[g] = owned[g]
  BY <1>1, EditKeeps DEF UserStep, UserCodeKept, Kept
<1>3. job' = job /\ phase' = phase /\ hand' = hand
  BY DEF UserStep, runVars
<1>4. HandOK'
  BY <1>1, <1>2, <1>3, HandFrameKeeps DEF HandOK, HandFrame
<1>5. DiskOK'
  BY <1>2 DEF DiskOK, Sound
<1>6. UserCodeKept'
  BY <1>2, <1>3 DEF UserCodeKept, HoldsCode, Running
<1>. QED BY <1>4, <1>5, <1>6

\* Every action keeps the invariant that accounts for the code of every user.
LEMMA CodeStep ==
  ASSUME "bare" \notin Edits, EditsDuring # "always", CodeInv, [Next]_vars
  PROVE  CodeInv'
<1>. USE DEF CodeInv
<1>1. TypeOK' /\ WorkOK' /\ ApartOK'
  BY TypeOKStep, WorkOKStep, ApartOKStep
<1>2. DOMAIN hand = Procs /\ DOMAIN phase = Procs /\ DOMAIN job = Procs
  BY DEF TypeOK
<1>3. ASSUME NEW p \in Procs,
             UNCHANGED <<disk, owned, hand>>, hand[p].step = "none",
             \A q \in Procs \ {p} : job'[q] = job[q] /\ phase'[q] = phase[q]
      PROVE  HandOK' /\ DiskOK' /\ UserCodeKept'
  BY <1>3, QuietKeeps
<1>4. ASSUME NEW p \in Procs, NEW request \in Requests, Start(p, request) \/ Refuse(p, request)
      PROVE  HandOK' /\ DiskOK' /\ UserCodeKept'
  <2>1. hand[p].step = "none"
    BY <1>4 DEF Start, Refuse, Launch, WorkOK, WorkOf
  <2>2. /\ UNCHANGED <<disk, owned, hand>>
        /\ \A q \in Procs \ {p} : job'[q] = job[q] /\ phase'[q] = phase[q]
    BY <1>2, <1>4 DEF Start, Refuse, Launch, files
  <2>. QED BY <1>3, <2>1, <2>2
<1>5. ASSUME NEW p \in Procs, NextEntry(p) \/ EntryFails(p) \/ Seal(p) \/ Finish(p)
      PROVE  HandOK' /\ DiskOK' /\ UserCodeKept'
  <2>1. hand[p].step = "none"
    BY <1>5 DEF NextEntry, EntryFails, Seal, Finish, WorkOK, WorkOf
  <2>2. /\ UNCHANGED <<disk, owned, hand, job>>
        /\ \A q \in Procs \ {p} : phase'[q] = phase[q]
    BY <1>2, <1>5 DEF NextEntry, EntryFails, Seal, Finish, files
  <2>. QED BY <1>3, <2>1, <2>2
<1>6. ASSUME NEW p \in Procs, Preview(p) \/ ReadFails(p)
      PROVE  HandOK' /\ DiskOK' /\ UserCodeKept'
  <2>1. hand[p].step = "none"
    BY <1>6 DEF Preview, ReadFails, Takes
  <2>2. /\ UNCHANGED <<disk, owned, hand, job>>
        /\ \A q \in Procs \ {p} : phase'[q] = phase[q]
    BY <1>2, <1>6 DEF Preview, ReadFails, files
  <2>. QED BY <1>3, <2>1, <2>2
<1>7. ASSUME NEW p \in Procs, Read(p) PROVE HandOK' /\ DiskOK' /\ UserCodeKept'
  BY <1>7, ReadKeeps
<1>8. ASSUME NEW p \in Procs, Open(p) PROVE HandOK' /\ DiskOK' /\ UserCodeKept'
  BY <1>8, OpenKeeps
<1>9. ASSUME NEW p \in Procs, OpenFails(p) PROVE HandOK' /\ DiskOK' /\ UserCodeKept'
  <2>1. hand[p].step = "read" /\ hand'[p] = Nothing
    BY <1>2, <1>9 DEF OpenFails
  <2>2. /\ UNCHANGED <<disk, owned, job>>
        /\ \A q \in Procs \ {p} : phase'[q] = phase[q] /\ hand'[q] = hand[q]
    BY <1>2, <1>9 DEF OpenFails, files
  <2>. QED BY <2>1, <2>2, QuietKeeps DEF Nothing
<1>10. ASSUME NEW p \in Procs, Write(p) PROVE HandOK' /\ DiskOK' /\ UserCodeKept'
  BY <1>10, WriteKeeps
<1>11. ASSUME NEW p \in Procs, WriteFails(p) \/ Kill(p) PROVE HandOK' /\ DiskOK' /\ UserCodeKept'
  <2>1. /\ Torn(p) /\ hand' = [hand EXCEPT ![p] = Nothing] /\ UNCHANGED <<disk, job>>
        /\ \A q \in Procs \ {p} : phase'[q] = phase[q]
    BY <1>2, <1>11 DEF WriteFails, Kill
  <2>. QED BY <2>1, TornKeeps
<1>12. ASSUME UNCHANGED <<disk, owned, phase, job, hand>> PROVE HandOK' /\ DiskOK' /\ UserCodeKept'
  BY <1>12, QuietKeeps
<1>13. ASSUME NEW p \in Procs, Cancel(p) PROVE HandOK' /\ DiskOK' /\ UserCodeKept'
  BY <1>12, <1>13 DEF Cancel, files
<1>14. ASSUME Upgrade PROVE HandOK' /\ DiskOK' /\ UserCodeKept'
  BY <1>12, <1>14 DEF Upgrade, NewRevision, runVars
<1>15. ASSUME NEW f \in Files, UserStep(f) PROVE HandOK' /\ DiskOK' /\ UserCodeKept'
  BY <1>15, UserStepKeeps
<1>16. ASSUME UNCHANGED vars PROVE HandOK' /\ DiskOK' /\ UserCodeKept'
  BY <1>12, <1>16 DEF vars
<1>17. HandOK' /\ DiskOK' /\ UserCodeKept'
  BY <1>4, <1>5, <1>6, <1>7, <1>8, <1>9, <1>10, <1>11, <1>13, <1>14, <1>15, <1>16
     DEF Next, Step
<1>. QED BY <1>1, <1>17

\* It holds before any run: nobody owns code yet.
LEMMA CodeInit == Init => CodeInv
<1>. SUFFICES ASSUME Init PROVE CodeInv
  OBVIOUS
<1>1. \A p \in Procs : phase[p] = "idle" /\ hand[p].step = "none"
  BY DEF Init, Nothing
<1>2. WorkOK /\ ApartOK /\ HandOK
  BY <1>1 DEF WorkOK, WorkOf, ApartOK, HandOK, HandOf, Writes, Running, Working
<1>3. DiskOK /\ UserCodeKept
  BY DEF Init, FilesInit, DiskOK, UserCodeKept, Sound, Missing, Text, Paths
<1>. QED BY <1>2, <1>3, InitTypeOK DEF CodeInv

(***************************************************************************)
(* The theorems                                                            *)
(***************************************************************************)

\* Every reachable state is well typed, whatever users and processes do.
THEOREM TypeCorrect == Spec => []TypeOK
<1>1. Init => TypeOK /\ WorkOK
  BY CodeInit DEF CodeInv
<1>2. TypeOK /\ WorkOK /\ [Next]_vars => (TypeOK /\ WorkOK)'
  BY TypeOKStep, WorkOKStep
<1>. QED BY <1>1, <1>2, PTL DEF Spec

\* What a user wrote in a region survives every run, revision, failure and kill,
\* or its loss is announced (writer.go): with any number of files, requests and
\* processes, provided that the user removes no end marker for good and edits no
\* file that a run is rewriting.
THEOREM UserCodeIsKept ==
  ASSUME "bare" \notin Edits, EditsDuring # "always"
  PROVE  Spec => []UserCodeKept
<1>1. Init => CodeInv
  BY CodeInit
<1>2. CodeInv /\ [Next]_vars => CodeInv'
  BY CodeStep
<1>3. CodeInv => UserCodeKept
  BY DEF CodeInv
<1>. QED BY <1>1, <1>2, <1>3, PTL DEF Spec

(***************************************************************************)
(* Generation implements Regeneration: whatever files, requests and        *)
(* processes there are, a run regenerates each file at once.               *)
(***************************************************************************)

\* What an aborted os.WriteFile leaves.
TornFile == Stored(Text(Foreign, NoId))

\* No revision comes while a run works.
RevOK == \A p \in Procs : Running(p) => job[p].rev = rev

\* What is in hand is what Write makes of the file that was read, which is on disk as
\* it was read, or truncated.  Of a manifest only what Write makes of it is known.
TakenOf(p) ==
  LET h == hand[p]
  IN  h.step # "none" =>
        /\ h.text = Output(rev, h.path, h.old)
        /\ ~OutputFails(rev, h.path, h.old)
        /\ h.path \in Files =>
             /\ h.step = "read" => h.old = disk[h.path]
             /\ h.step = "open" => disk[h.path] = TornFile

TakenOK == \A p \in Procs : TakenOf(p)

AtomicInv == TypeOK /\ WorkOK /\ ApartOK /\ RevOK /\ TakenOK

(***************************************************************************)
(* The operators of the two specifications are the same                    *)
(***************************************************************************)

\* The writer is one: what Write makes of a content does not depend on the disk.
LEMMA SameWriter ==
  /\ Promise!Paths = Paths
  /\ Promise!Missing = Missing
  /\ Promise!Stored(Promise!Text(Promise!Foreign, NoId)) = TornFile
  /\ \A t : Promise!Stored(t) = Stored(t)
  /\ \A r, path, old : Promise!Output(r, path, old) = Output(r, path, old)
  /\ \A r, path, old : Promise!OutputFails(r, path, old) = OutputFails(r, path, old)
  /\ \A path, old, new : Promise!IsLost(path, old, new) = IsLost(path, old, new)
<1>1. Promise!Paths = Paths
  BY DEF Promise!Paths, Promise!Manifests, Promise!ManifestPath, Promise!Folders,
         Promise!ManifestName, Paths, Manifests, ManifestPath, Folders, ManifestName
<1>2. \A t : Promise!Stored(t) = Stored(t)
  BY DEF Promise!Stored, Stored
<1>3. Promise!Text(Promise!Foreign, NoId) = Text(Foreign, NoId)
  BY DEF Promise!Text, Promise!Foreign, Text, Foreign
<1>4. Promise!Missing = Missing
  BY <1>3 DEF Promise!Missing, Missing
<1>5. \A r, path : Promise!Rendered(r, path) = Rendered(r, path)
  BY DEF Promise!Rendered, Promise!Text, Rendered, Text
<1>6. \A path, old : Promise!Merges(path, old) = Merges(path, old)
  BY DEF Promise!Merges, Merges
<1>7. \A t : Promise!ParsedRegion(t) = ParsedRegion(t) /\ Promise!ParseFails(t) = ParseFails(t)
  BY DEF Promise!ParsedRegion, Promise!ParseFails, ParsedRegion, ParseFails
<1>8. \A path, old, new : Promise!Merged(path, old, new) = Merged(path, old, new)
  BY <1>6, <1>7 DEF Promise!Merged, Merged
<1>9. \A t : Promise!Formatted(t) = Formatted(t)
  BY DEF Promise!Formatted, Formatted
<1>10. \A r, path, old : Promise!Output(r, path, old) = Output(r, path, old)
  BY <1>5, <1>8, <1>9 DEF Promise!Output, Output
<1>11. \A r, path, old : Promise!OutputFails(r, path, old) = OutputFails(r, path, old)
  BY <1>5, <1>6, <1>7, <1>8 DEF Promise!OutputFails, OutputFails
<1>12. \A path, old, new : Promise!IsLost(path, old, new) = IsLost(path, old, new)
  BY <1>6, <1>7 DEF Promise!IsLost, IsLost
<1>. QED BY <1>1, <1>2, <1>3, <1>4, <1>10, <1>11, <1>12 DEF TornFile

(***************************************************************************)
(* The published files                                                     *)
(***************************************************************************)

\* A path that no process has open, and a manifest, is seen as it is on disk; a file
\* that a process rewrites is seen as that process read it.
LEMMA PublishedAt ==
  ASSUME NEW path \in Paths
  PROVE  /\ path \in Manifests \/ Opened(path) = {} => Published[path] = disk[path]
         /\ path \notin Manifests =>
              \A p \in Procs : Opened(path) = {p} => Published[path] = hand[p].old
BY DEF Published

\* The path in hand is the one of a generated file or of a manifest, never both.
LEMMA HandPath ==
  ASSUME TypeOK, WorkOK, NEW p \in Procs, hand[p].step # "none"
  PROVE  hand[p].path \in Paths /\ (hand[p].path \notin Manifests => hand[p].path \in Files)
<1>1. queue[p] \in Seq(Paths) /\ queue[p] # <<>> /\ hand[p].path = Head(queue[p])
  BY DEF TypeOK, WorkOK, WorkOf
<1>2. hand[p].path \in Paths
  BY <1>1, HeadTailProperties
<1>. QED BY <1>2 DEF Paths

\* A file that a process holds is opened by no other process.
LEMMA OpenedByOne ==
  ASSUME TypeOK, WorkOK, ApartOK, NEW p \in Procs, hand[p].step # "none", hand[p].path \in Files
  PROVE  Opened(hand[p].path) = IF hand[p].step = "open" THEN {p} ELSE {}
<1>1. ASSUME NEW q \in Procs \ {p}, hand[q].step = "open" PROVE hand[q].path # hand[p].path
  BY <1>1, OneHand
<1>. QED BY <1>1 DEF Opened

\* A path whose content on disk a step leaves, and that it neither opens nor closes, is
\* published as before.
LEMMA PublishedFrame ==
  ASSUME NEW path \in Paths, disk'[path] = disk[path],
         \A q \in Procs : \/ hand'[q] = hand[q]
                          \/ /\ hand[q].step = "open" => hand[q].path # path
                             /\ hand'[q].step = "open" => hand'[q].path # path
  PROVE  Published'[path] = Published[path]
<1>1. Opened(path)' = Opened(path) /\ \A q \in Opened(path) : hand'[q] = hand[q]
  BY DEF Opened
<1>2. CASE path \in Manifests \/ Opened(path) = {}
  BY <1>1, <1>2 DEF Published
<1>3. CASE path \notin Manifests /\ Opened(path) # {}
  <2>. DEFINE One(S) == CHOOSE p \in S : TRUE
  <2>1. One(Opened(path)) \in Opened(path)
    BY <1>3
  <2>2. Published[path] = hand[One(Opened(path))].old
    BY <1>3 DEF Published
  <2>3. Published'[path] = hand'[One(Opened(path)')].old
    BY <1>1, <1>3 DEF Published
  <2>. HIDE DEF One
  <2>. QED BY <1>1, <2>1, <2>2, <2>3
<1>. QED BY <1>2, <1>3

\* So a step of one process changes what is published of the path in its hand only.
LEMMA PublishedElsewhere ==
  ASSUME NEW p \in Procs, NEW path \in Paths,
         hand[p].step = "open" => hand[p].path = path,
         hand'[p].step = "open" => hand'[p].path = path,
         \A q \in Procs \ {p} : hand'[q] = hand[q],
         \A x \in Paths \ {path} : disk'[x] = disk[x]
  PROVE  \A c : Published'[path] = c => Published' = [Published EXCEPT ![path] = c]
<1>1. \A x \in Paths \ {path} : Published'[x] = Published[x]
  BY PublishedFrame
<1>2. /\ Published = [x \in Paths |-> Published[x]]
      /\ Published' = [x \in Paths |-> Published'[x]]
  BY DEF Published
<1>. HIDE DEF Published
<1>. QED BY <1>1, <1>2

\* And one that opens and closes no file, and writes none, changes nothing published.
LEMMA PublishedSame ==
  ASSUME disk' = disk,
         \A q \in Procs : hand'[q] = hand[q] \/ (hand[q].step # "open" /\ hand'[q].step # "open")
  PROVE  Published' = Published
<1>1. \A x \in Paths : Published'[x] = Published[x]
  BY PublishedFrame
<1>2. /\ Published = [x \in Paths |-> Published[x]]
      /\ Published' = [x \in Paths |-> Published'[x]]
  BY DEF Published
<1>. HIDE DEF Published
<1>. QED BY <1>1, <1>2

(***************************************************************************)
(* The steps of a run                                                      *)
(***************************************************************************)
\* Truncating a file (os.WriteFile) is not seen; truncating a manifest is.
LEMMA OpenRefines ==
  ASSUME AtomicInv, NEW p \in Procs, Open(p), NEW path, path = hand[p].path
  PROVE  [Promise!Next]_<<rev, Published, owned>>
<1>0. TypeOK /\ WorkOK /\ ApartOK /\ TakenOK
  BY DEF AtomicInv
<1>1. path \in Paths /\ (path \notin Manifests => path \in Files)
  BY <1>0, HandPath DEF Open
<1>2. /\ hand' = [hand EXCEPT ![p] = [hand[p] EXCEPT !.step = "open"]]
      /\ disk' = [disk EXCEPT ![path] = TornFile]
      /\ owned' = owned /\ rev' = rev /\ hand[p].step = "read"
  BY DEF Open, TornFile
<1>3. /\ hand \in [Procs -> [step : Steps, path : Paths \cup {Nothing.path},
                             old : Contents, text : Texts]]
      /\ DOMAIN disk = Paths
  BY <1>0, CodeTypes DEF TypeOK
<1>4. /\ hand'[p].step = "open" /\ hand'[p].path = path /\ hand'[p].old = hand[p].old
      /\ \A q \in Procs \ {p} : hand'[q] = hand[q]
      /\ disk'[path] = TornFile /\ \A x \in Paths \ {path} : disk'[x] = disk[x]
  BY <1>1, <1>2, <1>3
<1>5. \A c : Published'[path] = c => Published' = [Published EXCEPT ![path] = c]
  BY <1>1, <1>2, <1>4, PublishedElsewhere
<1>6. CASE path \in Files
  <2>1. Opened(path) = {}
    BY <1>0, <1>2, <1>6, OpenedByOne
  <2>2. Opened(path)' = {p}
    BY <1>4, <2>1 DEF Opened
  <2>3. path \notin Manifests
    BY <1>6, PathsAreApart
  <2>4. Published'[path] = hand'[p].old
    <3>. DEFINE One(S) == CHOOSE q \in S : TRUE
    <3>1. Published'[path] = hand'[One(Opened(path)')].old
      BY <1>1, <2>2, <2>3 DEF Published
    <3>2. One({p}) = p
      OBVIOUS
    <3>. HIDE DEF One
    <3>. QED BY <2>2, <3>1, <3>2
  <2>5. hand[p].old = disk[path]
    BY <1>0, <1>2, <1>6 DEF TakenOK, TakenOf
  <2>6. Published[path] = disk[path]
    BY <1>1, <2>1, PublishedAt
  <2>7. Published' = [Published EXCEPT ![path] = Published[path]]
    BY <1>4, <1>5, <2>4, <2>5, <2>6
  <2>8. Published' = Published
    <3>1. Published = [x \in Paths |-> Published[x]]
      BY DEF Published
    <3>. HIDE DEF Published
    <3>. QED BY <2>7, <3>1
  <2>. QED BY <1>2, <2>8
<1>7. CASE path \in Manifests
  <2>1. Published'[path] = TornFile
    BY <1>1, <1>4, <1>7 DEF Published
  <2>2. Published' = [Published EXCEPT ![path] = TornFile]
    BY <1>5, <2>1
  <2>3. path \notin Files
    BY <1>7, PathsAreApart
  <2>4. Promise!Tear(path)
    BY <1>2, <2>2, <2>3, SameWriter DEF Promise!Tear, Promise!NoCode, NoCode
  <2>. QED BY <1>1, <2>4, SameWriter DEF Promise!Next
<1>. QED BY <1>1, <1>6, <1>7

\* Writing it publishes, at once, what Write makes of the file as it is.
LEMMA WriteRefines ==
  ASSUME AtomicInv, NEW p \in Procs, Write(p), NEW path, path = hand[p].path
  PROVE  Promise!Next
<1>. DEFINE text == hand[p].text
<1>0. TypeOK /\ WorkOK /\ ApartOK /\ TakenOK
  BY DEF AtomicInv
<1>1. path \in Paths /\ (path \notin Manifests => path \in Files)
  BY <1>0, HandPath DEF Write
<1>2. /\ hand' = [hand EXCEPT ![p] = Nothing]
      /\ disk' = [disk EXCEPT ![path] = Stored(text)]
      /\ owned' = IF IsLost(path, hand[p].old, text) THEN [owned EXCEPT ![path] = NoCode] ELSE owned
      /\ rev' = rev /\ hand[p].step = "open"
  BY DEF Write
<1>3. DOMAIN hand = Procs /\ DOMAIN disk = Paths
  BY <1>0, CodeTypes
<1>4. /\ hand'[p] = Nothing /\ \A q \in Procs \ {p} : hand'[q] = hand[q]
      /\ disk'[path] = Stored(text) /\ \A x \in Paths \ {path} : disk'[x] = disk[x]
  BY <1>1, <1>2, <1>3
<1>5. hand'[p].step = "none"
  BY <1>4 DEF Nothing
<1>6. text = Output(rev, path, hand[p].old) /\ ~OutputFails(rev, path, hand[p].old)
  BY <1>0, <1>2 DEF TakenOK, TakenOf
<1>7. Published'[path] = Stored(text)
  <2>1. CASE path \in Files
    <3>1. Opened(path) = {p}
      BY <1>0, <1>2, <2>1, OpenedByOne
    <3>2. Opened(path)' = {}
      BY <1>4, <1>5, <3>1 DEF Opened
    <3>. QED BY <1>1, <1>4, <3>2 DEF Published
  <2>2. CASE path \in Manifests
    BY <1>1, <1>4, <2>2 DEF Published
  <2>. QED BY <1>1, <2>1, <2>2
<1>8. Published' = [Published EXCEPT ![path] = Stored(text)]
  BY <1>1, <1>2, <1>4, <1>5, <1>7, PublishedElsewhere
<1>9. /\ text = Output(rev, path, Published[path]) /\ ~OutputFails(rev, path, Published[path])
      /\ IsLost(path, hand[p].old, text) <=> IsLost(path, Published[path], text)
  <2>1. CASE path \in Files
    <3>1. Opened(path) = {p} /\ path \notin Manifests
      BY <1>0, <1>2, <2>1, OpenedByOne, PathsAreApart
    <3>2. Published[path] = hand[p].old
      BY <1>1, <3>1, PublishedAt
    <3>. QED BY <1>6, <3>2
  <2>2. CASE path \in Manifests
    <3>1. path \notin Protected
      BY <2>2, PathsAreApart, WriterAssumption
    <3>2. \A old : ~Merges(path, old)
      BY <3>1 DEF Merges
    <3>3. \A old, new : Merged(path, old, new) = new /\ ~IsLost(path, old, new)
      BY <3>2 DEF Merged, IsLost
    <3>4. \A old : Output(rev, path, old) = Formatted(Rendered(rev, path))
      BY <3>3 DEF Output
    <3>5. \A old : OutputFails(rev, path, old) <=> OutputFails(rev, path, hand[p].old)
      BY <3>2, <3>3 DEF OutputFails
    <3>6. text = Output(rev, path, Published[path])
      BY <1>6, <3>4
    <3>7. ~OutputFails(rev, path, Published[path])
      BY <1>6, <3>5
    <3>. QED BY <3>3, <3>6, <3>7
  <2>. QED BY <1>1, <2>1, <2>2
<1>10. Promise!Regenerate(path)
  <2>. HIDE DEF text
  <2>1. Published' = [Published EXCEPT ![path] = Stored(Output(rev, path, Published[path]))]
    BY <1>8, <1>9
  <2>2. owned' = IF IsLost(path, Published[path], Output(rev, path, Published[path]))
                 THEN [owned EXCEPT ![path] = NoCode] ELSE owned
    BY <1>2, <1>9 DEF text
  <2>3. /\ Promise!Output(rev, path, Published[path]) = Output(rev, path, Published[path])
        /\ \A t : Promise!Stored(t) = Stored(t)
    BY SameWriter
  <2>4. ~Promise!OutputFails(rev, path, Published[path])
    BY <1>9, SameWriter
  <2>5. owned' = IF Promise!IsLost(path, Published[path], Output(rev, path, Published[path]))
                 THEN [owned EXCEPT ![path] = NoCode] ELSE owned
    BY <2>2, SameWriter
  <2>. QED BY <1>2, <2>1, <2>3, <2>4, <2>5 DEF Promise!Regenerate, Promise!NoCode, NoCode
<1>. QED BY <1>1, <1>10, SameWriter DEF Promise!Next

\* A write that stops half way, with the run, tears its file.
LEMMA TornRefines ==
  ASSUME AtomicInv, NEW p \in Procs, NEW path, path = hand[p].path, Torn(p),
         hand' = [hand EXCEPT ![p] = Nothing],
         UNCHANGED <<rev, disk>>
  PROVE  [Promise!Next]_<<rev, Published, owned>>
<1>0. TypeOK /\ WorkOK /\ ApartOK /\ TakenOK
  BY DEF AtomicInv
<1>1. hand'[p].step = "none" /\ \A q \in Procs \ {p} : hand'[q] = hand[q]
  BY <1>0, CodeTypes DEF Nothing
<1>2. CASE hand[p].step # "open"
  <2>1. \A q \in Procs : hand'[q] = hand[q] \/ (hand[q].step # "open" /\ hand'[q].step # "open")
    BY <1>1, <1>2
  <2>2. Published' = Published
    BY <2>1, PublishedSame
  <2>. QED BY <1>2, <2>2 DEF Torn
<1>3. CASE hand[p].step = "open" /\ path \in Manifests
  <2>1. path \in Paths /\ path \notin Files
    BY <1>3, PathsAreApart DEF Paths
  <2>2. Published'[path] = Published[path]
    BY <1>3, <2>1 DEF Published
  <2>3. Published' = [Published EXCEPT ![path] = Published[path]]
    BY <1>1, <1>3, <2>1, <2>2, PublishedElsewhere
  <2>4. Published = [x \in Paths |-> Published[x]]
    BY DEF Published
  <2>5. Published' = Published
    <3>. HIDE DEF Published
    <3>. QED BY <2>3, <2>4
  <2>. QED BY <2>1, <2>5 DEF Torn
<1>4. CASE hand[p].step = "open" /\ path \notin Manifests
  <2>1. path \in Files /\ path \in Paths
    BY <1>0, <1>4, HandPath
  <2>2. Opened(path) = {p}
    BY <1>0, <1>4, <2>1, OpenedByOne
  <2>3. Opened(path)' = {}
    BY <1>1, <2>2 DEF Opened
  <2>4. disk[path] = TornFile
    BY <1>0, <1>4, <2>1 DEF TakenOK, TakenOf
  <2>5. Published'[path] = TornFile
    BY <2>1, <2>3, <2>4 DEF Published
  <2>6. Published' = [Published EXCEPT ![path] = TornFile]
    BY <1>1, <2>1, <2>5, PublishedElsewhere
  <2>7. owned' = [owned EXCEPT ![path] = NoCode]
    BY <1>4, <2>1 DEF Torn
  <2>8. Promise!Tear(path)
    BY <2>1, <2>6, <2>7, SameWriter DEF Promise!Tear, Promise!NoCode, NoCode
  <2>. QED BY <2>1, <2>8, SameWriter DEF Promise!Next
<1>. QED BY <1>2, <1>3, <1>4

\* A user's edit of a file that no run has open is seen at once.
LEMMA EditRefines ==
  ASSUME TypeOK, NEW f \in Files, UserEdits(f), hand' = hand, Opened(f) = {}
  PROVE  Promise!UserEdits(f)
<1>1. f \in Paths /\ Published[f] = disk[f]
  BY PublishedAt DEF Paths
<1>2. ASSUME NEW c, disk' = [disk EXCEPT ![f] = c]
      PROVE  Published' = [Published EXCEPT ![f] = c]
  <2>1. \A x \in Paths \ {f} : Published'[x] = Published[x]
    BY <1>2, PublishedFrame, CodeTypes
  <2>2. Opened(f)' = {}
    BY DEF Opened
  <2>3. Published'[f] = c
    <3>1. disk'[f] = c
      BY <1>1, <1>2, CodeTypes
    <3>. QED BY <1>1, <2>2, <3>1 DEF Published
  <2>4. /\ Published = [x \in Paths |-> Published[x]]
        /\ Published' = [x \in Paths |-> Published'[x]]
    BY DEF Published
  <2>. HIDE DEF Published
  <2>. QED BY <2>1, <2>3, <2>4
<1>3. ASSUME NEW t, Edit(f, t) PROVE Promise!Edit(f, t)
  BY <1>1, <1>2, <1>3, SameWriter DEF Edit, Promise!Edit
<1>4. ASSUME NEW code \in Code, EditRegion(f, code) PROVE Promise!EditRegion(f, code)
  BY <1>1, <1>3, <1>4 DEF EditRegion, Promise!EditRegion
<1>5. ASSUME NEW marks \in MarksKinds, EditMarks(f, marks) PROVE Promise!EditMarks(f, marks)
  BY <1>1, <1>3, <1>5 DEF EditMarks, Promise!EditMarks
<1>6. EditOutside(f) => Promise!EditOutside(f)
  BY <1>1, <1>3 DEF EditOutside, Promise!EditOutside, Promise!Foreign, Foreign
<1>7. ToCRLF(f) => Promise!ToCRLF(f)
  BY <1>1, <1>3 DEF ToCRLF, Promise!ToCRLF
<1>8. Delete(f) => Promise!Delete(f)
  BY <1>1, <1>2, SameWriter DEF Delete, Promise!Delete, Promise!NoCode, NoCode
<1>. QED
  BY <1>4, <1>5, <1>6, <1>7, <1>8
     DEF UserEdits, Promise!UserEdits, Promise!MarksKinds, MarksKinds

(***************************************************************************)
(* The invariant is inductive                                              *)
(***************************************************************************)

\* A run works on the revision that it loaded: only Start loads one, and none comes
\* while a run works.
LEMMA RevOKStep == TypeOK /\ RevOK /\ [Next]_vars => RevOK'
<1>. SUFFICES ASSUME TypeOK, RevOK, [Next]_vars PROVE RevOK'
  OBVIOUS
<1>t. DOMAIN job = Procs /\ DOMAIN phase = Procs
  BY DEF TypeOK
<1>1. ASSUME rev' = rev, \A q \in Procs : job'[q] = job[q] /\ (Running(q)' => Running(q))
      PROVE  RevOK'
  BY <1>1 DEF RevOK
<1>2. ASSUME NEW p \in Procs, NEW request \in Requests, Start(p, request) \/ Refuse(p, request)
      PROVE  RevOK'
  <2>1. rev' = rev /\ job'[p].rev = rev
    BY <1>2, <1>t DEF Start, Refuse, Launch, files
  <2>2. \A q \in Procs \ {p} : job'[q] = job[q] /\ phase'[q] = phase[q]
    BY <1>2, <1>t DEF Start, Refuse, Launch
  <2>. QED BY <2>1, <2>2 DEF RevOK, Running
<1>3. ASSUME NEW p \in Procs, Step(p) \/ Kill(p) PROVE RevOK'
  <2>1. rev' = rev
    BY <1>3 DEF Step, NextEntry, EntryFails, Seal, Finish, Preview, Read, ReadFails, Open,
                OpenFails, Write, WriteFails, Kill, files
  <2>. QED BY <1>1, <1>3, <2>1, NothingStarts
<1>4. ASSUME NEW p \in Procs, Cancel(p) PROVE RevOK'
  BY <1>1, <1>4 DEF Cancel, Running, files
<1>5. ASSUME Upgrade PROVE RevOK'
  BY <1>5 DEF Upgrade, runVars, RevOK, Running
<1>6. ASSUME NEW f \in Files, UserStep(f) PROVE RevOK'
  <2>1. rev' = rev
    BY <1>6 DEF UserStep, UserEdits, EditRegion, EditMarks, EditOutside, ToCRLF, Delete, Edit
  <2>. QED BY <1>1, <1>6, <2>1 DEF UserStep, runVars, Running
<1>7. CASE UNCHANGED vars
  BY <1>1, <1>7 DEF vars, Running
<1>. QED BY <1>2, <1>3, <1>4, <1>5, <1>6, <1>7 DEF Next

\* A process whose file and hand a step leaves alone still holds what Write made of
\* that file.
LEMMA TakenFrame ==
  ASSUME NEW q \in Procs, TakenOf(q), hand'[q] = hand[q], hand[q].step # "none" => rev' = rev,
         hand[q].step # "none" /\ hand[q].path \in Files =>
           disk'[hand[q].path] = disk[hand[q].path]
  PROVE  TakenOf(q)'
BY DEF TakenOf

\* What a run reads it makes of the file as it is, and it keeps it until it has truncated
\* the file; no other run and no user comes in between.
LEMMA TakenOKStep ==
  ASSUME EditsDuring # "always", AtomicInv, [Next]_vars
  PROVE  TakenOK'
<1>. USE DEF AtomicInv
<1>t. DOMAIN hand = Procs /\ DOMAIN disk = Paths
  BY CodeTypes
<1>1. ASSUME UNCHANGED <<rev, disk>>,
             \A q \in Procs : hand'[q] = hand[q] \/ hand'[q].step = "none"
      PROVE  TakenOK'
  <2>1. ASSUME NEW q \in Procs, hand'[q] = hand[q] PROVE TakenOf(q)'
    BY <1>1, <2>1, TakenFrame DEF TakenOK
  <2>2. ASSUME NEW q \in Procs, hand'[q].step = "none" PROVE TakenOf(q)'
    BY <2>2 DEF TakenOf
  <2>. QED BY <1>1, <2>1, <2>2 DEF TakenOK
<1>2. ASSUME NEW p \in Procs, NEW request \in Requests, Start(p, request) \/ Refuse(p, request)
      PROVE  TakenOK'
  BY <1>1, <1>2 DEF Start, Refuse, Launch, files
<1>3. ASSUME NEW p \in Procs,
             \/ NextEntry(p) \/ EntryFails(p) \/ Seal(p) \/ Finish(p) \/ Preview(p) \/ ReadFails(p)
             \/ Cancel(p)
      PROVE  TakenOK'
  BY <1>1, <1>3 DEF NextEntry, EntryFails, Seal, Finish, Preview, ReadFails, Cancel, files
<1>4. ASSUME NEW p \in Procs, OpenFails(p) \/ WriteFails(p) \/ Kill(p) PROVE TakenOK'
  <2>1. hand' = [hand EXCEPT ![p] = Nothing] /\ UNCHANGED <<rev, disk>>
    BY <1>4 DEF OpenFails, WriteFails, Kill, files
  <2>2. \A q \in Procs : hand'[q] = hand[q] \/ hand'[q].step = "none"
    BY <1>t, <2>1 DEF Nothing
  <2>. QED BY <1>1, <2>1, <2>2
<1>5. ASSUME NEW p \in Procs, Read(p) PROVE TakenOK'
  <2>. DEFINE path == Current(p)
  <2>1. /\ hand' = [hand EXCEPT ![p] = [step |-> "read", path |-> path,
                                        old |-> disk[path], text |-> Made(p)]]
        /\ rev' = rev /\ disk' = disk /\ Running(p) /\ ~CannotMake(p)
    BY <1>5 DEF Read, Takes, files
  <2>2. /\ hand'[p] = [step |-> "read", path |-> path, old |-> disk[path], text |-> Made(p)]
        /\ \A q \in Procs \ {p} : hand'[q] = hand[q]
    BY <1>t, <2>1
  <2>3. job[p].rev = rev
    BY <2>1 DEF RevOK
  <2>4. Made(p) = Output(rev, path, disk[path]) /\ ~OutputFails(rev, path, disk[path])
    BY <2>1, <2>3 DEF Made, CannotMake
  <2>5. TakenOf(p)'
    <3>. HIDE DEF path
    <3>. QED BY <2>1, <2>2, <2>4 DEF TakenOf
  <2>6. ASSUME NEW q \in Procs \ {p} PROVE TakenOf(q)'
    BY <2>1, <2>2, TakenFrame DEF TakenOK
  <2>. QED BY <2>5, <2>6 DEF TakenOK
<1>6. ASSUME NEW p \in Procs, Open(p) PROVE TakenOK'
  <2>1. /\ hand' = [hand EXCEPT ![p] = [hand[p] EXCEPT !.step = "open"]]
        /\ disk' = [disk EXCEPT ![hand[p].path] = TornFile] /\ rev' = rev
        /\ hand[p].step = "read"
    BY <1>6 DEF Open, TornFile
  <2>2. hand \in [Procs -> [step : Steps, path : Paths \cup {Nothing.path},
                            old : Contents, text : Texts]]
    BY DEF TypeOK
  <2>3. /\ hand'[p].step = "open" /\ hand'[p].path = hand[p].path
        /\ hand'[p].old = hand[p].old /\ hand'[p].text = hand[p].text
        /\ \A q \in Procs \ {p} : hand'[q] = hand[q]
    BY <2>1, <2>2
  <2>4. /\ hand[p].path \in Paths /\ disk'[hand[p].path] = TornFile
        /\ \A f \in Files \ {hand[p].path} : disk'[f] = disk[f]
    BY <1>t, <2>1, HandPath DEF Paths
  <2>5. TakenOf(p)'
    BY <2>1, <2>3, <2>4 DEF TakenOK, TakenOf
  <2>6. ASSUME NEW q \in Procs \ {p} PROVE TakenOf(q)'
    <3>1. hand[q].step # "none" /\ hand[q].path \in Files => hand[q].path # hand[p].path
      BY <2>1, OneHand
    <3>. QED BY <2>1, <2>3, <2>4, <3>1, TakenFrame DEF TakenOK
  <2>. QED BY <2>5, <2>6 DEF TakenOK
<1>7. ASSUME NEW p \in Procs, Write(p) PROVE TakenOK'
  <2>1. /\ hand' = [hand EXCEPT ![p] = Nothing] /\ rev' = rev /\ hand[p].step = "open"
        /\ disk' = [disk EXCEPT ![hand[p].path] = Stored(hand[p].text)]
    BY <1>7 DEF Write
  <2>2. hand'[p].step = "none" /\ \A q \in Procs \ {p} : hand'[q] = hand[q]
    BY <1>t, <2>1 DEF Nothing
  <2>3. \A f \in Files \ {hand[p].path} : disk'[f] = disk[f]
    BY <1>t, <2>1 DEF Paths
  <2>4. TakenOf(p)'
    BY <2>2 DEF TakenOf
  <2>5. ASSUME NEW q \in Procs \ {p} PROVE TakenOf(q)'
    <3>1. hand[q].step # "none" /\ hand[q].path \in Files => hand[q].path # hand[p].path
      BY <2>1, OneHand
    <3>. QED BY <2>1, <2>2, <2>3, <3>1, TakenFrame DEF TakenOK
  <2>. QED BY <2>4, <2>5 DEF TakenOK
<1>8. ASSUME Upgrade PROVE TakenOK'
  <2>1. \A q \in Procs : hand[q].step = "none" /\ hand' = hand
    BY <1>8 DEF Upgrade, runVars, WorkOK, WorkOf
  <2>. QED BY <2>1 DEF TakenOK, TakenOf
<1>9. ASSUME NEW f \in Files, UserStep(f) PROVE TakenOK'
  <2>1. \A q \in Procs : hand[q].step # "none" => hand[q].path # f
    BY <1>9, EditsApart DEF UserStep
  <2>2. rev' = rev /\ \A g \in Files \ {f} : disk'[g] = disk[g]
    BY <1>9, <1>t
       DEF UserStep, UserEdits, EditRegion, EditMarks, EditOutside, ToCRLF, Delete, Edit, Paths
  <2>. QED BY <1>9, <2>1, <2>2, TakenFrame DEF UserStep, runVars, TakenOK
<1>10. CASE UNCHANGED vars
  BY <1>1, <1>10 DEF vars
<1>. QED
  BY <1>2, <1>3, <1>4, <1>5, <1>6, <1>7, <1>8, <1>9, <1>10 DEF Next, Step

(***************************************************************************)
(* The refinement                                                          *)
(***************************************************************************)

\* Every step of a run, of a user or of the inputs is one step of Regeneration, or none.
LEMMA StepRefines ==
  ASSUME EditsDuring # "always", AtomicInv, [Next]_vars
  PROVE  [Promise!Next]_<<rev, Published, owned>>
<1>. USE DEF AtomicInv
<1>1. ASSUME UNCHANGED <<rev, disk, owned, hand>> PROVE UNCHANGED <<rev, Published, owned>>
  BY <1>1, PublishedSame
<1>2. ASSUME NEW p \in Procs, NEW request \in Requests, Start(p, request) \/ Refuse(p, request)
      PROVE  UNCHANGED <<rev, Published, owned>>
  BY <1>1, <1>2 DEF Start, Refuse, Launch, files
<1>3. ASSUME NEW p \in Procs,
             \/ NextEntry(p) \/ EntryFails(p) \/ Seal(p) \/ Finish(p) \/ Preview(p) \/ ReadFails(p)
             \/ Cancel(p)
      PROVE  UNCHANGED <<rev, Published, owned>>
  BY <1>1, <1>3 DEF NextEntry, EntryFails, Seal, Finish, Preview, ReadFails, Cancel, files
<1>4. ASSUME NEW p \in Procs, Read(p) PROVE UNCHANGED <<rev, Published, owned>>
  <2>1. \A q \in Procs : hand'[q] = hand[q] \/ (hand[q].step # "open" /\ hand'[q].step # "open")
    BY <1>4, CodeTypes DEF Read, Takes
  <2>. QED BY <1>4, <2>1, PublishedSame DEF Read, files
<1>5. ASSUME NEW p \in Procs, OpenFails(p) PROVE UNCHANGED <<rev, Published, owned>>
  <2>1. \A q \in Procs : hand'[q] = hand[q] \/ (hand[q].step # "open" /\ hand'[q].step # "open")
    BY <1>5, CodeTypes DEF OpenFails, Nothing
  <2>. QED BY <1>5, <2>1, PublishedSame DEF OpenFails, files
<1>6. ASSUME NEW p \in Procs, Open(p) PROVE [Promise!Next]_<<rev, Published, owned>>
  BY <1>6, OpenRefines
<1>7. ASSUME NEW p \in Procs, Write(p) PROVE Promise!Next
  BY <1>7, WriteRefines
<1>8. ASSUME NEW p \in Procs, WriteFails(p) \/ Kill(p) PROVE [Promise!Next]_<<rev, Published, owned>>
  BY <1>8, TornRefines DEF WriteFails, Kill
<1>9. ASSUME Upgrade PROVE Promise!Next
  <2>1. Published' = Published
    BY <1>9, PublishedSame DEF Upgrade, NewRevision, runVars
  <2>. QED BY <1>9, <2>1 DEF Upgrade, NewRevision, Promise!NewRevision, Promise!Next
<1>10. ASSUME NEW f \in Files, UserStep(f) PROVE Promise!Next
  <2>1. Opened(f) = {}
    BY <1>10, EditsApart DEF UserStep, Opened
  <2>2. Promise!UserEdits(f)
    BY <1>10, <2>1, EditRefines DEF UserStep, runVars
  <2>. QED BY <2>2 DEF Promise!Next
<1>11. CASE UNCHANGED vars
  BY <1>1, <1>11 DEF vars
<1>. QED
  BY <1>2, <1>3, <1>4, <1>5, <1>6, <1>7, <1>8, <1>9, <1>10, <1>11 DEF Next, Step

\* Before any run nothing is on disk, and nothing is published.
LEMMA InitRefines == Init => AtomicInv /\ Promise!FilesInit
<1>. SUFFICES ASSUME Init PROVE AtomicInv /\ Promise!FilesInit
  OBVIOUS
<1>1. \A p \in Procs : phase[p] = "idle" /\ hand[p].step = "none"
  BY DEF Init, Nothing
<1>2. RevOK /\ TakenOK
  BY <1>1 DEF RevOK, TakenOK, TakenOf, Running, Working
<1>3. AtomicInv
  BY <1>2, CodeInit DEF AtomicInv, CodeInv
<1>4. \A path \in Paths : Opened(path) = {}
  BY <1>1 DEF Opened
<1>5. Published = disk
  <2>1. \A path \in Paths : Published[path] = disk[path]
    BY <1>4, PublishedAt
  <2>2. Published = [path \in Paths |-> Published[path]] /\ disk = [path \in Paths |-> disk[path]]
    BY DEF Published, Init, FilesInit
  <2>. HIDE DEF Published
  <2>. QED BY <2>1, <2>2
<1>6. Promise!FilesInit
  BY <1>5, SameWriter DEF Init, FilesInit, Promise!FilesInit, Promise!NoCode, NoCode
<1>. QED BY <1>3, <1>6

\* A generation is a sequence of atomic regenerations of single files, each one of the
\* file as it is at that time (Writer.Write, writer.go): with any number of files,
\* requests and processes, provided that runs that write at the same time work on
\* different files and that no user edits a file that a run is rewriting.
THEOREM GenerationRefinesRegeneration ==
  ASSUME EditsDuring # "always"
  PROVE  Spec => RegeneratesAtomically
<1>1. Init => AtomicInv /\ Promise!FilesInit
  BY InitRefines
<1>2. AtomicInv /\ [Next]_vars => AtomicInv'
  BY TypeOKStep, WorkOKStep, ApartOKStep, RevOKStep, TakenOKStep DEF AtomicInv
<1>3. AtomicInv /\ [Next]_vars => [Promise!Next]_<<rev, Published, owned>>
  BY StepRefines
<1>. QED
  BY <1>1, <1>2, <1>3, PTL DEF Spec, RegeneratesAtomically, Promise!Spec, Promise!files

(***************************************************************************)
(* The outcome of a run: what it reports is all it was asked to write, its *)
(* manifests come when that is on disk, and --diff tells what a generation *)
(* would do.                                                               *)
(***************************************************************************)
Plan(p) == Planned(job[p].rev, job[p].names)

\* The files of the entry points that a run has not come to.
Unread(p) == UNION {NamesOf(Lists[job[p].rev][e]) : e \in NamesOf(todo[p])}

SealsOf(paths) == {ManifestPath(path.dir) : path \in paths}

\* Each file of a run is reported, in its queue or listed by an entry point to come.
AccountOf(p) ==
  /\ phase[p] = "files" => Reported(p) \cup NamesOf(queue[p]) \cup Unread(p) = Plan(p)
  /\ phase[p] = "manifests" =>
       /\ job[p].manifest
       /\ NamesOf(queue[p]) \subseteq Manifests
       /\ Reported(p) \cup NamesOf(queue[p]) = Plan(p) \cup SealsOf(Plan(p))
  /\ phase[p] = "succeeded" =>
       Reported(p) = Plan(p) \cup (IF job[p].manifest THEN SealsOf(Plan(p)) ELSE {})

AccountOK == \A p \in Procs : AccountOf(p)

\* A run works for entry points of its language.
NamesOK == \A p \in Procs : Running(p) => NamesOf(Selection(job[p].names)) \subseteq EntryPoints

\* There is one run at a time.
OneRun == \A p, q \in Procs : p = q

\* No edit undoes what a run has written while it goes on.
LeavesWritten == EditsDuring = "idle" \/ Edits \cap {"outside", "delete"} = {}

\* Nobody touches the files during a run, and the language formats what has regions.
Undisturbed == EditsDuring = "idle" /\ (HasRegions => HasFormatter)

\* The content is of revision r, and a generation would leave it as it is.
Settled(r, path, content) ==
  /\ content.exists
  /\ content.text.outside = r
  /\ Undisturbed => ~OutputFails(r, path, content) /\ IsSame(content, Output(r, path, content))

\* A manifest is of one run only when there are no others.
Own(path) == path \in Files \/ OneRun

\* What a run has reported is on disk as it wrote it, unless it is writing it again.
WrittenOf(p) ==
  Writes(p) =>
    \A path \in Reported(p) :
      Own(path) => \/ hand[p].step = "open" /\ hand[p].path = path
                   \/ Settled(job[p].rev, path, disk[path])

WrittenOK == \A p \in Procs : WrittenOf(p)

\* The outcome of a comparison is that of comparing now.
Compared(p, i) ==
  LET path == report[p][i].path
  IN  report[p][i].status =
        IF IsSame(disk[path], Output(job[p].rev, path, disk[path])) THEN "same" ELSE "different"

ComparedOK ==
  \A p \in Procs : Running(p) /\ job[p].diff => \A i \in 1 .. Len(report[p]) : Compared(p, i)

(***************************************************************************)
(* Queues, reports and manifests                                           *)
(***************************************************************************)

\* A queue is its head and the files of its tail.
LEMMA NamesOfSplit ==
  ASSUME NEW S, NEW s \in Seq(S), s # <<>>
  PROVE  NamesOf(s) = {Head(s)} \cup NamesOf(Tail(s))
<1>1. Len(s) \in Nat /\ Len(s) > 0 /\ Head(s) = s[1]
  OBVIOUS
<1>2. ASSUME NEW i \in 1 .. Len(s), i # 1 PROVE s[i] \in NamesOf(Tail(s))
  <2>1. i - 1 \in 1 .. Len(Tail(s)) /\ Tail(s)[i - 1] = s[i]
    BY <1>1, <1>2, HeadTailProperties
  <2>. QED BY <2>1 DEF NamesOf
<1>3. NamesOf(s) \subseteq {Head(s)} \cup NamesOf(Tail(s))
  BY <1>1, <1>2 DEF NamesOf
<1>. QED BY <1>3, NamesOfHead

\* A FileResult that is appended (run.go) adds its path to the report of its run, and
\* takes the head of its queue; the other runs have theirs as before.
LEMMA ReportsAdds ==
  ASSUME TypeOK, NEW p \in Procs, queue[p] # <<>>, NEW path \in Paths,
         NEW status \in Statuses, Reports(p, path, status)
  PROVE  /\ report'[p] = Append(report[p], [path |-> path, status |-> status])
         /\ Reported(p)' = Reported(p) \cup {path}
         /\ queue'[p] = Tail(queue[p])
         /\ \A q \in Procs \ {p} : report'[q] = report[q] /\ queue'[q] = queue[q]
<1>. DEFINE Result == [path : Paths, status : Statuses]
            new == [path |-> path, status |-> status]
            s == report[p]
<1>1. s \in Seq(Result) /\ new \in Result /\ DOMAIN report = Procs /\ DOMAIN queue = Procs
  BY DEF TypeOK
<1>2. /\ report' = [report EXCEPT ![p] = Append(s, new)]
      /\ queue' = [queue EXCEPT ![p] = Tail(queue[p])]
  BY DEF Reports
<1>3. report'[p] = Append(s, new) /\ queue'[p] = Tail(queue[p])
      /\ \A q \in Procs \ {p} : report'[q] = report[q] /\ queue'[q] = queue[q]
  <2>. HIDE DEF new
  <2>. QED BY <1>1, <1>2
<1>4. /\ Len(Append(s, new)) = Len(s) + 1 /\ Len(s) \in Nat
      /\ \A i \in 1 .. Len(s) : Append(s, new)[i] = s[i]
      /\ Append(s, new)[Len(s) + 1] = new
  <2>. HIDE DEF new, Result, s
  <2>. QED BY <1>1, AppendProperties
<1>5. {Append(s, new)[i].path : i \in 1 .. Len(s) + 1} = {s[i].path : i \in 1 .. Len(s)} \cup {new.path}
  <2>. HIDE DEF new, s
  <2>. QED BY <1>4
<1>. QED BY <1>3, <1>4, <1>5 DEF Reported

\* The manifests in the queue of a run are those of all the folders of its report.
LEMMA SealsAll ==
  ASSUME TypeOK, NEW p \in Procs,
         NEW q \in SortedManifests({path.dir : path \in Reported(p)})
  PROVE  NamesOf(q) = SealsOf(Reported(p))
<1>. DEFINE ds == {path.dir : path \in Reported(p)}
            seals == {ManifestPath(d) : d \in ds}
            n == Cardinality(ds)
            sealOf == [d \in ds |-> ManifestPath(d)]
<1>1. ds \subseteq Nat /\ IsFiniteSet(ds) /\ n \in Nat
  <2>1. Folders \subseteq Nat
    BY WriterAssumption DEF Folders
  <2>2. ds \subseteq Folders /\ IsFiniteSet(ds) /\ n \in Nat
    BY ReportFolders
  <2>. QED BY <2>1, <2>2
<1>2. sealOf \in Surjection(ds, seals) /\ sealOf \in Injection(ds, seals)
  <2>1. \A d, e \in ds : sealOf[d] = sealOf[e] => d = e
    <3>1. \A d \in ds : sealOf[d].dir = d
      BY DEF ManifestPath
    <3>. HIDE DEF sealOf
    <3>. QED BY <3>1
  <2>2. sealOf \in [ds -> seals] /\ \A x \in seals : \E d \in ds : sealOf[d] = x
    OBVIOUS
  <2>. QED BY <2>1, <2>2 DEF Surjection, Injection, IsInjective
<1>3. q \in [1 .. n -> seals] /\ \A i, j \in 1 .. n : i < j => q[i].dir < q[j].dir
  BY DEF SortedManifests
<1>4. \A i \in 1 .. n : q[i].dir \in Nat
  BY <1>1, <1>3 DEF ManifestPath
<1>5. seals = SealsOf(Reported(p))
  BY DEF SealsOf
<1>. HIDE DEF ds, seals, sealOf
<1>6. IsFiniteSet(seals) /\ Cardinality(seals) = n
  BY <1>1, <1>2, FS_Surjection
<1>. HIDE DEF n
<1>7. q \in Injection(1 .. n, seals)
  <2>. SUFFICES ASSUME NEW i \in 1 .. n, NEW j \in 1 .. n, q[i] = q[j] PROVE i = j
    BY <1>3 DEF Injection, IsInjective
  <2>1. CASE i < j
    BY <1>1, <1>3, <1>4, <2>1
  <2>2. CASE j < i
    BY <1>1, <1>3, <1>4, <2>2
  <2>. QED BY <1>1, <2>1, <2>2
<1>8. q \in Surjection(1 .. n, seals)
  <2>1. Cardinality(1 .. n) = n
    BY <1>1, FS_Interval
  <2>. QED BY <1>6, <1>7, <2>1, FS_Injection
<1>9. q \in Seq(Manifests)
  BY SealType
<1>10. NamesOf(q) = seals
  <2>1. DOMAIN q = 1 .. n
    BY <1>3
  <2>2. Len(q) = n
    BY <1>1, <1>9, <2>1
  <2>. QED BY <1>3, <1>8, <2>2 DEF NamesOf, Surjection
<1>. QED BY <1>5, <1>10

(***************************************************************************)
(* A run that succeeds reports all it was asked for                        *)
(***************************************************************************)

\* What a process does leaves alone the account of the others.
LEMMA AccountFrame ==
  ASSUME NEW q \in Procs, AccountOf(q), phase'[q] = phase[q], job'[q] = job[q],
         todo'[q] = todo[q], queue'[q] = queue[q], report'[q] = report[q]
  PROVE  AccountOf(q)'
<1>1. Reported(q)' = Reported(q) /\ Plan(q)' = Plan(q) /\ Unread(q)' = Unread(q)
  BY DEF Reported, Plan, Unread
<1>. QED BY <1>1 DEF AccountOf

\* A run that stops has no account to give.
LEMMA StoppedAccount ==
  ASSUME NEW q \in Procs, phase'[q] \in {"failed", "killed"}
  PROVE  AccountOf(q)'
BY DEF AccountOf

\* A FileResult moves a file from the queue to the report.
LEMMA ReportsAccount ==
  ASSUME TypeOK, NEW p \in Procs, AccountOf(p), Running(p), queue[p] # <<>>,
         NEW path \in Paths, path = Head(queue[p]), NEW status \in Statuses,
         Reports(p, path, status), UNCHANGED <<phase, job, todo>>
  PROVE  AccountOf(p)'
<1>1. Reported(p)' = Reported(p) \cup {path} /\ queue'[p] = Tail(queue[p])
  BY ReportsAdds
<1>2. queue[p] \in Seq(Paths)
  BY DEF TypeOK
<1>3. NamesOf(queue[p]) = {path} \cup NamesOf(queue'[p])
  BY <1>1, <1>2, NamesOfSplit
<1>4. Plan(p)' = Plan(p) /\ Unread(p)' = Unread(p)
  BY DEF Plan, Unread
<1>5. phase[p] # "succeeded"
  BY DEF Running, Working
<1>. QED BY <1>1, <1>3, <1>4, <1>5 DEF AccountOf

\* Taking an entry point (run.go) puts the files it lists in the queue.
LEMMA EntryAccount ==
  ASSUME TypeOK, NEW p \in Procs, AccountOf(p), NextEntry(p)
  PROVE  AccountOf(p)'
<1>. DEFINE listed == Lists[job[p].rev]
<1>1. /\ todo'[p] = Tail(todo[p]) /\ queue'[p] = listed[Head(todo[p])]
      /\ phase' = phase /\ job' = job /\ report' = report /\ phase[p] = "files"
      /\ queue[p] = <<>> /\ todo[p] # <<>> /\ todo[p] \in Seq(EntryPoints)
  BY DEF NextEntry, TypeOK
<1>2. NamesOf(todo[p]) = {Head(todo[p])} \cup NamesOf(todo'[p])
  BY <1>1, NamesOfSplit
<1>3. Unread(p) = NamesOf(queue'[p]) \cup Unread(p)'
  BY <1>1, <1>2 DEF Unread
<1>4. Plan(p)' = Plan(p) /\ Reported(p)' = Reported(p) /\ NamesOf(queue[p]) = {}
  BY <1>1 DEF Plan, Reported, NamesOf
<1>. QED BY <1>1, <1>3, <1>4 DEF AccountOf

\* Nothing is left of a run that has no entry point to come and no file in its queue.
LEMMA NothingLeft ==
  ASSUME NEW p \in Procs, queue[p] = <<>>
  PROVE  NamesOf(queue[p]) = {} /\ (todo[p] = <<>> => Unread(p) = {})
<1>1. NamesOf(<<>>) = {}
  BY DEF NamesOf
<1>. QED BY <1>1 DEF Unread

\* The manifests are taken from a report that is complete (writeManifests).
LEMMA SealAccount ==
  ASSUME TypeOK, NEW p \in Procs, AccountOf(p), Seal(p)
  PROVE  AccountOf(p)'
<1>1. PICK q \in SortedManifests({path.dir : path \in Reported(p)}) : queue' = [queue EXCEPT ![p] = q]
  BY DEF Seal
<1>2. /\ queue'[p] = q /\ phase'[p] = "manifests" /\ job' = job /\ report' = report
      /\ phase[p] = "files" /\ job[p].manifest
  BY <1>1 DEF Seal, TypeOK
<1>3. Reported(p) = Plan(p)
  BY <1>2, NothingLeft DEF AccountOf, Seal
<1>4. NamesOf(q) = SealsOf(Reported(p))
  BY SealsAll
<1>5. NamesOf(q) \subseteq Manifests
  <2>1. q \in Seq(Manifests)
    BY SealType
  <2>. QED BY <2>1, ElementOfSeq DEF NamesOf
<1>6. Plan(p)' = Plan(p) /\ Reported(p)' = Reported(p)
  BY <1>2 DEF Plan, Reported
<1>. QED BY <1>2, <1>3, <1>4, <1>5, <1>6 DEF AccountOf

\* A run that succeeds has come to the end of its files, and of its manifests.
LEMMA FinishAccount ==
  ASSUME TypeOK, NEW p \in Procs, AccountOf(p), Finish(p)
  PROVE  AccountOf(p)'
<1>1. /\ phase'[p] = "succeeded" /\ job' = job /\ report' = report /\ queue[p] = <<>>
      /\ \/ phase[p] = "files" /\ todo[p] = <<>> /\ ~job[p].manifest
         \/ phase[p] = "manifests"
  BY DEF Finish, TypeOK
<1>2. Reported(p) = Plan(p) \cup (IF job[p].manifest THEN SealsOf(Plan(p)) ELSE {})
  BY <1>1, NothingLeft DEF AccountOf
<1>3. Plan(p)' = Plan(p) /\ Reported(p)' = Reported(p)
  BY <1>1 DEF Plan, Reported
<1>. QED BY <1>1, <1>2, <1>3 DEF AccountOf

\* Every action keeps the account of each run.
LEMMA AccountStep == TypeOK /\ WorkOK /\ AccountOK /\ [Next]_vars => AccountOK'
<1>. SUFFICES ASSUME TypeOK, WorkOK, AccountOK, [Next]_vars PROVE AccountOK'
  OBVIOUS
<1>t. /\ DOMAIN phase = Procs /\ DOMAIN job = Procs /\ DOMAIN todo = Procs
      /\ DOMAIN queue = Procs /\ DOMAIN report = Procs
  BY DEF TypeOK
<1>a. \A q \in Procs : AccountOf(q)
  BY DEF AccountOK
<1>1. ASSUME NEW p \in Procs, AccountOf(p)',
             \A q \in Procs \ {p} :
               phase'[q] = phase[q] /\ job'[q] = job[q] /\ todo'[q] = todo[q]
                 /\ queue'[q] = queue[q] /\ report'[q] = report[q]
      PROVE  AccountOK'
  BY <1>1, <1>a, AccountFrame DEF AccountOK
<1>2. ASSUME UNCHANGED <<phase, job, todo, queue, report>> PROVE AccountOK'
  BY <1>2, <1>a, AccountFrame DEF AccountOK
<1>3. ASSUME NEW p \in Procs, NEW request \in Requests, Start(p, request)
      PROVE  AccountOK'
  <2>1. /\ todo'[p] = Selection(request.names) /\ queue'[p] = <<>> /\ report'[p] = <<>>
        /\ phase'[p] = "files" /\ job'[p].rev = rev /\ job'[p].names = request.names
    BY <1>3, <1>t DEF Start, Launch
  <2>2. Reported(p)' = {} /\ NamesOf(queue'[p]) = {}
    BY <2>1 DEF Reported, NamesOf
  <2>3. Unread(p)' = Plan(p)'
    BY <2>1 DEF Unread, Plan, Planned
  <2>4. AccountOf(p)'
    BY <2>1, <2>2, <2>3 DEF AccountOf
  <2>. QED BY <1>1, <1>3, <1>t, <2>4 DEF Start, Launch
<1>4. ASSUME NEW p \in Procs, NEW request \in Requests, Refuse(p, request)
      PROVE  AccountOK'
  <2>1. phase'[p] = "failed"
    BY <1>4, <1>t DEF Refuse
  <2>. QED BY <1>1, <1>4, <1>t, <2>1, StoppedAccount DEF Refuse, Launch
<1>5. ASSUME NEW p \in Procs, EntryFails(p) \/ ReadFails(p) \/ OpenFails(p) \/ WriteFails(p) \/ Kill(p)
      PROVE  AccountOK'
  <2>1. /\ phase'[p] \in {"failed", "killed"} /\ \A q \in Procs \ {p} : phase'[q] = phase[q]
        /\ UNCHANGED <<job, todo, queue, report>>
    BY <1>5, <1>t DEF EntryFails, ReadFails, OpenFails, WriteFails, Kill
  <2>. QED BY <1>1, <2>1, StoppedAccount
<1>6. ASSUME NEW p \in Procs, NextEntry(p) PROVE AccountOK'
  BY <1>1, <1>6, <1>a, <1>t, EntryAccount DEF NextEntry
<1>7. ASSUME NEW p \in Procs, Seal(p) PROVE AccountOK'
  <2>1. \A q \in Procs \ {p} : phase'[q] = phase[q] /\ queue'[q] = queue[q]
    BY <1>7, <1>t DEF Seal
  <2>2. UNCHANGED <<job, todo, report>>
    BY <1>7 DEF Seal
  <2>. QED BY <1>1, <1>7, <1>a, <2>1, <2>2, SealAccount
<1>8. ASSUME NEW p \in Procs, Finish(p) PROVE AccountOK'
  BY <1>1, <1>8, <1>a, <1>t, FinishAccount DEF Finish
<1>9. ASSUME NEW p \in Procs, Running(p), queue[p] # <<>>, NEW status \in Statuses,
             Reports(p, Head(queue[p]), status), UNCHANGED <<phase, job, todo>>
      PROVE  AccountOK'
  <2>1. Head(queue[p]) \in Paths
    BY <1>9, HeadTailProperties DEF TypeOK
  <2>2. AccountOf(p)'
    BY <1>9, <1>a, <2>1, ReportsAccount
  <2>3. \A q \in Procs \ {p} : report'[q] = report[q] /\ queue'[q] = queue[q]
    BY <1>9, <2>1, ReportsAdds
  <2>. QED BY <1>1, <1>9, <2>2, <2>3
<1>10. ASSUME NEW p \in Procs, Preview(p) PROVE AccountOK'
  <2>. DEFINE status == CASE ~job[p].diff -> "skipped"
                          [] IsSame(disk[Current(p)], Made(p)) -> "same"
                          [] OTHER -> "different"
  <2>1. status \in Statuses
    BY DEF Statuses
  <2>2. Reports(p, Head(queue[p]), status) /\ Running(p) /\ queue[p] # <<>>
        /\ UNCHANGED <<phase, job, todo>>
    BY <1>10 DEF Preview, Takes, Current
  <2>. HIDE DEF status
  <2>. QED BY <1>9, <2>1, <2>2
<1>11. ASSUME NEW p \in Procs, Write(p) PROVE AccountOK'
  <2>1. /\ Reports(p, Head(queue[p]), "written") /\ Running(p) /\ queue[p] # <<>>
        /\ UNCHANGED <<phase, job, todo>>
    BY <1>11 DEF Write, WorkOK, WorkOf
  <2>. QED BY <1>9, <2>1 DEF Statuses
<1>12. ASSUME NEW p \in Procs, Read(p) \/ Open(p) \/ Cancel(p) PROVE AccountOK'
  BY <1>2, <1>12 DEF Read, Open, Cancel
<1>13. ASSUME Upgrade \/ (\E f \in Files : UserStep(f)) \/ UNCHANGED vars PROVE AccountOK'
  BY <1>2, <1>13 DEF Upgrade, UserStep, runVars, vars
<1>. QED
  BY <1>3, <1>4, <1>5, <1>6, <1>7, <1>8, <1>10, <1>11, <1>12, <1>13 DEF Next, Step

\* A run that returns no error (engine.Run) has in its report every file of its entry
\* points and, unless --manifest=false, the manifest of every folder of them, when it
\* previews as when it writes, whatever cancellations, failures and other runs there
\* were.
THEOREM SuccessMeansComplete == Spec => []SuccessIsComplete
<1>1. Init => TypeOK /\ WorkOK /\ AccountOK
  <2>1. Init => AccountOK
    BY DEF Init, AccountOK, AccountOf
  <2>. QED BY <2>1, CodeInit DEF CodeInv
<1>2. TypeOK /\ WorkOK /\ AccountOK /\ [Next]_vars => (TypeOK /\ WorkOK /\ AccountOK)'
  BY TypeOKStep, WorkOKStep, AccountStep
<1>3. AccountOK => SuccessIsComplete
  BY DEF AccountOK, AccountOf, SuccessIsComplete, Plan, SealsOf
<1>. QED BY <1>1, <1>2, <1>3, PTL DEF Spec

(***************************************************************************)
(* What a run has written stays as it wrote it                             *)
(***************************************************************************)

\* selectEntryPoints (run.go) refuses a name that is not one of the language.
LEMMA NamesStep == TypeOK /\ NamesOK /\ [Next]_vars => NamesOK'
<1>. SUFFICES ASSUME TypeOK, NamesOK, [Next]_vars PROVE NamesOK'
  OBVIOUS
<1>t. DOMAIN job = Procs /\ DOMAIN phase = Procs
  BY DEF TypeOK
<1>1. ASSUME \A q \in Procs : job'[q] = job[q] /\ (Running(q)' => Running(q)) PROVE NamesOK'
  BY <1>1 DEF NamesOK
<1>2. ASSUME NEW p \in Procs, NEW request \in Requests, Start(p, request) PROVE NamesOK'
  <2>1. NamesOf(Defaults) \subseteq EntryPoints
    BY RunAssumption, ElementOfSeq DEF NamesOf
  <2>2. NamesOf(Selection(request.names)) \subseteq EntryPoints
    BY <1>2, <2>1 DEF Start, Accepted, Selection
  <2>3. /\ job'[p].names = request.names
        /\ \A q \in Procs \ {p} : job'[q] = job[q] /\ phase'[q] = phase[q]
    BY <1>2, <1>t DEF Start, Launch
  <2>. QED BY <2>2, <2>3 DEF NamesOK, Running
<1>3. ASSUME NEW p \in Procs, NEW request \in Requests, Refuse(p, request) PROVE NamesOK'
  <2>1. ~Running(p)' /\ \A q \in Procs \ {p} : job'[q] = job[q] /\ phase'[q] = phase[q]
    BY <1>3, <1>t DEF Refuse, Launch, Running, Working
  <2>. QED BY <2>1 DEF NamesOK, Running
<1>4. ASSUME NEW p \in Procs, Step(p) \/ Kill(p) PROVE NamesOK'
  BY <1>1, <1>4, NothingStarts
<1>5. ASSUME UNCHANGED <<phase, job>> PROVE NamesOK'
  BY <1>1, <1>5 DEF Running
<1>6. ASSUME NEW p \in Procs, Cancel(p) PROVE NamesOK'
  BY <1>5, <1>6 DEF Cancel
<1>7. ASSUME Upgrade \/ (\E f \in Files : UserStep(f)) \/ UNCHANGED vars PROVE NamesOK'
  BY <1>5, <1>7 DEF Upgrade, UserStep, runVars, vars
<1>. QED BY <1>2, <1>3, <1>4, <1>6, <1>7 DEF Next

\* What a run planned are generated files, of the workspace.
LEMMA PlanType ==
  ASSUME TypeOK, NamesOK, NEW p \in Procs, Running(p)
  PROVE  Plan(p) \subseteq Files
<1>1. job[p].rev \in Revisions
  BY CodeTypes
<1>2. ASSUME NEW e \in EntryPoints PROVE NamesOf(Lists[job[p].rev][e]) \subseteq Files
  <2>1. Lists[job[p].rev][e] \in Seq(Files)
    BY <1>1, RunAssumption
  <2>. QED BY <2>1, ElementOfSeq DEF NamesOf
<1>. QED BY <1>2 DEF NamesOK, Plan, Planned

\* What Write makes of a revision is of that revision outside the regions (run.go
\* renders it), and has its end markers and the region of the file.
LEMMA OutputShape ==
  ASSUME NEW r \in Revisions, NEW path \in Paths, NEW old \in Contents
  PROVE  /\ Output(r, path, old).outside = r
         /\ Output(r, path, old).marks = "paired"
         /\ Output(r, path, old).region = Rendered(r, path).region
<1>. DEFINE new == Rendered(r, path)
            merged == Merged(path, old, new)
<1>1. new \in Texts /\ merged \in Texts
  BY RenderedType, MergedType
<1>2. new.outside = r /\ new.marks = "paired"
  BY DEF Rendered, Text
<1>3. merged.outside = new.outside /\ merged.marks = new.marks /\ merged.region = new.region
  BY <1>1 DEF Merged, Texts
<1>4. /\ Formatted(merged).outside = merged.outside /\ Formatted(merged).marks = merged.marks
      /\ Formatted(merged).region = merged.region
  BY <1>1 DEF Formatted, Texts
<1>. HIDE DEF merged, new
<1>. QED BY <1>2, <1>3, <1>4 DEF Output, merged, new

\* Where the language formats, writing again what was written changes nothing, and
\* succeeds: the merge takes the region back from the file, and it is formatted.
LEMMA OutputAgain ==
  ASSUME NEW r \in Revisions, NEW path \in Paths, NEW old \in Contents, HasFormatter,
         ~OutputFails(r, path, old)
  PROVE  LET t == Output(r, path, old)
         IN  ~OutputFails(r, path, Stored(t)) /\ Normalized(t) = Output(r, path, Stored(t))
<1>. DEFINE new == Rendered(r, path)
            merged == Merged(path, old, new)
            t == Output(r, path, old)
            again == Merged(path, Stored(t), new)
<1>1. /\ new \in Texts /\ merged \in Texts /\ t \in Texts /\ Stored(t) \in Contents
  BY RenderedType, MergedType, OutputType, StoredType
<1>2. t = [merged EXCEPT !.code = Neat[merged.code], !.crlf = FALSE]
  BY DEF Output, Formatted
<1>3. t.marks = "paired" /\ t.region = new.region /\ t.crlf = FALSE /\ t.code = Neat[merged.code]
  <2>1. t.marks = "paired" /\ t.region = new.region
    BY OutputShape
  <2>2. ASSUME NEW m \in Texts, NEW c
        PROVE  /\ [m EXCEPT !.code = c, !.crlf = FALSE].code = c
               /\ [m EXCEPT !.code = c, !.crlf = FALSE].crlf = FALSE
    BY DEF Texts
  <2>. HIDE DEF merged, t, new
  <2>. QED BY <1>1, <1>2, <2>1, <2>2
<1>4. merged.code \in Code \ Broken
  BY <1>1 DEF OutputFails, Texts
<1>5. Neat[merged.code] \in Code \ Broken /\ Neat[Neat[merged.code]] = Neat[merged.code]
  BY <1>4, WriterAssumption
<1>6. ParsedRegion(t) = new.region
  BY <1>3 DEF ParsedRegion
<1>7. again.code \in {Neat[merged.code], merged.code} /\ Neat[again.code] = Neat[merged.code]
  <2>1. CASE Merges(path, Stored(t)) /\ new.region # NoId
    <3>1. again.code = t.code
      BY <1>1, <1>3, <1>6, <2>1 DEF Merged, Stored, Texts
    <3>. QED BY <1>3, <1>5, <3>1
  <2>2. CASE ~Merges(path, Stored(t)) \/ new.region = NoId
    <3>1. again = new
      BY <1>6, <2>2 DEF Merged, Stored
    <3>2. ~Merges(path, old) \/ new.region = NoId
      BY <2>2 DEF Merges, Stored
    <3>3. merged = new
      BY <3>2 DEF Merged, ParsedRegion
    <3>. QED BY <3>1, <3>3
  <2>. QED BY <2>1, <2>2
<1>8. again \in Texts
  BY <1>1, MergedType
<1>9. /\ again.outside = merged.outside /\ again.region = merged.region
      /\ again.marks = merged.marks
  BY <1>1, <1>8 DEF Merged, Texts
<1>10. Output(r, path, Stored(t)) = [again EXCEPT !.code = Neat[again.code], !.crlf = FALSE]
  BY DEF Output, Formatted
<1>11. ~ParseFails(t)
  BY <1>3 DEF ParseFails
<1>12. ~OutputFails(r, path, Stored(t))
  <2>1. again.code \notin Broken
    BY <1>4, <1>5, <1>7
  <2>. QED BY <1>11, <2>1 DEF OutputFails, Stored
<1>. HIDE DEF merged, again, t
<1>13. [merged EXCEPT !.code = Neat[merged.code], !.crlf = FALSE]
         = [again EXCEPT !.code = Neat[again.code], !.crlf = FALSE]
  BY <1>1, <1>7, <1>8, <1>9 DEF Texts
<1>14. Normalized(t) = t
  BY <1>1, <1>3 DEF Normalized, Texts
<1>. QED BY <1>2, <1>10, <1>12, <1>13, <1>14 DEF t

\* So the files a run writes are settled, of the revision of the run, whatever they were.
LEMMA OutputSettles ==
  ASSUME NEW r \in Revisions, NEW path \in Paths, NEW old \in Contents,
         ~OutputFails(r, path, old)
  PROVE  Settled(r, path, Stored(Output(r, path, old)))
<1>. DEFINE t == Output(r, path, old)
<1>1. t.outside = r
  BY OutputShape
<1>2. ASSUME Undisturbed PROVE ~OutputFails(r, path, Stored(t)) /\ Normalized(t) = Output(r, path, Stored(t))
  <2>1. CASE HasFormatter
    BY <2>1, OutputAgain
  <2>2. CASE ~HasFormatter
    <3>1. \A content : ~Merges(path, content)
      BY <1>2, <2>2 DEF Undisturbed, Merges
    <3>2. \A content : Output(r, path, content) = Rendered(r, path) /\ ~OutputFails(r, path, content)
      <4>1. \A content, new : Merged(path, content, new) = new
        BY <3>1 DEF Merged
      <4>2. \A x : Formatted(x) = x
        BY <2>2 DEF Formatted
      <4>. QED BY <2>2, <3>1, <4>1, <4>2 DEF Output, OutputFails
    <3>3. Normalized(Rendered(r, path)) = Rendered(r, path)
      <4>1. Rendered(r, path) \in Texts /\ Rendered(r, path).crlf = FALSE
        BY RenderedType DEF Rendered, Text
      <4>. QED BY <4>1 DEF Normalized, Texts
    <3>. QED BY <3>2, <3>3
  <2>. QED BY <2>1, <2>2
<1>. HIDE DEF t
<1>3. Stored(t).exists /\ Stored(t).text = t
  BY DEF Stored
<1>. QED BY <1>1, <1>2, <1>3 DEF Settled, IsSame, t

\* The file in hand is one the run planned, when it is no manifest.
LEMMA HandPlanned ==
  ASSUME TypeOK, WorkOK, NEW p \in Procs, hand[p].step # "none", hand[p].path \in Files
  PROVE  Writes(p) /\ hand[p].path \in Plan(p)
<1>1. Writes(p) /\ queue[p] # <<>> /\ hand[p].path = Head(queue[p])
  BY DEF WorkOK, WorkOf, Writes
<1>2. queue[p] \in Seq(Paths)
  BY DEF TypeOK
<1>3. hand[p].path \in NamesOf(queue[p])
  BY <1>1, <1>2, NamesOfHead
<1>4. NamesOf(queue[p]) \subseteq Planned(job[p].rev, job[p].names) \cup Manifests
  BY <1>1 DEF WorkOK, WorkOf, Writes
<1>. QED BY <1>1, <1>3, <1>4, PathsAreApart DEF Plan

\* What a run has reported is not in the hands of another one, unless both write the
\* manifest of a folder.
LEMMA OthersKeep ==
  ASSUME TypeOK, WorkOK, ApartOK, AccountOK, NEW p \in Procs, NEW q \in Procs, p # q,
         hand[p].step # "none", Writes(q), NEW path \in Reported(q), Own(path)
  PROVE  hand[p].path # path
<1>. SUFFICES ASSUME hand[p].path = path PROVE FALSE
  OBVIOUS
<1>1. path \in Files
  BY DEF Own, OneRun
<1>2. Writes(p) /\ path \in Plan(p)
  BY <1>1, HandPlanned
<1>3. path \in Plan(q) \cup SealsOf(Plan(q))
  BY DEF AccountOK, AccountOf, Writes, Running, Working
<1>4. path \notin SealsOf(Plan(q))
  BY <1>1, WriterAssumption DEF SealsOf, ManifestPath
<1>. QED BY <1>2, <1>3, <1>4 DEF ApartOK, Plan

\* A step that leaves the report and the hand of a run, and settles no less of the files
\* it reported, leaves what it wrote.
LEMMA WrittenFrame ==
  ASSUME NEW q \in Procs, WrittenOf(q), Writes(q)' => Writes(q), job'[q] = job[q],
         report'[q] = report[q],
         hand[q].step = "open" => hand'[q] = hand[q],
         \A path \in Reported(q) :
           Writes(q) /\ Own(path) /\ Settled(job[q].rev, path, disk[path]) =>
             Settled(job[q].rev, path, disk'[path])
  PROVE  WrittenOf(q)'
<1>1. Reported(q)' = Reported(q)
  BY DEF Reported
<1>. QED BY <1>1 DEF WrittenOf, Own, OneRun, Settled, Undisturbed

\* An edit that neither removes a file nor comes outside its region leaves it to the
\* revision that wrote it.
LEMMA EditSettles ==
  ASSUME TypeOK, NEW f \in Files, UserEdits(f), Edits \cap {"outside", "delete"} = {}, ~Undisturbed,
         NEW path \in Paths, NEW r, Settled(r, path, disk[path])
  PROVE  Settled(r, path, disk'[path])
<1>1. DOMAIN disk = Paths /\ disk[f] \in Contents /\ disk[f].text \in Texts
  BY CodeTypes DEF Contents
<1>2. ASSUME NEW t, Edit(f, t), t.outside = disk[f].text.outside
      PROVE  Settled(r, path, disk'[path])
  BY <1>1, <1>2 DEF Edit, Settled, Stored
<1>3. \A v : /\ [disk[f].text EXCEPT !.code = v].outside = disk[f].text.outside
             /\ [disk[f].text EXCEPT !.marks = v].outside = disk[f].text.outside
             /\ [disk[f].text EXCEPT !.crlf = v].outside = disk[f].text.outside
  BY <1>1 DEF Texts
<1>4. ASSUME NEW code \in Code, EditRegion(f, code) PROVE Settled(r, path, disk'[path])
  BY <1>2, <1>3, <1>4 DEF EditRegion
<1>5. ASSUME NEW marks \in MarksKinds, EditMarks(f, marks) PROVE Settled(r, path, disk'[path])
  BY <1>2, <1>3, <1>5 DEF EditMarks
<1>6. CASE ToCRLF(f)
  BY <1>2, <1>3, <1>6 DEF ToCRLF
<1>. QED BY <1>4, <1>5, <1>6 DEF UserEdits, EditOutside, Delete

\* A report has paths of the workspace.
LEMMA ReportedPaths ==
  ASSUME TypeOK, NEW p \in Procs
  PROVE  Reported(p) \subseteq Paths
<1>. DEFINE Result == [path : Paths, status : Statuses]
<1>1. report[p] \in Seq(Result)
  BY DEF TypeOK
<1>2. \A i \in 1 .. Len(report[p]) : report[p][i] \in Result
  <2>. HIDE DEF Result
  <2>. QED BY <1>1, ElementOfSeq
<1>. QED BY <1>2 DEF Reported

\* Opening a file leaves its path in hand.
LEMMA HandKept ==
  ASSUME TypeOK, NEW p \in Procs, Open(p)
  PROVE  hand'[p].step = "open" /\ hand'[p].path = hand[p].path
<1>1. hand \in [Procs -> [step : Steps, path : Paths \cup {Nothing.path},
                          old : Contents, text : Texts]]
  BY DEF TypeOK
<1>2. hand' = [hand EXCEPT ![p] = [hand[p] EXCEPT !.step = "open"]]
  BY DEF Open
<1>. QED BY <1>1, <1>2

\* Every action leaves what each run wrote as it wrote it, but for the file it writes
\* again: the other runs work on other files, and the users keep away from these.
LEMMA WrittenStep ==
  ASSUME EditsDuring # "always", LeavesWritten, AtomicInv, AccountOK, WrittenOK, [Next]_vars
  PROVE  WrittenOK'
<1>. USE DEF AtomicInv
<1>t. /\ DOMAIN phase = Procs /\ DOMAIN job = Procs /\ DOMAIN hand = Procs
      /\ DOMAIN report = Procs /\ DOMAIN disk = Paths
  BY DEF TypeOK, FilesTypeOK
<1>w. \A q \in Procs : WrittenOf(q)
  BY DEF WrittenOK
<1>1. ASSUME NEW p \in Procs, WrittenOf(p)', UNCHANGED disk,
             \A q \in Procs \ {p} : phase'[q] = phase[q] /\ job'[q] = job[q]
                                     /\ hand'[q] = hand[q] /\ report'[q] = report[q]
      PROVE  WrittenOK'
  <2>1. ASSUME NEW q \in Procs \ {p} PROVE WrittenOf(q)'
    BY <1>1, <1>w, WrittenFrame DEF Writes, Running
  <2>. QED BY <1>1, <2>1 DEF WrittenOK
<1>2. ASSUME NEW p \in Procs, NEW request \in Requests, Start(p, request) \/ Refuse(p, request)
      PROVE  WrittenOK'
  <2>1. report'[p] = <<>> /\ UNCHANGED <<disk, hand>>
        /\ \A q \in Procs \ {p} : phase'[q] = phase[q] /\ job'[q] = job[q] /\ report'[q] = report[q]
    BY <1>2, <1>t DEF Start, Refuse, Launch, files
  <2>2. Reported(p)' = {}
    BY <2>1 DEF Reported
  <2>. QED BY <1>1, <2>1, <2>2 DEF WrittenOf
<1>3. ASSUME NEW p \in Procs,
             \/ EntryFails(p) \/ Finish(p) \/ ReadFails(p) \/ OpenFails(p) \/ WriteFails(p)
             \/ Kill(p)
      PROVE  WrittenOK'
  <2>1. /\ phase'[p] \in {"failed", "succeeded", "killed"} /\ UNCHANGED <<disk, job, report>>
        /\ \A q \in Procs \ {p} : phase'[q] = phase[q] /\ hand'[q] = hand[q]
    BY <1>3, <1>t DEF EntryFails, Finish, ReadFails, OpenFails, WriteFails, Kill, files
  <2>2. WrittenOf(p)'
    BY <2>1 DEF WrittenOf, Writes, Running, Working
  <2>. QED BY <1>1, <2>1, <2>2
<1>4. ASSUME NEW p \in Procs, NextEntry(p) \/ Seal(p) \/ Cancel(p) PROVE WrittenOK'
  <2>1. UNCHANGED <<disk, job, hand, report>> /\ Running(p)
        /\ \A q \in Procs \ {p} : phase'[q] = phase[q]
    BY <1>4, <1>t DEF NextEntry, Seal, Cancel, Running, Working, files
  <2>2. WrittenOf(p)'
    BY <1>w, <2>1, WrittenFrame DEF Writes
  <2>. QED BY <1>1, <2>1, <2>2
<1>5. ASSUME NEW p \in Procs, Preview(p) PROVE WrittenOK'
  <2>1. UNCHANGED <<disk, phase, job, hand>> /\ Previews(job[p])
        /\ \A q \in Procs \ {p} : report'[q] = report[q]
    BY <1>5, <1>t DEF Preview, Reports, files
  <2>2. WrittenOf(p)'
    BY <2>1 DEF WrittenOf, Writes
  <2>. QED BY <1>1, <2>1, <2>2
<1>6. ASSUME NEW p \in Procs, Read(p) PROVE WrittenOK'
  <2>1. UNCHANGED <<disk, phase, job, report>> /\ hand[p].step = "none"
        /\ \A q \in Procs \ {p} : hand'[q] = hand[q]
    BY <1>6, <1>t DEF Read, Takes, files
  <2>2. WrittenOf(p)'
    BY <1>w, <2>1, WrittenFrame DEF Writes, Running
  <2>. QED BY <1>1, <2>1, <2>2
<1>7. ASSUME NEW p \in Procs, NEW path, path = hand[p].path, hand[p].step # "none",
             \A x \in Paths \ {path} : disk'[x] = disk[x],
             \A q \in Procs \ {p} : hand'[q] = hand[q] /\ report'[q] = report[q],
             UNCHANGED <<phase, job>>, WrittenOf(p)'
      PROVE  WrittenOK'
  <2>1. ASSUME NEW q \in Procs \ {p} PROVE WrittenOf(q)'
    <3>1. ASSUME NEW x \in Reported(q), Writes(q), Own(x) PROVE disk'[x] = disk[x]
      <4>1. x # path
        BY <1>7, <3>1, OthersKeep
      <4>2. x \in Paths
        BY ReportedPaths
      <4>. QED BY <1>7, <4>1, <4>2
    <3>. QED BY <1>7, <1>w, <3>1, WrittenFrame DEF Writes, Running
  <2>. QED BY <1>7, <2>1 DEF WrittenOK
<1>8. ASSUME NEW p \in Procs, Open(p), NEW path, path = hand[p].path PROVE WrittenOK'
  <2>1. /\ \A x \in Paths \ {path} : disk'[x] = disk[x]
        /\ hand[p].step = "read"
        /\ \A q \in Procs \ {p} : hand'[q] = hand[q]
        /\ UNCHANGED <<phase, job, report>>
    BY <1>8, <1>t DEF Open
  <2>2. hand'[p].step = "open" /\ hand'[p].path = path
    BY <1>8, <1>t, HandKept
  <2>3. WrittenOf(p)'
    <3>1. Writes(p)' => Writes(p)
      BY <2>1 DEF Writes, Running
    <3>2. Reported(p)' = Reported(p) /\ Reported(p) \subseteq Paths
      BY <2>1, ReportedPaths DEF Reported
    <3>3. ASSUME NEW x \in Reported(p), Own(x), Writes(p), x # path
          PROVE  Settled(job[p].rev, x, disk'[x])
      BY <1>w, <2>1, <3>2, <3>3 DEF WrittenOf
    <3>. QED BY <2>1, <2>2, <3>1, <3>2, <3>3 DEF WrittenOf, Own, OneRun, Settled, Undisturbed
  <2>. QED BY <1>7, <1>8, <2>1, <2>3
<1>9. ASSUME NEW p \in Procs, Write(p), NEW path, path = hand[p].path PROVE WrittenOK'
  <2>. DEFINE r == job[p].rev
  <2>1. /\ disk' = [disk EXCEPT ![path] = Stored(hand[p].text)] /\ hand[p].step = "open"
        /\ Reports(p, path, "written") /\ UNCHANGED <<phase, job>>
        /\ \A q \in Procs \ {p} : hand'[q] = hand[q]
    BY <1>9, <1>t DEF Write
  <2>2. path \in Paths /\ queue[p] # <<>>
    BY <1>9, <2>1, HandPath DEF WorkOK, WorkOf
  <2>3. /\ Reported(p)' = Reported(p) \cup {path} /\ Reported(p) \subseteq Paths
        /\ \A q \in Procs \ {p} : report'[q] = report[q]
    BY <2>1, <2>2, ReportsAdds, ReportedPaths DEF Statuses
  <2>4. Settled(r, path, disk'[path])
    <3>1. r = rev /\ r \in Revisions /\ hand[p].old \in Contents
      BY <1>9, CodeTypes DEF Write, RevOK
    <3>2. hand[p].text = Output(r, path, hand[p].old) /\ ~OutputFails(r, path, hand[p].old)
      BY <1>9, <2>1, <3>1 DEF TakenOK, TakenOf
    <3>3. disk'[path] = Stored(Output(r, path, hand[p].old))
      BY <1>t, <2>1, <2>2, <3>2
    <3>. QED BY <2>2, <3>1, <3>2, <3>3, OutputSettles
  <2>5. \A x \in Paths \ {path} : disk'[x] = disk[x]
    BY <1>t, <2>1
  <2>6. WrittenOf(p)'
    <3>1. Writes(p)' => Writes(p)
      BY <2>1 DEF Writes, Running
    <3>2. ASSUME NEW x \in Reported(p), Own(x), Writes(p), x # path
          PROVE  Settled(r, x, disk'[x])
      <4>1. Settled(r, x, disk[x])
        BY <1>9, <1>w, <3>2 DEF WrittenOf
      <4>2. disk'[x] = disk[x]
        BY <2>3, <2>5, <3>2
      <4>. QED BY <4>1, <4>2
    <3>. QED BY <2>1, <2>3, <2>4, <3>1, <3>2 DEF WrittenOf, Own, OneRun, Settled, Undisturbed
  <2>. QED BY <1>7, <1>9, <2>1, <2>3, <2>5, <2>6
<1>10. ASSUME Upgrade PROVE WrittenOK'
  BY <1>10 DEF Upgrade, runVars, WrittenOK, WrittenOf, Writes, Running
<1>11. ASSUME NEW f \in Files, UserStep(f) PROVE WrittenOK'
  <2>1. UNCHANGED <<phase, job, hand, report>> /\ UserEdits(f) /\ MayEdit(f)
    BY <1>11 DEF UserStep, runVars
  <2>2. CASE EditsDuring = "idle"
    <3>1. \A q \in Procs : ~Running(q)'
      BY <2>1, <2>2 DEF MayEdit, Running
    <3>. QED BY <3>1 DEF WrittenOK, WrittenOf, Writes
  <2>3. CASE EditsDuring # "idle"
    <3>1. Edits \cap {"outside", "delete"} = {} /\ ~Undisturbed
      BY <2>3 DEF LeavesWritten, Undisturbed
    <3>2. ASSUME NEW q \in Procs PROVE WrittenOf(q)'
      BY <1>w, <2>1, <3>1, EditSettles, ReportedPaths, WrittenFrame DEF Writes, Running
    <3>. QED BY <3>2 DEF WrittenOK
  <2>. QED BY <2>2, <2>3
<1>12. CASE UNCHANGED vars
  BY <1>12, <1>w, WrittenFrame DEF vars, WrittenOK, Writes, Running
<1>. QED
  BY <1>2, <1>3, <1>4, <1>5, <1>6, <1>8, <1>9, <1>10, <1>11, <1>12 DEF Next, Step

OutcomeInv == AtomicInv /\ AccountOK /\ NamesOK /\ WrittenOK

\* Before any run nothing is reported, and every step keeps the invariant.
LEMMA OutcomeInductive ==
  ASSUME EditsDuring # "always", LeavesWritten
  PROVE  (Init => OutcomeInv) /\ (OutcomeInv /\ [Next]_vars => OutcomeInv')
<1>1. Init => OutcomeInv
  <2>. SUFFICES ASSUME Init PROVE OutcomeInv
    OBVIOUS
  <2>1. AtomicInv
    BY InitRefines
  <2>2. \A p \in Procs : phase[p] = "idle"
    BY DEF Init
  <2>3. AccountOK /\ NamesOK /\ WrittenOK
    BY <2>2 DEF AccountOK, AccountOf, NamesOK, WrittenOK, WrittenOf, Writes, Running, Working
  <2>. QED BY <2>1, <2>3 DEF OutcomeInv
<1>2. OutcomeInv /\ [Next]_vars => OutcomeInv'
  <2>. SUFFICES ASSUME OutcomeInv, [Next]_vars PROVE OutcomeInv'
    OBVIOUS
  <2>1. AtomicInv'
    BY TypeOKStep, WorkOKStep, ApartOKStep, RevOKStep, TakenOKStep DEF OutcomeInv, AtomicInv
  <2>2. AccountOK' /\ NamesOK' /\ WrittenOK'
    BY AccountStep, NamesStep, WrittenStep DEF OutcomeInv, AtomicInv
  <2>. QED BY <2>1, <2>2 DEF OutcomeInv
<1>. QED BY <1>1, <1>2

(***************************************************************************)
(* The manifests seal a complete generation                                *)
(***************************************************************************)

\* While a run writes its manifests (writeManifests) every file it planned is on disk in
\* its revision: with any number of runs into one folder, whatever fails or is killed
\* before, provided that runs that write at the same time work on different files and
\* that no user removes a file, or edits it out of its regions, while a run goes on.
THEOREM ManifestsAreLast ==
  ASSUME EditsDuring # "always", LeavesWritten
  PROVE  Spec => []SealedLast
<1>1. OutcomeInv => SealedLast
  <2>. SUFFICES ASSUME OutcomeInv, NEW p \in Procs, phase[p] = "manifests", ~Previews(job[p]),
                       NEW f \in Planned(job[p].rev, job[p].names)
                PROVE  disk[f].exists /\ disk[f].text.outside = job[p].rev
    BY DEF SealedLast
  <2>. USE DEF OutcomeInv, AtomicInv
  <2>1. Writes(p) /\ f \in Plan(p)
    BY DEF Writes, Running, Working, Plan
  <2>2. f \in Files /\ f \notin Manifests
    BY <2>1, PlanType, PathsAreApart DEF Writes
  <2>3. NamesOf(queue[p]) \subseteq Manifests /\ f \in Reported(p)
    BY <2>1, <2>2 DEF AccountOK, AccountOf
  <2>4. hand[p].step # "none" => hand[p].path # f
    <3>1. queue[p] \in Seq(Paths)
      BY DEF TypeOK
    <3>2. hand[p].step # "none" => hand[p].path \in NamesOf(queue[p])
      BY <3>1, NamesOfHead DEF WorkOK, WorkOf
    <3>. QED BY <2>2, <2>3, <3>2
  <2>5. Settled(job[p].rev, f, disk[f])
    BY <2>1, <2>2, <2>3, <2>4 DEF WrittenOK, WrittenOf, Own
  <2>. QED BY <2>5 DEF Settled
<1>. QED BY <1>1, OutcomeInductive, PTL DEF Spec

(***************************************************************************)
(* What --diff finds after a generation, and what its exit code says       *)
(***************************************************************************)

\* A run that ends is not writing any file.
LEMMA FinishedHand ==
  ASSUME WorkOK, NEW p \in Procs, Finish(p)
  PROVE  hand[p].step = "none" /\ Running(p)
BY DEF WorkOK, WorkOf, Finish, Running, Working

\* What a run has written is what it would write again, when it ends: the comparison of
\* --diff (writer.go) finds each of its files as it makes them.  The manifest of a folder
\* is meant only when there is one run at a time.
LEMMA WrittenIsSame ==
  ASSUME OutcomeInv, Undisturbed, NEW p \in Procs, Finish(p), ~Previews(job[p]),
         NEW path \in Reported(p), Own(path)
  PROVE  /\ ~OutputFails(job[p].rev, path, disk[path])
         /\ IsSame(disk[path], Output(job[p].rev, path, disk[path]))
<1>1. Writes(p) /\ hand[p].step = "none"
  BY FinishedHand DEF OutcomeInv, AtomicInv, Writes
<1>2. Settled(job[p].rev, path, disk[path])
  BY <1>1 DEF OutcomeInv, WrittenOK, WrittenOf
<1>. QED BY <1>2 DEF Settled

\* The same for the generated files alone, which no other run writes at the same time.
FilesLeaveNoDifference ==
  [][\A p \in Procs :
       Finish(p) /\ ~Previews(job[p]) =>
         \A path \in Reported(p) \cap Files :
           /\ ~OutputFails(job[p].rev, path, disk[path])
           /\ IsSame(disk[path], Output(job[p].rev, path, disk[path]))]_vars

\* A generation leaves the files it wrote as it would write them again, whatever other
\* runs do, where users edit between the runs and the language formats what has regions.
THEOREM GeneratedFilesSettle ==
  ASSUME Undisturbed
  PROVE  Spec => FilesLeaveNoDifference
<1>. DEFINE Settles ==
       \A p \in Procs :
         Finish(p) /\ ~Previews(job[p]) =>
           \A path \in Reported(p) \cap Files :
             /\ ~OutputFails(job[p].rev, path, disk[path])
             /\ IsSame(disk[path], Output(job[p].rev, path, disk[path]))
<1>1. EditsDuring # "always" /\ LeavesWritten
  BY DEF Undisturbed, LeavesWritten
<1>2. (Init => OutcomeInv) /\ (OutcomeInv /\ [Next]_vars => OutcomeInv')
  BY <1>1, OutcomeInductive
<1>3. OutcomeInv => Settles
  BY WrittenIsSame DEF Own
<1>. HIDE DEF Settles
<1>4. Spec => [][Settles]_vars
  BY <1>2, <1>3, PTL DEF Spec
<1>. QED BY <1>4 DEF Settles, FilesLeaveNoDifference

\* --diff after a generation (writer.go, run.go) finds nothing, in the files and in the
\* manifests: with any files and requests, one run at a time, where users edit between
\* the runs and the language formats what has regions, as both languages do.
THEOREM NothingIsLeftToWrite ==
  ASSUME Undisturbed, OneRun
  PROVE  Spec => WriteLeavesNoDifference
<1>. DEFINE Settles ==
       \A p \in Procs :
         Finish(p) /\ ~Previews(job[p]) =>
           \A path \in Reported(p) :
             /\ ~OutputFails(job[p].rev, path, disk[path])
             /\ IsSame(disk[path], Output(job[p].rev, path, disk[path]))
<1>1. EditsDuring # "always" /\ LeavesWritten
  BY DEF Undisturbed, LeavesWritten
<1>2. (Init => OutcomeInv) /\ (OutcomeInv /\ [Next]_vars => OutcomeInv')
  BY <1>1, OutcomeInductive
<1>3. OutcomeInv => Settles
  BY WrittenIsSame DEF Own
<1>. HIDE DEF Settles
<1>4. Spec => [][Settles]_vars
  BY <1>2, <1>3, PTL DEF Spec
<1>. QED BY <1>4 DEF Settles, WriteLeavesNoDifference

\* A comparison stays true while no file changes: a step that leaves the files, the
\* request and the report.
LEMMA ComparedFrame ==
  ASSUME ComparedOK, UNCHANGED <<disk, job, report>>, \A q \in Procs : Running(q)' => Running(q)
  PROVE  ComparedOK'
BY DEF ComparedOK, Compared

\* Every action keeps the outcomes of --diff true: the run that compares writes nothing,
\* and it is alone.
LEMMA ComparedStep ==
  ASSUME EditsDuring = "idle", OneRun, TypeOK, WorkOK, ComparedOK, [Next]_vars
  PROVE  ComparedOK'
<1>t. DOMAIN job = Procs /\ DOMAIN report = Procs /\ DOMAIN phase = Procs
  BY DEF TypeOK
<1>1. ASSUME NEW p \in Procs, NEW request \in Requests, Start(p, request) \/ Refuse(p, request)
      PROVE  ComparedOK'
  <2>1. report'[p] = <<>>
    BY <1>1, <1>t DEF Start, Refuse, Launch
  <2>. QED BY <2>1 DEF OneRun, ComparedOK
<1>2. ASSUME NEW p \in Procs,
             \/ NextEntry(p) \/ EntryFails(p) \/ Seal(p) \/ Finish(p) \/ Read(p) \/ ReadFails(p)
             \/ OpenFails(p) \/ WriteFails(p) \/ Kill(p)
      PROVE  ComparedOK'
  <2>1. UNCHANGED <<disk, job, report>>
    BY <1>2 DEF NextEntry, EntryFails, Seal, Finish, Read, ReadFails, OpenFails, WriteFails,
                Kill, files
  <2>2. \A q \in Procs : Running(q)' => Running(q)
    BY <1>2, NothingStarts DEF Step
  <2>. QED BY <2>1, <2>2, ComparedFrame
<1>3. ASSUME NEW p \in Procs, Open(p) \/ Write(p) PROVE ComparedOK'
  <2>1. ~job'[p].diff
    BY <1>3 DEF Open, Write, WorkOK, WorkOf, Previews
  <2>. QED BY <2>1 DEF OneRun, ComparedOK
<1>4. ASSUME NEW p \in Procs, Preview(p) PROVE ComparedOK'
  <2>. DEFINE path == Current(p)
              status == CASE ~job[p].diff -> "skipped"
                          [] IsSame(disk[Current(p)], Made(p)) -> "same"
                          [] OTHER -> "different"
              s == report[p]
              new == [path |-> path, status |-> status]
              Result == [path : Paths, status : Statuses]
  <2>1. UNCHANGED <<disk, phase, job>> /\ Reports(p, path, status) /\ Takes(p)
    BY <1>4 DEF Preview, files
  <2>2. status \in Statuses
    BY DEF Statuses
  <2>3. path \in Paths /\ queue[p] # <<>>
    BY <2>1, TakenType DEF Takes
  <2>4. report'[p] = Append(s, new) /\ s \in Seq(Result) /\ new \in Result
    <3>. HIDE DEF status
    <3>. QED BY <2>1, <2>2, <2>3, ReportsAdds DEF TypeOK
  <2>5. /\ Len(Append(s, new)) = Len(s) + 1 /\ Len(s) \in Nat
        /\ \A i \in 1 .. Len(s) : Append(s, new)[i] = s[i]
        /\ Append(s, new)[Len(s) + 1] = new
    <3>. HIDE DEF s, new, Result
    <3>. QED BY <2>4, AppendProperties
  <2>6. ASSUME Running(p), job[p].diff, NEW i \in 1 .. Len(s) + 1
        PROVE  Append(s, new)[i].status =
                 IF IsSame(disk[Append(s, new)[i].path],
                           Output(job[p].rev, Append(s, new)[i].path, disk[Append(s, new)[i].path]))
                 THEN "same" ELSE "different"
    <3>1. CASE i \in 1 .. Len(s)
      <4>1. Append(s, new)[i] = s[i] /\ Compared(p, i)
        BY <2>5, <2>6, <3>1 DEF ComparedOK
      <4>. HIDE DEF new
      <4>. QED BY <4>1 DEF Compared
    <3>2. CASE i = Len(s) + 1
      <4>1. Append(s, new)[i] = new
        BY <2>5, <3>2
      <4>2. new.path = path /\ new.status = status
        OBVIOUS
      <4>3. status = IF IsSame(disk[path], Made(p)) THEN "same" ELSE "different"
        BY <2>6
      <4>. HIDE DEF new, status
      <4>. QED BY <4>1, <4>2, <4>3 DEF Made
    <3>. QED BY <2>5, <2>6, <3>1, <3>2
  <2>7. \A q \in Procs : q = p
    BY DEF OneRun
  <2>. HIDE DEF new, s, status, path
  <2>8. ASSUME Running(p), job[p].diff, NEW i \in 1 .. Len(Append(s, new)) PROVE Compared(p, i)'
    BY <2>1, <2>4, <2>5, <2>6, <2>8 DEF Compared
  <2>. QED BY <2>1, <2>4, <2>7, <2>8 DEF ComparedOK, Running
<1>5. ASSUME NEW p \in Procs, Cancel(p) PROVE ComparedOK'
  BY <1>5, ComparedFrame DEF Cancel, files, Running
<1>6. ASSUME Upgrade PROVE ComparedOK'
  BY <1>6, ComparedFrame DEF Upgrade, NewRevision, runVars, Running
<1>7. ASSUME NEW f \in Files, UserStep(f) PROVE ComparedOK'
  BY <1>7 DEF UserStep, MayEdit, runVars, ComparedOK, Running
<1>8. CASE UNCHANGED vars
  BY <1>8, ComparedFrame DEF vars, Running
<1>. QED BY <1>1, <1>2, <1>3, <1>4, <1>5, <1>6, <1>7, <1>8 DEF Next, Step

\* --diff (run.go, root.go) exits with 0 exactly when a generation would change no file,
\* but for its line endings: with any files and requests, one run at a time and users who
\* edit between the runs.
THEOREM DiffTellsTheTruth ==
  ASSUME EditsDuring = "idle", OneRun
  PROVE  Spec => DiffIsTruthful
<1>. DEFINE Truth ==
       \A p \in Procs :
         Finish(p) /\ job[p].diff =>
           (ExitCode(p)' = 0 <=>
              \A path \in Reported(p) :
                /\ disk[path].exists
                /\ Normalized(disk[path].text) = Output(job[p].rev, path, disk[path]))
            Inv == TypeOK /\ WorkOK /\ ComparedOK
<1>1. Init => Inv
  <2>1. Init => ComparedOK
    BY DEF Init, ComparedOK, Running, Working
  <2>. QED BY <2>1, CodeInit DEF CodeInv
<1>2. Inv /\ [Next]_vars => Inv'
  BY TypeOKStep, WorkOKStep, ComparedStep
<1>3. Inv => Truth
  <2>. SUFFICES ASSUME Inv, NEW p \in Procs, Finish(p), job[p].diff
                PROVE  ExitCode(p)' = 0 <=>
                         \A path \in Reported(p) :
                           /\ disk[path].exists
                           /\ Normalized(disk[path].text) = Output(job[p].rev, path, disk[path])
    OBVIOUS
  <2>1. /\ phase'[p] = "succeeded" /\ job' = job /\ report' = report
        /\ \A i \in 1 .. Len(report[p]) : Compared(p, i)
    BY FinishedHand DEF Finish, TypeOK, ComparedOK
  <2>2. ExitCode(p)' = 0 <=> \A i \in 1 .. Len(report[p]) : report[p][i].status # "different"
    BY <2>1 DEF ExitCode
  <2>3. \A i \in 1 .. Len(report[p]) :
          report[p][i].status # "different" <=>
            IsSame(disk[report[p][i].path],
                   Output(job[p].rev, report[p][i].path, disk[report[p][i].path]))
    BY <2>1 DEF Compared
  <2>. QED BY <2>2, <2>3 DEF Reported, IsSame
<1>. HIDE DEF Truth, Inv
<1>4. Spec => [][Truth]_vars
  BY <1>1, <1>2, <1>3, PTL DEF Spec
<1>. QED BY <1>4 DEF Truth, DiffIsTruthful
=============================================================================

----------------------------- MODULE Generation -----------------------------
(***************************************************************************)
(* Runs of soft.gen over one output folder: internal/engine/run.go lists   *)
(* and renders the files of the selected entry points, internal/writer     *)
(* merges each one with the file on disk and writes, compares or lists it, *)
(* internal/engine/manifest.go seals the folders, cmd/soft.gen turns the   *)
(* outcome into an exit code.                                              *)
(*                                                                         *)
(* The environment of a run is part of the model: users edit the files,    *)
(* the model and the generator get new revisions, a process is killed, a   *)
(* file system call fails, several runs work in one output folder.         *)
(***************************************************************************)
EXTENDS Workspace

CONSTANTS
  Procs,        \* the processes that run the command
  Requests,     \* the command lines: --template, --diff, --dry-run, --manifest
  EntryPoints,  \* the names of the entry points of the language
  Defaults,     \* the default ones, in the order of the language
  BadModels,    \* the revisions whose model or properties do not load
  Lists,        \* revision, entry point |-> the files it lists, in order
  ListFails,    \* the <<revision, entry point>> whose files cannot be listed
  RenderFails,  \* the <<revision, file>> whose template fails
  EditsDuring,  \* when users edit a file: with no run ("idle"), or with no
                \* run rewriting it ("apart"), or at any time ("always")
  Cancels       \* whether the context of a run may be cancelled

ASSUME RunAssumption ==
  /\ EntryPoints \subseteq STRING
  /\ Defaults \in Seq(EntryPoints)
  /\ Lists \in [Revisions -> [EntryPoints -> Seq(Files)]]
  /\ Requests \subseteq [names : Seq(STRING), diff : BOOLEAN, dryRun : BOOLEAN, manifest : BOOLEAN]
  /\ EditsDuring \in {"idle", "apart", "always"}
  /\ Cancels \in BOOLEAN

(***************************************************************************)
(* The state                                                               *)
(***************************************************************************)
VARIABLES
  phase,     \* where a process is in engine.Run
  job,       \* its request and the revision it loaded
  todo,      \* its entry points still to run
  queue,     \* the files, or the manifests, still to write
  hand,      \* the file Write is working on
  report,    \* the FileResults of the run
  cancelled  \* whether its context is done

vars == <<rev, disk, owned, phase, job, todo, queue, hand, report, cancelled>>

runVars == <<phase, job, todo, queue, hand, report, cancelled>>

Working == {"files", "manifests"}

Running(p) == phase[p] \in Working

\* Between os.ReadFile and os.WriteFile "read", and once it truncated the file
\* "open".
Steps == {"none", "read", "open"}

Nothing == [step |-> "none", path |-> ManifestPath(0), old |-> Missing, text |-> Missing.text]

NoJob == [names |-> <<>>, diff |-> FALSE, dryRun |-> FALSE, manifest |-> FALSE, rev |-> 1]

Jobs == [names : Seq(STRING), diff : BOOLEAN, dryRun : BOOLEAN, manifest : BOOLEAN,
         rev : Revisions]

Previews(j) == j.diff \/ j.dryRun

Statuses == {"written", "skipped", "same", "different"}

Selection(names) == IF names = <<>> THEN Defaults ELSE names

NamesOf(s) == {s[i] : i \in 1 .. Len(s)}

\* The files that a request makes of a revision.
Planned(r, names) == UNION {NamesOf(Lists[r][e]) : e \in NamesOf(Selection(names))}

Reported(p) == {report[p][i].path : i \in 1 .. Len(report[p])}

Init ==
  /\ FilesInit
  /\ phase = [p \in Procs |-> "idle"]
  /\ job = [p \in Procs |-> NoJob]
  /\ todo = [p \in Procs |-> <<>>]
  /\ queue = [p \in Procs |-> <<>>]
  /\ hand = [p \in Procs |-> Nothing]
  /\ report = [p \in Procs |-> <<>>]
  /\ cancelled = [p \in Procs |-> FALSE]

(***************************************************************************)
(* The run: engine.Run                                                     *)
(***************************************************************************)

\* Two runs that write at the same time work on different files: several runs
\* into one folder (interfaces, implementations, tests) share its manifest.
Separate(p, request) ==
  \A q \in Procs \ {p} :
    \/ ~Running(q)
    \/ Previews(job[q])
    \/ Previews(request)
    \/ Planned(rev, request.names) \cap Planned(job[q].rev, job[q].names) = {}

Launch(p, request) ==
  /\ ~Running(p)
  /\ job' = [job EXCEPT ![p] = [names |-> request.names, diff |-> request.diff,
                                dryRun |-> request.dryRun, manifest |-> request.manifest,
                                rev |-> rev]]
  /\ queue' = [queue EXCEPT ![p] = <<>>]
  /\ report' = [report EXCEPT ![p] = <<>>]
  /\ cancelled' = [cancelled EXCEPT ![p] = FALSE]
  /\ UNCHANGED <<files, hand>>

\* Wrong variant: the names of the entry points are not checked.
AcceptedByAnyName(request) == rev \notin BadModels

Accepted(request) == NamesOf(request.names) \subseteq EntryPoints /\ rev \notin BadModels

Start(p, request) ==
  /\ Accepted(request)
  /\ Separate(p, request)
  /\ Launch(p, request)
  /\ phase' = [phase EXCEPT ![p] = "files"]
  /\ todo' = [todo EXCEPT ![p] = Selection(request.names)]

Refuse(p, request) ==
  /\ ~Accepted(request)
  /\ Launch(p, request)
  /\ phase' = [phase EXCEPT ![p] = "failed"]
  /\ todo' = [todo EXCEPT ![p] = <<>>]

\* The context is looked at before an entry point, and at no other time.
NextEntry(p) ==
  /\ phase[p] = "files" /\ queue[p] = <<>> /\ todo[p] # <<>>
  /\ ~cancelled[p]
  /\ <<job[p].rev, Head(todo[p])>> \notin ListFails
  /\ queue' = [queue EXCEPT ![p] = Lists[job[p].rev][Head(todo[p])]]
  /\ todo' = [todo EXCEPT ![p] = Tail(@)]
  /\ UNCHANGED <<files, phase, job, hand, report, cancelled>>

\* Wrong variant: the run does not return on a context that is done.
EntryFailsUncancelled(p) ==
  /\ phase[p] = "files" /\ queue[p] = <<>> /\ todo[p] # <<>>
  /\ ~cancelled[p] /\ <<job[p].rev, Head(todo[p])>> \in ListFails
  /\ phase' = [phase EXCEPT ![p] = "failed"]
  /\ UNCHANGED <<files, job, todo, queue, hand, report, cancelled>>

EntryFails(p) ==
  /\ phase[p] = "files" /\ queue[p] = <<>> /\ todo[p] # <<>>
  /\ cancelled[p] \/ <<job[p].rev, Head(todo[p])>> \in ListFails
  /\ phase' = [phase EXCEPT ![p] = "failed"]
  /\ UNCHANGED <<files, job, todo, queue, hand, report, cancelled>>

\* manifestPaths: the folders of the report, each one once, sorted.
SortedManifests(ds) ==
  {q \in [1 .. Cardinality(ds) -> {ManifestPath(d) : d \in ds}] :
     \A i, j \in DOMAIN q : i < j => q[i].dir < q[j].dir}

\* Wrong variant: the manifests of an entry point follow its files.
SealEarly(p) ==
  /\ phase[p] = "files" /\ queue[p] = <<>>
  /\ job[p].manifest
  /\ phase' = [phase EXCEPT ![p] = "manifests"]
  /\ \E q \in SortedManifests({path.dir : path \in Reported(p)}) :
       queue' = [queue EXCEPT ![p] = q]
  /\ UNCHANGED <<files, job, todo, hand, report, cancelled>>

Seal(p) ==
  /\ phase[p] = "files" /\ queue[p] = <<>> /\ todo[p] = <<>>
  /\ job[p].manifest
  /\ phase' = [phase EXCEPT ![p] = "manifests"]
  /\ \E q \in SortedManifests({path.dir : path \in Reported(p)}) :
       queue' = [queue EXCEPT ![p] = q]
  /\ UNCHANGED <<files, job, todo, hand, report, cancelled>>

\* Wrong variant: a run whose context is done returns no error.
FinishCancelled(p) ==
  /\ queue[p] = <<>>
  /\ \/ phase[p] = "files" /\ (cancelled[p] \/ (todo[p] = <<>> /\ ~job[p].manifest))
     \/ phase[p] = "manifests"
  /\ phase' = [phase EXCEPT ![p] = "succeeded"]
  /\ UNCHANGED <<files, job, todo, queue, hand, report, cancelled>>

Finish(p) ==
  /\ queue[p] = <<>>
  /\ \/ phase[p] = "files" /\ todo[p] = <<>> /\ ~job[p].manifest
     \/ phase[p] = "manifests"
  /\ phase' = [phase EXCEPT ![p] = "succeeded"]
  /\ UNCHANGED <<files, job, todo, queue, hand, report, cancelled>>

\* The exit code of the command: 0, or 1 on an error and on a difference.
ExitCode(p) ==
  IF \/ phase[p] # "succeeded"
     \/ job[p].diff /\ \E i \in 1 .. Len(report[p]) : report[p][i].status = "different"
  THEN 1 ELSE 0

(***************************************************************************)
(* One file: Body.Render, then Writer.Write                                *)
(***************************************************************************)
Current(p) == Head(queue[p])

Takes(p) == Running(p) /\ queue[p] # <<>> /\ hand[p].step = "none"

\* A template that fails, a file that cannot be read, a region without an end,
\* code that does not parse: the run stops.
CannotMake(p) ==
  \/ <<job[p].rev, Current(p)>> \in RenderFails
  \/ OutputFails(job[p].rev, Current(p), disk[Current(p)])

\* Wrong variant: the file on disk is not merged.
MadeAnew(p) == Formatted(Rendered(job[p].rev, Current(p)))

Made(p) == Output(job[p].rev, Current(p), disk[Current(p)])

Reports(p, path, status) ==
  /\ report' = [report EXCEPT ![p] = Append(@, [path |-> path, status |-> status])]
  /\ queue' = [queue EXCEPT ![p] = Tail(@)]

\* Wrong variant: --dry-run lists, whatever --diff says.
PreviewListing(p) ==
  /\ Takes(p) /\ Previews(job[p]) /\ ~CannotMake(p)
  /\ Reports(p, Current(p), CASE job[p].dryRun -> "skipped"
                            [] IsSame(disk[Current(p)], Made(p)) -> "same"
                            [] OTHER -> "different")
  /\ UNCHANGED <<files, phase, job, todo, hand, cancelled>>

\* --diff compares, whatever --dry-run says; --dry-run lists.
Preview(p) ==
  /\ Takes(p) /\ Previews(job[p]) /\ ~CannotMake(p)
  /\ Reports(p, Current(p), CASE ~job[p].diff -> "skipped"
                            [] IsSame(disk[Current(p)], Made(p)) -> "same"
                            [] OTHER -> "different")
  /\ UNCHANGED <<files, phase, job, todo, hand, cancelled>>

Read(p) ==
  /\ Takes(p) /\ ~Previews(job[p]) /\ ~CannotMake(p)
  /\ hand' = [hand EXCEPT ![p] = [step |-> "read", path |-> Current(p),
                                  old |-> disk[Current(p)], text |-> Made(p)]]
  /\ UNCHANGED <<files, phase, job, todo, queue, report, cancelled>>

\* The failure the code finds in the file, or an error of the file system.
ReadFails(p) ==
  /\ Takes(p)
  /\ phase' = [phase EXCEPT ![p] = "failed"]
  /\ UNCHANGED <<files, job, todo, queue, hand, report, cancelled>>

\* os.WriteFile truncates the file, then writes it.
Open(p) ==
  /\ Running(p) /\ hand[p].step = "read"
  /\ disk' = [disk EXCEPT ![hand[p].path] = Stored(Text(Foreign, NoId))]
  /\ hand' = [hand EXCEPT ![p].step = "open"]
  /\ UNCHANGED <<rev, owned, phase, job, todo, queue, report, cancelled>>

OpenFails(p) ==
  /\ Running(p) /\ hand[p].step = "read"
  /\ phase' = [phase EXCEPT ![p] = "failed"]
  /\ hand' = [hand EXCEPT ![p] = Nothing]
  /\ UNCHANGED <<files, job, todo, queue, report, cancelled>>

\* A region whose loss was announced is its user's no more.
Write(p) ==
  LET path == hand[p].path
  IN  /\ Running(p) /\ hand[p].step = "open"
      /\ disk' = [disk EXCEPT ![path] = Stored(hand[p].text)]
      /\ owned' = IF IsLost(path, hand[p].old, hand[p].text)
                  THEN [owned EXCEPT ![path] = NoCode] ELSE owned
      /\ Reports(p, path, "written")
      /\ hand' = [hand EXCEPT ![p] = Nothing]
      /\ UNCHANGED <<rev, phase, job, todo, cancelled>>

\* The file an aborted write leaves torn is announced too: by the error of the
\* run, or by whoever killed it.
Torn(p) ==
  owned' = IF hand[p].step = "open" /\ hand[p].path \in Files
           THEN [owned EXCEPT ![hand[p].path] = NoCode] ELSE owned

WriteFails(p) ==
  /\ Running(p) /\ hand[p].step = "open"
  /\ Torn(p)
  /\ phase' = [phase EXCEPT ![p] = "failed"]
  /\ hand' = [hand EXCEPT ![p] = Nothing]
  /\ UNCHANGED <<rev, disk, job, todo, queue, report, cancelled>>

Step(p) ==
  \/ NextEntry(p) \/ EntryFails(p) \/ Seal(p) \/ Finish(p)
  \/ Preview(p) \/ Read(p) \/ ReadFails(p)
  \/ Open(p) \/ OpenFails(p) \/ Write(p) \/ WriteFails(p)

(***************************************************************************)
(* The environment                                                         *)
(***************************************************************************)

\* The command installs no signal handler: a signal ends it anywhere.
Kill(p) ==
  /\ Running(p)
  /\ Torn(p)
  /\ phase' = [phase EXCEPT ![p] = "killed"]
  /\ hand' = [hand EXCEPT ![p] = Nothing]
  /\ UNCHANGED <<rev, disk, job, todo, queue, report, cancelled>>

Cancel(p) ==
  /\ Cancels /\ Running(p) /\ ~cancelled[p]
  /\ cancelled' = [cancelled EXCEPT ![p] = TRUE]
  /\ UNCHANGED <<files, phase, job, todo, queue, hand, report>>

Upgrade ==
  /\ \A p \in Procs : ~Running(p)
  /\ NewRevision
  /\ UNCHANGED runVars

InHand(f) == \E p \in Procs : hand[p].step # "none" /\ hand[p].path = f

MayEdit(f) ==
  CASE EditsDuring = "idle" -> \A p \in Procs : ~Running(p)
    [] EditsDuring = "apart" -> ~InHand(f)
    [] EditsDuring = "always" -> \A p \in Procs : hand[p].step = "open" => hand[p].path # f

UserStep(f) ==
  /\ MayEdit(f)
  /\ UserEdits(f)
  /\ UNCHANGED runVars

Next ==
  \/ \E p \in Procs : Step(p) \/ \E request \in Requests : Start(p, request) \/ Refuse(p, request)
  \/ \E p \in Procs : Kill(p) \/ Cancel(p)
  \/ Upgrade
  \/ \E f \in Files : UserStep(f)

Spec == Init /\ [][Next]_vars

\* The process of a run is scheduled as long as it is not killed.
FairSpec == Spec /\ \A p \in Procs : WF_vars(Step(p))

(***************************************************************************)
(* Properties                                                              *)
(***************************************************************************)
TypeOK ==
  /\ FilesTypeOK
  /\ phase \in [Procs -> {"idle", "succeeded", "failed", "killed"} \cup Working]
  /\ job \in [Procs -> Jobs]
  /\ todo \in [Procs -> Seq(EntryPoints)]
  /\ queue \in [Procs -> Seq(Paths)]
  /\ hand \in [Procs -> [step : Steps, path : Paths \cup {Nothing.path},
                         old : Contents, text : Texts]]
  /\ report \in [Procs -> Seq([path : Paths, status : Statuses])]
  /\ cancelled \in [Procs -> BOOLEAN]

\* What a user wrote in a region is in the file, whatever runs, revisions,
\* failures and kills came since, but for the file that is being rewritten: it
\* goes only with an announcement, a warning of Write (writer.go), the error of
\* the run or the kill.
UserCodeKept ==
  \A f \in Files :
    owned[f] # NoCode =>
      \/ HoldsCode(disk[f], owned[f])
      \/ \E p \in Procs : Running(p) /\ hand[p].step = "open" /\ hand[p].path = f

\* A run that reports success did all it was asked to: every file of its entry
\* points and, unless --manifest=false, the manifest of every folder of them is
\* in the report, in preview modes as when it writes, whatever cancellations
\* came in its way.
SuccessIsComplete ==
  \A p \in Procs :
    phase[p] = "succeeded" =>
      LET planned == Planned(job[p].rev, job[p].names)
      IN  Reported(p) = planned \cup (IF job[p].manifest THEN {ManifestPath(f.dir) : f \in planned}
                                      ELSE {})

\* The manifests seal a complete generation: while they are written, and so
\* whenever the manifest of a new revision appears, every file of the run is on
\* disk in that revision.  A run that stops earlier leaves the old manifests.
SealedLast ==
  \A p \in Procs :
    phase[p] = "manifests" /\ ~Previews(job[p]) =>
      \A f \in Planned(job[p].rev, job[p].names) :
        disk[f].exists /\ disk[f].text.outside = job[p].rev

\* --diff after a generation finds nothing: what Write would make of the file
\* it wrote, merged, formatted and compared, is that file.
WriteLeavesNoDifference ==
  [][\A p \in Procs :
       Finish(p) /\ ~Previews(job[p]) =>
         \A path \in Reported(p) :
           /\ ~OutputFails(job[p].rev, path, disk[path])
           /\ IsSame(disk[path], Output(job[p].rev, path, disk[path]))]_vars

\* --diff exits with 0 exactly when a generation would change no file, but for
\* its line endings.
DiffIsTruthful ==
  [][\A p \in Procs :
       Finish(p) /\ job[p].diff =>
         (ExitCode(p)' = 0 <=>
            \A path \in Reported(p) :
              /\ disk[path].exists
              /\ Normalized(disk[path].text) = Output(job[p].rev, path, disk[path]))]_vars

\* Every run ends: with its files written, or at its first error.
RunsEnd == \A p \in Procs : Running(p) ~> ~Running(p)

(***************************************************************************)
(* What makes UserCodeKept hold: the parts of its inductive invariant      *)
(***************************************************************************)

\* A run works on the files it planned, then on manifests.
WorkOf(p) ==
  /\ Running(p) =>
       /\ NamesOf(todo[p]) \subseteq NamesOf(Selection(job[p].names))
       /\ NamesOf(queue[p]) \subseteq Planned(job[p].rev, job[p].names) \cup Manifests
  /\ hand[p].step # "none" =>
       /\ Running(p) /\ ~Previews(job[p])
       /\ queue[p] # <<>> /\ hand[p].path = Head(queue[p])

WorkOK == \A p \in Procs : WorkOf(p)

Writes(p) == Running(p) /\ ~Previews(job[p])

ApartOK ==
  \A p, q \in Procs :
    p # q /\ Writes(p) /\ Writes(q) =>
      Planned(job[p].rev, job[p].names) \cap Planned(job[q].rev, job[q].names) = {}

\* The end marker of a region is not gone for good, and a file without the
\* WithRegions flag has no region.
Sound(path, content) ==
  content.text.region # NoId => content.text.marks # "bare" /\ path \in Protected

\* What is in hand is what Write made of the file as it is, or as it was when it
\* was opened.
HandOf(p) ==
  LET h == hand[p]
  IN  h.step # "none" /\ h.path \in Files =>
        /\ Sound(h.path, h.old)
        /\ h.text = Output(job[p].rev, h.path, h.old)
        /\ h.step = "read" => h.old = disk[h.path]
        /\ h.step = "open" /\ owned[h.path] # NoCode => HoldsCode(h.old, owned[h.path])

HandOK == \A p \in Procs : HandOf(p)

DiskOK == \A f \in Files : Sound(f, disk[f])

\* At each moment of a run one can say where the code of every user is.
CodeInv == TypeOK /\ WorkOK /\ ApartOK /\ HandOK /\ DiskOK /\ UserCodeKept

(***************************************************************************)
(* The files as the users see them: a file that is being rewritten counts  *)
(* as the file it was, until the write is done or is aborted.  A manifest  *)
(* that several runs write is seen as it is, torn in between.              *)
(***************************************************************************)
Opened(path) == {p \in Procs : hand[p].step = "open" /\ hand[p].path = path}

Published ==
  [path \in Paths |->
     IF path \in Manifests \/ Opened(path) = {} THEN disk[path] ELSE hand[CHOOSE p \in Opened(path) : TRUE].old]

Promise == INSTANCE Regeneration WITH disk <- Published

\* A generation is a sequence of atomic regenerations of single files, each one
\* of the file as it is at that time: no write is lost between the read and the
\* write of Write, and none is half seen.
RegeneratesAtomically == Promise!Spec
=============================================================================

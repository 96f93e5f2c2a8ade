------------------------------- MODULE Studio -------------------------------
(***************************************************************************)
(* SamplerView's work with samples and files (src/Source/App/SamplerView   *)
(* .cpp): imports, renders and takes are decoded by background jobs and    *)
(* committed by the timer, through SampleImporter, DerivedAssetRenderer and *)
(* RecordedAssetPublisher, to the registry of decoded samples and to the   *)
(* project, which is edited, saved, closed and opened meanwhile.           *)
(*   The message thread does one gesture or one result at a time; the      *)
(* workers and the capture thread run beside it.  A job may fail whenever  *)
(* it runs, so cancelling one, which only asks it to fail, adds nothing: a  *)
(* job past its last look at the request succeeds all the same.  Any       *)
(* submission may be refused, as analyses, previews and waveforms, which   *)
(* are not modelled here, hold places in the job system too.               *)
(*   An asset is <<n, kind>>: n is drawn for an import or a take, and is   *)
(* the source's for a render, whose UUID is the digest of its recipe.      *)
(***************************************************************************)
EXTENDS SampleStore, ProjectFile, Sequences, FiniteSets, Functions

CONSTANTS Pads,         \* 0 .. n: pads with one layer each
          EditedPads,   \* bound: the pads the user works on
          None,
          DecodedSizes, \* bytes of a file decoded again: it may have changed since
          MaxRevision,  \* bound: how far a project's revision is followed
          MaxGestures,  \* bound: gestures of the user
          MaxTakes,     \* bound: recordings armed
          MaxFaults     \* bound: how often something fails

Assets == Nat \X {"import", "take", "render"}
States == [layers : [Pads -> Assets \cup {None}], assets : SUBSET Assets,
           missing : SUBSET Assets, autoAssign : BOOLEAN]

\* What can be open, and saved.
Projects == [uuid : Nat, revision : Nat, state : States]

ASSUME StudioAssumption ==
  /\ 0 \in Pads /\ Pads \subseteq Nat /\ \A p \in Pads : 0 .. p \subseteq Pads
  /\ EditedPads \subseteq Pads /\ DecodedSizes \subseteq Nat
  /\ MaxRevision \in Nat /\ MaxGestures \in Nat /\ MaxTakes \in Nat /\ MaxFaults \in Nat
  /\ Absent \notin Projects /\ Torn \notin Projects

VARIABLES
  project,     \* [uuid, revision, state]; state is [layers, assets, missing,
               \* autoAssign], the last of the recording preferences
  undo, redo,  \* the controller's histories of [before, after]
  store,       \* assets_
  imports,     \* [queue, active, refused]: importQueue_ (the destinations),
               \* importActive_; ghost: the last submission was refused
  jobs,        \* jobs submitted and not finished
  completed,   \* their results, in the order they finished
  derivedJob,  \* derivedJob_.has_value()
  rendered,    \* derived assets whose file is in the project's directory
  rec,         \* the capture session and what SamplerView keeps of it
  fresh,       \* the next UUID drawn
  ghost,       \* [opening, unbacked, gestures, takes]
  faults       \* ghost: how often something failed

desk == <<project, undo, redo>>
studioVars == <<desk, store, imports, jobs, completed, derivedJob, rendered, rec, fresh, ghost,
                faults, fileVars>>

NoProject(uuid) ==
  [uuid |-> uuid, revision |-> 0,
   state |-> [layers |-> [p \in Pads |-> None], assets |-> {}, missing |-> {},
             autoAssign |-> TRUE]]

NoTake == [stage |-> "idle", take |-> 0, target |-> None, auto |-> FALSE,
           submitted |-> FALSE, decoding |-> FALSE, pending |-> None]

\* The message thread is free and the user does one more thing.
Gesture ==
  /\ saving = "idle"
  /\ ghost.gestures < MaxGestures
  /\ ghost' = [ghost EXCEPT !.gestures = @ + 1]

(***************************************************************************)
(* The project: ApplicationController, as ProjectEdits has it in full.     *)
(***************************************************************************)

Edit(s) ==
  /\ project.revision < MaxRevision
  /\ project' = [project EXCEPT !.state = s, !.revision = @ + 1]
  /\ undo' = Append(undo, [before |-> project.state, after |-> s])
  /\ redo' = <<>>

\* isCurrentJobTarget(); pads keep their UUIDs here.
IsCurrent(job) == job.owner = project.uuid /\ job.revision = project.revision

WithAsset(s, p, a) ==
  [s EXCEPT !.layers[p] = a, !.assets = @ \cup {a}, !.missing = @ \ {a}]

(***************************************************************************)
(* What goes wrong: each of it may happen whenever it can, MaxFaults times. *)
(***************************************************************************)

\* A result that comes to nothing whatever the commit functions would do.
Stale(result) == ~result.ok \/ ~IsCurrent(result.job)

\* A current result that is to be committed is not.
ResultRefused ==
  /\ completed # <<>> /\ completed' = Tail(completed)
  /\ LET result == Head(completed)
     IN /\ result.job.kind # "resolve" /\ ~Stale(result)
        /\ result.job.kind = "recorded" => rec.auto
  /\ UNCHANGED project

\* What MaxFaults bounds: a result the project or the registry refuses, a submission
\* the job system refuses, a job or a save that fails, the death of the process.
Faulty ==
  \/ ResultRefused
  \/ imports'.refused /\ imports' # imports
  \/ rec.stage = "completed" /\ ~rec.submitted /\ rec'.stage = "completed" /\ ~rec'.submitted
  \/ ~(ghost'.unbacked \subseteq ghost.unbacked)
  \/ Len(completed') > Len(completed) /\ ~completed'[Len(completed')].ok
  \/ saving # "idle" /\ saving' = "idle" /\ saved' = saved

Counted ==
  /\ faults' = faults + (IF Faulty THEN 1 ELSE 0)
  /\ faults' <= MaxFaults

(***************************************************************************)
(* Jobs and what is submitted along with other things.                     *)
(***************************************************************************)

\* JobSpec; wrote says whether a render made its file, or that it has not yet.
Job(kind, p, a, target) ==
  [kind |-> kind, pad |-> p, asset |-> a, owner |-> target.uuid,
   revision |-> target.revision, opening |-> ghost.opening, wrote |-> "no", id |-> fresh]

\* A submission drew a UUID.
Drawn == fresh' = IF jobs' \subseteq jobs THEN fresh ELSE fresh + 1

\* handleCompletedCapture(): the decoding of a finished take, for the target the
\* take was armed with.
TakeJob(r) == Job("recorded", r.target.pad, <<r.take, "take">>, r.target)

\* refreshRecording(), which refreshAll() and the timer call: a finished take is
\* submitted for decoding once, or again later when the job system is full.
RecordingRefreshed(r, js) ==
  \/ /\ r.stage = "completed" /\ ~r.submitted
     /\ rec' = [r EXCEPT !.submitted = TRUE, !.decoding = TRUE]
     /\ jobs' = js \cup {TakeJob(r)}
  \/ rec' = r /\ jobs' = js

NoImports == [queue |-> <<>>, active |-> FALSE, refused |-> FALSE]

ImportJob(p, target) == Job("import", p, <<fresh, "import">>, target)

\* Mutant of ImportsAfter: a refused import is taken for submitted.
ImportsAfterAnyway(queue, js, target) ==
  IF queue = <<>> THEN {[imports |-> NoImports, jobs |-> js]}
  ELSE LET next == [queue |-> queue, active |-> TRUE, refused |-> FALSE]
       IN {[imports |-> next, jobs |-> js \cup {ImportJob(Head(queue), target)}],
           [imports |-> [next EXCEPT !.refused = TRUE], jobs |-> js]}

\* submitNextImport() while no import is active: the first of the queue is
\* submitted, or dropped when the job system is full; refused remembers that.
ImportsAfter(queue, js, target) ==
  IF queue = <<>> THEN {[imports |-> NoImports, jobs |-> js]}
  ELSE {[imports |-> [queue |-> queue, active |-> TRUE, refused |-> FALSE],
         jobs |-> js \cup {ImportJob(Head(queue), target)}],
        [imports |-> [queue |-> Tail(queue), active |-> FALSE, refused |-> TRUE],
         jobs |-> js]}

(***************************************************************************)
(* Gestures.                                                               *)
(***************************************************************************)

\* queueImportFiles(): files dropped go to one pad after the other.
DropFiles(p) ==
  /\ Gesture
  /\ \E last \in {q \in Pads : q >= p} :
       LET queue == imports.queue \o [i \in 1 .. last - p + 1 |-> p + i - 1]
       IN IF imports.active
          THEN imports' = [imports EXCEPT !.queue = queue] /\ UNCHANGED jobs
          ELSE \E next \in ImportsAfter(queue, jobs, project) :
                 /\ imports' = next.imports
                 /\ jobs' = next.jobs
  /\ Drawn
  /\ UNCHANGED <<desk, store, completed, derivedJob, rendered, rec, fileVars>>
  /\ Counted

\* submitDerivedOperation(): one render at a time, of a loaded source; renders of
\* renders are left out.
SubmitDerived(p) ==
  /\ Gesture
  /\ ~derivedJob
  /\ LET a == project.state.layers[p]
     IN /\ a # None /\ a[2] # "render" /\ Holds(store, a) /\ a \notin project.state.missing
        /\ jobs' = jobs \cup {Job("derived", p, <<a[1], "render">>, project)}
  /\ derivedJob' = TRUE
  /\ Drawn
  /\ UNCHANGED <<faults, desk, store, imports, completed, rendered, rec, fileVars>>

\* clearSelectedLayer(): it stands for every edit of the project.
ClearLayer(p) ==
  /\ Gesture
  /\ project.state.layers[p] # None
  /\ Edit([project.state EXCEPT !.layers[p] = None])
  /\ RecordingRefreshed(rec, jobs) /\ Drawn
  /\ UNCHANGED <<store, imports, completed, derivedJob, rendered, fileVars>>
  /\ Counted

UndoEdit ==
  /\ Gesture
  /\ undo # <<>> /\ project.revision < MaxRevision
  /\ LET edit == undo[Len(undo)]
     IN /\ project' = [project EXCEPT !.state = edit.before, !.revision = @ + 1]
        /\ undo' = SubSeq(undo, 1, Len(undo) - 1)
        /\ redo' = Append(redo, edit)
  /\ RecordingRefreshed(rec, jobs) /\ Drawn
  /\ UNCHANGED <<store, imports, completed, derivedJob, rendered, fileVars>>
  /\ Counted

RedoEdit ==
  /\ Gesture
  /\ redo # <<>> /\ project.revision < MaxRevision
  /\ LET edit == redo[Len(redo)]
     IN /\ project' = [project EXCEPT !.state = edit.after, !.revision = @ + 1]
        /\ redo' = SubSeq(redo, 1, Len(redo) - 1)
        /\ undo' = Append(undo, edit)
  /\ RecordingRefreshed(rec, jobs) /\ Drawn
  /\ UNCHANGED <<store, imports, completed, derivedJob, rendered, fileVars>>
  /\ Counted

\* cancelRecording(): a take that is complete stays complete.
RecordingCancelled ==
  IF rec.stage = "completed"
  THEN [rec EXCEPT !.submitted = FALSE, !.decoding = FALSE, !.pending = None]
  ELSE [NoTake EXCEPT !.auto = rec.auto]

\* armRecording() and startRecording(): the target is the project as it is once
\* the recording preferences are kept, which is an edit when they changed.  Of
\* these only whether a take is assigned at once is modelled.  It takes two gestures.
ArmRecording(p) ==
  /\ saving = "idle"
  /\ ghost.gestures + 2 <= MaxGestures /\ ghost.takes < MaxTakes
  /\ ghost' = [ghost EXCEPT !.gestures = @ + 2, !.takes = @ + 1]
  /\ rec.stage # "armed" /\ ~rec.decoding
  /\ \E auto \in BOOLEAN :
       /\ IF auto = project.state.autoAssign
          THEN UNCHANGED desk ELSE Edit([project.state EXCEPT !.autoAssign = auto])
       /\ rec' = [NoTake EXCEPT !.stage = "armed", !.take = fresh, !.auto = auto,
                    !.target = [uuid |-> project.uuid, revision |-> project'.revision,
                                pad |-> p]]
  /\ fresh' = fresh + 1
  /\ UNCHANGED <<faults, store, imports, jobs, completed, derivedJob, rendered, fileVars>>

CancelRecording ==
  /\ Gesture
  /\ rec.stage # "idle"
  /\ rec' = RecordingCancelled
  /\ UNCHANGED <<faults, desk, store, imports, jobs, completed, derivedJob, rendered, fresh, fileVars>>

(***************************************************************************)
(* Other projects, files, and the end of the process.                      *)
(***************************************************************************)

\* What both the new button and opening a file do to what is under way: owners'
\* jobs are cancelled, queues and registries emptied; a render stays the one.
Abandon ==
  /\ imports' = NoImports
  /\ store' = EmptyStore
  /\ undo' = <<>> /\ redo' = <<>>
  /\ UNCHANGED <<completed, derivedJob, rendered>>

NewProject ==
  /\ Gesture
  /\ Abandon
  /\ project' = NoProject(fresh)
  /\ RecordingRefreshed(RecordingCancelled, jobs)
  /\ fresh' = fresh + 1
  /\ UNCHANGED fileVars
  /\ Counted

\* showSaveChooser(): ProjectFile's steps follow.
Save ==
  /\ Gesture
  /\ BeginSave(project)
  /\ UNCHANGED <<faults, desk, store, imports, jobs, completed, derivedJob, rendered, rec, fresh>>

\* The files a project names that are not there: the user's may be gone, renders
\* are looked for where they were written, takes are never removed.
Gone(s) ==
  {lost \cup (LET renders == {a \in s.assets : a[2] = "render"} IN renders \ rendered) :
     lost \in SUBSET {a \in s.assets : a[2] = "import"}}

Resolve(a, revision) ==
  [kind |-> "resolve", pad |-> 0, asset |-> a, owner |-> -1, revision |-> revision,
   opening |-> ghost.opening + 1, wrote |-> "no", id |-> 0]

\* showOpenChooser(): a file that does not load leaves the project, but the
\* recording was cancelled before it was looked at.
OpenRefused ==
  /\ Gesture
  /\ dest = Absent
  /\ rec' = RecordingCancelled
  /\ UNCHANGED <<faults, desk, store, imports, jobs, completed, derivedJob, rendered, fresh, fileVars>>

\* restoreProject(), refreshExternalAssetAvailability(), publishModel(), then
\* resolveProjectAssets(), which stops at the first sample that is refused.
OpenProject ==
  /\ saving = "idle" /\ ghost.gestures < MaxGestures
  /\ dest # Absent
  /\ Abandon
  /\ \E gone \in Gone(dest.state) :
       LET present == dest.state.assets \ gone
           revision == dest.revision + (IF gone = dest.state.missing THEN 0 ELSE 1)
       IN /\ project' = [dest EXCEPT !.state.missing = gone, !.revision = revision]
          /\ \E queued \in SUBSET present :
               /\ RecordingRefreshed(RecordingCancelled,
                                     jobs \cup {Resolve(a, revision) : a \in queued})
               /\ ghost' = [ghost EXCEPT !.gestures = @ + 1, !.opening = @ + 1,
                                         !.unbacked = present \ queued]
  /\ Drawn
  /\ UNCHANGED fileVars
  /\ Counted

\* The application ends or dies and is started again; the disk stays.
Restart ==
  /\ project' = NoProject(fresh) /\ undo' = <<>> /\ redo' = <<>>
  /\ store' = EmptyStore
  /\ imports' = NoImports
  /\ jobs' = {} /\ completed' = <<>> /\ derivedJob' = FALSE
  /\ rec' = NoTake
  /\ fresh' = fresh + 1
  /\ FileCrash
  /\ faults < MaxFaults /\ faults' = faults + 1
  /\ UNCHANGED <<rendered, ghost>>

(***************************************************************************)
(* The workers and the capture thread.                                     *)
(***************************************************************************)

Finish(job, ok, bytes) ==
  /\ jobs' = jobs \ {job}
  /\ completed' = Append(completed, [job |-> job, ok |-> ok, bytes |-> bytes])

\* SampleImporter::decode() and RecordedAssetPublisher::decode()
Decode(job) ==
  /\ job.kind # "derived"
  /\ \/ Finish(job, FALSE, 0)
     \/ job.kind = "resolve" /\ \E bytes \in DecodedSizes : Finish(job, TRUE, bytes)
     \/ job.kind # "resolve" /\ Finish(job, TRUE, 1)
  /\ UNCHANGED <<desk, store, imports, derivedJob, rendered, rec, fresh, ghost, fileVars>>
  /\ Counted

\* DerivedAssetRenderer::render() up to the file: a file of that name is taken
\* as it is, else one is written beside it and moved into place.
RenderFile(job) ==
  /\ job.kind = "derived" /\ job.wrote = "no"
  /\ IF job.asset \in rendered
     THEN jobs' = (jobs \ {job}) \cup {[job EXCEPT !.wrote = "reused"]} /\ UNCHANGED rendered
     ELSE /\ jobs' = (jobs \ {job}) \cup {[job EXCEPT !.wrote = "new"]}
          /\ rendered' = rendered \cup {job.asset}
  /\ UNCHANGED <<faults, desk, store, imports, completed, derivedJob, rec, fresh, ghost, fileVars>>

\* The render ends, or fails before it has written its file.
Rendered(job) ==
  /\ job.kind = "derived"
  /\ Finish(job, job.wrote # "no", 1)
  /\ UNCHANGED <<desk, store, imports, derivedJob, rendered, rec, fresh, ghost, fileVars>>
  /\ Counted

\* CaptureSession publishes the take's file, or gives it up.
TakeEnds ==
  /\ rec.stage = "armed"
  /\ rec' \in {[rec EXCEPT !.stage = "completed"], [NoTake EXCEPT !.auto = rec.auto]}
  /\ UNCHANGED <<faults, desk, store, imports, jobs, completed, derivedJob, rendered, fresh, ghost,
                 fileVars>>

(***************************************************************************)
(* The timer: results in the order they finished.                          *)
(***************************************************************************)

\* What becomes of a result in the three commit functions.  The project may
\* refuse a sample the registry has already taken (a layer that holds a slice).
Refused(result) ==
  /\ ~Stale(result)
  /\ UNCHANGED desk
  /\ store' = IF Fits(store, result.job.asset, result.bytes)
              THEN RolledBack(store, result.job.asset, result.bytes) ELSE store

Committed(result) ==
  /\ ~Stale(result)
  /\ Fits(store, result.job.asset, result.bytes)
  /\ Edit(WithAsset(project.state, result.job.pad, result.job.asset))
  /\ store' = Published(store, result.job.asset, result.bytes)

Rejected(result) ==
  \/ Refused(result)
  \/ Stale(result) /\ UNCHANGED <<desk, store>>

Timer(result) ==
  /\ saving = "idle"
  /\ completed # <<>>
  /\ result = Head(completed)
  /\ completed' = Tail(completed)
  /\ UNCHANGED fileVars

\* SampleImporter::commit(), then the next import.
HandleImport(result) ==
  /\ result.job.kind = "import"
  /\ Timer(result)
  /\ Committed(result) \/ Rejected(result)
  /\ LET queue == IF imports.queue = <<>> THEN <<>> ELSE Tail(imports.queue)
     IN \E next \in ImportsAfter(queue, jobs, project') :
          /\ imports' = next.imports
          /\ RecordingRefreshed(rec, next.jobs)
  /\ Drawn
  /\ UNCHANGED <<derivedJob, rendered, ghost>>
  /\ Counted

\* Mutant of Cleaned: the file goes although it was there before.
CleanedAnyway(result) == IF result.ok THEN rendered \ {result.job.asset} ELSE rendered

\* DerivedAssetRenderer::commit() removes the file a result alone has brought.
Cleaned(result) ==
  IF result.ok /\ result.job.wrote = "new" THEN rendered \ {result.job.asset} ELSE rendered

HandleDerived(result) ==
  /\ result.job.kind = "derived"
  /\ Timer(result)
  /\ derivedJob' = FALSE
  /\ \/ Committed(result) /\ UNCHANGED rendered
     \/ /\ Rejected(result)
        /\ rendered' = Cleaned(result)
  /\ RecordingRefreshed(rec, jobs)
  /\ Drawn
  /\ UNCHANGED <<imports, ghost>>
  /\ Counted

\* handleRecordedAssetResult(): assigned at once, kept until the user assigns it,
\* or left as a file.
HandleRecorded(result) ==
  /\ result.job.kind = "recorded"
  /\ Timer(result)
  /\ LET heard == [rec EXCEPT !.decoding = FALSE]
         kept == [heard EXCEPT !.pending = result]
     IN \/ /\ Stale(result)
           /\ UNCHANGED <<desk, store>>
           /\ RecordingRefreshed(heard, jobs)
        \/ /\ ~Stale(result) /\ ~rec.auto
           /\ UNCHANGED <<desk, store>>
           /\ RecordingRefreshed(kept, jobs)
        \/ /\ rec.auto
           /\ \/ Committed(result) /\ RecordingRefreshed(heard, jobs)
              \/ Refused(result) /\ RecordingRefreshed(kept, jobs)
  /\ Drawn
  /\ UNCHANGED <<imports, derivedJob, rendered, ghost>>
  /\ Counted

\* assignPendingRecording()
AssignPending ==
  /\ Gesture
  /\ rec.pending # None
  /\ \/ /\ Committed(rec.pending)
        /\ RecordingRefreshed([rec EXCEPT !.pending = None], jobs)
     \/ /\ Rejected(rec.pending)
        /\ UNCHANGED <<rec, jobs>>
  /\ Drawn
  /\ UNCHANGED <<imports, completed, derivedJob, rendered, fileVars>>
  /\ Counted

\* A sample decoded for an opened project is published without a look at which
\* project is open by now.
HandleResolved(result) ==
  /\ result.job.kind = "resolve"
  /\ Timer(result)
  /\ LET taken == result.ok /\ Fits(store, result.job.asset, result.bytes)
     IN /\ store' = IF taken THEN Published(store, result.job.asset, result.bytes) ELSE store
        /\ ghost' = IF ~taken /\ result.job.opening = ghost.opening
                    THEN [ghost EXCEPT !.unbacked = @ \cup {result.job.asset}] ELSE ghost
  /\ RecordingRefreshed(rec, jobs)
  /\ Drawn
  /\ UNCHANGED <<desk, imports, derivedJob, rendered>>
  /\ Counted

HandleCompletedJob ==
  \E result \in {completed[i] : i \in 1 .. Len(completed)} :
    \/ HandleImport(result) \/ HandleDerived(result)
    \/ HandleRecorded(result) \/ HandleResolved(result)

\* processPendingJobs() with no result: a finished take is noticed.
NoticeTake ==
  /\ saving = "idle" /\ completed = <<>>
  /\ RecordingRefreshed(rec, jobs) /\ rec' # rec
  /\ Drawn
  /\ UNCHANGED <<desk, store, imports, completed, derivedJob, rendered, ghost, fileVars>>
  /\ Counted

Init ==
  /\ project = NoProject(0) /\ undo = <<>> /\ redo = <<>>
  /\ store = EmptyStore
  /\ imports = NoImports
  /\ jobs = {} /\ completed = <<>> /\ derivedJob = FALSE /\ rendered = {}
  /\ rec = NoTake
  /\ fresh = 1
  /\ ghost = [opening |-> 0, unbacked |-> {}, gestures |-> 0, takes |-> 0]
  /\ faults = 0
  /\ FileInit

PadGesture(p) == DropFiles(p) \/ SubmitDerived(p) \/ ClearLayer(p) \/ ArmRecording(p)

User ==
  \/ UndoEdit \/ RedoEdit \/ CancelRecording \/ AssignPending
  \/ NewProject \/ Save \/ OpenProject \/ OpenRefused

Worker(job) == Decode(job) \/ RenderFile(job) \/ Rendered(job)

\* What runs beside the message thread; bound: not during save(), which shares
\* nothing with it but renders, of which workers only add.
Beside == TakeEnds \/ \E job \in jobs : Worker(job)

SaveProject ==
  /\ SaveStep
  /\ UNCHANGED <<desk, store, imports, jobs, completed, derivedJob, rendered, rec, fresh, ghost>>
  /\ Counted

Next ==
  \/ \E p \in EditedPads : PadGesture(p)
  \/ User \/ SaveProject \/ Restart
  \/ (saving = "idle" /\ Beside)
  \/ HandleCompletedJob \/ NoticeTake

Spec == Init /\ [][Next]_studioVars

(***************************************************************************)
(* Properties.                                                             *)
(***************************************************************************)

\* The running total is what the registry really holds, and within the budget,
\* however publications, replacements, roll-backs and results of closed projects
\* follow each other (SampleAsset.cpp:79).
BudgetKept ==
  /\ store.used = SumFunction(store.entries)
  /\ store.used <= Budget

\* The states the user can be in without loading anything.
Reachable == {project.state} \cup {undo[i].before : i \in DOMAIN undo}
                            \cup {redo[i].after : i \in DOMAIN redo}

Outstanding == jobs \cup {completed[i].job : i \in DOMAIN completed}

\* Whatever layer the project, undo or redo brings, its sample can be played: it
\* is in the registry, or on its way there, unless the user was told that it is
\* missing or could not be loaded (DerivedAsset.cpp:380, SamplerView.cpp:1347).
LayersAreBacked ==
  \A s \in Reachable, p \in Pads :
    LET a == s.layers[p]
    IN \/ a = None \/ a \in s.missing \/ Holds(store, a) \/ a \in ghost.unbacked
       \/ \E job \in Outstanding :
            job.kind = "resolve" /\ job.asset = a /\ job.opening = ghost.opening

\* A render's file is there for as long as the project, undo, redo or a saved file
\* names it, whoever else asked for the same render and had it refused
\* (DerivedAsset.cpp:366).
FilesBackProjects ==
  \A s \in Reachable \cup {f.state : f \in {dest, bak, tmp} \ {Absent, Torn}} :
    {a \in s.assets \ s.missing : a[2] = "render"} \subseteq rendered

\* Imports never wait for nothing: while any is queued, one is being decoded and
\* will submit the next, unless a full job system refused the last submission
\* (SamplerView.cpp:1343); that one aside, no queue is forgotten.
Importing == \E job \in Outstanding : job.kind = "import"

ImportsMove ==
  /\ imports.active => Importing
  /\ imports.queue # <<>> => imports.active \/ imports.refused
=============================================================================

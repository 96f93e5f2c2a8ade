---------------------------- MODULE ProjectEdits ----------------------------
(***************************************************************************)
(* ApplicationController and Project (src/Source/App/ApplicationController *)
(* .cpp, src/Source/Model/Project.cpp): the one project, its revision, the *)
(* pad clipboard, the undo and redo stacks, and the results of background  *)
(* jobs (imports, renders, takes) that are committed to it later.          *)
(*   Every operation runs on the message thread and is one step.  An       *)
(* operation the code refuses leaves everything as it was, so its guard is *)
(* the conjunction of the checks it passes.                                *)
(***************************************************************************)
EXTENDS SliceAssignment, Manifest

CONSTANTS Assets,        \* UUIDs imports and takes may bring
          SourceFrames,  \* SourceFrames[a]: the length of a source
          PadFields,     \* the pad fields whose change is followed
          LayerFlags,    \* the playback flags whose change is followed
          SettingsFields, \* the settings whose change is followed
          Opened,        \* the project file at hand: [state, revision]
          EditedPads,    \* bound: the pads the user edits, or assigns slices from on
          MaxRevision,   \* bound: how far the revision is followed
          MaxLives,      \* bound: projects created or opened
          MaxPending     \* bound: a copied pad, a plan on display and jobs, taken together

ASSUME EditsAssumption ==
  /\ SourceFrames \in [Assets -> Nat \ {0}]
  /\ PadFields \subseteq {"name", "colour", "parameters"}
  /\ LayerFlags \subseteq {"loop", "reverse", "snap"}
  /\ SettingsFields \subseteq {"audio", "midi", "recording"}
  /\ Opened = [state |-> Opened.state, revision |-> Opened.revision]
  /\ Opened.revision \in Nat
  /\ IsProjectState(Opened.state) /\ ProjectValid(Opened.state)
  /\ EditedPads \subseteq Pads
  /\ MaxRevision \in Nat /\ MaxLives \in Nat /\ MaxPending \in Nat

VARIABLES
  project,      \* project_: [state, revision]
  clipboard,    \* clipboard_: a pad or None
  undoHistory,  \* undoHistory_: [before, after], latest last
  redoHistory,  \* redoHistory_
  plan,         \* the assignment plan on display, or None
  jobs,         \* jobs submitted whose result was not yet handled
  fresh,        \* the next UUID juce::Uuid{} draws
  life          \* ghost: how many projects were created or opened so far

vars == <<project, clipboard, undoHistory, redoHistory, plan, jobs, fresh, life>>
history == <<undoHistory, redoHistory>>

state == project.state

\* What waits to be used later is bounded; nothing more is begun in the last two
\* revisions followed, where it could not be used and then edited.
Pending ==
  Cardinality(jobs) + (IF clipboard = None THEN 0 ELSE 1) + (IF plan = None THEN 0 ELSE 1)

MayBegin == Pending < MaxPending /\ project.revision + 1 < MaxRevision

(***************************************************************************)
(* Committing an edit.                                                     *)
(***************************************************************************)

\* Ghost: what happened to the project since a job was submitted.
Outdated(pending) ==
  {[job EXCEPT !.since = IF @ = "reopened" THEN @ ELSE "edited"] : job \in pending}

\* Mutant of RestoreHandling: the candidate is not validated.
RestoreUnchecked(s, handled) ==
  /\ project.revision < MaxRevision
  /\ project' = [state |-> s, revision |-> project.revision + 1]
  /\ jobs' = Outdated(jobs \ handled)

\* Project::restoreState() and replacePad(): a valid state, one revision on;
\* handled are the jobs the step is the end of.
RestoreHandling(s, handled) ==
  /\ project.revision < MaxRevision
  /\ ProjectValid(s)
  /\ project' = [state |-> s, revision |-> project.revision + 1]
  /\ jobs' = Outdated(jobs \ handled)

Restore(s) == RestoreHandling(s, {})

\* Mutant of PushHistory: what was undone can still be redone.
PushKeepsRedo(s) ==
  /\ undoHistory' = Append(undoHistory, [before |-> state, after |-> s])
  /\ UNCHANGED redoHistory

PushHistory(s) ==
  /\ undoHistory' = Append(undoHistory, [before |-> state, after |-> s])
  /\ redoHistory' = <<>>

\* commitProjectEdit(): an edit that changes nothing is no edit.
CommitProjectEdit(s) ==
  /\ s # state
  /\ Restore(s)
  /\ PushHistory(s)
  /\ UNCHANGED <<clipboard, plan, life>>

\* commitPadEdit()
CommitPadEdit(p, pad) ==
  CommitProjectEdit([state EXCEPT !.pads[p] = pad]) /\ UNCHANGED fresh

(***************************************************************************)
(* Pads.                                                                   *)
(***************************************************************************)

\* renamePad(), recolourPad(), setPadParameters()
EditPadField(p) ==
  \E field \in PadFields :
    CommitPadEdit(p, [state.pads[p] EXCEPT ![field] = "changed"])

\* setPadMappings()
SetPadMappings(p) == CommitPadEdit(p, [state.pads[p] EXCEPT !.mapping = "changed"])

\* clearPad()
ClearPad(p) == CommitPadEdit(p, ClearedPad(state, p))

\* copyPad()
CopyPad(p) ==
  /\ clipboard = None => MayBegin
  /\ clipboard' = state.pads[p]
  /\ UNCHANGED <<project, history, plan, jobs, fresh, life>>

\* pastePad(): the destination keeps its identity and its mappings.
PastePad(p) ==
  /\ clipboard # None
  /\ CommitPadEdit(p, [clipboard EXCEPT !.uuid = state.pads[p].uuid,
                                        !.mapping = state.pads[p].mapping])

\* duplicatePad() to the next pad: a new identity, the destination's mappings.
DuplicatePad(p) ==
  /\ p + 1 \in Pads
  /\ CommitProjectEdit([state EXCEPT !.pads[p + 1] =
       [state.pads[p] EXCEPT !.uuid = <<fresh, 0>>, !.name = "copy",
                             !.mapping = state.pads[p + 1].mapping]])
  /\ fresh' = fresh + 1

(***************************************************************************)
(* One layer of a pad.                                                     *)
(***************************************************************************)

\* setLayer(), which initializes the playback of a layer given an asset.
SetLayer(p, l, layer) ==
  LET resolved == IF ~layer.play.init /\ Known(state, layer.asset)
                  THEN [layer EXCEPT !.play =
                          ResolvePlayback(layer, FramesOf(state, layer.asset))]
                  ELSE layer
  IN CommitPadEdit(p, [state.pads[p] EXCEPT !.layers[l] = resolved])

\* SamplerView::clearSelectedLayer(): the slice reference is left in place.
ClearLayer(p, l) ==
  SetLayer(p, l, [state.pads[p].layers[l] EXCEPT !.asset = None, !.enabled = FALSE,
                                                 !.play = NoPlayback])

LayerAsset(p, l) == state.pads[p].layers[l].asset
LayerFrames(p, l) == FramesOf(state, LayerAsset(p, l))
LayerPlay(p, l) == ResolvePlayback(state.pads[p].layers[l], LayerFrames(p, l))

\* commitLayerPlayback()
CommitPlayback(p, l, play) ==
  /\ PlaybackValid(play, LayerFrames(p, l))
  /\ CommitPadEdit(p, [state.pads[p] EXCEPT !.layers[l].play = play])

Later(a, b) == IF a < b THEN b ELSE a
Earlier(a, b) == IF a < b THEN a ELSE b

\* setLayerTrim(): the loop is clamped to the trim, or reset to it when nothing is left.
Trimmed(play, start, end) ==
  LET loopStart == Later(play.loopStart, start)
      loopEnd == Earlier(play.loopEnd, end)
      trim == [play EXCEPT !.start = start, !.end = end]
  IN IF loopStart < loopEnd
     THEN [trim EXCEPT !.loopStart = loopStart, !.loopEnd = loopEnd]
     ELSE [trim EXCEPT !.loopStart = start, !.loopEnd = end, !.loop = FALSE]

SetLayerTrim(p, l) ==
  \E start, end \in 0 .. LayerFrames(p, l) :
    /\ start < end
    /\ CommitPlayback(p, l, Trimmed(LayerPlay(p, l), start, end))

\* setLayerLoop()
SetLayerLoop(p, l) ==
  \E start, end \in 0 .. LayerFrames(p, l) :
    /\ LayerPlay(p, l).start <= start
    /\ start < end
    /\ end <= LayerPlay(p, l).end
    /\ CommitPlayback(p, l, [LayerPlay(p, l) EXCEPT !.loopStart = start, !.loopEnd = end])

\* setLayerLoopEnabled(), setLayerReverseEnabled(), setLayerZeroCrossingSnap()
SetLayerFlag(p, l) ==
  \E flag \in LayerFlags, on \in BOOLEAN :
    CommitPlayback(p, l, [LayerPlay(p, l) EXCEPT ![flag] = on])

\* resetLayerTrim(): the loop stays.
ResetLayerTrim(p, l) ==
  CommitPlayback(p, l, [LayerPlay(p, l) EXCEPT !.start = 0, !.end = LayerFrames(p, l)])

\* resetLayerLoop()
ResetLayerLoop(p, l) ==
  CommitPlayback(p, l, [LayerPlay(p, l) EXCEPT !.loopStart = LayerPlay(p, l).start,
                                               !.loopEnd = LayerPlay(p, l).end,
                                               !.loop = FALSE])

\* assetForLayer(): every edit of a layer's playback needs a source.
LayerEdit(p, l) ==
  /\ Known(state, LayerAsset(p, l))
  /\ \/ SetLayerTrim(p, l) \/ SetLayerLoop(p, l) \/ SetLayerFlag(p, l)
     \/ ResetLayerTrim(p, l) \/ ResetLayerLoop(p, l)

(***************************************************************************)
(* Settings and view state.                                                *)
(***************************************************************************)

\* setAudioSettings(), setMidiSettings(), setRecordingPreferences()
SetSettings ==
  \E f \in SettingsFields :
    CommitProjectEdit([state EXCEPT !.settings[f] = "changed"]) /\ UNCHANGED fresh

\* setUiState(): a selection is no edit, but takes a revision.
SetUiState ==
  \E pad \in {0, 1} :   \* two selections tell a change from none
    /\ Restore([state EXCEPT !.ui = pad])
    /\ UNCHANGED <<clipboard, history, plan, fresh, life>>

(***************************************************************************)
(* Results of background jobs.                                             *)
(***************************************************************************)

\* What a reader of the project calls its content: neither the view nor the
\* presence of files on disk.
Content(s) ==
  [s EXCEPT !.ui = 0, !.assets = {[a EXCEPT !.missing = FALSE] : a \in s.assets}]

Asset(uuid, frames) == [uuid |-> uuid, frames |-> frames, missing |-> FALSE]

\* JobSpec and what the result will carry.
Job(kind, p, l, asset, play) ==
  [kind |-> kind, owner |-> state.uuid, pad |-> state.pads[p].uuid,
   revision |-> project.revision, index |-> p, layer |-> l, asset |-> asset,
   parent |-> state.pads[p].layers[l].asset, play |-> play,
   since |-> "same"]

Submit(job) ==
  /\ MayBegin
  /\ jobs' = jobs \cup {job}
  /\ UNCHANGED <<project, clipboard, history, plan, fresh, life>>

Unseen(a) == ~Known(state, a) /\ \A j \in jobs : j.asset.uuid # a

\* SamplerView::submitNextImport() and the decoding of a completed take.
SubmitDecode(p, l) ==
  \E a \in Assets, kind \in {"import", "recorded"} :
    /\ Unseen(a)
    /\ Submit(Job(kind, p, l, Asset(a, SourceFrames[a]), NoPlayback))

\* SamplerView::submitDerivedOperation(): the output's UUID is the recipe's digest.
SubmitDerived(p, l) ==
  LET play == LayerPlay(p, l)
      length == play.end - play.start
  IN /\ Known(state, LayerAsset(p, l))
     /\ ~\E a \in AssetNamed(state, LayerAsset(p, l)) : a.missing
     /\ \/ Submit(Job("derived", p, l,
                     Asset(<<"normalize", LayerAsset(p, l)>>, LayerFrames(p, l)), play))
        \/ Submit(Job("derived", p, l,
                     Asset(<<"crop", LayerAsset(p, l), play.start, play.end>>, length),
                     [play EXCEPT !.start = 0, !.end = length,
                                  !.loopStart = @ - play.start,
                                  !.loopEnd = @ - play.start]))

\* isCurrentJobTarget()
IsCurrentJobTarget(job) ==
  /\ job.owner = state.uuid
  /\ \E p \in Pads : state.pads[p].uuid = job.pad
  /\ job.revision = project.revision

\* The layer after the result: its slice reference is left in place.
ResultLayer(job) ==
  LET layer == state.pads[job.index].layers[job.layer]
  IN [layer EXCEPT !.asset = job.asset.uuid, !.enabled = TRUE,
        !.play = IF job.kind = "derived" THEN job.play
                 ELSE ResolvePlayback(layer, job.asset.frames)]

\* commitImportedLayer(), commitDerivedLayer(), commitRecordedLayer(): the asset
\* and its provenance enter the project with the layer, or replace their record.
ResultState(job) ==
  [state EXCEPT
     !.pads[job.index].layers[job.layer] = ResultLayer(job),
     !.assets = {a \in @ : a.uuid # job.asset.uuid} \cup {job.asset},
     !.derived = IF job.kind = "derived"
                 THEN @ \cup {[asset |-> job.asset.uuid, parent |-> job.parent]} ELSE @,
     !.recorded = IF job.kind = "recorded"
                  THEN @ \cup {[asset |-> job.asset.uuid, frames |-> job.asset.frames,
                                project |-> job.owner, layer |-> <<job.pad, job.layer>>]}
                  ELSE @]

\* The checks of the three commit functions before validation.
Accepts(job) ==
  /\ IsCurrentJobTarget(job)
  /\ state.pads[job.index].uuid = job.pad
  /\ job.kind = "derived" =>
       /\ state.pads[job.index].layers[job.layer].asset = job.parent
       /\ PlaybackValid(job.play, job.asset.frames)

CommitResult(job) ==
  /\ Accepts(job)
  /\ RestoreHandling(ResultState(job), {job})
  /\ PushHistory(ResultState(job))
  /\ UNCHANGED <<clipboard, plan, fresh, life>>

\* A refused or failed result is dropped and changes nothing.
DropResult(job) ==
  /\ jobs' = jobs \ {job}
  /\ UNCHANGED <<project, clipboard, history, plan, fresh, life>>

(***************************************************************************)
(* Assigning slices.                                                       *)
(***************************************************************************)

\* A set cut in two (or left whole) from the trim of an enabled layer.
CutSets(p, l) ==
  LET play == LayerPlay(p, l)
      source == [asset |-> LayerAsset(p, l), layer |-> <<state.pads[p].uuid, l>>,
                 trimStart |-> play.start, trimEnd |-> play.end]
  IN {SetFromBoundaries("set", source, "equal", EqualBoundaries(source, n)) :
        n \in {k \in 1 .. 2 : EqualAccepts(source, k)}}

\* ChoppingWorkspace::previewAssignment(), then resolveAllConflicts() under the
\* policy chosen beside the button.
PreviewAssignment(p, l) ==
  /\ plan = None /\ MayBegin
  /\ Known(state, LayerAsset(p, l))
  /\ \E set \in CutSets(p, l), q \in EditedPads, byPads, continue \in BOOLEAN,
        policy \in {"replace", "skip"} :
       LET request == [project |-> state.uuid, revision |-> project.revision,
                       pad |-> state.pads[p].uuid, set |-> set, byPads |-> byPads,
                       startPad |-> q, startLayer |-> 0, continue |-> continue]
       IN /\ byPads => ~continue
          /\ Plannable(state, request)
          /\ plan' = AllResolved(Plan(state, request), policy)
  /\ UNCHANGED <<project, clipboard, history, jobs, fresh, life>>

\* ChoppingWorkspace::resolveConflict()
ResolveConflict ==
  /\ plan # None
  /\ project.revision < MaxRevision
  /\ \E i \in DOMAIN plan.destinations, decision \in {"replace", "skip"} :
       /\ plan.destinations[i].decision # decision
       /\ Decidable(plan, i, decision)
       /\ plan' = Decided(plan, i, decision)
  /\ UNCHANGED <<project, clipboard, history, jobs, fresh, life>>

\* The workspace forgets the plan when the slices change or it is cancelled.
DropPlan ==
  /\ plan # None
  /\ plan' = None
  /\ UNCHANGED <<project, clipboard, history, jobs, fresh, life>>

\* commitSliceAssignment(); the workspace then drops the plan.
CommitSliceAssignment ==
  /\ plan # None
  /\ AssignmentCommits(state, project.revision, plan)
  /\ IF AssignedState(state, plan) = state
     THEN UNCHANGED <<project, history, jobs>>
     ELSE Restore(AssignedState(state, plan)) /\ PushHistory(AssignedState(state, plan))
  /\ plan' = None
  /\ UNCHANGED <<clipboard, fresh, life>>

(***************************************************************************)
(* Undo, redo, another project.                                            *)
(***************************************************************************)

\* Mutant of Undo: the edit is not kept for redo.
UndoForgets ==
  /\ undoHistory # <<>>
  /\ Restore(undoHistory[Len(undoHistory)].before)
  /\ undoHistory' = SubSeq(undoHistory, 1, Len(undoHistory) - 1)
  /\ UNCHANGED <<redoHistory, clipboard, plan, fresh, life>>

\* Mutant of Undo: the revision before the edit comes back with its state.
UndoRestoresRevision ==
  /\ undoHistory # <<>>
  /\ LET edit == undoHistory[Len(undoHistory)]
     IN /\ project' = [state |-> edit.before, revision |-> project.revision - 1]
        /\ jobs' = Outdated(jobs)
        /\ undoHistory' = SubSeq(undoHistory, 1, Len(undoHistory) - 1)
        /\ redoHistory' = Append(redoHistory, edit)
  /\ UNCHANGED <<clipboard, plan, fresh, life>>

\* undo() and redo(): a whole state comes back under a new revision.
Undo ==
  /\ undoHistory # <<>>
  /\ LET edit == undoHistory[Len(undoHistory)]
     IN /\ Restore(edit.before)
        /\ undoHistory' = SubSeq(undoHistory, 1, Len(undoHistory) - 1)
        /\ redoHistory' = Append(redoHistory, edit)
  /\ UNCHANGED <<clipboard, plan, fresh, life>>

Redo ==
  /\ redoHistory # <<>>
  /\ LET edit == redoHistory[Len(redoHistory)]
     IN /\ Restore(edit.after)
        /\ redoHistory' = SubSeq(redoHistory, 1, Len(redoHistory) - 1)
        /\ undoHistory' = Append(undoHistory, edit)
  /\ UNCHANGED <<clipboard, plan, fresh, life>>

StartOn(p) ==
  /\ life < MaxLives
  /\ project' = p
  /\ clipboard' = None
  /\ undoHistory' = <<>>
  /\ redoHistory' = <<>>
  /\ life' = life + 1
  /\ jobs' = {[job EXCEPT !.since = "reopened"] : job \in jobs}
  /\ plan' = None

\* createEmptyProject()
CreateEmptyProject ==
  /\ StartOn([state |-> DefaultProjectState(fresh), revision |-> 0])
  /\ fresh' = fresh + 1

\* refreshExternalAssetAvailability(): which files are gone from the disk.
Available(p, lost) ==
  LET assets == {[a EXCEPT !.missing = (a.uuid \in lost)] : a \in p.state.assets}
  IN IF assets = p.state.assets THEN p
     ELSE [state |-> [p.state EXCEPT !.assets = assets], revision |-> p.revision + 1]

\* restoreProject(): the file's state and the file's revision; opening a file
\* then looks for the samples it names.
RestoreProject ==
  \E lost \in SUBSET {a.uuid : a \in Opened.state.assets} :
    /\ ProjectValid(Opened.state)
    /\ StartOn(Available(Opened, lost))
    /\ UNCHANGED fresh

Init ==
  /\ project = [state |-> DefaultProjectState(0), revision |-> 0]
  /\ clipboard = None
  /\ undoHistory = <<>> /\ redoHistory = <<>>
  /\ plan = None
  /\ jobs = {}
  /\ fresh = 1
  /\ life = 0

PadStep(p) ==
  \/ EditPadField(p) \/ SetPadMappings(p) \/ ClearPad(p)
  \/ CopyPad(p) \/ PastePad(p) \/ DuplicatePad(p)

LayerStep(p, l) ==
  \/ ClearLayer(p, l) \/ LayerEdit(p, l)
  \/ SubmitDecode(p, l) \/ SubmitDerived(p, l)

JobStep(job) == CommitResult(job) \/ DropResult(job)

Next ==
  \/ \E p \in EditedPads : PadStep(p)
  \/ \E p \in EditedPads, l \in Layers : LayerStep(p, l)
  \/ \E p \in Pads, l \in Layers : PreviewAssignment(p, l)
  \/ \E job \in jobs : JobStep(job)
  \/ SetSettings \/ SetUiState
  \/ ResolveConflict \/ DropPlan \/ CommitSliceAssignment
  \/ Undo \/ Redo
  \/ CreateEmptyProject \/ RestoreProject

Spec == Init /\ [][Next]_vars

(***************************************************************************)
(* Properties.                                                             *)
(***************************************************************************)

\* The shape of the controller's state; its project passes validation.
TypeOK ==
  /\ project = [state |-> state, revision |-> project.revision]
  /\ project.revision \in 0 .. MaxRevision + Opened.revision + 1
  /\ IsProjectState(state) /\ ProjectValid(state)
  /\ clipboard = None \/ IsPad(clipboard)
  /\ Pending <= MaxPending
  /\ fresh \in Nat /\ life \in 0 .. MaxLives

\* Undo and redo never fail and never skip: every state they go back to still
\* validates, and the two stacks meet at the project's content, each edit
\* starting from what the one below it left (ApplicationController.cpp:521, :535).
Contents(edits, side) == [i \in 1 .. Len(edits) |-> Content(edits[i][side])]

HistoryRestorable ==
  /\ \A i \in 1 .. Len(undoHistory) : ProjectValid(undoHistory[i].before)
  /\ \A i \in 1 .. Len(redoHistory) : ProjectValid(redoHistory[i].after)
  /\ \A i \in 1 .. Len(undoHistory) :
       Content(undoHistory[i].after) =
         IF i = Len(undoHistory) THEN Content(state) ELSE Content(undoHistory[i + 1].before)
  /\ \A i \in 1 .. Len(redoHistory) :
       Content(redoHistory[i].before) =
         IF i = Len(redoHistory) THEN Content(state) ELSE Content(redoHistory[i + 1].after)

\* Undo and redo walk the line of the contents the project has had, whatever
\* selections and file checks, which are no edits, come between the edits.
Line == INSTANCE LinearHistory
          WITH past <- Contents(undoHistory, "before"),
               present <- Content(state),
               future <- Contents(redoHistory, "after")

LineOfContents == Line!Spec

\* A result is committed only to the very state it was asked for: while a
\* project stays open no revision ever names two states, so the comparison of
\* revisions in isCurrentJobTarget() tells every stale result.  (Opening a file
\* again brings its revisions back; see the README.)
ResultsMeetTheirState == \A job \in jobs : Accepts(job) => job.since # "edited"

\* Every project the user can reach can be saved and comes back as it was; a
\* manifest that lost a section is refused or loses that section alone, and one
\* that lost them all is an empty project (ProjectSerializer.cpp:1110, :978).  A
\* plan on display changes nothing of the project, which is looked at without one.
ManifestRoundTrips == plan = None =>
  LET manifest == WrittenManifest(project)
  IN /\ ParseManifest(manifest) = {project}
     /\ \A section \in Sections :
          ParseManifest(Without(manifest, {section})) \subseteq
            {[project EXCEPT !.state = Emptied(state, section)]}
     /\ ParseManifest(Without(manifest, Sections)) =
          {[project EXCEPT !.state = DefaultProjectState(state.uuid)]}

\* For as long as a layer holds a slice it plays that slice's bounds: a trim,
\* an import, a render or a paste never moves it inside a step.
SlicesKeepTheirBounds ==
  [][\A p \in Pads, l \in Layers :
       LET now == state.pads[p].layers[l]
           next == state'.pads[p].layers[l]
       IN now.slice # None /\ next.slice = now.slice /\ life' = life =>
            next.play.start = now.play.start /\ next.play.end = now.play.end]_vars

\* An assignment is all or nothing and slice i goes where the plan shows it:
\* skipping one slice does not shift the others, and no pad the plan does not
\* replace loses anything.
AssignmentAsPlanned ==
  [][plan # None /\ plan' = None /\ life' = life /\ project' # project =>
       /\ \A i \in DOMAIN plan.destinations :
            LET d == plan.destinations[i]
                layer == state'.pads[d.pad].layers[d.layer]
            IN IF d.decision = "skip"
               THEN layer = state.pads[d.pad].layers[d.layer]
               ELSE layer.slice = [set |-> plan.request.set.uuid, region |-> i]
       /\ \A p \in Pads :
            (\A i \in DOMAIN plan.destinations : plan.destinations[i].pad # p)
              => state'.pads[p] = state.pads[p]]_vars

=============================================================================

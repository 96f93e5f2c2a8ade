------------------------- MODULE ProjectEditsProofs -------------------------
(***************************************************************************)
(* TLAPS proofs about ProjectEdits, for every number of pads and layers,   *)
(* every source, project file, field and bound: that undo and redo always  *)
(* succeed, that they walk one line of contents, that a job's result is    *)
(* committed only to the state the job was submitted for, that every       *)
(* project reached is one the serializer can write and validateProject()   *)
(* accepts, that the bounds of a slice set never move, that a plan's       *)
(* commit gives every slice the layer it was planned for and leaves the    *)
(* others alone, and that a saved project reads back as it was.            *)
(***************************************************************************)
EXTENDS ProjectEdits, SequenceFacts, TLAPS

-----------------------------------------------------------------------------
(* What a step is, as far as the history and the jobs are concerned.       *)

EditStep ==
  \E s, handled : RestoreHandling(s, handled) /\ PushHistory(s) /\ UNCHANGED life

ViewStep ==
  /\ \E pad \in {0, 1} : Restore([state EXCEPT !.ui = pad])
  /\ UNCHANGED <<undoHistory, redoHistory>>

StartStep ==
  \E p : StartOn(p) /\ ProjectValid(p.state) /\ p.revision \in Nat

NewJob(job) ==
  /\ {"since", "revision"} \subseteq DOMAIN job
  /\ job.since = "same" /\ job.revision = project.revision

IdleStep ==
  /\ UNCHANGED <<project, undoHistory, redoHistory>>
  /\ \A job \in jobs' : job \in jobs \/ NewJob(job)

\* commitProjectEdit() restores a state and pushes an edit.
LEMMA ProjectEditIsEdit ==
  ASSUME NEW s, CommitProjectEdit(s)
  PROVE  EditStep
  BY DEF CommitProjectEdit, EditStep, Restore

\* So does commitPadEdit(), which is built on it.
LEMMA PadEditIsEdit ==
  ASSUME NEW p, NEW pad, CommitPadEdit(p, pad)
  PROVE  EditStep
  BY ProjectEditIsEdit DEF CommitPadEdit

\* Every edit of a pad is an edit, or only submits a job.
LEMMA PadStepIsStep ==
  ASSUME NEW p \in EditedPads, PadStep(p)
  PROVE  EditStep \/ IdleStep
<1>1. CASE EditPadField(p)
  BY <1>1, PadEditIsEdit DEF EditPadField
<1>2. CASE SetPadMappings(p)
  BY <1>2, PadEditIsEdit DEF SetPadMappings
<1>3. CASE ClearPad(p)
  BY <1>3, PadEditIsEdit DEF ClearPad
<1>4. CASE CopyPad(p)
  BY <1>4 DEF CopyPad, IdleStep, history
<1>5. CASE PastePad(p)
  BY <1>5, PadEditIsEdit DEF PastePad
<1>6. CASE DuplicatePad(p)
  BY <1>6, ProjectEditIsEdit DEF DuplicatePad
<1> QED BY <1>1, <1>2, <1>3, <1>4, <1>5, <1>6 DEF PadStep

\* A submission leaves project and history alone.
LEMMA SubmitIsIdle ==
  ASSUME NEW kind, NEW p, NEW l, NEW asset, NEW play, Submit(Job(kind, p, l, asset, play))
  PROVE  IdleStep
<1> DEFINE job == Job(kind, p, l, asset, play)
<1>1. NewJob(job)
  BY DEF NewJob, Job
<1> QED
  <2> HIDE DEF job
  <2> QED BY <1>1 DEF job, Submit, IdleStep, history

\* Every edit of a layer is an edit, or only submits a job.
LEMMA LayerStepIsStep ==
  ASSUME NEW p \in EditedPads, NEW l \in Layers, LayerStep(p, l)
  PROVE  EditStep \/ IdleStep
<1>1. CASE ClearLayer(p, l)
  BY <1>1, PadEditIsEdit DEF ClearLayer, SetLayer
<1>2. CASE LayerEdit(p, l)
  <2>1. ASSUME NEW play, CommitPlayback(p, l, play) PROVE EditStep
    BY <2>1, PadEditIsEdit DEF CommitPlayback
  <2> QED
    BY <1>2, <2>1 DEF LayerEdit, SetLayerTrim, SetLayerLoop, SetLayerFlag, ResetLayerTrim,
                      ResetLayerLoop
<1>3. CASE SubmitDecode(p, l)
  BY <1>3, SubmitIsIdle DEF SubmitDecode
<1>4. CASE SubmitDerived(p, l)
  BY <1>4, SubmitIsIdle DEF SubmitDerived
<1> QED BY <1>1, <1>2, <1>3, <1>4 DEF LayerStep

\* A result is committed as an edit, or is dropped.
LEMMA JobStepIsStep ==
  ASSUME NEW job \in jobs, JobStep(job)
  PROVE  EditStep \/ IdleStep
<1>1. CASE CommitResult(job)
  BY <1>1 DEF CommitResult, EditStep
<1>2. CASE DropResult(job)
  BY <1>2 DEF DropResult, IdleStep, history
<1> QED BY <1>1, <1>2 DEF JobStep

\* Planning changes no state; the commit of a plan is one edit, or none.
LEMMA PlanStepIsStep ==
  ASSUME \/ \E p \in Pads, l \in Layers : PreviewAssignment(p, l)
         \/ ResolveConflict \/ DropPlan \/ CommitSliceAssignment
  PROVE  EditStep \/ IdleStep
<1>1. CASE CommitSliceAssignment
  <2>1. CASE AssignedState(state, plan) = state
    BY <1>1, <2>1 DEF CommitSliceAssignment, IdleStep, history
  <2>2. CASE AssignedState(state, plan) # state
    BY <1>1, <2>2 DEF CommitSliceAssignment, EditStep, Restore
  <2> QED BY <2>1, <2>2
<1>2. CASE ~CommitSliceAssignment
  BY <1>2 DEF PreviewAssignment, ResolveConflict, DropPlan, IdleStep, history
<1> QED BY <1>1, <1>2

-----------------------------------------------------------------------------
(* The projects one can start on validate.                                 *)

\* An empty project is valid.
LEMMA DefaultValid ==
  ASSUME NEW u
  PROVE  ProjectValid(DefaultProjectState(u))
<1> DEFINE s == DefaultProjectState(u)
<1>1. /\ s.assets = {} /\ s.derived = {} /\ s.recorded = {} /\ s.sliceSets = {}
      /\ \A p \in Pads : s.pads[p].uuid = <<u, p>>
      /\ \A p \in Pads, l \in Layers : s.pads[p].layers[l] = EmptyLayer
  BY DEF DefaultProjectState, DefaultPad
<1>2. LayerValid(EmptyLayer) /\ ~EmptyLayer.play.init
  BY DEF LayerValid, EmptyLayer, NoPlayback
<1> QED
  <2> HIDE DEF s
  <2>1. IdentitiesDistinct(s)
    BY <1>1 DEF IdentitiesDistinct
  <2>2. \A p \in Pads, l \in Layers :
          LayerValid(s.pads[p].layers[l]) /\ LayerPlaybackResolves(s, s.pads[p].layers[l])
    BY <1>1, <1>2 DEF LayerPlaybackResolves
  <2>3. DerivedResolve(s) /\ RecordedResolve(s) /\ SliceSetsResolve(s)
    BY <1>1 DEF DerivedResolve, RecordedResolve, SliceSetsResolve
  <2> QED BY <2>1, <2>2, <2>3 DEF ProjectValid, s

\* Of an asset validation sees its UUID and its length, which UUIDs determine.
LEMMA SameFrames ==
  ASSUME NEW s, NEW t, IdentitiesDistinct(s), IdentitiesDistinct(t),
         \A a \in s.assets : \E b \in t.assets : b.uuid = a.uuid /\ b.frames = a.frames,
         \A b \in t.assets : \E a \in s.assets : b.uuid = a.uuid /\ b.frames = a.frames,
         NEW uuid
  PROVE  /\ Known(t, uuid) <=> Known(s, uuid)
         /\ Known(s, uuid) => FramesOf(t, uuid) = FramesOf(s, uuid)
<1>1. Known(t, uuid) <=> Known(s, uuid)
  BY DEF Known, AssetNamed
<1>2. ASSUME Known(s, uuid) PROVE FramesOf(t, uuid) = FramesOf(s, uuid)
  <2>1. PICK a \in s.assets : a.uuid = uuid
    BY <1>2 DEF Known, AssetNamed
  <2>2. PICK b \in t.assets : b.uuid = uuid /\ b.frames = a.frames
    BY <2>1
  <2>3. (CHOOSE x \in s.assets : x.uuid = uuid) = a
    BY <2>1 DEF IdentitiesDistinct
  <2>4. (CHOOSE x \in t.assets : x.uuid = uuid) = b
    BY <2>2 DEF IdentitiesDistinct
  <2> QED BY <2>2, <2>3, <2>4 DEF FramesOf
<1> QED BY <1>1, <1>2

\* Whether files are missing is nothing validation looks at.
LEMMA ValidWhateverIsMissing ==
  ASSUME NEW s, NEW t, ProjectValid(s), IdentitiesDistinct(t),
         \A a \in s.assets : \E b \in t.assets : b.uuid = a.uuid /\ b.frames = a.frames,
         \A b \in t.assets : \E a \in s.assets : b.uuid = a.uuid /\ b.frames = a.frames,
         t.uuid = s.uuid, t.pads = s.pads, t.derived = s.derived,
         t.recorded = s.recorded, t.sliceSets = s.sliceSets
  PROVE  ProjectValid(t)
<1>1. IdentitiesDistinct(s)
  BY DEF ProjectValid
<1>2. \A u : /\ Known(t, u) <=> Known(s, u)
             /\ Known(s, u) => FramesOf(t, u) = FramesOf(s, u)
  BY <1>1, SameFrames
<1>3. \A p \in Pads, l \in Layers :
        LayerValid(t.pads[p].layers[l]) /\ LayerPlaybackResolves(t, t.pads[p].layers[l])
  <2>1. ASSUME NEW layer, LayerPlaybackResolves(s, layer)
        PROVE  LayerPlaybackResolves(t, layer)
    BY <1>2, <2>1 DEF LayerPlaybackResolves
  <2> QED BY <2>1 DEF ProjectValid
<1>4. DerivedResolve(t)
  BY <1>2 DEF ProjectValid, DerivedResolve
<1>5. RecordedResolve(t)
  <2>1. LayerUuids(t) = LayerUuids(s)
    BY DEF LayerUuids
  <2>2. ASSUME NEW r \in t.recorded PROVE \E b \in AssetNamed(t, r.asset) : b.frames = r.frames
    <3>1. PICK a \in AssetNamed(s, r.asset) : a.frames = r.frames
      BY <2>2 DEF ProjectValid, RecordedResolve
    <3> QED BY <3>1 DEF AssetNamed
  <2> QED BY <2>1, <2>2 DEF ProjectValid, RecordedResolve
<1>6. SliceSetsResolve(t)
  BY <1>2 DEF ProjectValid, SliceSetsResolve, LayerUuids
<1> QED BY <1>3, <1>4, <1>5, <1>6 DEF ProjectValid

\* So a project that was opened is valid after its files have been looked for.
LEMMA AvailableValid ==
  ASSUME NEW lost
  PROVE  /\ ProjectValid(Available(Opened, lost).state)
         /\ Available(Opened, lost).revision \in Nat
<1> DEFINE s == Opened.state
           after(a) == [a EXCEPT !.missing = (a.uuid \in lost)]
           assets == {after(a) : a \in s.assets}
           t == [s EXCEPT !.assets = assets]
<1>1. CASE assets = s.assets
  BY <1>1, EditsAssumption DEF Available
<1>2. CASE assets # s.assets
  <2>1. \A a \in s.assets : after(a).uuid = a.uuid /\ after(a).frames = a.frames
    BY EditsAssumption DEF IsProjectState
  <2>2. /\ t.assets = assets /\ t.uuid = s.uuid /\ t.pads = s.pads
        /\ t.derived = s.derived /\ t.recorded = s.recorded /\ t.sliceSets = s.sliceSets
    BY EditsAssumption DEF IsProjectState, DefaultProjectState
  <2>3. IdentitiesDistinct(t)
    <3>1. \A p, q \in Pads : t.pads[p].uuid = t.pads[q].uuid => p = q
      BY <2>2, EditsAssumption DEF ProjectValid, IdentitiesDistinct
    <3>2. ASSUME NEW a \in assets, NEW b \in assets, a.uuid = b.uuid PROVE a = b
      <4>1. PICK x \in s.assets, y \in s.assets : a = after(x) /\ b = after(y)
        OBVIOUS
      <4>2. x.uuid = y.uuid
        <5> HIDE DEF after
        <5> QED BY <2>1, <3>2, <4>1
      <4>3. x = y
        BY <4>2, EditsAssumption DEF ProjectValid, IdentitiesDistinct
      <4> QED BY <4>1, <4>3
    <3> QED BY <2>2, <3>1, <3>2 DEF IdentitiesDistinct
  <2>4. ProjectValid(t)
    <3>1. \A a \in s.assets : \E b \in t.assets : b.uuid = a.uuid /\ b.frames = a.frames
      BY <2>1, <2>2
    <3>2. \A b \in t.assets : \E a \in s.assets : b.uuid = a.uuid /\ b.frames = a.frames
      BY <2>1, <2>2
    <3>3. ProjectValid(s)
      BY EditsAssumption
    <3> HIDE DEF s, t
    <3> QED BY <2>2, <2>3, <3>1, <3>2, <3>3, ValidWhateverIsMissing
  <2> QED BY <1>2, <2>4, EditsAssumption DEF Available
<1> QED BY <1>1, <1>2

\* A new and an opened project start with an empty history.
LEMMA StartStepsStart ==
  ASSUME CreateEmptyProject \/ RestoreProject
  PROVE  StartStep
<1>1. CASE CreateEmptyProject
  <2> DEFINE p == [state |-> DefaultProjectState(fresh), revision |-> 0]
  <2>1. StartOn(p) /\ ProjectValid(p.state) /\ p.revision \in Nat
    BY <1>1, DefaultValid DEF CreateEmptyProject
  <2> QED BY <2>1 DEF StartStep
<1>2. CASE RestoreProject
  BY <1>2, AvailableValid DEF RestoreProject, StartStep
<1> QED BY <1>1, <1>2

\* Every step is one of the six forms the proofs go through.
LEMMA StepForms ==
  ASSUME [Next]_vars
  PROVE  EditStep \/ ViewStep \/ Undo \/ Redo \/ StartStep \/ IdleStep
<1>1. CASE UNCHANGED vars
  BY <1>1 DEF vars, IdleStep
<1>2. CASE SetSettings
  BY <1>2, ProjectEditIsEdit DEF SetSettings
<1>3. CASE SetUiState
  BY <1>3 DEF SetUiState, ViewStep, history
<1>4. CASE \E p \in EditedPads, l \in Layers : LayerStep(p, l)
  BY <1>4, LayerStepIsStep
<1>5. CASE \E job \in jobs : JobStep(job)
  BY <1>5, JobStepIsStep
<1>6. CASE \E p \in EditedPads : PadStep(p)
  BY <1>6, PadStepIsStep
<1> QED
  BY <1>1, <1>2, <1>3, <1>4, <1>5, <1>6, PlanStepIsStep, StartStepsStart DEF Next

-----------------------------------------------------------------------------
(* The inductive invariant.                                                *)

\* Both states of every edit on a stack validate, so whichever stack it moves to.
EditsValid ==
  /\ IsSequence(undoHistory) /\ IsSequence(redoHistory)
  /\ \A i \in 1 .. Len(undoHistory) :
       ProjectValid(undoHistory[i].before) /\ ProjectValid(undoHistory[i].after)
  /\ \A i \in 1 .. Len(redoHistory) :
       ProjectValid(redoHistory[i].before) /\ ProjectValid(redoHistory[i].after)

\* Each edit starts from what the one below it on its stack left.
Chained ==
  /\ \A i \in 1 .. Len(undoHistory) :
       Content(undoHistory[i].after) =
         IF i = Len(undoHistory) THEN Content(state) ELSE Content(undoHistory[i + 1].before)
  /\ \A i \in 1 .. Len(redoHistory) :
       Content(redoHistory[i].before) =
         IF i = Len(redoHistory) THEN Content(state) ELSE Content(redoHistory[i + 1].after)

HistoryInv == ProjectValid(state) /\ EditsValid /\ Chained

\* A job that outlived an edit is behind the project's revision, unless another
\* project was started on in between.
JobsInv ==
  /\ project.revision \in Nat
  /\ \A job \in jobs :
       /\ {"since", "revision"} \subseteq DOMAIN job
       /\ job.revision \in Nat
       /\ job.since \in {"same", "edited", "reopened"}
       /\ job.since = "same" => job.revision <= project.revision
       /\ job.since = "edited" => job.revision < project.revision

-----------------------------------------------------------------------------
(* The history.                                                            *)

\* The histories of the first project are empty.
LEMMA HistoryInit == Init => HistoryInv
<1> SUFFICES ASSUME Init PROVE HistoryInv
  OBVIOUS
<1>1. ProjectValid(state)
  BY DefaultValid DEF Init, state
<1>2. EditsValid /\ Chained
  BY EmptyIsSequence DEF Init, EditsValid, Chained
<1> QED BY <1>1, <1>2 DEF HistoryInv

\* An edit: what it restores was validated, and the new top meets the project.
LEMMA EditKeepsHistory ==
  ASSUME HistoryInv, EditStep
  PROVE  HistoryInv'
<1>1. PICK s, handled : RestoreHandling(s, handled) /\ PushHistory(s)
  BY DEF EditStep
<1> DEFINE edit == [before |-> state, after |-> s]
<1>2. ProjectValid(s) /\ state' = s
  BY <1>1 DEF RestoreHandling, state
<1>3. undoHistory' = Append(undoHistory, edit) /\ redoHistory' = <<>>
  BY <1>1 DEF PushHistory
<1>4. /\ IsSequence(undoHistory') /\ Len(undoHistory) \in Nat
      /\ Len(undoHistory') = Len(undoHistory) + 1
      /\ \A i \in 1 .. Len(undoHistory) : undoHistory'[i] = undoHistory[i]
      /\ undoHistory'[Len(undoHistory) + 1] = edit
  BY <1>3, AppendedSequence DEF HistoryInv, EditsValid
<1>5. IsSequence(redoHistory') /\ Len(redoHistory') = 0
  BY <1>3, EmptyIsSequence
<1>6. EditsValid'
  <2>1. ASSUME NEW i \in 1 .. Len(undoHistory')
        PROVE  ProjectValid(undoHistory'[i].before) /\ ProjectValid(undoHistory'[i].after)
    <3>1. CASE i = Len(undoHistory) + 1
      BY <1>2, <1>4, <3>1 DEF HistoryInv
    <3>2. CASE i # Len(undoHistory) + 1
      BY <1>4, <3>2 DEF HistoryInv, EditsValid
    <3> QED BY <3>1, <3>2
  <2> QED BY <1>4, <1>5, <2>1 DEF EditsValid
<1>7. Chained'
  <2>1. ASSUME NEW i \in 1 .. Len(undoHistory')
        PROVE  Content(undoHistory'[i].after) =
                 IF i = Len(undoHistory') THEN Content(state')
                                          ELSE Content(undoHistory'[i + 1].before)
    <3>1. CASE i = Len(undoHistory) + 1
      BY <1>2, <1>4, <3>1
    <3>2. CASE i = Len(undoHistory)
      BY <1>4, <3>2 DEF HistoryInv, Chained
    <3>3. CASE i \in 1 .. Len(undoHistory) - 1
      <4>1. i + 1 \in 1 .. Len(undoHistory) /\ i # Len(undoHistory) /\ i \in 1 .. Len(undoHistory)
        BY <1>4, <3>3
      <4>2. undoHistory'[i] = undoHistory[i] /\ undoHistory'[i + 1] = undoHistory[i + 1]
        BY <1>4, <4>1
      <4>3. Content(undoHistory[i].after) = Content(undoHistory[i + 1].before)
        BY <4>1 DEF HistoryInv, Chained
      <4> QED BY <1>4, <4>1, <4>2, <4>3
    <3> QED BY <1>4, <3>1, <3>2, <3>3
  <2> QED BY <1>5, <2>1 DEF Chained
<1> QED BY <1>2, <1>6, <1>7 DEF HistoryInv

\* A selection is no part of what a project contains.
LEMMA ViewKeepsContent ==
  ASSUME NEW s, NEW pad
  PROVE  Content([s EXCEPT !.ui = pad]) = Content(s)
  BY DEF Content

\* A selection changes the project without an edit; contents do not include it.
LEMMA ViewKeepsHistory ==
  ASSUME HistoryInv, ViewStep
  PROVE  HistoryInv'
<1>1. Content(state') = Content(state) /\ ProjectValid(state')
  BY ViewKeepsContent DEF ViewStep, Restore, RestoreHandling, state
<1>2. undoHistory' = undoHistory /\ redoHistory' = redoHistory
  BY DEF ViewStep
<1>3. EditsValid'
  BY <1>2 DEF HistoryInv, EditsValid
<1>4. Chained'
  BY <1>1, <1>2 DEF HistoryInv, Chained
<1> QED BY <1>1, <1>3, <1>4 DEF HistoryInv

\* An undo moves the top from one stack to the other, which then meets the project.
LEMMA UndoKeepsHistory ==
  ASSUME HistoryInv, Undo
  PROVE  HistoryInv'
<1> DEFINE n == Len(undoHistory)
           m == Len(redoHistory)
           edit == undoHistory[n]
<1>1. /\ undoHistory # <<>> /\ state' = edit.before /\ ProjectValid(edit.before)
      /\ undoHistory' = SubSeq(undoHistory, 1, n - 1)
      /\ redoHistory' = Append(redoHistory, edit)
  BY DEF Undo, Restore, RestoreHandling, state
<1>2. /\ IsSequence(undoHistory') /\ n \in Nat \ {0} /\ Len(undoHistory') = n - 1
      /\ \A i \in 1 .. n - 1 : undoHistory'[i] = undoHistory[i]
  BY <1>1, ShortenedSequence DEF HistoryInv, EditsValid
<1>3. /\ IsSequence(redoHistory') /\ m \in Nat /\ Len(redoHistory') = m + 1
      /\ \A i \in 1 .. m : redoHistory'[i] = redoHistory[i]
      /\ redoHistory'[m + 1] = edit
  BY <1>1, AppendedSequence DEF HistoryInv, EditsValid
<1>4. /\ ProjectValid(edit.before) /\ ProjectValid(edit.after)
      /\ Content(edit.after) = Content(state)
  BY <1>2 DEF HistoryInv, EditsValid, Chained
<1>5. EditsValid'
  <2>1. \A i \in 1 .. n - 1 :
          ProjectValid(undoHistory'[i].before) /\ ProjectValid(undoHistory'[i].after)
    BY <1>2 DEF HistoryInv, EditsValid
  <2>2. ASSUME NEW i \in 1 .. m + 1
        PROVE  ProjectValid(redoHistory'[i].before) /\ ProjectValid(redoHistory'[i].after)
    <3>1. CASE i = m + 1
      BY <1>3, <1>4, <3>1
    <3>2. CASE i # m + 1
      BY <1>3, <3>2 DEF HistoryInv, EditsValid
    <3> QED BY <3>1, <3>2
  <2> QED BY <1>2, <1>3, <2>1, <2>2 DEF EditsValid
<1>6. ASSUME NEW i \in 1 .. n - 1
      PROVE  Content(undoHistory'[i].after) =
               IF i = n - 1 THEN Content(state') ELSE Content(undoHistory'[i + 1].before)
  <2>1. i \in 1 .. n /\ i # n /\ (i # n - 1 => i + 1 \in 1 .. n - 1)
    BY <1>2
  <2>2. Content(undoHistory[i].after) = Content(undoHistory[i + 1].before)
    BY <2>1 DEF HistoryInv, Chained
  <2>3. CASE i = n - 1
    BY <1>1, <1>2, <2>2, <2>3
  <2>4. CASE i # n - 1
    BY <1>2, <2>1, <2>2, <2>4
  <2> QED BY <2>3, <2>4
<1>7. ASSUME NEW i \in 1 .. m + 1
      PROVE  Content(redoHistory'[i].before) =
               IF i = m + 1 THEN Content(state') ELSE Content(redoHistory'[i + 1].after)
  <2>1. CASE i = m + 1
    BY <1>1, <1>3, <2>1
  <2>2. CASE i = m
    BY <1>3, <1>4, <2>2 DEF HistoryInv, Chained
  <2>3. CASE i \in 1 .. m - 1
    <3>1. i \in 1 .. m /\ i # m /\ i + 1 \in 1 .. m
      BY <1>3, <2>3
    <3>2. Content(redoHistory[i].before) = Content(redoHistory[i + 1].after)
      BY <3>1 DEF HistoryInv, Chained
    <3> QED BY <1>3, <3>1, <3>2
  <2> QED BY <1>3, <2>1, <2>2, <2>3
<1>8. Chained'
  BY <1>2, <1>3, <1>6, <1>7 DEF Chained
<1> QED BY <1>1, <1>5, <1>8 DEF HistoryInv

\* A redo is the mirror image.
LEMMA RedoKeepsHistory ==
  ASSUME HistoryInv, Redo
  PROVE  HistoryInv'
<1> DEFINE n == Len(redoHistory)
           m == Len(undoHistory)
           edit == redoHistory[n]
<1>1. /\ redoHistory # <<>> /\ state' = edit.after /\ ProjectValid(edit.after)
      /\ redoHistory' = SubSeq(redoHistory, 1, n - 1)
      /\ undoHistory' = Append(undoHistory, edit)
  BY DEF Redo, Restore, RestoreHandling, state
<1>2. /\ IsSequence(redoHistory') /\ n \in Nat \ {0} /\ Len(redoHistory') = n - 1
      /\ \A i \in 1 .. n - 1 : redoHistory'[i] = redoHistory[i]
  BY <1>1, ShortenedSequence DEF HistoryInv, EditsValid
<1>3. /\ IsSequence(undoHistory') /\ m \in Nat /\ Len(undoHistory') = m + 1
      /\ \A i \in 1 .. m : undoHistory'[i] = undoHistory[i]
      /\ undoHistory'[m + 1] = edit
  BY <1>1, AppendedSequence DEF HistoryInv, EditsValid
<1>4. /\ ProjectValid(edit.before) /\ ProjectValid(edit.after)
      /\ Content(edit.before) = Content(state)
  BY <1>2 DEF HistoryInv, EditsValid, Chained
<1>5. EditsValid'
  <2>1. \A i \in 1 .. n - 1 :
          ProjectValid(redoHistory'[i].before) /\ ProjectValid(redoHistory'[i].after)
    BY <1>2 DEF HistoryInv, EditsValid
  <2>2. ASSUME NEW i \in 1 .. m + 1
        PROVE  ProjectValid(undoHistory'[i].before) /\ ProjectValid(undoHistory'[i].after)
    <3>1. CASE i = m + 1
      BY <1>3, <1>4, <3>1
    <3>2. CASE i # m + 1
      BY <1>3, <3>2 DEF HistoryInv, EditsValid
    <3> QED BY <3>1, <3>2
  <2> QED BY <1>2, <1>3, <2>1, <2>2 DEF EditsValid
<1>6. ASSUME NEW i \in 1 .. n - 1
      PROVE  Content(redoHistory'[i].before) =
               IF i = n - 1 THEN Content(state') ELSE Content(redoHistory'[i + 1].after)
  <2>1. i \in 1 .. n /\ i # n /\ (i # n - 1 => i + 1 \in 1 .. n - 1)
    BY <1>2
  <2>2. Content(redoHistory[i].before) = Content(redoHistory[i + 1].after)
    BY <2>1 DEF HistoryInv, Chained
  <2>3. CASE i = n - 1
    BY <1>1, <1>2, <2>2, <2>3
  <2>4. CASE i # n - 1
    BY <1>2, <2>1, <2>2, <2>4
  <2> QED BY <2>3, <2>4
<1>7. ASSUME NEW i \in 1 .. m + 1
      PROVE  Content(undoHistory'[i].after) =
               IF i = m + 1 THEN Content(state') ELSE Content(undoHistory'[i + 1].before)
  <2>1. CASE i = m + 1
    BY <1>1, <1>3, <2>1
  <2>2. CASE i = m
    BY <1>3, <1>4, <2>2 DEF HistoryInv, Chained
  <2>3. CASE i \in 1 .. m - 1
    <3>1. i \in 1 .. m /\ i # m /\ i + 1 \in 1 .. m
      BY <1>3, <2>3
    <3>2. Content(undoHistory[i].after) = Content(undoHistory[i + 1].before)
      BY <3>1 DEF HistoryInv, Chained
    <3> QED BY <1>3, <3>1, <3>2
  <2> QED BY <1>3, <2>1, <2>2, <2>3
<1>8. Chained'
  BY <1>2, <1>3, <1>6, <1>7 DEF Chained
<1> QED BY <1>1, <1>5, <1>8 DEF HistoryInv

\* A project that starts has no history.
LEMMA StartKeepsHistory ==
  ASSUME StartStep
  PROVE  HistoryInv'
<1>1. ProjectValid(state') /\ undoHistory' = <<>> /\ redoHistory' = <<>>
  BY DEF StartStep, StartOn, state
<1> QED BY <1>1, EmptyIsSequence DEF HistoryInv, EditsValid, Chained

\* Steps that change neither the project nor the history.
LEMMA IdleKeepsHistory ==
  ASSUME HistoryInv, IdleStep
  PROVE  HistoryInv'
  BY DEF HistoryInv, IdleStep, EditsValid, Chained, state

\* The invariant of the history is inductive.
LEMMA HistoryStep == HistoryInv /\ [Next]_vars => HistoryInv'
<1> SUFFICES ASSUME HistoryInv, [Next]_vars PROVE HistoryInv'
  OBVIOUS
<1> QED
  BY StepForms, EditKeepsHistory, ViewKeepsHistory, UndoKeepsHistory, RedoKeepsHistory,
     StartKeepsHistory, IdleKeepsHistory

\* It holds in every behaviour.
LEMMA HistoryHolds == Spec => []HistoryInv
  BY HistoryInit, HistoryStep, PTL DEF Spec

\* Undo and redo never fail and never skip: what they go back to validates, and
\* both stacks meet at the project (ApplicationController::undo() and redo()).
THEOREM HistoryIsRestorable == Spec => []HistoryRestorable
<1>1. HistoryInv => HistoryRestorable
  BY DEF HistoryInv, EditsValid, Chained, HistoryRestorable
<1> QED BY HistoryHolds, <1>1, PTL

-----------------------------------------------------------------------------
(* The results of jobs.                                                    *)

\* No jobs yet.
LEMMA JobsInit == Init => JobsInv
  BY DEF Init, JobsInv

\* A step that takes a revision outdates every job.
LEMMA OutdatedJobs ==
  ASSUME JobsInv, NEW pending, pending \subseteq jobs,
         project'.revision = project.revision + 1, jobs' = Outdated(pending)
  PROVE  JobsInv'
<1>1. ASSUME NEW new \in jobs'
      PROVE  /\ {"since", "revision"} \subseteq DOMAIN new
             /\ new.revision \in Nat /\ new.since \in {"edited", "reopened"}
             /\ new.since = "edited" => new.revision < project'.revision
  <2>1. PICK job \in jobs :
          new = [job EXCEPT !.since = IF @ = "reopened" THEN @ ELSE "edited"]
    BY DEF Outdated
  <2>2. /\ new.revision = job.revision /\ DOMAIN new = DOMAIN job
        /\ new.since = IF job.since = "reopened" THEN job.since ELSE "edited"
    BY <2>1 DEF JobsInv
  <2>3. /\ {"since", "revision"} \subseteq DOMAIN job
        /\ job.revision \in Nat /\ job.since \in {"same", "edited", "reopened"}
        /\ job.since # "reopened" => job.revision <= project.revision
    BY DEF JobsInv
  <2>4. project.revision \in Nat
    BY DEF JobsInv
  <2> QED BY <2>2, <2>3, <2>4
<1>2. project'.revision \in Nat
  BY DEF JobsInv
<1> QED BY <1>1, <1>2 DEF JobsInv

\* The invariant of jobs and revisions is inductive.
LEMMA JobsStep == JobsInv /\ [Next]_vars => JobsInv'
<1> SUFFICES ASSUME JobsInv, [Next]_vars PROVE JobsInv'
  OBVIOUS
<1>1. ASSUME NEW s, NEW handled, RestoreHandling(s, handled) PROVE JobsInv'
  <2>1. project'.revision = project.revision + 1 /\ jobs' = Outdated(jobs \ handled)
    BY <1>1 DEF RestoreHandling
  <2> QED BY <2>1, OutdatedJobs
<1>2. CASE EditStep \/ ViewStep \/ Undo \/ Redo
  BY <1>1, <1>2 DEF EditStep, ViewStep, Undo, Redo, Restore
<1>3. CASE StartStep
  <2>1. PICK p : StartOn(p) /\ p.revision \in Nat
    BY <1>3 DEF StartStep
  <2>2. project' = p /\ jobs' = {[job EXCEPT !.since = "reopened"] : job \in jobs}
    BY <2>1 DEF StartOn
  <2> QED BY <2>1, <2>2 DEF JobsInv
<1>4. CASE IdleStep
  <2>1. project' = project /\ \A job \in jobs' : job \in jobs \/ NewJob(job)
    BY <1>4 DEF IdleStep
  <2> QED BY <2>1 DEF JobsInv, NewJob
<1> QED BY <1>2, <1>3, <1>4, StepForms

\* While a project stays open, a job's result is committed only to the state it
\* was submitted for (ApplicationController::isCurrentJobTarget()).
THEOREM ResultsAreCurrent == Spec => []ResultsMeetTheirState
<1>1. JobsInv => ResultsMeetTheirState
  BY DEF JobsInv, ResultsMeetTheirState, Accepts, IsCurrentJobTarget
<1> QED BY JobsInit, JobsStep, <1>1, PTL DEF Spec

-----------------------------------------------------------------------------
(* The line of contents.                                                   *)

\* The contents of a stack form a sequence of its length.
LEMMA ContentsSequence ==
  ASSUME NEW h, IsSequence(h), NEW side
  PROVE  /\ Len(h) \in Nat
         /\ IsSequence(Contents(h, side))
         /\ Len(Contents(h, side)) = Len(h)
         /\ \A i \in 1 .. Len(h) : Contents(h, side)[i] = Content(h[i][side])
<1> DEFINE T == {Content(h[i][side]) : i \in 1 .. Len(h)}
<1>1. Len(h) \in Nat
  BY LenProperties DEF IsSequence
<1>2. Contents(h, side) \in [1 .. Len(h) -> T]
  BY DEF Contents
<1>3. Contents(h, side) \in Seq(T) /\ Len(Contents(h, side)) = Len(h)
  <2> HIDE DEF T
  <2> QED BY <1>1, <1>2, IsASeq, LenProperties
<1> QED BY <1>1, <1>3 DEF IsSequence, Contents

\* The contents of a stack that an edit is pushed on.
LEMMA ContentsAppended ==
  ASSUME NEW h, IsSequence(h), NEW edit, NEW side
  PROVE  Contents(Append(h, edit), side) = Append(Contents(h, side), Content(edit[side]))
<1> DEFINE g == Append(h, edit)
           left == Contents(g, side)
           right == Append(Contents(h, side), Content(edit[side]))
<1>1. /\ IsSequence(g) /\ Len(h) \in Nat /\ Len(g) = Len(h) + 1
      /\ \A i \in 1 .. Len(h) : g[i] = h[i]
      /\ g[Len(h) + 1] = edit
  BY AppendedSequence
<1>2. /\ IsSequence(left) /\ Len(left) = Len(g)
      /\ \A i \in 1 .. Len(g) : left[i] = Content(g[i][side])
  BY <1>1, ContentsSequence
<1>3. /\ IsSequence(Contents(h, side)) /\ Len(Contents(h, side)) = Len(h)
      /\ \A i \in 1 .. Len(h) : Contents(h, side)[i] = Content(h[i][side])
  BY ContentsSequence
<1>4. /\ IsSequence(right) /\ Len(right) = Len(h) + 1
      /\ \A i \in 1 .. Len(h) : right[i] = Content(h[i][side])
      /\ right[Len(h) + 1] = Content(edit[side])
  BY <1>3, AppendedSequence
<1>5. \A i \in 1 .. Len(h) + 1 : left[i] = right[i]
  <2> HIDE DEF g, left, right
  <2> QED BY <1>1, <1>2, <1>4
<1> QED
  <2> HIDE DEF g, left, right
  <2>1. left = right
    BY <1>1, <1>2, <1>4, <1>5, SameSequence
  <2> QED BY <2>1 DEF g, left, right

\* The contents of a stack whose top is taken away.
LEMMA ContentsFront ==
  ASSUME NEW h, IsSequence(h), h # <<>>, NEW side
  PROVE  LET c == Contents(h, side)
         IN /\ c # <<>> /\ c[Len(c)] = Content(h[Len(h)][side])
            /\ Contents(SubSeq(h, 1, Len(h) - 1), side) = [i \in 1 .. Len(c) - 1 |-> c[i]]
<1> DEFINE front == SubSeq(h, 1, Len(h) - 1)
           c == Contents(h, side)
<1>1. /\ IsSequence(front) /\ Len(h) \in Nat \ {0} /\ Len(front) = Len(h) - 1
      /\ \A i \in 1 .. Len(h) - 1 : front[i] = h[i]
  BY ShortenedSequence
<1>2. /\ IsSequence(c) /\ Len(c) = Len(h)
      /\ \A i \in 1 .. Len(h) : c[i] = Content(h[i][side])
  BY ContentsSequence
<1>3. c # <<>> /\ c[Len(c)] = Content(h[Len(h)][side])
  <2> HIDE DEF c
  <2> QED BY <1>1, <1>2, EmptyIsSequence
<1>4. Contents(front, side) = [i \in 1 .. Len(h) - 1 |-> Content(front[i][side])]
  BY <1>1 DEF Contents
<1>5. \A i \in 1 .. Len(h) - 1 : Content(front[i][side]) = c[i]
  <2> HIDE DEF c, front
  <2> QED BY <1>1, <1>2
<1>6. Contents(front, side) = [i \in 1 .. Len(c) - 1 |-> c[i]]
  <2> HIDE DEF c, front
  <2> QED BY <1>2, <1>4, <1>5
<1> QED BY <1>3, <1>6

\* An edit of the project is an edit of the line of contents.
LEMMA EditIsLineEdit ==
  ASSUME HistoryInv, EditStep
  PROVE  Line!Edit
<1>1. PICK s, handled : RestoreHandling(s, handled) /\ PushHistory(s)
  BY DEF EditStep
<1> DEFINE edit == [before |-> state, after |-> s]
<1>2. undoHistory' = Append(undoHistory, edit) /\ redoHistory' = <<>>
  BY <1>1 DEF PushHistory
<1>3. Contents(undoHistory', "before") = Append(Contents(undoHistory, "before"), Content(state))
  <2>1. edit["before"] = state /\ IsSequence(undoHistory)
    BY DEF HistoryInv, EditsValid
  <2> HIDE DEF edit
  <2> QED BY <1>2, <2>1, ContentsAppended
<1>4. Contents(redoHistory', "after") = <<>>
  BY <1>2, EmptyIsSequence DEF Contents
<1> QED BY <1>3, <1>4 DEF Line!Edit

\* An undo goes back one place on the line.
LEMMA UndoIsLineUndo ==
  ASSUME HistoryInv, Undo
  PROVE  Line!Undo
<1> DEFINE n == Len(undoHistory)
           edit == undoHistory[n]
<1>1. /\ undoHistory # <<>> /\ state' = edit.before
      /\ undoHistory' = SubSeq(undoHistory, 1, n - 1)
      /\ redoHistory' = Append(redoHistory, edit)
  BY DEF Undo, Restore, RestoreHandling, state
<1>2. IsSequence(undoHistory) /\ IsSequence(redoHistory) /\ n \in Nat \ {0}
  BY <1>1, ShortenedSequence DEF HistoryInv, EditsValid
<1>3. Content(edit.after) = Content(state)
  BY <1>2 DEF HistoryInv, Chained
<1>4. Contents(redoHistory', "after") = Append(Contents(redoHistory, "after"), Content(state))
  <2>1. Contents(Append(redoHistory, edit), "after") =
          Append(Contents(redoHistory, "after"), Content(edit["after"]))
    <3> HIDE DEF edit
    <3> QED BY <1>2, ContentsAppended
  <2> QED BY <1>1, <1>3, <2>1
<1> QED BY <1>1, <1>2, <1>4, ContentsFront DEF Line!Undo, Line!FrontOf

\* A redo goes forward one place on the line.
LEMMA RedoIsLineRedo ==
  ASSUME HistoryInv, Redo
  PROVE  Line!Redo
<1> DEFINE n == Len(redoHistory)
           edit == redoHistory[n]
<1>1. /\ redoHistory # <<>> /\ state' = edit.after
      /\ redoHistory' = SubSeq(redoHistory, 1, n - 1)
      /\ undoHistory' = Append(undoHistory, edit)
  BY DEF Redo, Restore, RestoreHandling, state
<1>2. IsSequence(undoHistory) /\ IsSequence(redoHistory) /\ n \in Nat \ {0}
  BY <1>1, ShortenedSequence DEF HistoryInv, EditsValid
<1>3. Content(edit.before) = Content(state)
  BY <1>2 DEF HistoryInv, Chained
<1>4. Contents(undoHistory', "before") = Append(Contents(undoHistory, "before"), Content(state))
  <2>1. Contents(Append(undoHistory, edit), "before") =
          Append(Contents(undoHistory, "before"), Content(edit["before"]))
    <3> HIDE DEF edit
    <3> QED BY <1>2, ContentsAppended
  <2> QED BY <1>1, <1>3, <2>1
<1> QED BY <1>1, <1>2, <1>4, ContentsFront DEF Line!Redo, Line!FrontOf

\* Every step maps to a step of the line, or to a stutter.
LEMMA StepIsLineStep ==
  ASSUME HistoryInv, [Next]_vars
  PROVE  [Line!Next]_(Line!vars)
<1>1. CASE EditStep
  BY <1>1, EditIsLineEdit DEF Line!Next
<1>2. CASE Undo
  BY <1>2, UndoIsLineUndo DEF Line!Next
<1>3. CASE Redo
  BY <1>3, RedoIsLineRedo DEF Line!Next
<1>4. CASE StartStep
  <2>1. undoHistory' = <<>> /\ redoHistory' = <<>>
    BY <1>4 DEF StartStep, StartOn
  <2> QED BY <2>1, EmptyIsSequence DEF Contents, Line!Next, Line!Start
<1>5. CASE ViewStep
  <2>1. Content(state') = Content(state) /\ UNCHANGED <<undoHistory, redoHistory>>
    BY <1>5, ViewKeepsContent DEF ViewStep, Restore, RestoreHandling, state
  <2> QED BY <2>1 DEF Line!vars, Contents
<1>6. CASE IdleStep
  BY <1>6 DEF IdleStep, Line!vars, Contents, state
<1> QED BY <1>1, <1>2, <1>3, <1>4, <1>5, <1>6, StepForms

\* Undo and redo walk the line of the contents the project has had: the
\* controller's stacks implement a linear history.
THEOREM HistoryIsLinear == Spec => LineOfContents
<1>1. Init => Line!Init
  BY EmptyIsSequence DEF Init, Line!Init, Contents
<1> QED
  BY <1>1, HistoryHolds, StepIsLineStep, PTL DEF Spec, LineOfContents, Line!Spec

-----------------------------------------------------------------------------
(* The types of a project's values, and what the edits make of them.       *)

\* The values everything starts from.
LEMMA DefaultsTyped ==
  /\ NoPlayback \in Playbacks /\ \A n \in Nat : FullRange(n) \in Playbacks
  /\ IsLayer(EmptyLayer)
  /\ \A u : IsPad(DefaultPad(u)) /\ IsProjectState(DefaultProjectState(u))
<1>1. NoPlayback \in Playbacks /\ \A n \in Nat : FullRange(n) \in Playbacks
  BY DEF NoPlayback, Playbacks, FullRange
<1>2. IsLayer(EmptyLayer)
  BY <1>1 DEF EmptyLayer, IsLayer
<1>3. ASSUME NEW u PROVE IsPad(DefaultPad(u))
  BY <1>2 DEF DefaultPad, IsPad
<1>4. ASSUME NEW u PROVE IsProjectState(DefaultProjectState(u))
  BY <1>3 DEF DefaultProjectState, IsProjectState, IsSettings
<1> QED BY <1>1, <1>2, <1>3, <1>4

\* A pad with one layer replaced.
LEMMA LayerReplaced ==
  ASSUME NEW pad, IsPad(pad), NEW l \in Layers, NEW layer, IsLayer(layer)
  PROVE  IsPad([pad EXCEPT !.layers[l] = layer])
  BY DEF IsPad

\* A pad with a field that is its own replaced.
LEMMA PadFieldTyped ==
  ASSUME NEW pad, IsPad(pad), NEW field \in {"name", "colour", "parameters", "mapping"}
  PROVE  IsPad([pad EXCEPT ![field] = "changed"])
<1>1. IsPad([pad EXCEPT !.name = "changed"])
  BY DEF IsPad
<1>2. IsPad([pad EXCEPT !.colour = "changed"])
  BY DEF IsPad
<1>3. IsPad([pad EXCEPT !.parameters = "changed"])
  BY DEF IsPad
<1>4. IsPad([pad EXCEPT !.mapping = "changed"])
  BY DEF IsPad
<1> QED BY <1>1, <1>2, <1>3, <1>4

\* A pad with another identity and mapping, and perhaps another name.
LEMMA PadTagged ==
  ASSUME NEW pad, IsPad(pad), NEW u, NEW m, NEW n
  PROVE  /\ IsPad([pad EXCEPT !.uuid = u, !.mapping = m])
         /\ IsPad([pad EXCEPT !.uuid = u, !.name = n, !.mapping = m])
<1>1. PICK x : x = [pad EXCEPT !.uuid = u]
  OBVIOUS
<1>2. IsPad(x)
  BY <1>1 DEF IsPad
<1>3. IsPad([x EXCEPT !.mapping = m])
  BY <1>2 DEF IsPad
<1>4. PICK y : y = [x EXCEPT !.name = n]
  OBVIOUS
<1>5. IsPad(y)
  BY <1>2, <1>4 DEF IsPad
<1>6. IsPad([y EXCEPT !.mapping = m])
  BY <1>5 DEF IsPad
<1> QED BY <1>1, <1>3, <1>4, <1>6

\* A layer with another playback, and with another source.
LEMMA LayerEdited ==
  ASSUME NEW layer, IsLayer(layer), NEW play \in Playbacks, NEW a, NEW on \in BOOLEAN
  PROVE  /\ IsLayer([layer EXCEPT !.play = play])
         /\ IsLayer([layer EXCEPT !.asset = a, !.enabled = on, !.play = play])
<1>1. IsLayer([layer EXCEPT !.play = play])
  BY DEF IsLayer
<1>2. PICK x : x = [layer EXCEPT !.asset = a]
  OBVIOUS
<1>3. IsLayer(x)
  BY <1>2 DEF IsLayer
<1>4. PICK y : y = [x EXCEPT !.enabled = on]
  OBVIOUS
<1>5. IsLayer(y)
  BY <1>3, <1>4 DEF IsLayer
<1>6. IsLayer([y EXCEPT !.play = play])
  BY <1>5 DEF IsLayer
<1> QED BY <1>1, <1>2, <1>4, <1>6

\* A pad with another playback of one of its layers.
LEMMA PlayReplaced ==
  ASSUME NEW pad, IsPad(pad), NEW l \in Layers, NEW play \in Playbacks
  PROVE  IsPad([pad EXCEPT !.layers[l].play = play])
<1>1. IsLayer(pad.layers[l])
  BY DEF IsPad
<1>2. PICK layer : layer = [pad.layers[l] EXCEPT !.play = play]
  OBVIOUS
<1>3. IsLayer(layer)
  BY <1>1, <1>2, LayerEdited
<1>4. IsPad([pad EXCEPT !.layers[l] = layer])
  BY <1>3, LayerReplaced
<1> QED BY <1>2, <1>4

\* A project with one pad replaced.
LEMMA PadReplaced ==
  ASSUME NEW s, IsProjectState(s), NEW p \in Pads, NEW pad, IsPad(pad)
  PROVE  /\ IsProjectState([s EXCEPT !.pads[p] = pad])
         /\ [s EXCEPT !.pads[p] = pad].sliceSets = s.sliceSets
  BY DEF IsProjectState

\* What a layer plays of a source lies in it in order, and the loop behind the start.
LEMMA ResolvedTyped ==
  ASSUME NEW layer, IsLayer(layer), NEW n \in Nat
  PROVE  LET play == ResolvePlayback(layer, n)
         IN /\ play \in Playbacks
            /\ play.start <= play.end /\ play.start <= play.loopStart
            /\ play.start <= play.loopEnd
<1>1. CASE PlaybackValid(layer.play, n)
  <2>1. layer.play \in Playbacks
    BY DEF IsLayer
  <2> QED BY <1>1, <2>1 DEF ResolvePlayback, PlaybackValid, Playbacks
<1>2. CASE ~ PlaybackValid(layer.play, n)
  <2>1. FullRange(n).start = 0 /\ FullRange(n).end = n /\ FullRange(n).loopStart = 0
        /\ FullRange(n).loopEnd = n
    BY DEF FullRange, NoPlayback
  <2>2. FullRange(n) \in Playbacks
    BY DefaultsTyped
  <2> QED BY <1>2, <2>1, <2>2 DEF ResolvePlayback
<1> QED BY <1>1, <1>2

\* The length of a source the project knows.
LEMMA FramesTyped ==
  ASSUME NEW s, IsProjectState(s), NEW a, Known(s, a)
  PROVE  FramesOf(s, a) \in Nat
<1>1. PICK x \in s.assets : x.uuid = a
  BY DEF Known, AssetNamed
<1>2. (CHOOSE y \in s.assets : y.uuid = a) \in s.assets
  BY <1>1
<1> QED BY <1>2 DEF FramesOf, IsProjectState, IsAsset

-----------------------------------------------------------------------------
(* Which steps make which state.                                           *)

\* A typed state that has kept all its slice sets.
Grown == IsProjectState(state') /\ state.sliceSets \subseteq state'.sliceSets

\* The jobs, the plan and the clipboard.
IsJob(job) ==
  /\ job = [kind |-> job.kind, owner |-> job.owner, pad |-> job.pad,
            revision |-> job.revision, index |-> job.index, layer |-> job.layer,
            asset |-> job.asset, parent |-> job.parent, play |-> job.play,
            since |-> job.since]
  /\ job.index \in Pads /\ job.layer \in Layers
  /\ IsAsset(job.asset) /\ job.play \in Playbacks

IsPlan(pl) ==
  /\ pl = [request |-> pl.request, destinations |-> pl.destinations]
  /\ IsSliceSet(pl.request.set)
  /\ pl.request.startPad \in Pads /\ pl.request.startLayer = 0
  /\ pl.request.byPads \in BOOLEAN /\ pl.request.continue \in BOOLEAN
  /\ DOMAIN pl.destinations = 1 .. Len(pl.request.set.regions)
  /\ \A i \in DOMAIN pl.destinations :
       /\ "decision" \in DOMAIN pl.destinations[i]
       /\ pl.destinations[i].decision \in {"unresolved", "replace", "skip"}

WaitingTyped ==
  /\ clipboard = None \/ IsPad(clipboard)
  /\ plan = None \/ IsPlan(plan)
  /\ \A job \in jobs : IsJob(job)

TypedNow == IsProjectState(state) /\ WaitingTyped

\* An edit of a pad.
LEMMA PadEditGrows ==
  ASSUME TypedNow, NEW p \in Pads, NEW pad, IsPad(pad), CommitPadEdit(p, pad)
  PROVE  Grown
<1>1. state' = [state EXCEPT !.pads[p] = pad]
  BY DEF CommitPadEdit, CommitProjectEdit, Restore, RestoreHandling, state
<1> QED BY <1>1, PadReplaced DEF Grown, TypedNow

\* An edit of the playback of a layer.
LEMMA PlaybackEditGrows ==
  ASSUME TypedNow, NEW p \in Pads, NEW l \in Layers, NEW play \in Playbacks,
         CommitPlayback(p, l, play)
  PROVE  Grown
<1>1. CommitPadEdit(p, [state.pads[p] EXCEPT !.layers[l].play = play])
  BY DEF CommitPlayback
<1>2. IsPad([state.pads[p] EXCEPT !.layers[l].play = play])
  BY PlayReplaced DEF TypedNow, IsProjectState
<1> QED BY <1>1, <1>2, PadEditGrows

\* The edits of a pad.
LEMMA PadStepGrows ==
  ASSUME TypedNow, NEW p \in EditedPads, PadStep(p)
  PROVE  Grown
<1>0. p \in Pads /\ IsPad(state.pads[p])
  BY EditsAssumption DEF TypedNow, IsProjectState
<1>1. CASE EditPadField(p)
  <2>1. PICK field \in PadFields : CommitPadEdit(p, [state.pads[p] EXCEPT ![field] = "changed"])
    BY <1>1 DEF EditPadField
  <2>2. IsPad([state.pads[p] EXCEPT ![field] = "changed"])
    BY <1>0, EditsAssumption, PadFieldTyped
  <2> QED BY <1>0, <2>1, <2>2, PadEditGrows
<1>2. CASE SetPadMappings(p)
  <2>1. IsPad([state.pads[p] EXCEPT !.mapping = "changed"])
    BY <1>0 DEF IsPad
  <2> QED BY <1>0, <1>2, <2>1, PadEditGrows DEF SetPadMappings
<1>3. CASE ClearPad(p)
  <2>1. IsPad(ClearedPad(state, p))
    <3>1. IsPad(DefaultPad(state.pads[p].uuid))
      BY DefaultsTyped
    <3> QED BY <3>1 DEF ClearedPad, IsPad
  <2> QED BY <1>0, <1>3, <2>1, PadEditGrows DEF ClearPad
<1>4. CASE CopyPad(p)
  BY <1>4 DEF CopyPad, Grown, TypedNow, state
<1>5. CASE PastePad(p)
  <2>1. IsPad(clipboard)
    BY <1>5 DEF PastePad, TypedNow, WaitingTyped
  <2>2. IsPad([clipboard EXCEPT !.uuid = state.pads[p].uuid, !.mapping = state.pads[p].mapping])
    BY <2>1, PadTagged
  <2> QED BY <1>0, <1>5, <2>2, PadEditGrows DEF PastePad
<1>6. CASE DuplicatePad(p)
  <2> DEFINE copy == [state.pads[p] EXCEPT !.uuid = <<fresh, 0>>, !.name = "copy",
                                           !.mapping = state.pads[p + 1].mapping]
  <2>1. IsPad(copy)
    BY <1>0, PadTagged
  <2>2. p + 1 \in Pads /\ state' = [state EXCEPT !.pads[p + 1] = copy]
    BY <1>6 DEF DuplicatePad, CommitProjectEdit, Restore, RestoreHandling, state
  <2> HIDE DEF copy
  <2>3. PICK q \in Pads : q = p + 1
    BY <2>2
  <2> QED BY <2>1, <2>2, <2>3, PadReplaced DEF Grown, TypedNow
<1> QED BY <1>1, <1>2, <1>3, <1>4, <1>5, <1>6 DEF PadStep

\* What a layer plays now.
LEMMA LayerPlayTyped ==
  ASSUME TypedNow, NEW p \in Pads, NEW l \in Layers, Known(state, LayerAsset(p, l))
  PROVE  /\ LayerFrames(p, l) \in Nat /\ LayerPlay(p, l) \in Playbacks
         /\ LayerPlay(p, l).start <= LayerPlay(p, l).end
         /\ LayerPlay(p, l).start <= LayerPlay(p, l).loopStart
         /\ LayerPlay(p, l).start <= LayerPlay(p, l).loopEnd
<1>1. LayerFrames(p, l) \in Nat
  BY FramesTyped DEF TypedNow, LayerFrames
<1>2. IsLayer(state.pads[p].layers[l])
  BY DEF TypedNow, IsProjectState, IsPad
<1> QED BY <1>1, <1>2, ResolvedTyped DEF LayerPlay

\* The edits of a layer's playback.
LEMMA LayerEditGrows ==
  ASSUME TypedNow, NEW p \in Pads, NEW l \in Layers, LayerEdit(p, l)
  PROVE  Grown
<1> DEFINE now == LayerPlay(p, l)
<1>0. LayerFrames(p, l) \in Nat /\ now \in Playbacks
  BY LayerPlayTyped DEF LayerEdit
<1> HIDE DEF now
<1>1. CASE SetLayerTrim(p, l)
  <2>1. PICK start, end \in 0 .. LayerFrames(p, l) : CommitPlayback(p, l, Trimmed(now, start, end))
    BY <1>1 DEF SetLayerTrim, now
  <2>2. start \in Nat /\ end \in Nat
    BY <1>0
  <2>3. Trimmed(now, start, end) \in Playbacks
    BY <1>0, <2>2 DEF Trimmed, Later, Earlier, Playbacks
  <2> QED BY <2>1, <2>3, PlaybackEditGrows
<1>2. CASE SetLayerLoop(p, l)
  <2>1. PICK start, end \in 0 .. LayerFrames(p, l) :
          CommitPlayback(p, l, [now EXCEPT !.loopStart = start, !.loopEnd = end])
    BY <1>2 DEF SetLayerLoop, now
  <2>2. start \in Nat /\ end \in Nat
    BY <1>0
  <2>3. [now EXCEPT !.loopStart = start, !.loopEnd = end] \in Playbacks
    BY <1>0, <2>2 DEF Playbacks
  <2> QED BY <2>1, <2>3, PlaybackEditGrows
<1>3. CASE SetLayerFlag(p, l)
  <2>1. PICK flag \in LayerFlags, on \in BOOLEAN : CommitPlayback(p, l, [now EXCEPT ![flag] = on])
    BY <1>3 DEF SetLayerFlag, now
  <2>2. [now EXCEPT ![flag] = on] \in Playbacks
    <3>1. flag \in {"loop", "reverse", "snap"}
      BY EditsAssumption
    <3> QED BY <1>0, <3>1 DEF Playbacks
  <2> QED BY <2>1, <2>2, PlaybackEditGrows
<1>4. CASE ResetLayerTrim(p, l)
  <2>1. [now EXCEPT !.start = 0, !.end = LayerFrames(p, l)] \in Playbacks
    BY <1>0 DEF Playbacks
  <2> QED BY <1>4, <2>1, PlaybackEditGrows DEF ResetLayerTrim, now
<1>5. CASE ResetLayerLoop(p, l)
  <2>1. [now EXCEPT !.loopStart = now.start, !.loopEnd = now.end, !.loop = FALSE] \in Playbacks
    BY <1>0 DEF Playbacks
  <2> QED BY <1>5, <2>1, PlaybackEditGrows DEF ResetLayerLoop, now
<1> QED BY <1>1, <1>2, <1>3, <1>4, <1>5 DEF LayerEdit

\* Clearing a layer, and every other step at one.
LEMMA LayerStepGrows ==
  ASSUME TypedNow, NEW p \in EditedPads, NEW l \in Layers, LayerStep(p, l)
  PROVE  Grown
<1>0. /\ p \in Pads /\ IsPad(state.pads[p]) /\ IsLayer(state.pads[p].layers[l])
  BY EditsAssumption DEF TypedNow, IsProjectState, IsPad
<1>1. CASE ClearLayer(p, l)
  <2> DEFINE layer == [state.pads[p].layers[l] EXCEPT !.asset = None, !.enabled = FALSE,
                                                      !.play = NoPlayback]
             n == FramesOf(state, layer.asset)
             resolved == IF ~layer.play.init /\ Known(state, layer.asset)
                         THEN [layer EXCEPT !.play = ResolvePlayback(layer, n)] ELSE layer
  <2>1. IsLayer(layer)
    BY <1>0, DefaultsTyped, LayerEdited
  <2>2. CommitPadEdit(p, [state.pads[p] EXCEPT !.layers[l] = resolved])
    BY <1>1 DEF ClearLayer, SetLayer
  <2>3. IsLayer(resolved)
    <3> HIDE DEF layer
    <3>1. CASE Known(state, layer.asset)
      <4>1. n \in Nat
        BY <3>1, FramesTyped DEF TypedNow
      <4> HIDE DEF n
      <4>2. ResolvePlayback(layer, n) \in Playbacks
        BY <2>1, <4>1, ResolvedTyped
      <4> QED BY <2>1, <4>2 DEF IsLayer
    <3>2. CASE ~ Known(state, layer.asset)
      BY <2>1, <3>2
    <3> QED BY <3>1, <3>2
  <2> HIDE DEF resolved
  <2> QED BY <1>0, <2>2, <2>3, LayerReplaced, PadEditGrows
<1>2. CASE LayerEdit(p, l)
  BY <1>0, <1>2, LayerEditGrows
<1>3. CASE SubmitDecode(p, l) \/ SubmitDerived(p, l)
  BY <1>3 DEF SubmitDecode, SubmitDerived, Submit, Grown, TypedNow, state
<1> QED BY <1>1, <1>2, <1>3 DEF LayerStep

\* The other fields of a project.
LEMMA FieldReplaced ==
  ASSUME NEW s, IsProjectState(s)
  PROVE  /\ \A A : (\A a \in A : IsAsset(a)) =>
              /\ IsProjectState([s EXCEPT !.assets = A])
              /\ [s EXCEPT !.assets = A].sliceSets = s.sliceSets
         /\ \A D : (\A d \in D : IsDerived(d)) =>
              /\ IsProjectState([s EXCEPT !.derived = D])
              /\ [s EXCEPT !.derived = D].sliceSets = s.sliceSets
         /\ \A R : (\A r \in R : IsRecorded(r)) =>
              /\ IsProjectState([s EXCEPT !.recorded = R])
              /\ [s EXCEPT !.recorded = R].sliceSets = s.sliceSets
         /\ \A X : (\A x \in X : IsSliceSet(x)) => IsProjectState([s EXCEPT !.sliceSets = X])
         /\ \A x : IsSettings(x) =>
              /\ IsProjectState([s EXCEPT !.settings = x])
              /\ [s EXCEPT !.settings = x].sliceSets = s.sliceSets
         /\ \A u : /\ IsProjectState([s EXCEPT !.ui = u])
                   /\ [s EXCEPT !.ui = u].sliceSets = s.sliceSets
         /\ \A P : (\A p \in Pads : IsPad(P[p])) =>
              /\ IsProjectState([s EXCEPT !.pads = [p \in Pads |-> P[p]]])
              /\ [s EXCEPT !.pads = [p \in Pads |-> P[p]]].sliceSets = s.sliceSets
<1>1. ASSUME NEW A, \A a \in A : IsAsset(a)
      PROVE  /\ IsProjectState([s EXCEPT !.assets = A])
             /\ [s EXCEPT !.assets = A].sliceSets = s.sliceSets
  BY <1>1 DEF IsProjectState
<1>2. ASSUME NEW D, \A d \in D : IsDerived(d)
      PROVE  /\ IsProjectState([s EXCEPT !.derived = D])
             /\ [s EXCEPT !.derived = D].sliceSets = s.sliceSets
  BY <1>2 DEF IsProjectState
<1>3. ASSUME NEW R, \A r \in R : IsRecorded(r)
      PROVE  /\ IsProjectState([s EXCEPT !.recorded = R])
             /\ [s EXCEPT !.recorded = R].sliceSets = s.sliceSets
  BY <1>3 DEF IsProjectState
<1>4. ASSUME NEW X, \A x \in X : IsSliceSet(x)
      PROVE  IsProjectState([s EXCEPT !.sliceSets = X])
  BY <1>4 DEF IsProjectState
<1>5. ASSUME NEW x, IsSettings(x)
      PROVE  /\ IsProjectState([s EXCEPT !.settings = x])
             /\ [s EXCEPT !.settings = x].sliceSets = s.sliceSets
  BY <1>5 DEF IsProjectState
<1>6. ASSUME NEW u
      PROVE  /\ IsProjectState([s EXCEPT !.ui = u])
             /\ [s EXCEPT !.ui = u].sliceSets = s.sliceSets
  BY DEF IsProjectState
<1>7. ASSUME NEW P, \A p \in Pads : IsPad(P[p])
      PROVE  /\ IsProjectState([s EXCEPT !.pads = [p \in Pads |-> P[p]]])
             /\ [s EXCEPT !.pads = [p \in Pads |-> P[p]]].sliceSets = s.sliceSets
  BY <1>7 DEF IsProjectState
<1> QED BY <1>1, <1>2, <1>3, <1>4, <1>5, <1>6, <1>7

\* A restored state is the state.
LEMMA RestoredIs ==
  ASSUME NEW s, NEW handled, RestoreHandling(s, handled)
  PROVE  state' = s
  BY DEF RestoreHandling, state

\* A change of the settings.
LEMMA SettingsGrow ==
  ASSUME TypedNow, SetSettings
  PROVE  Grown
<1>0. PICK f \in SettingsFields : Restore([state EXCEPT !.settings[f] = "changed"])
  BY DEF SetSettings, CommitProjectEdit
<1>1. state' = [state EXCEPT !.settings[f] = "changed"]
  BY <1>0, RestoredIs DEF Restore
<1>2. PICK x : x = [state.settings EXCEPT ![f] = "changed"]
  OBVIOUS
<1>3. IsSettings(x)
  <2>1. f \in {"audio", "midi", "recording"} /\ IsSettings(state.settings)
    BY EditsAssumption DEF TypedNow, IsProjectState
  <2>2. PICK y : y = state.settings
    OBVIOUS
  <2>3. IsSettings(y)
    BY <2>1, <2>2
  <2>4. CASE f = "audio"
    <3>1. x = [y EXCEPT !.audio = "changed"]
      BY <1>2, <2>2, <2>4
    <3> QED BY <2>3, <3>1 DEF IsSettings
  <2>5. CASE f = "midi"
    <3>1. x = [y EXCEPT !.midi = "changed"]
      BY <1>2, <2>2, <2>5
    <3> QED BY <2>3, <3>1 DEF IsSettings
  <2>6. CASE f = "recording"
    <3>1. x = [y EXCEPT !.recording = "changed"]
      BY <1>2, <2>2, <2>6
    <3> QED BY <2>3, <3>1 DEF IsSettings
  <2> QED BY <2>1, <2>4, <2>5, <2>6
<1>4. state' = [state EXCEPT !.settings = x]
  BY <1>1, <1>2
<1> QED BY <1>3, <1>4, FieldReplaced DEF Grown, TypedNow

\* A selection.
LEMMA ViewGrows ==
  ASSUME TypedNow, SetUiState
  PROVE  Grown
<1>1. PICK pad \in {0, 1} : Restore([state EXCEPT !.ui = pad])
  BY DEF SetUiState
<1>2. state' = [state EXCEPT !.ui = pad]
  BY <1>1, RestoredIs DEF Restore
<1> QED BY <1>2, FieldReplaced DEF Grown, TypedNow

\* The commit of a result.
LEMMA ResultGrows ==
  ASSUME TypedNow, NEW job \in jobs, JobStep(job)
  PROVE  Grown
<1>1. CASE CommitResult(job)
  <2> DEFINE i == job.index
             l == job.layer
             layer == ResultLayer(job)
             A == {a \in state.assets : a.uuid # job.asset.uuid} \cup {job.asset}
             D == IF job.kind = "derived"
                  THEN state.derived \cup {[asset |-> job.asset.uuid, parent |-> job.parent]}
                  ELSE state.derived
             R == IF job.kind = "recorded"
                  THEN state.recorded \cup
                         {[asset |-> job.asset.uuid, frames |-> job.asset.frames,
                           project |-> job.owner, layer |-> <<job.pad, job.layer>>]}
                  ELSE state.recorded
  <2>1. /\ IsProjectState(state) /\ IsJob(job) /\ i \in Pads /\ l \in Layers
        /\ IsPad(state.pads[i]) /\ IsLayer(state.pads[i].layers[l])
    BY DEF TypedNow, WaitingTyped, IsJob, IsProjectState, IsPad
  <2>2. IsLayer(layer)
    <3> DEFINE old == state.pads[i].layers[l]
               play == IF job.kind = "derived" THEN job.play
                       ELSE ResolvePlayback(old, job.asset.frames)
    <3>1. job.play \in Playbacks /\ job.asset.frames \in Nat
      BY <2>1 DEF IsJob, IsAsset
    <3>2. play \in Playbacks
      BY <2>1, <3>1, ResolvedTyped
    <3>3. layer = [old EXCEPT !.asset = job.asset.uuid, !.enabled = TRUE, !.play = play]
      BY DEF ResultLayer
    <3> HIDE DEF play, old, layer
    <3>4. IsLayer(old)
      BY <2>1 DEF old
    <3> QED BY <3>2, <3>3, <3>4, LayerEdited
  <2>3. /\ \A a \in A : IsAsset(a)
        /\ \A d \in D : IsDerived(d)
        /\ \A r \in R : IsRecorded(r)
    <3>1. \A a \in A : IsAsset(a)
      BY <2>1 DEF IsProjectState, IsJob
    <3>2. \A d \in D : IsDerived(d)
      BY <2>1 DEF IsProjectState, IsDerived
    <3>3. \A r \in R : IsRecorded(r)
      BY <2>1 DEF IsProjectState, IsRecorded
    <3> QED BY <3>1, <3>2, <3>3
  <2>4. PICK s1 : s1 = [state EXCEPT !.pads[i] = [state.pads[i] EXCEPT !.layers[l] = layer]]
    OBVIOUS
  <2>5. PICK s2 : s2 = [s1 EXCEPT !.assets = A]
    OBVIOUS
  <2>6. PICK s3 : s3 = [s2 EXCEPT !.derived = D]
    OBVIOUS
  <2>7. PICK s4 : s4 = [s3 EXCEPT !.recorded = R]
    OBVIOUS
  <2>8. state' = s4
    <3>1. state' = ResultState(job)
      BY <1>1 DEF CommitResult, RestoreHandling, state
    <3> QED BY <2>4, <2>5, <2>6, <2>7, <3>1 DEF ResultState
  <2> HIDE DEF layer, A, D, R, i, l
  <2>9. IsProjectState(s1) /\ s1.sliceSets = state.sliceSets
    <3>1. IsPad([state.pads[i] EXCEPT !.layers[l] = layer])
      BY <2>1, <2>2, LayerReplaced
    <3> QED BY <2>1, <2>4, <3>1, PadReplaced
  <2>10. IsProjectState(s2) /\ s2.sliceSets = state.sliceSets
    BY <2>3, <2>5, <2>9, FieldReplaced
  <2>11. IsProjectState(s3) /\ s3.sliceSets = state.sliceSets
    BY <2>3, <2>6, <2>10, FieldReplaced
  <2>12. IsProjectState(s4) /\ s4.sliceSets = state.sliceSets
    BY <2>3, <2>7, <2>11, FieldReplaced
  <2> QED BY <2>8, <2>12 DEF Grown
<1>2. CASE DropResult(job)
  BY <1>2 DEF DropResult, Grown, TypedNow, state
<1> QED BY <1>1, <1>2 DEF JobStep

\* A layer that plays a slice.
LEMMA SliceLayerTyped ==
  ASSUME NEW set, IsSliceSet(set), SliceSetValid(set), NEW i \in 1 .. Len(set.regions)
  PROVE  /\ IsLayer(SliceLayer(set, i))
         /\ SliceLayer(set, i).slice = [set |-> set.uuid, region |-> i]
<1>1. set.regions[i] \in [start : Int, end : Int]
  BY ElementOfSeq DEF IsSliceSet
<1>2. RegionValid(set.regions[i], set.trimStart, set.trimEnd) /\ 0 <= set.trimStart
  BY DEF SliceSetValid
<1>3. set.regions[i].start \in Nat /\ set.regions[i].end \in Nat
  BY <1>1, <1>2 DEF RegionValid, IsSliceSet
<1>4. [NoPlayback EXCEPT !.init = TRUE, !.start = set.regions[i].start,
                         !.end = set.regions[i].end, !.loopStart = set.regions[i].start,
                         !.loopEnd = set.regions[i].end] \in Playbacks
  BY <1>3 DEF NoPlayback, Playbacks
<1> QED BY <1>4 DEF SliceLayer, IsLayer

\* The layers of a pad replaced.
LEMMA LayersReplaced ==
  ASSUME NEW pad, IsPad(pad), NEW L, \A l \in Layers : IsLayer(L[l])
  PROVE  IsPad([pad EXCEPT !.layers = [l \in Layers |-> L[l]]])
  BY DEF IsPad

\* A pad cleared for a slice.
LEMMA ClearedTyped ==
  ASSUME NEW s, NEW p
  PROVE  IsPad([ClearedPad(s, p) EXCEPT !.name = "slice"]) /\ IsPad(ClearedPad(s, p))
<1>1. PICK pad : pad = DefaultPad(s.pads[p].uuid)
  OBVIOUS
<1>2. IsPad(pad)
  BY <1>1, DefaultsTyped
<1>3. PICK cleared : cleared = [pad EXCEPT !.mapping = s.pads[p].mapping]
  OBVIOUS
<1>4. IsPad(cleared)
  BY <1>2, <1>3 DEF IsPad
<1>5. IsPad([cleared EXCEPT !.name = "slice"])
  BY <1>4 DEF IsPad
<1> QED BY <1>1, <1>3, <1>4, <1>5 DEF ClearedPad

\* The slice that lands on a layer of a pad, of those that land on the pad.
Here(pl, p) == {i \in Chosen(pl) : pl.destinations[i].pad = p}

BaseOf(s, pl, p) ==
  IF Here(pl, p) # {} /\ pl.request.byPads
  THEN [ClearedPad(s, p) EXCEPT !.name = "slice"] ELSE s.pads[p]

Landed(pl, p, l) == CHOOSE i \in Here(pl, p) : pl.destinations[i].layer = l

LayerAfter(s, pl, p, l) ==
  IF \E i \in Here(pl, p) : pl.destinations[i].layer = l
  THEN SliceLayer(pl.request.set, Landed(pl, p, l))
  ELSE BaseOf(s, pl, p).layers[l]

\* The pad a plan leads to, layer by layer.
LEMMA AssignedPadIs ==
  ASSUME NEW s, NEW pl, NEW p
  PROVE  AssignedPad(s, pl, p) =
           [BaseOf(s, pl, p) EXCEPT !.layers = [l \in Layers |-> LayerAfter(s, pl, p, l)]]
  BY DEF AssignedPad, BaseOf, LayerAfter, Landed, Here

\* The pad a plan leads to is a pad.
LEMMA AssignedPadTyped ==
  ASSUME NEW s, IsProjectState(s), NEW pl, IsPlan(pl), SliceSetValid(pl.request.set),
         NEW p \in Pads
  PROVE  /\ IsPad(AssignedPad(s, pl, p))
         /\ \A l \in Layers : AssignedPad(s, pl, p).layers[l] = LayerAfter(s, pl, p, l)
<1>1. IsPad(BaseOf(s, pl, p))
  BY ClearedTyped DEF BaseOf, IsProjectState
<1>2. ASSUME NEW l \in Layers PROVE IsLayer(LayerAfter(s, pl, p, l))
  <2>1. CASE \E i \in Here(pl, p) : pl.destinations[i].layer = l
    <3>1. Landed(pl, p, l) \in Here(pl, p)
      BY <2>1 DEF Landed
    <3>2. Landed(pl, p, l) \in 1 .. Len(pl.request.set.regions)
      BY <3>1 DEF Here, Chosen, IsPlan
    <3>3. IsLayer(SliceLayer(pl.request.set, Landed(pl, p, l)))
      BY <3>2, SliceLayerTyped DEF IsPlan
    <3> QED BY <2>1, <3>3 DEF LayerAfter
  <2>2. CASE ~ \E i \in Here(pl, p) : pl.destinations[i].layer = l
    BY <1>1, <2>2 DEF LayerAfter, IsPad
  <2> QED BY <2>1, <2>2
<1>3. PICK L : L = [l \in Layers |-> LayerAfter(s, pl, p, l)]
  OBVIOUS
<1>4. PICK base : base = BaseOf(s, pl, p)
  OBVIOUS
<1>5. AssignedPad(s, pl, p) = [base EXCEPT !.layers = [l \in Layers |-> L[l]]]
  BY <1>3, <1>4, AssignedPadIs
<1>6. \A l \in Layers : IsLayer(L[l])
  BY <1>2, <1>3
<1>7. IsPad(AssignedPad(s, pl, p))
  BY <1>1, <1>4, <1>5, <1>6, LayersReplaced
<1>8. AssignedPad(s, pl, p).layers = L
  BY <1>1, <1>3, <1>4, <1>5 DEF IsPad
<1> QED BY <1>3, <1>7, <1>8

\* The project a plan leads to.
LEMMA AssignedTyped ==
  ASSUME NEW s, IsProjectState(s), NEW pl, IsPlan(pl), SliceSetValid(pl.request.set)
  PROVE  /\ IsProjectState(AssignedState(s, pl))
         /\ s.sliceSets \subseteq AssignedState(s, pl).sliceSets
         /\ \A p \in Pads : AssignedState(s, pl).pads[p] = AssignedPad(s, pl, p)
<1>1. PICK P : P = [p \in Pads |-> AssignedPad(s, pl, p)]
  OBVIOUS
<1>2. \A p \in Pads : IsPad(P[p])
  BY <1>1, AssignedPadTyped
<1>3. PICK s1 : s1 = [s EXCEPT !.pads = [p \in Pads |-> P[p]]]
  OBVIOUS
<1>4. IsProjectState(s1) /\ s1.sliceSets = s.sliceSets
  BY <1>2, <1>3, FieldReplaced
<1>5. PICK X : X = s.sliceSets \cup {pl.request.set}
  OBVIOUS
<1>6. \A x \in X : IsSliceSet(x)
  BY <1>5 DEF IsProjectState, IsPlan
<1>7. IsProjectState([s1 EXCEPT !.sliceSets = X])
  BY <1>4, <1>6, FieldReplaced
<1>8. AssignedState(s, pl) = [s1 EXCEPT !.sliceSets = X]
  <2>1. [p \in Pads |-> P[p]] = P
    BY <1>1
  <2> QED BY <1>1, <1>3, <1>5, <2>1 DEF AssignedState
<1>9. [s1 EXCEPT !.sliceSets = X].sliceSets = X /\ [s1 EXCEPT !.sliceSets = X].pads = s1.pads
  BY <1>4 DEF IsProjectState
<1>10. s1.pads = [p \in Pads |-> P[p]]
  BY <1>3 DEF IsProjectState
<1> QED BY <1>1, <1>5, <1>7, <1>8, <1>9, <1>10

\* Planning leaves the project alone; committing a plan makes the state it leads to.
LEMMA PlanStepGrows ==
  ASSUME TypedNow,
         \/ \E p \in Pads, l \in Layers : PreviewAssignment(p, l)
         \/ ResolveConflict \/ DropPlan \/ CommitSliceAssignment
  PROVE  Grown
<1>0. ASSUME UNCHANGED project PROVE Grown
  BY <1>0 DEF Grown, TypedNow, state
<1>1. CASE CommitSliceAssignment
  <2>1. CASE AssignedState(state, plan) = state
    BY <1>0, <1>1, <2>1 DEF CommitSliceAssignment
  <2>2. CASE AssignedState(state, plan) # state
    <3>1. IsPlan(plan)
      BY <1>1 DEF CommitSliceAssignment, TypedNow, WaitingTyped
    <3>2. SliceSetValid(plan.request.set)
      BY <1>1 DEF CommitSliceAssignment, AssignmentCommits, PlanMatches, Plannable, SourceCurrent
    <3>3. state' = AssignedState(state, plan)
      BY <1>1, <2>2, RestoredIs DEF CommitSliceAssignment, Restore
    <3> QED BY <3>1, <3>2, <3>3, AssignedTyped DEF Grown, TypedNow
  <2> QED BY <2>1, <2>2
<1>2. CASE ~CommitSliceAssignment
  BY <1>0, <1>2 DEF PreviewAssignment, ResolveConflict, DropPlan
<1> QED BY <1>1, <1>2

\* What one starts on is typed: an empty project, or the file with the samples looked for.
LEMMA StartTyped ==
  ASSUME CreateEmptyProject \/ RestoreProject
  PROVE  /\ IsProjectState(state') /\ project'.revision \in 0 .. Opened.revision + 1
         /\ project' = [state |-> state', revision |-> project'.revision]
<1>1. CASE CreateEmptyProject
  <2>1. /\ state' = DefaultProjectState(fresh) /\ project'.revision = 0
        /\ project' = [state |-> state', revision |-> project'.revision]
    BY <1>1 DEF CreateEmptyProject, StartOn, state
  <2> QED BY <2>1, DefaultsTyped, EditsAssumption
<1>2. CASE RestoreProject
  <2>1. PICK lost : project' = Available(Opened, lost)
    BY <1>2 DEF RestoreProject, StartOn
  <2> DEFINE assets == {[a EXCEPT !.missing = (a.uuid \in lost)] : a \in Opened.state.assets}
  <2>2. CASE assets = Opened.state.assets
    BY <2>1, <2>2, EditsAssumption DEF Available, state
  <2>3. CASE assets # Opened.state.assets
    <3>1. /\ state' = [Opened.state EXCEPT !.assets = assets]
          /\ project'.revision = Opened.revision + 1
          /\ project' = [state |-> state', revision |-> project'.revision]
      BY <2>1, <2>3 DEF Available, state
    <3>2. \A a \in assets : IsAsset(a)
      <4>1. ASSUME NEW a \in Opened.state.assets
            PROVE  IsAsset([a EXCEPT !.missing = (a.uuid \in lost)])
        <5>1. IsAsset(a)
          BY EditsAssumption DEF IsProjectState
        <5>2. \A b \in BOOLEAN : IsAsset([a EXCEPT !.missing = b])
          BY <5>1 DEF IsAsset
        <5>3. CASE a.uuid \in lost
          <6>1. (a.uuid \in lost) = TRUE
            BY <5>3
          <6> QED BY <5>2, <6>1
        <5>4. CASE a.uuid \notin lost
          <6>1. (a.uuid \in lost) = FALSE
            BY <5>4
          <6> QED BY <5>2, <6>1
        <5> QED BY <5>3, <5>4
      <4> QED BY <4>1
    <3> HIDE DEF assets
    <3> QED BY <3>1, <3>2, FieldReplaced, EditsAssumption
  <2> QED BY <2>2, <2>3
<1> QED BY <1>1, <1>2

-----------------------------------------------------------------------------
(* Every step, as far as the project's states are concerned.               *)

EditForms ==
  \/ (EditStep \/ ViewStep \/ IdleStep) /\ Grown
  \/ Undo \/ Redo
  \/ /\ StartStep /\ IsProjectState(state')
     /\ project'.revision \in 0 .. Opened.revision + 1
     /\ project' = [state |-> state', revision |-> project'.revision]

\* A step of a typed project has one of those forms.
LEMMA TypedForms ==
  ASSUME TypedNow, [Next]_vars
  PROVE  EditForms
<1>1. CASE UNCHANGED vars
  <2>1. IdleStep
    BY <1>1 DEF vars, IdleStep
  <2>2. Grown
    BY <1>1 DEF vars, Grown, TypedNow, state
  <2> QED BY <2>1, <2>2 DEF EditForms
<1>2. CASE SetSettings
  BY <1>2, ProjectEditIsEdit, SettingsGrow DEF SetSettings, EditForms
<1>3. CASE SetUiState
  <2>1. ViewStep
    BY <1>3 DEF SetUiState, ViewStep, history
  <2> QED BY <1>3, <2>1, ViewGrows DEF EditForms
<1>4. CASE \E p \in EditedPads, l \in Layers : LayerStep(p, l)
  BY <1>4, LayerStepIsStep, LayerStepGrows DEF EditForms
<1>5. CASE \E job \in jobs : JobStep(job)
  BY <1>5, JobStepIsStep, ResultGrows DEF EditForms
<1>6. CASE \E p \in EditedPads : PadStep(p)
  BY <1>6, PadStepIsStep, PadStepGrows DEF EditForms
<1>7. CASE \/ \E p \in Pads, l \in Layers : PreviewAssignment(p, l)
           \/ ResolveConflict \/ DropPlan \/ CommitSliceAssignment
  BY <1>7, PlanStepIsStep, PlanStepGrows DEF EditForms
<1>8. CASE CreateEmptyProject \/ RestoreProject
  BY <1>8, StartStepsStart, StartTyped DEF EditForms
<1>9. CASE Undo \/ Redo
  BY <1>9 DEF EditForms
<1> QED
  BY <1>1, <1>2, <1>3, <1>4, <1>5, <1>6, <1>7, <1>8, <1>9 DEF Next

-----------------------------------------------------------------------------
(* Every step, as far as what waits is concerned.                          *)

Settles ==
  \E s, handled : RestoreHandling(s, handled) /\ UNCHANGED <<clipboard, plan, life>>

Copies(pad) ==
  /\ IsPad(pad)
  /\ clipboard = None => MayBegin
  /\ clipboard' = pad /\ UNCHANGED <<project, plan, jobs, life>>

Submits(job) ==
  /\ IsJob(job) /\ MayBegin
  /\ jobs' = jobs \cup {job} /\ UNCHANGED <<project, clipboard, plan, life>>

Drops(job) == jobs' = jobs \ {job} /\ UNCHANGED <<project, clipboard, plan, life>>

Plans(pl) ==
  /\ IsPlan(pl)
  /\ plan = None => MayBegin
  /\ plan' = pl /\ UNCHANGED <<project, clipboard, jobs, life>>

Unplans ==
  /\ plan' = None /\ UNCHANGED <<clipboard, life>>
  /\ \/ UNCHANGED <<project, jobs>>
     \/ CommitSliceAssignment /\ Restore(AssignedState(state, plan))

WaitForms ==
  \/ Settles
  \/ \E pad : Copies(pad)
  \/ \E job : Submits(job) \/ Drops(job)
  \/ \E pl : Plans(pl)
  \/ Unplans
  \/ \E p : StartOn(p)
  \/ UNCHANGED <<project, clipboard, plan, jobs, life>>

\* Edits settle.
LEMMA ProjectEditSettles ==
  ASSUME NEW s, CommitProjectEdit(s)
  PROVE  Settles
  BY DEF CommitProjectEdit, Restore, Settles

\* Edits of a pad settle too.
LEMMA PadEditSettles ==
  ASSUME NEW p, NEW pad, CommitPadEdit(p, pad)
  PROVE  Settles /\ fresh' = fresh
  BY ProjectEditSettles DEF CommitPadEdit

\* Steps on a pad settle, or copy it.
LEMMA PadStepWaits ==
  ASSUME TypedNow, NEW p \in EditedPads, PadStep(p)
  PROVE  /\ Settles \/ \E pad : Copies(pad)
         /\ fresh' \in {fresh, fresh + 1}
<1>1. CASE EditPadField(p)
  BY <1>1, PadEditSettles DEF EditPadField
<1>2. CASE SetPadMappings(p)
  BY <1>2, PadEditSettles DEF SetPadMappings
<1>3. CASE ClearPad(p)
  BY <1>3, PadEditSettles DEF ClearPad
<1>4. CASE CopyPad(p)
  <2>1. IsPad(state.pads[p])
    BY EditsAssumption DEF TypedNow, IsProjectState
  <2> QED BY <1>4, <2>1 DEF CopyPad, Copies
<1>5. CASE PastePad(p)
  BY <1>5, PadEditSettles DEF PastePad
<1>6. CASE DuplicatePad(p)
  BY <1>6, ProjectEditSettles DEF DuplicatePad
<1> QED BY <1>1, <1>2, <1>3, <1>4, <1>5, <1>6 DEF PadStep

\* A job as it is submitted.
LEMMA JobTyped ==
  ASSUME NEW kind, NEW p \in Pads, NEW l \in Layers, NEW asset, IsAsset(asset),
         NEW play \in Playbacks
  PROVE  IsJob(Job(kind, p, l, asset, play))
  BY DEF Job, IsJob

\* The asset a finished job adds.
LEMMA AssetTyped ==
  ASSUME NEW uuid, NEW n \in Nat
  PROVE  IsAsset(Asset(uuid, n))
  BY DEF Asset, IsAsset

\* Steps on a layer settle, or submit a job.
LEMMA LayerStepWaits ==
  ASSUME TypedNow, NEW p \in EditedPads, NEW l \in Layers, LayerStep(p, l)
  PROVE  /\ Settles \/ \E job : Submits(job)
         /\ fresh' = fresh
<1>0. p \in Pads
  BY EditsAssumption
<1>1. CASE ClearLayer(p, l)
  BY <1>1, PadEditSettles DEF ClearLayer, SetLayer
<1>2. CASE LayerEdit(p, l)
  <2>1. ASSUME NEW play, CommitPlayback(p, l, play) PROVE Settles /\ fresh' = fresh
    BY <2>1, PadEditSettles DEF CommitPlayback
  <2> QED
    BY <1>2, <2>1 DEF LayerEdit, SetLayerTrim, SetLayerLoop, SetLayerFlag, ResetLayerTrim,
                      ResetLayerLoop
<1>3. ASSUME NEW job, IsJob(job), Submit(job) PROVE Submits(job) /\ fresh' = fresh
  BY <1>3 DEF Submit, Submits
<1>4. CASE SubmitDecode(p, l)
  <2>1. PICK a \in Assets, kind \in {"import", "recorded"} :
          Submit(Job(kind, p, l, Asset(a, SourceFrames[a]), NoPlayback))
    BY <1>4 DEF SubmitDecode
  <2>2. IsAsset(Asset(a, SourceFrames[a]))
    BY EditsAssumption, AssetTyped
  <2>3. IsJob(Job(kind, p, l, Asset(a, SourceFrames[a]), NoPlayback))
    BY <1>0, <2>2, JobTyped, DefaultsTyped
  <2> QED BY <1>3, <2>1, <2>3
<1>5. CASE SubmitDerived(p, l)
  <2> DEFINE play == LayerPlay(p, l)
             length == play.end - play.start
             whole == Asset(<<"normalize", LayerAsset(p, l)>>, LayerFrames(p, l))
             part == Asset(<<"crop", LayerAsset(p, l), play.start, play.end>>, length)
             cropped == [play EXCEPT !.start = 0, !.end = length,
                                     !.loopStart = play.loopStart - play.start,
                                     !.loopEnd = play.loopEnd - play.start]
  <2>1. \/ Submit(Job("derived", p, l, whole, play))
        \/ Submit(Job("derived", p, l, part, cropped))
    BY <1>5 DEF SubmitDerived
  <2>2. Known(state, LayerAsset(p, l))
    BY <1>5 DEF SubmitDerived
  <2>3. /\ LayerFrames(p, l) \in Nat /\ play \in Playbacks
        /\ play.start <= play.end /\ play.start <= play.loopStart /\ play.start <= play.loopEnd
    BY <1>0, <2>2, LayerPlayTyped
  <2> HIDE DEF play
  <2>4. length \in Nat
    BY <2>3 DEF Playbacks
  <2>5. IsAsset(whole) /\ IsAsset(part)
    <3> HIDE DEF length
    <3> QED BY <2>3, <2>4, AssetTyped
  <2>6. cropped \in Playbacks
    <3>1. play.loopStart - play.start \in Nat /\ play.loopEnd - play.start \in Nat
      BY <2>3 DEF Playbacks
    <3>2. PICK x : x = [play EXCEPT !.start = 0, !.end = length]
      OBVIOUS
    <3> HIDE DEF length
    <3>3. x \in Playbacks
      BY <2>3, <2>4, <3>2 DEF Playbacks
    <3>4. PICK i \in Nat, j \in Nat : i = play.loopStart - play.start /\ j = play.loopEnd - play.start
      BY <3>1
    <3>5. cropped = [x EXCEPT !.loopStart = i, !.loopEnd = j]
      BY <3>2, <3>4
    <3> QED BY <3>3, <3>5 DEF Playbacks
  <2> HIDE DEF whole, part, cropped
  <2>7. IsJob(Job("derived", p, l, whole, play)) /\ IsJob(Job("derived", p, l, part, cropped))
    BY <1>0, <2>3, <2>5, <2>6, JobTyped
  <2> QED BY <1>3, <2>1, <2>7
<1> QED BY <1>1, <1>2, <1>4, <1>5 DEF LayerStep

\* A set cut in two, or left whole.
LEMMA CutSetTyped ==
  ASSUME TypedNow, NEW p \in Pads, NEW l \in Layers, Known(state, LayerAsset(p, l)),
         NEW set \in CutSets(p, l)
  PROVE  IsSliceSet(set)
<1> DEFINE play == LayerPlay(p, l)
           source == [asset |-> LayerAsset(p, l), layer |-> <<state.pads[p].uuid, l>>,
                      trimStart |-> play.start, trimEnd |-> play.end]
<1>1. PICK n \in {1, 2} : set = SetFromBoundaries("set", source, "equal", EqualBoundaries(source, n))
  BY DEF CutSets
<1>2. play \in Playbacks
  BY LayerPlayTyped
<1> HIDE DEF play
<1>3. source.trimStart \in Int /\ source.trimEnd \in Int
  BY <1>2 DEF Playbacks
<1> HIDE DEF source
<1> DEFINE bounds == EqualBoundaries(source, n)
           at(i) == source.trimStart + ((i - 1) * (source.trimEnd - source.trimStart)) \div n
<1>4. bounds = [i \in 1 .. n + 1 |-> at(i)]
  BY DEF EqualBoundaries
<1>5. \A i \in 1 .. n + 1 : at(i) \in Int
  <2>1. ASSUME NEW i \in 1 .. n + 1 PROVE at(i) \in Int
    <3>1. PICK x \in Int : x = (i - 1) * (source.trimEnd - source.trimStart)
      BY <1>1, <1>3
    <3>2. x \div n \in Int
      BY <1>1
    <3> QED BY <1>3, <3>1, <3>2
  <2> QED BY <2>1
<1>6. bounds \in Seq(Int) /\ Len(bounds) = n + 1
  <2> HIDE DEF at
  <2>1. n + 1 \in Nat /\ bounds \in [1 .. n + 1 -> Int]
    BY <1>1, <1>4, <1>5
  <2> HIDE DEF bounds
  <2> QED BY <2>1, IsASeq, LenProperties
<1>7. RegionsBetween(bounds) \in Seq([start : Int, end : Int])
  <2> HIDE DEF bounds
  <2>1. RegionsBetween(bounds) = [i \in 1 .. n |-> Region(bounds[i], bounds[i + 1])]
    BY <1>1, <1>6 DEF RegionsBetween
  <2>2. ASSUME NEW i \in 1 .. n
        PROVE  Region(bounds[i], bounds[i + 1]) \in [start : Int, end : Int]
    <3>1. i \in 1 .. Len(bounds) /\ i + 1 \in 1 .. Len(bounds)
      BY <1>1, <1>6
    <3>2. bounds[i] \in Int /\ bounds[i + 1] \in Int
      BY <1>6, <3>1, ElementOfSeq
    <3> QED BY <3>2 DEF Region
  <2>3. RegionsBetween(bounds) \in [1 .. n -> [start : Int, end : Int]] /\ n \in Nat
    BY <1>1, <2>1, <2>2
  <2>4. PICK S, f : S = [start : Int, end : Int] /\ f = RegionsBetween(bounds)
    OBVIOUS
  <2>5. f \in [1 .. n -> S]
    BY <2>3, <2>4
  <2>6. f \in Seq(S)
    BY <2>3, <2>5, IsASeq
  <2> QED BY <2>4, <2>6
<1>8. set = [uuid |-> "set", asset |-> source.asset, layer |-> source.layer,
             trimStart |-> source.trimStart, trimEnd |-> source.trimEnd,
             algorithm |-> "equal", discard |-> FALSE, regions |-> RegionsBetween(bounds)]
  BY <1>1 DEF SetFromBoundaries, BaseSet
<1> HIDE DEF bounds
<1> QED BY <1>3, <1>7, <1>8 DEF IsSliceSet, Algorithms

\* The plan of a typed request, resolved one way or the other.
LEMMA PlanTyped ==
  ASSUME NEW s, NEW request, NEW set, IsSliceSet(set), request.set = set,
         request.startPad \in Pads, request.startLayer = 0,
         request.byPads \in BOOLEAN, request.continue \in BOOLEAN,
         NEW policy \in {"replace", "skip"}
  PROVE  IsPlan(AllResolved(Plan(s, request), policy))
<1> DEFINE n == Len(request.set.regions)
           D == [i \in 1 .. n |-> Destination(s, request, i)]
           resolved(d) == IF d.occupied THEN [d EXCEPT !.decision = policy] ELSE d
           R == [i \in DOMAIN D |-> resolved(D[i])]
<1>1. AllResolved(Plan(s, request), policy) = [request |-> request, destinations |-> R]
  <2>1. PICK d, pl : d = D /\ pl = [request |-> request, destinations |-> d]
    OBVIOUS
  <2>2. Plan(s, request) = pl
    BY <2>1 DEF Plan
  <2>3. pl.destinations = d
    BY <2>1
  <2>4. PICK e : e = [i \in DOMAIN d |->
                        IF d[i].occupied THEN [d[i] EXCEPT !.decision = policy] ELSE d[i]]
    OBVIOUS
  <2>5. AllResolved(pl, policy) = [pl EXCEPT !.destinations = e]
    BY ONLY <2>3, <2>4 DEF AllResolved
  <2>6. e = R
    BY <2>1, <2>4
  <2> HIDE DEF D, R
  <2> QED BY <2>1, <2>2, <2>5, <2>6
<1>2. ASSUME NEW i \in 1 .. n
      PROVE  /\ "decision" \in DOMAIN R[i]
             /\ R[i].decision \in {"unresolved", "replace", "skip"}
  <2>1. R[i] = resolved(Destination(s, request, i))
    BY <1>2
  <2>2. PICK occupied, p, l, u :
          Destination(s, request, i) =
            [slice |-> i, pad |-> p, layer |-> l, padUuid |-> u, occupied |-> occupied,
             decision |-> IF occupied THEN "unresolved" ELSE "replace"]
    BY DEF Destination
  <2> QED BY <2>1, <2>2
<1>3. DOMAIN R = 1 .. n
  OBVIOUS
<1> HIDE DEF R
<1> QED BY <1>1, <1>2, <1>3 DEF IsPlan

\* A plan with one decision changed.
LEMMA DecidedTyped ==
  ASSUME NEW pl, IsPlan(pl), NEW i \in DOMAIN pl.destinations,
         NEW decision \in {"replace", "skip"}
  PROVE  IsPlan(Decided(pl, i, decision))
<1> DEFINE D == [pl.destinations EXCEPT ![i] = [pl.destinations[i] EXCEPT !.decision = decision]]
<1>1. Decided(pl, i, decision) = [request |-> pl.request, destinations |-> D]
  BY DEF Decided, IsPlan
<1>2. DOMAIN D = DOMAIN pl.destinations
  OBVIOUS
<1>3. ASSUME NEW j \in DOMAIN pl.destinations
      PROVE  /\ "decision" \in DOMAIN D[j]
             /\ D[j].decision \in {"unresolved", "replace", "skip"}
  <2>1. /\ "decision" \in DOMAIN pl.destinations[j]
        /\ pl.destinations[j].decision \in {"unresolved", "replace", "skip"}
    BY DEF IsPlan
  <2>2. CASE j = i
    <3>1. D[j] = [pl.destinations[j] EXCEPT !.decision = decision]
      BY <2>2
    <3> QED BY <2>1, <3>1
  <2>3. CASE j # i
    BY <2>1, <2>3
  <2> QED BY <2>2, <2>3
<1> HIDE DEF D
<1> QED BY <1>1, <1>2, <1>3 DEF IsPlan

\* Steps of planning make a plan, or leave none.
LEMMA PlanStepWaits ==
  ASSUME TypedNow,
         \/ \E p \in Pads, l \in Layers : PreviewAssignment(p, l)
         \/ ResolveConflict \/ DropPlan \/ CommitSliceAssignment
  PROVE  /\ Unplans \/ \E pl : Plans(pl)
         /\ fresh' = fresh
<1>1. ASSUME NEW p \in Pads, NEW l \in Layers, PreviewAssignment(p, l)
      PROVE  /\ \E pl : Plans(pl)
             /\ fresh' = fresh
  <2>1. PICK set \in CutSets(p, l), q \in EditedPads, byPads \in BOOLEAN, continue \in BOOLEAN,
             policy \in {"replace", "skip"} :
          LET request == [project |-> state.uuid, revision |-> project.revision,
                          pad |-> state.pads[p].uuid, set |-> set, byPads |-> byPads,
                          startPad |-> q, startLayer |-> 0, continue |-> continue]
          IN plan' = AllResolved(Plan(state, request), policy)
    BY <1>1 DEF PreviewAssignment
  <2> DEFINE request == [project |-> state.uuid, revision |-> project.revision,
                         pad |-> state.pads[p].uuid, set |-> set, byPads |-> byPads,
                         startPad |-> q, startLayer |-> 0, continue |-> continue]
  <2>2. IsSliceSet(set)
    BY <1>1, CutSetTyped DEF PreviewAssignment
  <2>3. /\ request.set = set /\ request.startPad \in Pads /\ request.startLayer = 0
        /\ request.byPads \in BOOLEAN /\ request.continue \in BOOLEAN
    BY EditsAssumption
  <2>4. plan' = AllResolved(Plan(state, request), policy)
    BY <2>1
  <2> HIDE DEF request
  <2>5. IsPlan(plan')
    BY <2>2, <2>3, <2>4, PlanTyped
  <2> QED BY <1>1, <2>5 DEF PreviewAssignment, Plans
<1>2. CASE ResolveConflict
  <2>1. PICK i \in DOMAIN plan.destinations, decision \in {"replace", "skip"} :
          plan' = Decided(plan, i, decision)
    BY <1>2 DEF ResolveConflict
  <2>2. plan # None /\ IsPlan(plan)
    BY <1>2 DEF ResolveConflict, TypedNow, WaitingTyped
  <2>3. IsPlan(plan')
    BY <2>1, <2>2, DecidedTyped
  <2> QED BY <1>2, <2>2, <2>3 DEF ResolveConflict, Plans
<1>3. CASE DropPlan
  BY <1>3 DEF DropPlan, Unplans
<1>4. CASE CommitSliceAssignment
  <2>1. CASE AssignedState(state, plan) = state
    BY <1>4, <2>1 DEF CommitSliceAssignment, Unplans
  <2>2. CASE AssignedState(state, plan) # state
    BY <1>4, <2>2 DEF CommitSliceAssignment, Unplans
  <2> QED BY <2>1, <2>2
<1> QED BY <1>1, <1>2, <1>3, <1>4

\* Every step.
LEMMA TypedWaits ==
  ASSUME TypedNow, fresh \in Nat, [Next]_vars
  PROVE  WaitForms /\ fresh' \in Nat
<1>1. CASE UNCHANGED vars
  BY <1>1 DEF vars, WaitForms
<1>2. CASE SetSettings
  BY <1>2, ProjectEditSettles DEF SetSettings, WaitForms
<1>3. CASE SetUiState
  BY <1>3 DEF SetUiState, Restore, Settles, WaitForms
<1>4. CASE \E p \in EditedPads, l \in Layers : LayerStep(p, l)
  BY <1>4, LayerStepWaits DEF WaitForms
<1>5. ASSUME NEW job \in jobs, JobStep(job) PROVE WaitForms /\ fresh' \in Nat
  <2>1. CASE CommitResult(job)
    BY <2>1 DEF CommitResult, Settles, WaitForms
  <2>2. CASE DropResult(job)
    BY <2>2 DEF DropResult, Drops, WaitForms
  <2> QED BY <1>5, <2>1, <2>2 DEF JobStep
<1>6. CASE \E p \in EditedPads : PadStep(p)
  BY <1>6, PadStepWaits DEF WaitForms
<1>7. CASE \/ \E p \in Pads, l \in Layers : PreviewAssignment(p, l)
           \/ ResolveConflict \/ DropPlan \/ CommitSliceAssignment
  BY <1>7, PlanStepWaits DEF WaitForms
<1>8. CASE CreateEmptyProject \/ RestoreProject
  BY <1>8 DEF CreateEmptyProject, RestoreProject, WaitForms
<1>9. CASE Undo
  BY <1>9 DEF Undo, Restore, Settles, WaitForms
<1>10. CASE Redo
  BY <1>10 DEF Redo, Restore, Settles, WaitForms
<1> QED
  BY <1>1, <1>2, <1>3, <1>4, <1>5, <1>6, <1>7, <1>8, <1>9, <1>10 DEF Next

-----------------------------------------------------------------------------
(* The invariant of the types.                                             *)

\* An edit on a stack goes from a typed state to one that has its slice sets.
IsEdit(edit) ==
  /\ IsProjectState(edit.before) /\ IsProjectState(edit.after)
  /\ edit.before.sliceSets \subseteq edit.after.sliceSets

StacksTyped ==
  /\ \A i \in 1 .. Len(undoHistory) : IsEdit(undoHistory[i])
  /\ \A i \in 1 .. Len(redoHistory) : IsEdit(redoHistory[i])

BoundsKept ==
  /\ project = [state |-> state, revision |-> project.revision]
  /\ project.revision \in 0 .. MaxRevision + Opened.revision + 1
  /\ IsFiniteSet(jobs) /\ Pending <= MaxPending
  /\ fresh \in Nat /\ life \in 0 .. MaxLives

EditsInv == HistoryInv /\ TypedNow /\ StacksTyped /\ BoundsKept

\* Content keeps the slice sets.
LEMMA ContentKeepsSets ==
  ASSUME NEW s, NEW t, IsProjectState(s), IsProjectState(t), Content(s) = Content(t)
  PROVE  s.sliceSets = t.sliceSets
<1>1. ASSUME NEW u, IsProjectState(u) PROVE Content(u).sliceSets = u.sliceSets
  <2>1. PICK A : A = {[a EXCEPT !.missing = FALSE] : a \in u.assets}
    OBVIOUS
  <2>2. PICK v : v = [u EXCEPT !.ui = 0]
    OBVIOUS
  <2>3. IsProjectState(v) /\ v.sliceSets = u.sliceSets
    BY <1>1, <2>2, FieldReplaced
  <2>4. Content(u) = [v EXCEPT !.assets = A]
    BY <2>1, <2>2 DEF Content
  <2>5. [v EXCEPT !.assets = A].sliceSets = v.sliceSets
    BY <2>3 DEF IsProjectState
  <2> QED BY <2>3, <2>4, <2>5
<1> QED BY <1>1

\* The top of a stack that undo or redo goes back to.
LEMMA TopsTyped ==
  ASSUME HistoryInv, TypedNow, StacksTyped
  PROVE  /\ undoHistory # <<>> =>
              LET edit == undoHistory[Len(undoHistory)]
              IN IsEdit(edit) /\ edit.after.sliceSets = state.sliceSets
         /\ redoHistory # <<>> =>
              LET edit == redoHistory[Len(redoHistory)]
              IN IsEdit(edit) /\ edit.before.sliceSets = state.sliceSets
<1>1. ASSUME undoHistory # <<>>
      PROVE  LET edit == undoHistory[Len(undoHistory)]
             IN IsEdit(edit) /\ edit.after.sliceSets = state.sliceSets
  <2>1. PICK edit : edit = undoHistory[Len(undoHistory)]
    OBVIOUS
  <2>2. Len(undoHistory) \in 1 .. Len(undoHistory)
    BY <1>1, ShortenedSequence DEF HistoryInv, EditsValid
  <2>3. IsEdit(edit) /\ Content(edit.after) = Content(state)
    BY <2>1, <2>2 DEF HistoryInv, Chained, StacksTyped
  <2>4. edit.after.sliceSets = state.sliceSets
    BY <2>3, ContentKeepsSets DEF IsEdit, TypedNow
  <2> QED BY <2>1, <2>3, <2>4
<1>2. ASSUME redoHistory # <<>>
      PROVE  LET edit == redoHistory[Len(redoHistory)]
             IN IsEdit(edit) /\ edit.before.sliceSets = state.sliceSets
  <2>1. PICK edit : edit = redoHistory[Len(redoHistory)]
    OBVIOUS
  <2>2. Len(redoHistory) \in 1 .. Len(redoHistory)
    BY <1>2, ShortenedSequence DEF HistoryInv, EditsValid
  <2>3. IsEdit(edit) /\ Content(edit.before) = Content(state)
    BY <2>1, <2>2 DEF HistoryInv, Chained, StacksTyped
  <2>4. edit.before.sliceSets = state.sliceSets
    BY <2>3, ContentKeepsSets DEF IsEdit, TypedNow
  <2> QED BY <2>1, <2>3, <2>4
<1> QED BY <1>1, <1>2

\* A stack whose top was taken off and put on the other one.
LEMMA MovedTyped ==
  ASSUME NEW from, NEW to, IsSequence(from), IsSequence(to), from # <<>>,
         \A i \in 1 .. Len(from) : IsEdit(from[i]),
         \A i \in 1 .. Len(to) : IsEdit(to[i])
  PROVE  LET rest == SubSeq(from, 1, Len(from) - 1)
             more == Append(to, from[Len(from)])
         IN /\ \A i \in 1 .. Len(rest) : IsEdit(rest[i])
            /\ \A i \in 1 .. Len(more) : IsEdit(more[i])
<1>1. PICK rest, more, top : /\ rest = SubSeq(from, 1, Len(from) - 1) /\ top = from[Len(from)]
                             /\ more = Append(to, top)
  OBVIOUS
<1>2. /\ Len(from) \in Nat \ {0} /\ Len(rest) = Len(from) - 1
      /\ \A i \in 1 .. Len(from) - 1 : rest[i] = from[i]
  BY <1>1, ShortenedSequence
<1>3. /\ Len(to) \in Nat /\ Len(more) = Len(to) + 1 /\ more[Len(to) + 1] = top
      /\ \A i \in 1 .. Len(to) : more[i] = to[i]
  BY <1>1, AppendedSequence
<1>4. \A i \in 1 .. Len(rest) : IsEdit(rest[i])
  BY <1>2
<1>5. ASSUME NEW i \in 1 .. Len(more) PROVE IsEdit(more[i])
  <2>1. CASE i = Len(to) + 1
    BY <1>1, <1>2, <1>3, <2>1
  <2>2. CASE i # Len(to) + 1
    BY <1>3, <2>2
  <2> QED BY <2>1, <2>2
<1> QED BY <1>1, <1>4, <1>5

\* Undo and redo move between typed states, and move one edit.
LEMMA UndoMoves ==
  ASSUME HistoryInv, TypedNow, StacksTyped, Undo
  PROVE  IsProjectState(state') /\ state'.sliceSets \subseteq state.sliceSets /\ StacksTyped'
<1>1. PICK edit : edit = undoHistory[Len(undoHistory)]
  OBVIOUS
<1>2. /\ state' = edit.before
      /\ undoHistory # <<>>
      /\ undoHistory' = SubSeq(undoHistory, 1, Len(undoHistory) - 1)
      /\ redoHistory' = Append(redoHistory, undoHistory[Len(undoHistory)])
  BY <1>1 DEF Undo, Restore, RestoreHandling, state
<1>3. IsEdit(edit) /\ edit.after.sliceSets = state.sliceSets
  BY <1>1, <1>2, TopsTyped
<1>4. StacksTyped'
  <2>1. /\ IsSequence(undoHistory) /\ IsSequence(redoHistory)
        /\ \A i \in 1 .. Len(undoHistory) : IsEdit(undoHistory[i])
        /\ \A i \in 1 .. Len(redoHistory) : IsEdit(redoHistory[i])
    BY DEF HistoryInv, EditsValid, StacksTyped
  <2>2. /\ \A i \in 1 .. Len(undoHistory') : IsEdit(undoHistory'[i])
        /\ \A i \in 1 .. Len(redoHistory') : IsEdit(redoHistory'[i])
    BY <1>2, <2>1, MovedTyped
  <2> QED BY <2>2 DEF StacksTyped
<1> QED BY <1>2, <1>3, <1>4 DEF IsEdit

\* The mirror image.
LEMMA RedoMoves ==
  ASSUME HistoryInv, TypedNow, StacksTyped, Redo
  PROVE  IsProjectState(state') /\ state.sliceSets \subseteq state'.sliceSets /\ StacksTyped'
<1>1. PICK edit : edit = redoHistory[Len(redoHistory)]
  OBVIOUS
<1>2. /\ state' = edit.after
      /\ redoHistory # <<>>
      /\ redoHistory' = SubSeq(redoHistory, 1, Len(redoHistory) - 1)
      /\ undoHistory' = Append(undoHistory, redoHistory[Len(redoHistory)])
  BY <1>1 DEF Redo, Restore, RestoreHandling, state
<1>3. IsEdit(edit) /\ edit.before.sliceSets = state.sliceSets
  BY <1>1, <1>2, TopsTyped
<1>4. StacksTyped'
  <2>1. /\ IsSequence(undoHistory) /\ IsSequence(redoHistory)
        /\ \A i \in 1 .. Len(undoHistory) : IsEdit(undoHistory[i])
        /\ \A i \in 1 .. Len(redoHistory) : IsEdit(redoHistory[i])
    BY DEF HistoryInv, EditsValid, StacksTyped
  <2>2. /\ \A i \in 1 .. Len(undoHistory') : IsEdit(undoHistory'[i])
        /\ \A i \in 1 .. Len(redoHistory') : IsEdit(redoHistory'[i])
    BY <1>2, <2>1, MovedTyped
  <2> QED BY <2>2 DEF StacksTyped
<1> QED BY <1>2, <1>3, <1>4 DEF IsEdit

\* An edit is put on the stack.
LEMMA EditStacks ==
  ASSUME HistoryInv, TypedNow, StacksTyped, Grown, EditStep
  PROVE  StacksTyped'
<1>1. PICK s : state' = s /\ PushHistory(s)
  BY RestoredIs DEF EditStep
<1>2. PICK edit : edit = [before |-> state, after |-> s]
  OBVIOUS
<1>3. IsEdit(edit)
  BY <1>1, <1>2 DEF IsEdit, Grown, TypedNow
<1>4. undoHistory' = Append(undoHistory, edit) /\ redoHistory' = <<>>
  BY <1>1, <1>2 DEF PushHistory
<1>5. /\ Len(undoHistory) \in Nat /\ Len(undoHistory') = Len(undoHistory) + 1
      /\ \A i \in 1 .. Len(undoHistory) : undoHistory'[i] = undoHistory[i]
      /\ undoHistory'[Len(undoHistory) + 1] = edit
  BY <1>4, AppendedSequence DEF HistoryInv, EditsValid
<1>6. ASSUME NEW i \in 1 .. Len(undoHistory') PROVE IsEdit(undoHistory'[i])
  <2>1. CASE i = Len(undoHistory) + 1
    BY <1>3, <1>5, <2>1
  <2>2. CASE i # Len(undoHistory) + 1
    BY <1>5, <2>2 DEF StacksTyped
  <2> QED BY <2>1, <2>2
<1>7. Len(redoHistory') = 0
  BY <1>4, EmptyIsSequence
<1> QED BY <1>6, <1>7 DEF StacksTyped

\* Every step leads to a typed state; while a project stays open, its slice sets only
\* grow or only shrink in it.
LEMMA StatesStep ==
  ASSUME HistoryInv, TypedNow, StacksTyped, life \in Nat, [Next]_vars
  PROVE  /\ IsProjectState(state') /\ StacksTyped'
         /\ life' = life => \/ state.sliceSets \subseteq state'.sliceSets
                            \/ state'.sliceSets \subseteq state.sliceSets
<1>1. CASE EditStep /\ Grown
  BY <1>1, EditStacks DEF Grown
<1>2. CASE (ViewStep \/ IdleStep) /\ Grown
  BY <1>2 DEF ViewStep, IdleStep, StacksTyped, Grown
<1>3. CASE Undo
  BY <1>3, UndoMoves
<1>4. CASE Redo
  BY <1>4, RedoMoves
<1>5. CASE StartStep /\ IsProjectState(state')
  <2>1. life' # life
    BY <1>5 DEF StartStep, StartOn
  <2>2. StacksTyped'
    BY <1>5, EmptyIsSequence DEF StartStep, StartOn, StacksTyped
  <2> QED BY <1>5, <2>1, <2>2
<1> QED BY <1>1, <1>2, <1>3, <1>4, <1>5, TypedForms DEF EditForms

-----------------------------------------------------------------------------
(* What waits to be used.                                                  *)

\* The jobs that outlive an edit, or a project.
LEMMA OutdatedTyped ==
  ASSUME IsFiniteSet(jobs), \A job \in jobs : IsJob(job), NEW pending, pending \subseteq jobs
  PROVE  /\ IsFiniteSet(Outdated(pending)) /\ Cardinality(Outdated(pending)) <= Cardinality(jobs)
         /\ \A job \in Outdated(pending) : IsJob(job)
         /\ LET reopened == {[job EXCEPT !.since = "reopened"] : job \in jobs}
            IN /\ IsFiniteSet(reopened) /\ Cardinality(reopened) <= Cardinality(jobs)
               /\ \A job \in reopened : IsJob(job)
<1> DEFINE edited(job) ==
             [job EXCEPT !.since = IF job.since = "reopened" THEN job.since ELSE "edited"]
           reopened(job) == [job EXCEPT !.since = "reopened"]
           E == Outdated(pending)
           R == {reopened(job) : job \in jobs}
<1>0. E = {edited(job) : job \in pending}
  BY DEF Outdated
<1>1. ASSUME NEW job \in jobs PROVE IsJob(edited(job)) /\ IsJob(reopened(job))
  <2>1. ASSUME NEW u PROVE IsJob([job EXCEPT !.since = u])
    BY DEF IsJob
  <2> QED BY <2>1
<1>2. /\ IsFiniteSet(pending) /\ Cardinality(pending) <= Cardinality(jobs)
      /\ Cardinality(pending) \in Nat /\ Cardinality(jobs) \in Nat
  BY FS_Subset, FS_CardinalityType
<1>3. IsFiniteSet(E) /\ Cardinality(E) <= Cardinality(pending)
  <2> DEFINE f == [job \in pending |-> edited(job)]
  <2>1. f \in Surjection(pending, E)
    <3> HIDE DEF edited, E
    <3>1. f \in [pending -> E]
      BY <1>0
    <3> QED BY <1>0, <3>1 DEF Surjection
  <2> HIDE DEF f, E
  <2> QED BY <1>2, <2>1, FS_Surjection
<1>4. IsFiniteSet(R) /\ Cardinality(R) <= Cardinality(jobs)
  <2> DEFINE f == [job \in jobs |-> reopened(job)]
  <2>1. f \in Surjection(jobs, R)
    <3> HIDE DEF reopened
    <3> QED BY DEF Surjection
  <2> HIDE DEF f, R
  <2> QED BY <2>1, FS_Surjection
<1>5. Cardinality(E) \in Nat /\ Cardinality(R) \in Nat
  BY <1>3, <1>4, FS_CardinalityType
<1>6. Cardinality(E) <= Cardinality(jobs)
  BY <1>2, <1>3, <1>5
<1>7. (\A job \in E : IsJob(job)) /\ \A job \in R : IsJob(job)
  <2> HIDE DEF edited, reopened, E
  <2> QED BY <1>0, <1>1
<1> HIDE DEF E
<1> QED BY <1>3, <1>4, <1>6, <1>7 DEF E

WaitingBounded == IsFiniteSet(jobs) /\ Pending <= MaxPending

\* What waits is typed, and no more of it than the bound.
LEMMA WaitingStep ==
  ASSUME TypedNow, WaitingBounded, WaitForms
  PROVE  WaitingTyped' /\ WaitingBounded'
<1> DEFINE held == IF clipboard = None THEN 0 ELSE 1
           shown == IF plan = None THEN 0 ELSE 1
<1>1. /\ Cardinality(jobs) \in Nat /\ held \in 0 .. 1 /\ shown \in 0 .. 1
      /\ Cardinality(jobs) + held + shown <= MaxPending
      /\ MaxPending \in Nat
  BY FS_CardinalityType, EditsAssumption DEF WaitingBounded, Pending
<1>2. WaitingTyped /\ \A job \in jobs : IsJob(job)
  BY DEF TypedNow, WaitingTyped
<1>3. ASSUME jobs' = jobs \/ \E handled : jobs' = Outdated(jobs \ handled)
      PROVE  /\ IsFiniteSet(jobs') /\ Cardinality(jobs') \in Nat
             /\ Cardinality(jobs') <= Cardinality(jobs) /\ \A job \in jobs' : IsJob(job)
  <2>1. CASE jobs' = jobs
    BY <1>1, <1>2, <2>1 DEF WaitingBounded
  <2>2. ASSUME NEW handled, jobs' = Outdated(jobs \ handled)
        PROVE  /\ IsFiniteSet(jobs') /\ Cardinality(jobs') <= Cardinality(jobs)
               /\ \A job \in jobs' : IsJob(job)
    BY <1>2, <2>2, OutdatedTyped DEF WaitingBounded
  <2> QED BY <1>3, <2>1, <2>2, FS_CardinalityType
<1>4. CASE Settles
  <2>1. \E handled : jobs' = Outdated(jobs \ handled)
    BY <1>4 DEF Settles, RestoreHandling
  <2>2. clipboard' = clipboard /\ plan' = plan
    BY <1>4 DEF Settles
  <2>3. /\ IsFiniteSet(jobs') /\ Cardinality(jobs') \in Nat
        /\ Cardinality(jobs') <= Cardinality(jobs) /\ \A job \in jobs' : IsJob(job)
    BY <1>3, <2>1
  <2> QED BY <1>1, <1>2, <2>2, <2>3 DEF WaitingTyped, WaitingBounded, Pending
<1>5. ASSUME NEW pad, Copies(pad) PROVE WaitingTyped' /\ WaitingBounded'
  <2>1. IsPad(pad) /\ clipboard' = pad /\ plan' = plan /\ jobs' = jobs
    BY <1>5 DEF Copies
  <2>2. clipboard = None => Cardinality(jobs) + held + shown < MaxPending
    BY <1>5 DEF Copies, MayBegin, Pending
  <2> QED BY <1>1, <1>2, <2>1, <2>2 DEF WaitingTyped, WaitingBounded, Pending
<1>6. ASSUME NEW job, Submits(job) PROVE WaitingTyped' /\ WaitingBounded'
  <2>1. IsJob(job) /\ jobs' = jobs \cup {job} /\ clipboard' = clipboard /\ plan' = plan
    BY <1>6 DEF Submits
  <2>2. Cardinality(jobs) + held + shown < MaxPending
    BY <1>6 DEF Submits, MayBegin, Pending
  <2>3. IsFiniteSet(jobs') /\ Cardinality(jobs') <= Cardinality(jobs) + 1
    BY <1>1, <2>1, FS_AddElement DEF WaitingBounded
  <2>4. Cardinality(jobs') \in Nat
    BY <2>3, FS_CardinalityType
  <2> QED BY <1>1, <1>2, <2>1, <2>2, <2>3, <2>4 DEF WaitingTyped, WaitingBounded, Pending
<1>7. ASSUME NEW job, Drops(job) PROVE WaitingTyped' /\ WaitingBounded'
  <2>1. jobs' = jobs \ {job} /\ clipboard' = clipboard /\ plan' = plan
    BY <1>7 DEF Drops
  <2>2. IsFiniteSet(jobs') /\ Cardinality(jobs') <= Cardinality(jobs)
    BY <1>1, <2>1, FS_RemoveElement DEF WaitingBounded
  <2>3. Cardinality(jobs') \in Nat
    BY <2>2, FS_CardinalityType
  <2> QED BY <1>1, <1>2, <2>1, <2>2, <2>3 DEF WaitingTyped, WaitingBounded, Pending
<1>8. ASSUME NEW pl, Plans(pl) PROVE WaitingTyped' /\ WaitingBounded'
  <2>1. IsPlan(pl) /\ plan' = pl /\ clipboard' = clipboard /\ jobs' = jobs
    BY <1>8 DEF Plans
  <2>2. plan = None => Cardinality(jobs) + held + shown < MaxPending
    BY <1>8 DEF Plans, MayBegin, Pending
  <2> QED BY <1>1, <1>2, <2>1, <2>2 DEF WaitingTyped, WaitingBounded, Pending
<1>9. CASE Unplans
  <2>1. plan' = None /\ clipboard' = clipboard
    BY <1>9 DEF Unplans
  <2>2. jobs' = jobs \/ \E handled : jobs' = Outdated(jobs \ handled)
    BY <1>9 DEF Unplans, Restore, RestoreHandling
  <2>3. /\ IsFiniteSet(jobs') /\ Cardinality(jobs') \in Nat
        /\ Cardinality(jobs') <= Cardinality(jobs) /\ \A job \in jobs' : IsJob(job)
    BY <1>3, <2>2
  <2> QED BY <1>1, <1>2, <2>1, <2>3 DEF WaitingTyped, WaitingBounded, Pending
<1>10. ASSUME NEW p, StartOn(p) PROVE WaitingTyped' /\ WaitingBounded'
  <2>1. /\ jobs' = {[job EXCEPT !.since = "reopened"] : job \in jobs}
        /\ clipboard' = None /\ plan' = None
    BY <1>10 DEF StartOn
  <2>2. /\ IsFiniteSet(jobs') /\ Cardinality(jobs') <= Cardinality(jobs)
        /\ \A job \in jobs' : IsJob(job)
    BY <1>2, <2>1, OutdatedTyped DEF WaitingBounded
  <2>3. Cardinality(jobs') \in Nat
    BY <2>2, FS_CardinalityType
  <2> QED BY <1>1, <2>1, <2>2, <2>3 DEF WaitingTyped, WaitingBounded, Pending
<1>11. CASE UNCHANGED <<project, clipboard, plan, jobs, life>>
  BY <1>1, <1>2, <1>11 DEF WaitingTyped, WaitingBounded, Pending
<1> QED BY <1>4, <1>5, <1>6, <1>7, <1>8, <1>9, <1>10, <1>11 DEF WaitForms

-----------------------------------------------------------------------------
(* The types.                                                              *)

\* The first project.
LEMMA EditsInit == Init => EditsInv
<1> SUFFICES ASSUME Init PROVE EditsInv
  OBVIOUS
<1>1. HistoryInv
  BY HistoryInit
<1>2. TypedNow
  BY DefaultsTyped DEF Init, TypedNow, WaitingTyped, state
<1>3. StacksTyped
  BY EmptyIsSequence DEF Init, StacksTyped
<1>4. BoundsKept
  BY FS_EmptySet, EditsAssumption DEF Init, BoundsKept, Pending, state
<1> QED BY <1>1, <1>2, <1>3, <1>4 DEF EditsInv

\* The revision.
LEMMA RevisionStep ==
  ASSUME TypedNow, BoundsKept, [Next]_vars
  PROVE  /\ project' = [state |-> state', revision |-> project'.revision]
         /\ project'.revision \in 0 .. MaxRevision + Opened.revision + 1
         /\ life' \in 0 .. MaxLives
<1> DEFINE after == /\ project' = [state |-> state', revision |-> project'.revision]
                    /\ project'.revision \in 0 .. MaxRevision + Opened.revision + 1
<1>0. Opened.revision \in Nat /\ MaxRevision \in Nat /\ MaxLives \in Nat
  BY EditsAssumption
<1>1. ASSUME NEW s, NEW handled, RestoreHandling(s, handled) PROVE after
  <2>1. /\ project' = [state |-> s, revision |-> project.revision + 1]
        /\ project'.revision = project.revision + 1 /\ project.revision < MaxRevision
    BY <1>1 DEF RestoreHandling
  <2>2. project'.revision \in 0 .. MaxRevision + Opened.revision + 1
    BY <1>0, <2>1 DEF BoundsKept
  <2> QED BY <2>1, <2>2 DEF state
<1>2. ASSUME EditStep PROVE after
  BY <1>1, <1>2 DEF EditStep
<1>3. ASSUME project'.revision \in 0 .. Opened.revision + 1,
             project' = [state |-> state', revision |-> project'.revision]
      PROVE  after
  BY <1>0, <1>3
<1>4. after
  <2>1. CASE ViewStep
    BY <1>1, <2>1 DEF ViewStep, Restore
  <2>2. CASE IdleStep
    BY <2>2 DEF IdleStep, BoundsKept, state
  <2>3. CASE Undo
    BY <1>1, <2>3 DEF Undo, Restore
  <2>4. CASE Redo
    BY <1>1, <2>4 DEF Redo, Restore
  <2> HIDE DEF after
  <2> QED BY <1>2, <1>3, <2>1, <2>2, <2>3, <2>4, TypedForms DEF EditForms
<1>5. life' = life \/ (life < MaxLives /\ life' = life + 1)
  <2>1. WaitForms
    BY TypedWaits DEF BoundsKept
  <2> QED BY <2>1 DEF WaitForms, Settles, Copies, Submits, Drops, Plans, Unplans, StartOn
<1> QED BY <1>0, <1>4, <1>5 DEF BoundsKept

\* Every step.
LEMMA EditsStep == EditsInv /\ [Next]_vars => EditsInv'
<1> SUFFICES ASSUME EditsInv, [Next]_vars PROVE EditsInv'
  OBVIOUS
<1>1. HistoryInv'
  BY HistoryStep DEF EditsInv
<1>2. IsProjectState(state') /\ StacksTyped'
  BY StatesStep DEF EditsInv, BoundsKept
<1>3. WaitForms /\ fresh' \in Nat
  BY TypedWaits DEF EditsInv, BoundsKept
<1>4. WaitingTyped' /\ WaitingBounded'
  BY <1>3, WaitingStep DEF EditsInv, BoundsKept, WaitingBounded
<1>5. BoundsKept'
  <2>1. /\ project' = [state |-> state', revision |-> project'.revision]
        /\ project'.revision \in 0 .. MaxRevision + Opened.revision + 1
        /\ life' \in 0 .. MaxLives
    BY RevisionStep DEF EditsInv
  <2> QED BY <1>3, <1>4, <2>1 DEF BoundsKept, WaitingBounded
<1> QED BY <1>1, <1>2, <1>4, <1>5 DEF EditsInv, TypedNow

\* The invariant of the edits.
LEMMA EditsHold == Spec => []EditsInv
  BY EditsInit, EditsStep, PTL DEF Spec

\* The controller's state keeps its shape: the project and the copied pad are complete
\* values of their structs and the project validates, whatever edits, results, undos and
\* files came before (ApplicationController.cpp, Project::restoreState()).
THEOREM ProjectTypes == Spec => []TypeOK
<1>1. EditsInv => TypeOK
  BY DEF EditsInv, HistoryInv, TypedNow, WaitingTyped, BoundsKept, TypeOK
<1> QED BY EditsHold, <1>1, PTL

-----------------------------------------------------------------------------
(* Slices keep their bounds.                                               *)

\* Two layers of valid projects that hold one slice play the same bounds, when the sets
\* of the one project are among those of the other.
LEMMA SliceFixesBounds ==
  ASSUME NEW s, NEW t, ProjectValid(s), ProjectValid(t), s.sliceSets \subseteq t.sliceSets,
         NEW p \in Pads, NEW l \in Layers,
         s.pads[p].layers[l].slice # None,
         s.pads[p].layers[l].slice = t.pads[p].layers[l].slice
  PROVE  /\ s.pads[p].layers[l].play.start = t.pads[p].layers[l].play.start
         /\ s.pads[p].layers[l].play.end = t.pads[p].layers[l].play.end
<1>1. PICK a, b : a = s.pads[p].layers[l] /\ b = t.pads[p].layers[l]
  OBVIOUS
<1>2. LayerValid(a) /\ LayerPlaybackResolves(s, a) /\ LayerValid(b) /\ LayerPlaybackResolves(t, b)
  BY <1>1 DEF ProjectValid
<1>3. PICK x \in s.sliceSets :
        /\ x.uuid = a.slice.set
        /\ a.play.start = x.regions[a.slice.region].start
        /\ a.play.end = x.regions[a.slice.region].end
  BY <1>1, <1>2 DEF LayerValid, LayerPlaybackResolves
<1>4. PICK y \in t.sliceSets :
        /\ y.uuid = b.slice.set
        /\ b.play.start = y.regions[b.slice.region].start
        /\ b.play.end = y.regions[b.slice.region].end
  BY <1>1, <1>2 DEF LayerValid, LayerPlaybackResolves
<1>5. x = y
  BY <1>1, <1>3, <1>4 DEF ProjectValid, SliceSetsResolve
<1> QED BY <1>1, <1>3, <1>4, <1>5

\* For as long as a layer holds a slice it plays that slice's bounds, in every step of an
\* open project: an undone or redone assignment takes its set along with its layers, and
\* no two sets of a project share a UUID (validateProjectState()).
THEOREM SliceBoundsStay == Spec => SlicesKeepTheirBounds
<1> DEFINE kept == \A p \in Pads, l \in Layers :
             LET now == state.pads[p].layers[l]
                 next == state'.pads[p].layers[l]
             IN now.slice # None /\ next.slice = now.slice /\ life' = life =>
                  next.play.start = now.play.start /\ next.play.end = now.play.end
<1>1. EditsInv /\ EditsInv' /\ [Next]_vars => [kept]_vars
  <2> SUFFICES ASSUME EditsInv, EditsInv', [Next]_vars,
                      NEW p \in Pads, NEW l \in Layers,
                      state.pads[p].layers[l].slice # None,
                      state'.pads[p].layers[l].slice = state.pads[p].layers[l].slice,
                      life' = life
               PROVE  /\ state'.pads[p].layers[l].play.start = state.pads[p].layers[l].play.start
                      /\ state'.pads[p].layers[l].play.end = state.pads[p].layers[l].play.end
    OBVIOUS
  <2>1. ProjectValid(state) /\ ProjectValid(state')
    BY DEF EditsInv, HistoryInv
  <2>2. \/ state.sliceSets \subseteq state'.sliceSets
        \/ state'.sliceSets \subseteq state.sliceSets
    BY StatesStep DEF EditsInv, BoundsKept
  <2>3. PICK s, t : s = state /\ t = state'
    OBVIOUS
  <2>4. CASE s.sliceSets \subseteq t.sliceSets
    BY <2>1, <2>3, <2>4, SliceFixesBounds
  <2>5. CASE t.sliceSets \subseteq s.sliceSets
    BY <2>1, <2>3, <2>5, SliceFixesBounds
  <2> QED BY <2>2, <2>3, <2>4, <2>5
<1> QED BY EditsHold, <1>1, PTL DEF Spec, SlicesKeepTheirBounds

-----------------------------------------------------------------------------
(* An assignment does what its plan shows.                                 *)

\* A number below n rows of m is in one of them.
LEMMA DivisionBelow ==
  ASSUME NEW a \in Nat, NEW m \in Nat \ {0}, NEW n \in Nat, a < n * m
  PROVE  a \div m < n
<1>1. PICK q \in Nat, r \in Nat : q = a \div m /\ a = m * q + r
  BY DivisionBy
<1>2. ASSUME n <= q PROVE FALSE
  <2>1. PICK d \in Nat : q = n + d
    <3>1. q - n \in Nat /\ q = n + (q - n)
      BY <1>2
    <3> QED BY <3>1
  <2>2. m * q = n * m + m * d /\ m * d \in Nat /\ n * m \in Nat
    BY <2>1
  <2> QED BY <1>1, <2>2
<1> QED BY <1>1, <1>2

\* Where the slices of a plan go: to layers of pads, no two to one layer, and by pads no
\* two to one pad.
PlacesOf(request, n) ==
  /\ \A i \in 1 .. n : DestinationPad(request, i) \in Pads /\ DestinationLayer(request, i) \in Layers
  /\ \A i, j \in 1 .. n :
       /\ DestinationPad(request, i) = DestinationPad(request, j)
       /\ request.byPads \/ DestinationLayer(request, i) = DestinationLayer(request, j)
       => i = j

\* The places of a plan are places of the grid, and no two slices share one.
LEMMA PlacesDiffer ==
  ASSUME NEW request, request.startPad \in Pads, request.startLayer = 0,
         request.byPads \in BOOLEAN, request.continue \in BOOLEAN,
         NEW n \in Nat, n <= Capacity(request)
  PROVE  PlacesOf(request, n)
<1> DEFINE first == request.startPad
<1>0. /\ NumPads \in Nat \ {0} /\ NumLayers \in Nat \ {0}
      /\ first \in 0 .. NumPads - 1
      /\ Pads = 0 .. NumPads - 1 /\ Layers = 0 .. NumLayers - 1
  BY ModelSizes DEF Pads, Layers
<1>1. CASE request.byPads
  <2>1. \A i \in 1 .. n : DestinationPad(request, i) = first + i - 1 /\ DestinationLayer(request, i) = 0
    BY <1>1 DEF DestinationPad, DestinationLayer
  <2>2. n <= NumPads - first
    BY <1>1 DEF Capacity
  <2> HIDE DEF first
  <2> QED BY <1>0, <2>1, <2>2 DEF PlacesOf
<1>2. CASE ~request.byPads /\ request.continue
  <2>1. \A i \in 1 .. n : /\ DestinationPad(request, i) = first + (i - 1) \div NumLayers
                          /\ DestinationLayer(request, i) = (i - 1) % NumLayers
    BY <1>2 DEF DestinationPad, DestinationLayer
  <2>2. n <= (NumPads - first) * NumLayers
    BY <1>0, <1>2 DEF Capacity
  <2> HIDE DEF first
  <2>3. ASSUME NEW i \in 1 .. n
        PROVE  /\ (i - 1) \div NumLayers \in Nat /\ (i - 1) % NumLayers \in 0 .. NumLayers - 1
               /\ i - 1 = NumLayers * ((i - 1) \div NumLayers) + ((i - 1) % NumLayers)
               /\ (i - 1) \div NumLayers < NumPads - first
    <3>1. PICK a \in Nat, rows \in Nat : a = i - 1 /\ rows = NumPads - first
      BY <1>0
    <3>2. a < rows * NumLayers
      <4>1. PICK size \in Int : size = rows * NumLayers
        BY <1>0
      <4>2. n <= size
        BY <2>2, <3>1, <4>1
      <4> QED BY <3>1, <4>1, <4>2
    <3>3. a \div NumLayers < rows
      BY <1>0, <3>2, DivisionBelow
    <3>4. /\ a \div NumLayers \in Nat /\ a % NumLayers \in 0 .. NumLayers - 1
          /\ a = NumLayers * (a \div NumLayers) + (a % NumLayers)
      BY <1>0, DivisionBy
    <3> QED BY <3>1, <3>3, <3>4
  <2>4. \A i \in 1 .. n : /\ DestinationPad(request, i) \in Pads
                          /\ DestinationLayer(request, i) \in Layers
    <3>1. ASSUME NEW i \in 1 .. n PROVE DestinationPad(request, i) \in Pads
      <4>1. PICK q \in Nat : q = (i - 1) \div NumLayers /\ q < NumPads - first
        BY <2>3
      <4> QED BY <1>0, <2>1, <4>1
    <3>2. ASSUME NEW i \in 1 .. n PROVE DestinationLayer(request, i) \in Layers
      BY <1>0, <2>1, <2>3
    <3> QED BY <3>1, <3>2
  <2>5. ASSUME NEW i \in 1 .. n, NEW j \in 1 .. n,
               DestinationPad(request, i) = DestinationPad(request, j),
               DestinationLayer(request, i) = DestinationLayer(request, j)
        PROVE  i = j
    <3>1. PICK q \in Nat, r \in Nat : q = (i - 1) \div NumLayers /\ r = (i - 1) % NumLayers
      BY <1>0, <2>3
    <3>2. PICK u \in Nat, v \in Nat : u = (j - 1) \div NumLayers /\ v = (j - 1) % NumLayers
      BY <1>0, <2>3
    <3>3. first + q = first + u /\ r = v
      BY <2>1, <2>5, <3>1, <3>2
    <3>4. q = u
      BY <1>0, <3>3
    <3>5. i - 1 = NumLayers * q + r /\ j - 1 = NumLayers * u + v
      BY <2>3, <3>1, <3>2
    <3>6. i - 1 = j - 1
      BY <3>3, <3>4, <3>5
    <3> QED BY <3>6
  <2> QED BY <1>2, <2>4, <2>5 DEF PlacesOf
<1>3. CASE ~request.byPads /\ ~request.continue
  <2>1. \A i \in 1 .. n : DestinationPad(request, i) = first /\ DestinationLayer(request, i) = i - 1
    BY <1>3 DEF DestinationPad, DestinationLayer
  <2>2. n <= NumLayers
    BY <1>0, <1>3 DEF Capacity
  <2> HIDE DEF first
  <2> QED BY <1>0, <1>3, <2>1, <2>2 DEF PlacesOf
<1> QED BY <1>1, <1>2, <1>3

\* The destinations of a plan that still matches are the places of its slices.
LEMMA PlanPlaces ==
  ASSUME NEW s, NEW pl, IsPlan(pl), PlanMatches(s, pl)
  PROVE  /\ PlacesOf(pl.request, Len(pl.request.set.regions))
         /\ Len(pl.request.set.regions) \in Nat
         /\ \A i \in 1 .. Len(pl.request.set.regions) :
              /\ pl.destinations[i].pad = DestinationPad(pl.request, i)
              /\ pl.destinations[i].layer = DestinationLayer(pl.request, i)
<1> DEFINE n == Len(pl.request.set.regions)
<1>1. n \in Nat /\ n <= Capacity(pl.request)
  BY LenProperties DEF IsPlan, IsSliceSet, PlanMatches, Plannable
<1>2. ASSUME NEW i \in 1 .. n
      PROVE  /\ pl.destinations[i].pad = DestinationPad(pl.request, i)
             /\ pl.destinations[i].layer = DestinationLayer(pl.request, i)
  <2>1. PICK d, decision :
          /\ d = pl.destinations[i]
          /\ decision = IF pl.destinations[i].occupied THEN "unresolved" ELSE "replace"
    OBVIOUS
  <2>2. Plan(s, pl.request).destinations[i] = [d EXCEPT !.decision = decision]
    BY <2>1 DEF PlanMatches, IsPlan
  <2>3. Plan(s, pl.request).destinations[i] = Destination(s, pl.request, i)
    BY DEF Plan
  <2>4. PICK p, l, x, y, z :
          /\ Destination(s, pl.request, i) =
               [slice |-> i, pad |-> p, layer |-> l, padUuid |-> x, occupied |-> y, decision |-> z]
          /\ p = DestinationPad(pl.request, i) /\ l = DestinationLayer(pl.request, i)
    BY DEF Destination
  <2>5. PICK e : e = [d EXCEPT !.decision = decision]
    OBVIOUS
  <2>6. /\ e = [slice |-> i, pad |-> p, layer |-> l, padUuid |-> x, occupied |-> y, decision |-> z]
    BY <2>2, <2>3, <2>4, <2>5
  <2>7. DOMAIN d = DOMAIN e
    BY <2>5
  <2>8. d.pad = e.pad /\ d.layer = e.layer
    BY <2>5, <2>6, <2>7
  <2> QED BY <2>1, <2>4, <2>6, <2>8
<1>3. PlacesOf(pl.request, n)
  <2> HIDE DEF n
  <2> QED BY <1>1, PlacesDiffer DEF IsPlan
<1> QED BY <1>1, <1>2, <1>3

\* What becomes of the layer a slice was planned for.
LEMMA SliceLands ==
  ASSUME NEW s, NEW pl, IsPlan(pl), PlanMatches(s, pl), ~Unresolved(pl),
         NEW i \in DOMAIN pl.destinations
  PROVE  LET d == pl.destinations[i]
         IN /\ d.pad \in Pads /\ d.layer \in Layers
            /\ LayerAfter(s, pl, d.pad, d.layer) =
                 IF d.decision = "skip" THEN s.pads[d.pad].layers[d.layer]
                 ELSE SliceLayer(pl.request.set, i)
<1>0. PICK d, n : d = pl.destinations[i] /\ n = Len(pl.request.set.regions)
  OBVIOUS
<1>1. /\ i \in 1 .. n /\ n \in Nat /\ PlacesOf(pl.request, n) /\ DOMAIN pl.destinations = 1 .. n
      /\ \A j \in 1 .. n : /\ pl.destinations[j].pad = DestinationPad(pl.request, j)
                           /\ pl.destinations[j].layer = DestinationLayer(pl.request, j)
  BY <1>0, PlanPlaces DEF IsPlan
<1>2. d.pad \in Pads /\ d.layer \in Layers
  BY <1>0, <1>1 DEF PlacesOf
<1>3. ASSUME NEW j \in 1 .. n, pl.destinations[j].pad = d.pad,
             pl.request.byPads \/ pl.destinations[j].layer = d.layer
      PROVE  j = i
  BY <1>0, <1>1, <1>3 DEF PlacesOf
<1>4. d.decision \in {"replace", "skip"}
  BY <1>0 DEF IsPlan, Unresolved
<1>5. Here(pl, d.pad) \subseteq 1 .. n /\ \A j \in Here(pl, d.pad) : pl.destinations[j].pad = d.pad
  BY <1>1 DEF Here, Chosen
<1>6. CASE d.decision = "replace"
  <2>1. i \in Here(pl, d.pad)
    BY <1>0, <1>6 DEF Here, Chosen
  <2>2. Landed(pl, d.pad, d.layer) = i
    <3>1. \A j \in Here(pl, d.pad) : pl.destinations[j].layer = d.layer => j = i
      BY <1>3, <1>5
    <3> QED BY <1>0, <2>1, <3>1 DEF Landed
  <2>3. LayerAfter(s, pl, d.pad, d.layer) = SliceLayer(pl.request.set, i)
    BY <1>0, <2>1, <2>2 DEF LayerAfter
  <2> QED BY <1>0, <1>2, <1>6, <2>3
<1>7. CASE d.decision = "skip"
  <2>1. i \notin Here(pl, d.pad)
    BY <1>0, <1>7 DEF Here, Chosen
  <2>2. ~ \E j \in Here(pl, d.pad) : pl.destinations[j].layer = d.layer
    BY <1>3, <1>5, <2>1
  <2>3. pl.request.byPads => Here(pl, d.pad) = {}
    BY <1>3, <1>5, <2>1
  <2>4. BaseOf(s, pl, d.pad) = s.pads[d.pad]
    BY <2>3 DEF BaseOf
  <2>5. LayerAfter(s, pl, d.pad, d.layer) = s.pads[d.pad].layers[d.layer]
    BY <2>2, <2>4 DEF LayerAfter
  <2> QED BY <1>0, <1>2, <1>7, <2>5
<1> QED BY <1>4, <1>6, <1>7

\* A pad the plan does not name stays as it was.
LEMMA PadUntouched ==
  ASSUME NEW s, IsProjectState(s), NEW pl, NEW p \in Pads,
         \A i \in DOMAIN pl.destinations : pl.destinations[i].pad # p
  PROVE  AssignedPad(s, pl, p) = s.pads[p]
<1>1. Here(pl, p) = {}
  BY DEF Here, Chosen
<1>2. PICK pad : pad = s.pads[p]
  OBVIOUS
<1>3. BaseOf(s, pl, p) = pad /\ \A l \in Layers : LayerAfter(s, pl, p, l) = pad.layers[l]
  BY <1>1, <1>2 DEF BaseOf, LayerAfter
<1>4. AssignedPad(s, pl, p) = [pad EXCEPT !.layers = [l \in Layers |-> pad.layers[l]]]
  BY <1>3, AssignedPadIs
<1>5. IsPad(pad)
  BY <1>2 DEF IsProjectState
<1>6. [pad EXCEPT !.layers = [l \in Layers |-> pad.layers[l]]] = pad
  <2>1. pad.layers = [l \in Layers |-> pad.layers[l]]
    BY <1>5 DEF IsPad
  <2>2. PICK L : L = [l \in Layers |-> pad.layers[l]]
    OBVIOUS
  <2>3. [pad EXCEPT !.layers = L] = pad
    BY <1>5, <2>1, <2>2 DEF IsPad
  <2> QED BY <2>2, <2>3
<1> QED BY <1>2, <1>4, <1>6

\* Only the commit of a plan ends it with an edit.
LEMMA PlanEnds ==
  ASSUME TypedNow, life \in Nat, fresh \in Nat, [Next]_vars,
         plan # None, plan' = None, life' = life, project' # project
  PROVE  /\ AssignmentCommits(state, project.revision, plan)
         /\ state' = AssignedState(state, plan)
<1>1. Unplans
  BY TypedWaits DEF WaitForms, Settles, Copies, Submits, Drops, Plans, StartOn
<1>2. CommitSliceAssignment /\ Restore(AssignedState(state, plan))
  BY <1>1 DEF Unplans
<1> QED BY <1>2, RestoredIs DEF CommitSliceAssignment, Restore

\* An assignment is all or nothing, and every slice goes where the plan shows it: no slice
\* takes another's place, what is skipped shifts nothing, and a pad outside the plan loses
\* nothing, for every grid of pads and every set of slices that fits
\* (buildAssignmentPlan(), commitSliceAssignment()).
THEOREM AssignmentsFollowPlans == Spec => AssignmentAsPlanned
<1> DEFINE planned ==
      plan # None /\ plan' = None /\ life' = life /\ project' # project =>
       /\ \A i \in DOMAIN plan.destinations :
            LET d == plan.destinations[i]
                layer == state'.pads[d.pad].layers[d.layer]
            IN IF d.decision = "skip"
               THEN layer = state.pads[d.pad].layers[d.layer]
               ELSE layer.slice = [set |-> plan.request.set.uuid, region |-> i]
       /\ \A p \in Pads :
            (\A i \in DOMAIN plan.destinations : plan.destinations[i].pad # p)
              => state'.pads[p] = state.pads[p]
<1>1. EditsInv /\ [Next]_vars => [planned]_vars
  <2> SUFFICES ASSUME EditsInv, [Next]_vars,
                      plan # None, plan' = None, life' = life, project' # project
               PROVE  planned
    OBVIOUS
  <2> DEFINE next == AssignedState(state, plan)
  <2>1. /\ AssignmentCommits(state, project.revision, plan)
        /\ state' = next
    BY PlanEnds DEF EditsInv, BoundsKept
  <2>2. IsProjectState(state) /\ IsPlan(plan)
    BY DEF EditsInv, TypedNow, WaitingTyped
  <2>3. /\ PlanMatches(state, plan) /\ ~Unresolved(plan) /\ SliceSetValid(plan.request.set)
    BY <2>1 DEF AssignmentCommits, PlanMatches, Plannable, SourceCurrent
  <2>4. \A p \in Pads : /\ next.pads[p] = AssignedPad(state, plan, p)
                        /\ \A l \in Layers : next.pads[p].layers[l] = LayerAfter(state, plan, p, l)
    BY <2>2, <2>3, AssignedTyped, AssignedPadTyped
  <2> HIDE DEF next
  <2>5. ASSUME NEW i \in DOMAIN plan.destinations
        PROVE  LET d == plan.destinations[i]
                   layer == next.pads[d.pad].layers[d.layer]
               IN IF d.decision = "skip"
                  THEN layer = state.pads[d.pad].layers[d.layer]
                  ELSE layer.slice = [set |-> plan.request.set.uuid, region |-> i]
    <3>1. PICK d, layer : d = plan.destinations[i] /\ layer = next.pads[d.pad].layers[d.layer]
      OBVIOUS
    <3>2. /\ d.pad \in Pads /\ d.layer \in Layers
          /\ LayerAfter(state, plan, d.pad, d.layer) =
               IF d.decision = "skip" THEN state.pads[d.pad].layers[d.layer]
               ELSE SliceLayer(plan.request.set, i)
      BY <2>2, <2>3, <3>1, SliceLands
    <3>3. layer = LayerAfter(state, plan, d.pad, d.layer)
      BY <2>4, <3>1, <3>2
    <3>4. i \in 1 .. Len(plan.request.set.regions)
      BY <2>2 DEF IsPlan
    <3>5. SliceLayer(plan.request.set, i).slice = [set |-> plan.request.set.uuid, region |-> i]
      BY <2>2, <2>3, <3>4, SliceLayerTyped DEF IsPlan
    <3> QED BY <3>1, <3>2, <3>3, <3>5
  <2>6. ASSUME NEW p \in Pads, \A i \in DOMAIN plan.destinations : plan.destinations[i].pad # p
        PROVE  next.pads[p] = state.pads[p]
    BY <2>2, <2>4, <2>6, PadUntouched
  <2> QED BY <2>1, <2>5, <2>6
<1> QED BY EditsHold, <1>1, PTL DEF Spec, AssignmentAsPlanned

-----------------------------------------------------------------------------
(* What is written to a manifest reads back as it was.                     *)

\* samplePlaybackValue() and readSamplePlayback().
LEMMA PlaybackReads ==
  ASSUME NEW play \in Playbacks, play.init
  PROVE  /\ ReadPlayback(WrittenPlayback(play)) = play
         /\ Conforms(WrittenPlayback(play), PlaybackKinds)
         /\ Conforms(WrittenPlayback(play), PlaybackFlags)
<1>1. PICK object : object = WrittenPlayback(play)
  OBVIOUS
<1>2. /\ DOMAIN object = {"startFrame", "endFrame", "loopStartFrame", "loopEndFrame",
                          "loopEnabled", "reverseEnabled", "zeroCrossingSnap"}
      /\ object.startFrame = Decimal(play.start) /\ object.endFrame = Decimal(play.end)
      /\ object.loopStartFrame = Decimal(play.loopStart)
      /\ object.loopEndFrame = Decimal(play.loopEnd)
      /\ object.loopEnabled = Bool(play.loop) /\ object.reverseEnabled = Bool(play.reverse)
      /\ object.zeroCrossingSnap = Bool(play.snap)
  BY <1>1 DEF WrittenPlayback
<1>3. /\ \A v : Decimal(v).value = v /\ Decimal(v).kind = "decimal"
      /\ \A v : Bool(v).value = v /\ Bool(v).kind = "bool"
  BY DEF Decimal, Bool, Json
<1>4. Conforms(object, PlaybackKinds)
  BY <1>2, <1>3 DEF Conforms, PlaybackKinds
<1>5. Conforms(object, PlaybackFlags)
  BY <1>2, <1>3 DEF Conforms, PlaybackFlags
<1>6. ReadPlayback(object) =
        [init |-> TRUE, start |-> play.start, end |-> play.end, loopStart |-> play.loopStart,
         loopEnd |-> play.loopEnd, loop |-> play.loop, reverse |-> play.reverse,
         snap |-> play.snap]
  <2>1. /\ object.startFrame.value = play.start /\ object.endFrame.value = play.end
        /\ object.loopStartFrame.value = play.loopStart
        /\ object.loopEndFrame.value = play.loopEnd
        /\ object.loopEnabled.value = play.loop /\ object.reverseEnabled.value = play.reverse
        /\ object.zeroCrossingSnap.value = play.snap
    BY <1>2, <1>3
  <2> QED BY <2>1 DEF ReadPlayback
<1>7. play.init = TRUE
  BY DEF Playbacks
<1>8. play = [init |-> TRUE, start |-> play.start, end |-> play.end,
              loopStart |-> play.loopStart, loopEnd |-> play.loopEnd, loop |-> play.loop,
              reverse |-> play.reverse, snap |-> play.snap]
  BY <1>7 DEF Playbacks
<1> QED BY <1>1, <1>4, <1>5, <1>6, <1>8

\* The properties of a written layer.
LEMMA LayerWritten ==
  ASSUME NEW layer, IsLayer(layer)
  PROVE  LET object == WrittenLayer(layer)
         IN /\ {"assetUuid", "enabled"} \subseteq DOMAIN object
            /\ object.assetUuid = Text(layer.asset) /\ object.enabled = Bool(layer.enabled)
            /\ "editing" \in DOMAIN object <=> layer.play.init
            /\ layer.play.init => object.editing = Object(WrittenPlayback(layer.play))
            /\ "sliceAssignment" \in DOMAIN object <=> layer.slice # None
            /\ layer.slice # None => object.sliceAssignment = Text(layer.slice)
<1>1. PICK base, editing, slice :
        /\ base = [assetUuid |-> Text(layer.asset), enabled |-> Bool(layer.enabled)]
        /\ editing = [editing |-> Object(WrittenPlayback(layer.play))]
        /\ slice = [sliceAssignment |-> Text(layer.slice)]
  OBVIOUS
<1>2. PICK with, object : /\ with = With(base, editing, layer.play.init)
                          /\ object = With(with, slice, layer.slice # None)
  OBVIOUS
<1>3. WrittenLayer(layer) = object
  BY <1>1, <1>2 DEF WrittenLayer
<1>4. /\ DOMAIN base = {"assetUuid", "enabled"} /\ DOMAIN editing = {"editing"}
      /\ DOMAIN slice = {"sliceAssignment"}
      /\ base.assetUuid = Text(layer.asset) /\ base.enabled = Bool(layer.enabled)
      /\ editing.editing = Object(WrittenPlayback(layer.play))
      /\ slice.sliceAssignment = Text(layer.slice)
  BY <1>1
<1>5. /\ DOMAIN with = {"assetUuid", "enabled"} \cup
                         (IF layer.play.init THEN {"editing"} ELSE {})
      /\ with.assetUuid = base.assetUuid /\ with.enabled = base.enabled
      /\ layer.play.init => with.editing = editing.editing
  BY <1>2, <1>4 DEF With
<1>6. /\ DOMAIN object = DOMAIN with \cup
                           (IF layer.slice # None THEN {"sliceAssignment"} ELSE {})
      /\ object.assetUuid = base.assetUuid /\ object.enabled = base.enabled
      /\ layer.play.init => object.editing = editing.editing
      /\ layer.slice # None => object.sliceAssignment = slice.sliceAssignment
  BY <1>2, <1>4, <1>5 DEF With
<1> QED BY <1>3, <1>4, <1>5, <1>6

\* layerValue() and readLayer().
LEMMA LayerReads ==
  ASSUME NEW layer, IsLayer(layer), LayerValid(layer)
  PROVE  LayerReadable(WrittenLayer(layer)) /\ ReadLayer(WrittenLayer(layer)) = layer
<1>1. PICK object : object = WrittenLayer(layer)
  OBVIOUS
<1>2. /\ {"assetUuid", "enabled"} \subseteq DOMAIN object
      /\ object.assetUuid = Text(layer.asset) /\ object.enabled = Bool(layer.enabled)
      /\ "editing" \in DOMAIN object <=> layer.play.init
      /\ layer.play.init => object.editing = Object(WrittenPlayback(layer.play))
      /\ "sliceAssignment" \in DOMAIN object <=> layer.slice # None
      /\ layer.slice # None => object.sliceAssignment = Text(layer.slice)
  BY <1>1, LayerWritten
<1>3. /\ \A v : Text(v).value = v /\ Text(v).kind = "text"
      /\ \A v : Bool(v).value = v /\ Bool(v).kind = "bool"
      /\ \A v : Object(v).value = v /\ Object(v).kind = "object"
  BY DEF Text, Bool, Object, Json
<1>4. layer.play \in Playbacks
  BY DEF IsLayer
<1>5. LayerReadable(object)
  <2>1. Conforms(object, [assetUuid |-> "text", enabled |-> "bool"])
    BY <1>2, <1>3 DEF Conforms
  <2>2. ASSUME layer.play.init
        PROVE  /\ object.editing.kind = "object"
               /\ Conforms(object.editing.value, PlaybackKinds)
               /\ Conforms(object.editing.value, PlaybackFlags)
    BY <1>2, <1>3, <1>4, <2>2, PlaybackReads
  <2> QED BY <1>2, <1>3, <2>1, <2>2 DEF LayerReadable
<1>6. PICK play : play = IF "editing" \in DOMAIN object THEN ReadPlayback(object.editing.value)
                         ELSE NoPlayback
  OBVIOUS
<1>7. play = layer.play
  <2>1. CASE layer.play.init
    BY <1>2, <1>3, <1>4, <1>6, <2>1, PlaybackReads
  <2>2. CASE ~layer.play.init
    BY <1>2, <1>6, <2>2 DEF LayerValid
  <2> QED BY <2>1, <2>2
<1>8. PICK slice : slice = IF "sliceAssignment" \in DOMAIN object
                           THEN object.sliceAssignment.value ELSE None
  OBVIOUS
<1>9. slice = layer.slice
  BY <1>2, <1>3, <1>8
<1>10. ReadLayer(object) = [asset |-> layer.asset, enabled |-> layer.enabled,
                            slice |-> slice, play |-> play]
  BY <1>2, <1>3, <1>6, <1>8 DEF ReadLayer
<1>11. layer = [asset |-> layer.asset, enabled |-> layer.enabled,
                slice |-> layer.slice, play |-> layer.play]
  BY DEF IsLayer
<1> QED BY <1>1, <1>5, <1>7, <1>9, <1>10, <1>11

\* sliceSetValue() and readSliceSet().
LEMMA SliceSetReads ==
  ASSUME NEW set, IsSliceSet(set)
  PROVE  SliceSetReadable(WrittenSliceSet(set)) /\ ReadSliceSet(WrittenSliceSet(set)) = set
<1>1. PICK object, written :
        /\ object = WrittenSliceSet(set)
        /\ written = [i \in DOMAIN set.regions |-> WrittenRegion(set.regions[i])]
  OBVIOUS
<1>2. /\ DOMAIN object = {"uuid", "algorithm", "remainderPolicy", "sourceAssetUuid",
                          "sourceLayerUuid", "sourceTrimStart", "sourceTrimEnd", "slices"}
      /\ object.uuid = Text(set.uuid)
      /\ object.algorithm = Text(AlgorithmName(set.algorithm))
      /\ object.remainderPolicy = Text(IF set.discard THEN "discard" ELSE "include")
      /\ object.sourceAssetUuid = Text(set.asset) /\ object.sourceLayerUuid = Text(set.layer)
      /\ object.sourceTrimStart = Decimal(set.trimStart)
      /\ object.sourceTrimEnd = Decimal(set.trimEnd)
      /\ object.slices = Array(written)
  BY <1>1 DEF WrittenSliceSet
<1>3. /\ \A v : Text(v).value = v /\ Text(v).kind = "text"
      /\ \A v : Decimal(v).value = v /\ Decimal(v).kind = "decimal"
      /\ \A v : Array(v).value = v /\ Array(v).kind = "array"
  BY DEF Text, Decimal, Array, Json
<1>4. /\ set.regions \in [1 .. Len(set.regions) -> [start : Int, end : Int]]
      /\ DOMAIN set.regions = 1 .. Len(set.regions)
  BY LenProperties DEF IsSliceSet
<1>5. ASSUME NEW i \in DOMAIN set.regions
      PROVE  /\ Conforms(written[i], [startFrame |-> "decimal", endFrame |-> "decimal"])
             /\ ReadRegion(written[i]) = set.regions[i]
  <2>1. PICK region : region = set.regions[i]
    OBVIOUS
  <2>2. region = [start |-> region.start, end |-> region.end]
    BY <1>4, <2>1
  <2>3. written[i] = [startFrame |-> Decimal(region.start), endFrame |-> Decimal(region.end)]
    BY <1>1, <2>1 DEF WrittenRegion
  <2>4. Conforms(written[i], [startFrame |-> "decimal", endFrame |-> "decimal"])
    BY <1>3, <2>3 DEF Conforms
  <2>5. ReadRegion(written[i]) = [start |-> region.start, end |-> region.end]
    BY <1>3, <2>3 DEF ReadRegion, Region
  <2> QED BY <2>1, <2>2, <2>4, <2>5
<1>6. DOMAIN written = DOMAIN set.regions
  BY <1>1
<1>7. [i \in DOMAIN written |-> ReadRegion(written[i])] = set.regions
  BY <1>4, <1>5, <1>6
<1>8. /\ AlgorithmName(set.algorithm) \in {"equal", "fixed-length", "transient", "manual", "lazy"}
      /\ ReadAlgorithm(AlgorithmName(set.algorithm)) = set.algorithm
  BY DEF IsSliceSet, Algorithms, AlgorithmName, ReadAlgorithm
<1>9. SliceSetReadable(object)
  <2>1. Conforms(object, [uuid |-> "text", algorithm |-> "text", remainderPolicy |-> "text",
                          sourceAssetUuid |-> "text", sourceLayerUuid |-> "text",
                          sourceTrimStart |-> "decimal", sourceTrimEnd |-> "decimal",
                          slices |-> "array"])
    BY <1>2, <1>3 DEF Conforms
  <2> QED BY <1>2, <1>3, <1>5, <1>6, <1>8, <2>1 DEF SliceSetReadable
<1>10. (object.remainderPolicy.value = "discard") = set.discard
  BY <1>2, <1>3 DEF IsSliceSet
<1>11. ReadSliceSet(object) =
         [uuid |-> set.uuid, algorithm |-> set.algorithm, discard |-> set.discard,
          asset |-> set.asset, layer |-> set.layer, trimStart |-> set.trimStart,
          trimEnd |-> set.trimEnd, regions |-> set.regions]
  <2>1. PICK regions, discard, algorithm :
          /\ regions = [i \in DOMAIN written |-> ReadRegion(written[i])]
          /\ discard = (object.remainderPolicy.value = "discard")
          /\ algorithm = ReadAlgorithm(object.algorithm.value)
    OBVIOUS
  <2>2. ReadSliceSet(object) =
         [uuid |-> set.uuid, algorithm |-> algorithm, discard |-> discard,
          asset |-> set.asset, layer |-> set.layer, trimStart |-> set.trimStart,
          trimEnd |-> set.trimEnd, regions |-> regions]
    BY <1>2, <1>3, <2>1 DEF ReadSliceSet
  <2> QED BY <1>2, <1>3, <1>7, <1>8, <1>10, <2>1, <2>2
<1>12. set = [uuid |-> set.uuid, algorithm |-> set.algorithm, discard |-> set.discard,
              asset |-> set.asset, layer |-> set.layer, trimStart |-> set.trimStart,
              trimEnd |-> set.trimEnd, regions |-> set.regions]
  BY DEF IsSliceSet
<1> QED BY <1>1, <1>9, <1>11, <1>12

\* padValue() and readPad().
LEMMA PadReads ==
  ASSUME NEW pad, IsPad(pad), \A l \in Layers : LayerValid(pad.layers[l])
  PROVE  PadReadable(WrittenPad(pad)) /\ ReadPad(WrittenPad(pad)) = pad
<1>1. PICK object, written :
        /\ object = WrittenPad(pad)
        /\ written = [l \in Layers |-> WrittenLayer(pad.layers[l])]
  OBVIOUS
<1>2. /\ DOMAIN object = {"uuid", "name", "colourArgb", "parameters", "mapping", "layers"}
      /\ object.uuid = Text(pad.uuid) /\ object.name = Text(pad.name)
      /\ object.colourArgb = Text(pad.colour) /\ object.parameters = Object(pad.parameters)
      /\ object.mapping = Text(pad.mapping) /\ object.layers = Array(written)
  BY <1>1 DEF WrittenPad
<1>3. /\ \A v : Text(v).value = v /\ Text(v).kind = "text"
      /\ \A v : Object(v).value = v /\ Object(v).kind = "object"
      /\ \A v : Array(v).value = v /\ Array(v).kind = "array"
  BY DEF Text, Object, Array, Json
<1>4. ASSUME NEW l \in Layers
      PROVE  LayerReadable(written[l]) /\ ReadLayer(written[l]) = pad.layers[l]
  <2>1. IsLayer(pad.layers[l])
    BY DEF IsPad
  <2> QED BY <1>1, <2>1, LayerReads
<1>5. PadReadable(object)
  <2>1. Conforms(object, [uuid |-> "text", name |-> "text", colourArgb |-> "text",
                          parameters |-> "object", mapping |-> "text", layers |-> "array"])
    BY <1>2, <1>3 DEF Conforms
  <2>2. object.layers.value = written /\ DOMAIN written = Layers
    BY <1>1, <1>2, <1>3
  <2> QED BY <1>4, <2>1, <2>2 DEF PadReadable
<1>6. PICK layers : layers = [l \in Layers |-> ReadLayer(object.layers.value[l])]
  OBVIOUS
<1>7. layers = [l \in Layers |-> pad.layers[l]]
  <2>1. object.layers.value = written
    BY <1>2, <1>3
  <2> QED BY <1>4, <1>6, <2>1
<1>8. ReadPad(object) = [uuid |-> pad.uuid, name |-> pad.name, colour |-> pad.colour,
                         parameters |-> pad.parameters, mapping |-> pad.mapping,
                         layers |-> layers]
  <2>1. /\ object.uuid.value = pad.uuid /\ object.name.value = pad.name
        /\ object.colourArgb.value = pad.colour /\ object.parameters.value = pad.parameters
        /\ object.mapping.value = pad.mapping
    BY <1>2, <1>3
  <2> QED BY <1>6, <2>1 DEF ReadPad
<1>9. pad = [uuid |-> pad.uuid, name |-> pad.name, colour |-> pad.colour,
             parameters |-> pad.parameters, mapping |-> pad.mapping, layers |-> layers]
  BY <1>7 DEF IsPad
<1> QED BY <1>1, <1>5, <1>8, <1>9

\* assetValue(), derivedAssetValue(), recordedAssetValue() and what reads them.
LEMMA RecordsRead ==
  /\ \A a : IsAsset(a) => Conforms(WrittenAsset(a), AssetKinds) /\ ReadAsset(WrittenAsset(a)) = a
  /\ \A d : IsDerived(d) =>
       Conforms(WrittenDerived(d), DerivedKinds) /\ ReadDerived(WrittenDerived(d)) = d
  /\ \A r : IsRecorded(r) =>
       Conforms(WrittenRecorded(r), RecordedKinds) /\ ReadRecorded(WrittenRecorded(r)) = r
<1>1. /\ \A v : Text(v).value = v /\ Text(v).kind = "text"
      /\ \A v : Decimal(v).value = v /\ Decimal(v).kind = "decimal"
      /\ \A v : Bool(v).value = v /\ Bool(v).kind = "bool"
  BY DEF Text, Decimal, Bool, Json
<1>2. ASSUME NEW a, IsAsset(a)
      PROVE  Conforms(WrittenAsset(a), AssetKinds) /\ ReadAsset(WrittenAsset(a)) = a
  <2>1. PICK object : object = [uuid |-> Text(a.uuid), frameCount |-> Decimal(a.frames),
                                missing |-> Bool(a.missing)]
    OBVIOUS
  <2>2. Conforms(object, AssetKinds)
    BY <1>1, <2>1 DEF Conforms, AssetKinds
  <2>3. ReadAsset(object) = [uuid |-> a.uuid, frames |-> a.frames, missing |-> a.missing]
    BY <1>1, <2>1 DEF ReadAsset
  <2> QED BY <1>2, <2>1, <2>2, <2>3 DEF WrittenAsset, IsAsset
<1>3. ASSUME NEW d, IsDerived(d)
      PROVE  Conforms(WrittenDerived(d), DerivedKinds) /\ ReadDerived(WrittenDerived(d)) = d
  <2>1. PICK object : object = [derivedAssetUuid |-> Text(d.asset), parentAssetUuid |-> Text(d.parent)]
    OBVIOUS
  <2>2. Conforms(object, DerivedKinds)
    BY <1>1, <2>1 DEF Conforms, DerivedKinds
  <2>3. ReadDerived(object) = [asset |-> d.asset, parent |-> d.parent]
    BY <1>1, <2>1 DEF ReadDerived
  <2> QED BY <1>3, <2>1, <2>2, <2>3 DEF WrittenDerived, IsDerived
<1>4. ASSUME NEW r, IsRecorded(r)
      PROVE  Conforms(WrittenRecorded(r), RecordedKinds) /\ ReadRecorded(WrittenRecorded(r)) = r
  <2>1. PICK object :
          object = [recordedAssetUuid |-> Text(r.asset), frameCount |-> Decimal(r.frames),
                    targetProjectUuid |-> Text(r.project), targetLayerUuid |-> Text(r.layer)]
    OBVIOUS
  <2>2. Conforms(object, RecordedKinds)
    BY <1>1, <2>1 DEF Conforms, RecordedKinds
  <2>3. ReadRecorded(object) = [asset |-> r.asset, frames |-> r.frames, project |-> r.project,
                                layer |-> r.layer]
    BY <1>1, <2>1 DEF ReadRecorded
  <2> QED BY <1>4, <2>1, <2>2, <2>3 DEF WrittenRecorded, IsRecorded
<1> QED BY <1>2, <1>3, <1>4

\* A manifest that has the sections readers demand of a project as they were written, and
\* the others as they were written if at all; and what it says.
WrittenOf(M, s, revision) ==
  /\ {"projectUuid", "revision", "banks", "assets", "audio", "midi", "ui"} \subseteq DOMAIN M
  /\ M.projectUuid = Text(s.uuid) /\ M.revision = Decimal(revision)
  /\ M.banks = WrittenBanks(s) /\ M.assets = Array({WrittenAsset(a) : a \in s.assets})
  /\ M.audio = Object(s.settings.audio) /\ M.midi = Object(s.settings.midi)
  /\ M.ui = Object(s.ui)
  /\ "derivedAssets" \in DOMAIN M => M.derivedAssets = Array({WrittenDerived(d) : d \in s.derived})
  /\ "recordedAssets" \in DOMAIN M => M.recordedAssets = Array({WrittenRecorded(r) : r \in s.recorded})
  /\ "sliceSets" \in DOMAIN M => M.sliceSets = Array({WrittenSliceSet(x) : x \in s.sliceSets})
  /\ "recording" \in DOMAIN M => M.recording = Object(s.settings.recording)

SaidBy(M, s) ==
  [uuid |-> s.uuid, pads |-> s.pads, assets |-> s.assets,
   derived |-> IF "derivedAssets" \in DOMAIN M THEN s.derived ELSE {},
   recorded |-> IF "recordedAssets" \in DOMAIN M THEN s.recorded ELSE {},
   sliceSets |-> IF "sliceSets" \in DOMAIN M THEN s.sliceSets ELSE {},
   settings |-> [audio |-> s.settings.audio, midi |-> s.settings.midi,
                 recording |-> IF "recording" \in DOMAIN M THEN s.settings.recording
                               ELSE "default"],
   ui |-> s.ui]

\* The values of the sections, as readers take them.
LEMMA EntriesRead ==
  ASSUME NEW s, IsProjectState(s), NEW M, NEW revision, WrittenOf(M, s, revision)
  PROVE  /\ \A a \in M.assets.value : Conforms(a, AssetKinds)
         /\ \A d \in Entries(M, "derivedAssets") : Conforms(d, DerivedKinds)
         /\ \A r \in Entries(M, "recordedAssets") : Conforms(r, RecordedKinds)
         /\ \A x \in Entries(M, "sliceSets") : SliceSetReadable(x)
         /\ {ReadAsset(a) : a \in M.assets.value} = s.assets
         /\ {ReadDerived(d) : d \in Entries(M, "derivedAssets")} = SaidBy(M, s).derived
         /\ {ReadRecorded(r) : r \in Entries(M, "recordedAssets")} = SaidBy(M, s).recorded
         /\ {ReadSliceSet(x) : x \in Entries(M, "sliceSets")} = SaidBy(M, s).sliceSets
<1>0. \A v : Array(v).value = v
  BY DEF Array, Json
<1>1. /\ \A a \in M.assets.value : Conforms(a, AssetKinds)
      /\ {ReadAsset(a) : a \in M.assets.value} = s.assets
  <2>1. M.assets.value = {WrittenAsset(a) : a \in s.assets}
    BY <1>0 DEF WrittenOf
  <2>2. \A a \in s.assets : /\ Conforms(WrittenAsset(a), AssetKinds)
                            /\ ReadAsset(WrittenAsset(a)) = a
    BY RecordsRead DEF IsProjectState
  <2> QED BY <2>1, <2>2
<1>2. /\ \A d \in Entries(M, "derivedAssets") : Conforms(d, DerivedKinds)
      /\ {ReadDerived(d) : d \in Entries(M, "derivedAssets")} = SaidBy(M, s).derived
  <2>1. PICK E : E = Entries(M, "derivedAssets")
    OBVIOUS
  <2>2. \A d \in s.derived : /\ Conforms(WrittenDerived(d), DerivedKinds)
                             /\ ReadDerived(WrittenDerived(d)) = d
    BY RecordsRead DEF IsProjectState
  <2>3. CASE "derivedAssets" \in DOMAIN M
    <3>1. E = {WrittenDerived(d) : d \in s.derived}
      BY <1>0, <2>1, <2>3 DEF WrittenOf, Entries
    <3>2. SaidBy(M, s).derived = s.derived
      BY <2>3 DEF SaidBy
    <3> QED BY <2>1, <2>2, <3>1, <3>2
  <2>4. CASE "derivedAssets" \notin DOMAIN M
    <3>1. E = {} /\ SaidBy(M, s).derived = {}
      BY <2>1, <2>4 DEF Entries, SaidBy
    <3> QED BY <2>1, <3>1
  <2> QED BY <2>3, <2>4
<1>3. /\ \A r \in Entries(M, "recordedAssets") : Conforms(r, RecordedKinds)
      /\ {ReadRecorded(r) : r \in Entries(M, "recordedAssets")} = SaidBy(M, s).recorded
  <2>1. PICK E : E = Entries(M, "recordedAssets")
    OBVIOUS
  <2>2. \A r \in s.recorded : /\ Conforms(WrittenRecorded(r), RecordedKinds)
                              /\ ReadRecorded(WrittenRecorded(r)) = r
    BY RecordsRead DEF IsProjectState
  <2>3. CASE "recordedAssets" \in DOMAIN M
    <3>1. E = {WrittenRecorded(r) : r \in s.recorded}
      BY <1>0, <2>1, <2>3 DEF WrittenOf, Entries
    <3>2. SaidBy(M, s).recorded = s.recorded
      BY <2>3 DEF SaidBy
    <3> QED BY <2>1, <2>2, <3>1, <3>2
  <2>4. CASE "recordedAssets" \notin DOMAIN M
    <3>1. E = {} /\ SaidBy(M, s).recorded = {}
      BY <2>1, <2>4 DEF Entries, SaidBy
    <3> QED BY <2>1, <3>1
  <2> QED BY <2>3, <2>4
<1>4. /\ \A x \in Entries(M, "sliceSets") : SliceSetReadable(x)
      /\ {ReadSliceSet(x) : x \in Entries(M, "sliceSets")} = SaidBy(M, s).sliceSets
  <2>1. PICK E : E = Entries(M, "sliceSets")
    OBVIOUS
  <2>2. \A x \in s.sliceSets : /\ SliceSetReadable(WrittenSliceSet(x))
                               /\ ReadSliceSet(WrittenSliceSet(x)) = x
    BY SliceSetReads DEF IsProjectState
  <2>3. CASE "sliceSets" \in DOMAIN M
    <3>1. E = {WrittenSliceSet(x) : x \in s.sliceSets}
      BY <1>0, <2>1, <2>3 DEF WrittenOf, Entries
    <3>2. SaidBy(M, s).sliceSets = s.sliceSets
      BY <2>3 DEF SaidBy
    <3> QED BY <2>1, <2>2, <3>1, <3>2
  <2>4. CASE "sliceSets" \notin DOMAIN M
    <3>1. E = {} /\ SaidBy(M, s).sliceSets = {}
      BY <2>1, <2>4 DEF Entries, SaidBy
    <3> QED BY <2>1, <3>1
  <2> QED BY <2>3, <2>4
<1> QED BY <1>1, <1>2, <1>3, <1>4

\* The banks, pad by pad.
LEMMA BanksRead ==
  ASSUME NEW s, IsProjectState(s), \A p \in Pads, l \in Layers : LayerValid(s.pads[p].layers[l])
  PROVE  /\ DOMAIN WrittenBanks(s).value = Pads
         /\ \A p \in Pads : PadReadable(WrittenBanks(s).value[p])
         /\ [p \in Pads |-> ReadPad(WrittenBanks(s).value[p])] = s.pads
<1>1. WrittenBanks(s).value = [p \in Pads |-> WrittenPad(s.pads[p])]
  BY DEF WrittenBanks, Array, Json
<1>2. \A p \in Pads : PadReadable(WrittenPad(s.pads[p])) /\ ReadPad(WrittenPad(s.pads[p])) = s.pads[p]
  BY PadReads DEF IsProjectState
<1>3. s.pads = [p \in Pads |-> s.pads[p]]
  BY DEF IsProjectState
<1> QED BY <1>1, <1>2, <1>3

\* readState(): what a manifest says is read, and nothing else.
LEMMA SectionsRead ==
  ASSUME NEW s, IsProjectState(s), \A p \in Pads, l \in Layers : LayerValid(s.pads[p].layers[l]),
         NEW M, NEW revision, WrittenOf(M, s, revision)
  PROVE  SectionsReadable(M) /\ ReadState(M) = SaidBy(M, s)
<1>0. /\ \A v : Text(v).value = v
      /\ \A v : Array(v).kind = "array"
      /\ \A v : Object(v).value = v /\ Object(v).kind = "object"
  BY DEF Text, Array, Object, Json
<1>1. M.banks = WrittenBanks(s) /\ M.banks.kind = "array"
  BY <1>0 DEF WrittenOf, WrittenBanks
<1>2. SectionsReadable(M)
  <2>1. Conforms(M, [banks |-> "array", assets |-> "array", audio |-> "object",
                     midi |-> "object", ui |-> "object"])
    BY <1>0, <1>1 DEF WrittenOf, Conforms
  <2>2. /\ DOMAIN M.banks.value = Pads
        /\ \A p \in Pads : PadReadable(M.banks.value[p])
    BY <1>1, BanksRead
  <2> QED BY <2>1, <2>2, EntriesRead DEF SectionsReadable
<1>3. ReadState(M) = SaidBy(M, s)
  <2>1. PICK default, P, A, D, R, X, recording :
          /\ default = DefaultProjectState(M.projectUuid.value)
          /\ P = [p \in Pads |-> ReadPad(M.banks.value[p])]
          /\ A = {ReadAsset(a) : a \in M.assets.value}
          /\ D = {ReadDerived(d) : d \in Entries(M, "derivedAssets")}
          /\ R = {ReadRecorded(r) : r \in Entries(M, "recordedAssets")}
          /\ X = {ReadSliceSet(x) : x \in Entries(M, "sliceSets")}
          /\ recording = IF "recording" \in DOMAIN M THEN M.recording.value
                         ELSE default.settings.recording
    OBVIOUS
  <2>2. P = s.pads
    BY <1>1, <2>1, BanksRead
  <2>3. A = s.assets
    BY <2>1, EntriesRead
  <2>4. D = SaidBy(M, s).derived
    BY <2>1, EntriesRead
  <2>5. R = SaidBy(M, s).recorded
    BY <2>1, EntriesRead
  <2>6. X = SaidBy(M, s).sliceSets
    BY <2>1, EntriesRead
  <2>7. PICK audio, midi, ui, q :
          audio = M.audio.value /\ midi = M.midi.value /\ ui = M.ui.value
          /\ q = default.pads
    OBVIOUS
  <2>8. audio = s.settings.audio /\ midi = s.settings.midi /\ ui = s.ui
    BY <1>0, <2>7 DEF WrittenOf
  <2>9. default = [uuid |-> s.uuid, pads |-> q, assets |-> {}, derived |-> {},
                   recorded |-> {}, sliceSets |-> {},
                   settings |-> [audio |-> "default", midi |-> "default",
                                 recording |-> "default"],
                   ui |-> 0]
    <3>1. M.projectUuid.value = s.uuid
      BY <1>0 DEF WrittenOf
    <3> QED BY <2>1, <2>7, <3>1 DEF DefaultProjectState
  <2>10. ReadState(M) =
           [default EXCEPT !.pads = P, !.assets = A, !.derived = D, !.recorded = R,
                           !.sliceSets = X, !.settings.audio = audio, !.settings.midi = midi,
                           !.settings.recording = recording, !.ui = ui]
    BY <2>1, <2>7 DEF ReadState
  <2>11. PICK t : t = [default EXCEPT !.pads = P, !.assets = A, !.derived = D, !.recorded = R,
                                      !.sliceSets = X]
    OBVIOUS
  <2>12. PICK none :
           none = [audio |-> "default", midi |-> "default", recording |-> "default"]
    OBVIOUS
  <2>13. ReadState(M) =
           [uuid |-> s.uuid, pads |-> P, assets |-> A, derived |-> D, recorded |-> R,
            sliceSets |-> X,
            settings |-> [audio |-> audio, midi |-> midi, recording |-> recording],
            ui |-> ui]
    <3>1. t = [uuid |-> s.uuid, pads |-> P, assets |-> A, derived |-> D, recorded |-> R,
               sliceSets |-> X, settings |-> none, ui |-> 0]
      BY <2>9, <2>11, <2>12
    <3>2. PICK t1 : t1 = [t EXCEPT !.settings.audio = audio]
      OBVIOUS
    <3>3. PICK n1 : n1 = [none EXCEPT !.audio = audio]
      OBVIOUS
    <3>4. t1 = [t EXCEPT !.settings = n1]
      BY <3>1, <3>2, <3>3
    <3>5. t1 = [uuid |-> s.uuid, pads |-> P, assets |-> A, derived |-> D, recorded |-> R,
                sliceSets |-> X, settings |-> n1, ui |-> 0]
      BY <3>1, <3>4
    <3>6. PICK t2, n2 : t2 = [t1 EXCEPT !.settings.midi = midi] /\ n2 = [n1 EXCEPT !.midi = midi]
      OBVIOUS
    <3>7. t2 = [t1 EXCEPT !.settings = n2]
      BY <3>5, <3>6
    <3>8. t2 = [uuid |-> s.uuid, pads |-> P, assets |-> A, derived |-> D, recorded |-> R,
                sliceSets |-> X, settings |-> n2, ui |-> 0]
      BY <3>5, <3>7
    <3>9. PICK t3, n3 : /\ t3 = [t2 EXCEPT !.settings.recording = recording]
                        /\ n3 = [n2 EXCEPT !.recording = recording]
      OBVIOUS
    <3>10. t3 = [t2 EXCEPT !.settings = n3]
      BY <3>8, <3>9
    <3>11. t3 = [uuid |-> s.uuid, pads |-> P, assets |-> A, derived |-> D, recorded |-> R,
                 sliceSets |-> X, settings |-> n3, ui |-> 0]
      BY <3>8, <3>10
    <3>12. n3 = [audio |-> audio, midi |-> midi, recording |-> recording]
      BY <2>12, <3>3, <3>6, <3>9
    <3>13. ReadState(M) = [t3 EXCEPT !.ui = ui]
      BY <2>10, <2>11, <3>2, <3>6, <3>9
    <3> QED BY <3>11, <3>12, <3>13
  <2>14. recording = SaidBy(M, s).settings.recording
    <3>1. CASE "recording" \in DOMAIN M
      <4>1. recording = s.settings.recording
        BY <1>0, <2>1, <3>1 DEF WrittenOf
      <4> QED BY <3>1, <4>1 DEF SaidBy
    <3>2. CASE "recording" \notin DOMAIN M
      BY <2>1, <2>9, <3>2 DEF SaidBy
    <3> QED BY <3>1, <3>2
  <2>15. SaidBy(M, s) =
           [uuid |-> s.uuid, pads |-> s.pads, assets |-> s.assets,
            derived |-> SaidBy(M, s).derived, recorded |-> SaidBy(M, s).recorded,
            sliceSets |-> SaidBy(M, s).sliceSets,
            settings |-> [audio |-> s.settings.audio, midi |-> s.settings.midi,
                          recording |-> SaidBy(M, s).settings.recording],
            ui |-> s.ui]
    BY DEF SaidBy
  <2> QED BY <2>2, <2>3, <2>4, <2>5, <2>6, <2>8, <2>13, <2>14, <2>15
<1> QED BY <1>2, <1>3

\* The properties of a manifest that lost some: the others are all there.
LEMMA ManifestDomain ==
  ASSUME NEW pr, NEW names, NEW M, M = Without(WrittenManifest(pr), names)
  PROVE  DOMAIN M = ({"schemaVersion", "format", "projectUuid", "revision"} \cup Sections) \ names
  BY DEF Without, WrittenManifest, Sections

\* A manifest that lost no section readers demand.
LEMMA ManifestWritten ==
  ASSUME NEW pr, NEW names, NEW M, M = Without(WrittenManifest(pr), names)
  PROVE  {"projectUuid", "revision", "banks", "assets", "audio", "midi", "ui"} \cap names = {}
           => WrittenOf(M, pr.state, pr.revision)
<1> SUFFICES ASSUME {"projectUuid", "revision", "banks", "assets", "audio", "midi", "ui"}
                      \cap names = {}
             PROVE  WrittenOf(M, pr.state, pr.revision)
  OBVIOUS
<1>1. PICK s, W : s = pr.state /\ W = WrittenManifest(pr)
  OBVIOUS
<1>2. /\ DOMAIN W = {"schemaVersion", "format", "projectUuid", "revision"} \cup Sections
      /\ W.projectUuid = Text(s.uuid) /\ W.revision = Decimal(pr.revision)
      /\ W.banks = WrittenBanks(s) /\ W.assets = Array({WrittenAsset(a) : a \in s.assets})
      /\ W.derivedAssets = Array({WrittenDerived(d) : d \in s.derived})
      /\ W.recordedAssets = Array({WrittenRecorded(r) : r \in s.recorded})
      /\ W.sliceSets = Array({WrittenSliceSet(x) : x \in s.sliceSets})
      /\ W.audio = Object(s.settings.audio) /\ W.midi = Object(s.settings.midi)
      /\ W.recording = Object(s.settings.recording) /\ W.ui = Object(s.ui)
  <2>1. PICK banks, A, D, R, X :
          /\ banks = WrittenBanks(s) /\ A = Array({WrittenAsset(a) : a \in s.assets})
          /\ D = Array({WrittenDerived(d) : d \in s.derived})
          /\ R = Array({WrittenRecorded(r) : r \in s.recorded})
          /\ X = Array({WrittenSliceSet(x) : x \in s.sliceSets})
    OBVIOUS
  <2>2. W = [schemaVersion |-> Json("integer", 1), format |-> Text("padflow-project"),
             projectUuid |-> Text(s.uuid), revision |-> Decimal(pr.revision),
             banks |-> banks, assets |-> A, derivedAssets |-> D, recordedAssets |-> R,
             sliceSets |-> X, audio |-> Object(s.settings.audio),
             midi |-> Object(s.settings.midi), recording |-> Object(s.settings.recording),
             ui |-> Object(s.ui)]
    BY <1>1, <2>1 DEF WrittenManifest
  <2> QED BY <2>1, <2>2 DEF Sections
<1>3. DOMAIN M = DOMAIN W \ names /\ \A f \in DOMAIN M : M[f] = W[f]
  BY <1>1 DEF Without
<1>4. {"projectUuid", "revision", "banks", "assets", "audio", "midi", "ui"} \subseteq DOMAIN M
  BY <1>2, <1>3 DEF Sections
<1>5. /\ M.projectUuid = W.projectUuid /\ M.revision = W.revision /\ M.banks = W.banks
      /\ M.assets = W.assets /\ M.audio = W.audio /\ M.midi = W.midi /\ M.ui = W.ui
  BY <1>3, <1>4
<1>6. /\ "derivedAssets" \in DOMAIN M => M.derivedAssets = W.derivedAssets
      /\ "recordedAssets" \in DOMAIN M => M.recordedAssets = W.recordedAssets
      /\ "sliceSets" \in DOMAIN M => M.sliceSets = W.sliceSets
      /\ "recording" \in DOMAIN M => M.recording = W.recording
  BY <1>3
<1>7. WrittenOf(M, s, pr.revision)
  BY <1>2, <1>4, <1>5, <1>6 DEF WrittenOf
<1> QED BY <1>1, <1>7

\* A manifest that lost nothing of its header.
LEMMA ManifestHeader ==
  ASSUME NEW pr, NEW names, NEW M, M = Without(WrittenManifest(pr), names)
  PROVE  {"schemaVersion", "format", "projectUuid", "revision"} \cap names = {}
           => (HeaderReadable(M) /\ M.projectUuid.value = pr.state.uuid
                 /\ M.revision.value = pr.revision)
<1> SUFFICES ASSUME {"schemaVersion", "format", "projectUuid", "revision"} \cap names = {}
             PROVE  (HeaderReadable(M) /\ M.projectUuid.value = pr.state.uuid
                       /\ M.revision.value = pr.revision)
  OBVIOUS
<1>1. PICK s, W : s = pr.state /\ W = WrittenManifest(pr)
  OBVIOUS
<1>2. /\ {"schemaVersion", "format", "projectUuid", "revision"} \subseteq DOMAIN W
      /\ W.schemaVersion = Json("integer", 1) /\ W.format = Text("padflow-project")
      /\ W.projectUuid = Text(s.uuid) /\ W.revision = Decimal(pr.revision)
  BY <1>1 DEF WrittenManifest
<1>3. DOMAIN M = DOMAIN W \ names /\ \A f \in DOMAIN M : M[f] = W[f]
  BY <1>1 DEF Without
<1>4. {"schemaVersion", "format", "projectUuid", "revision"} \subseteq DOMAIN M
  BY <1>2, <1>3
<1>5. /\ M.schemaVersion = Json("integer", 1) /\ M.format = Text("padflow-project")
      /\ M.projectUuid = Text(s.uuid) /\ M.revision = Decimal(pr.revision)
  BY <1>2, <1>3, <1>4
<1>6. \A k, v : Json(k, v).value = v /\ Json(k, v).kind = k
  BY DEF Json
<1>7. HeaderReadable(M)
  BY <1>4, <1>5, <1>6 DEF HeaderReadable, Conforms, Text, Decimal
<1>8. M.projectUuid.value = s.uuid /\ M.revision.value = pr.revision
  BY <1>5, <1>6 DEF Text, Decimal
<1> QED BY <1>1, <1>7, <1>8

\* What a manifest says that lacks one section, or none.
LEMMA SaidWithout ==
  ASSUME NEW s, IsProjectState(s), NEW M,
         NEW section, DOMAIN M = ({"schemaVersion", "format", "projectUuid", "revision"}
                                    \cup Sections) \ {section},
         section \notin {"banks", "assets", "audio", "midi", "ui"}
  PROVE  /\ section \in Sections => SaidBy(M, s) = Emptied(s, section)
         /\ section \notin Sections => SaidBy(M, s) = s
<1>1. PICK set : set = s.settings
  OBVIOUS
<1>2. /\ s = [uuid |-> s.uuid, pads |-> s.pads, assets |-> s.assets,
              derived |-> s.derived, recorded |-> s.recorded, sliceSets |-> s.sliceSets,
              settings |-> set, ui |-> s.ui]
      /\ set = [audio |-> set.audio, midi |-> set.midi, recording |-> set.recording]
  <2>1. s.pads = [p \in Pads |-> s.pads[p]]
    BY DEF IsProjectState
  <2>2. PICK pads : pads = [p \in Pads |-> s.pads[p]]
    OBVIOUS
  <2>3. s = [uuid |-> s.uuid, pads |-> pads, assets |-> s.assets,
             derived |-> s.derived, recorded |-> s.recorded, sliceSets |-> s.sliceSets,
             settings |-> s.settings, ui |-> s.ui]
    BY <2>2 DEF IsProjectState
  <2> QED BY <1>1, <2>1, <2>2, <2>3 DEF IsProjectState, IsSettings
<1>3. PICK default : default = DefaultProjectState(s.uuid)
  OBVIOUS
<1>4. /\ default.derived = {} /\ default.recorded = {} /\ default.sliceSets = {}
      /\ default.settings.recording = "default"
  BY <1>3 DEF DefaultProjectState
<1>5. CASE section = "derivedAssets"
  <2>1. SaidBy(M, s) = [s EXCEPT !.derived = {}]
    BY <1>1, <1>2, <1>5 DEF SaidBy, Sections
  <2>2. Emptied(s, section) = [s EXCEPT !.derived = {}]
    BY <1>3, <1>4, <1>5 DEF Emptied
  <2> QED BY <1>5, <2>1, <2>2 DEF Sections
<1>6. CASE section = "recordedAssets"
  <2>1. SaidBy(M, s) = [s EXCEPT !.recorded = {}]
    BY <1>1, <1>2, <1>6 DEF SaidBy, Sections
  <2>2. Emptied(s, section) = [s EXCEPT !.recorded = {}]
    BY <1>3, <1>4, <1>6 DEF Emptied
  <2> QED BY <1>6, <2>1, <2>2 DEF Sections
<1>7. CASE section = "sliceSets"
  <2>1. SaidBy(M, s) = [s EXCEPT !.sliceSets = {}]
    BY <1>1, <1>2, <1>7 DEF SaidBy, Sections
  <2>2. Emptied(s, section) = [s EXCEPT !.sliceSets = {}]
    BY <1>3, <1>4, <1>7 DEF Emptied
  <2> QED BY <1>7, <2>1, <2>2 DEF Sections
<1>8. CASE section = "recording"
  <2>1. PICK without : without = [set EXCEPT !.recording = "default"]
    OBVIOUS
  <2>2. without = [audio |-> set.audio, midi |-> set.midi, recording |-> "default"]
    BY <1>2, <2>1
  <2>3. SaidBy(M, s) = [s EXCEPT !.settings = without]
    BY <1>1, <1>2, <1>8, <2>2 DEF SaidBy, Sections
  <2>4. Emptied(s, section) = [s EXCEPT !.settings.recording = "default"]
    BY <1>3, <1>4, <1>8 DEF Emptied
  <2>5. [s EXCEPT !.settings.recording = "default"] = [s EXCEPT !.settings = without]
    BY <1>1, <2>1
  <2> QED BY <1>8, <2>3, <2>4, <2>5 DEF Sections
<1>9. CASE section \notin Sections
  BY <1>1, <1>2, <1>9 DEF SaidBy, Sections
<1> QED BY <1>5, <1>6, <1>7, <1>8, <1>9 DEF Sections

\* Every project the user can reach can be saved and comes back as it was; a manifest that
\* lost a section is refused or loses that section alone, and one that lost them all is an
\* empty project (ProjectSerializer.cpp, parseManifest()).
THEOREM ManifestsRoundTrip == Spec => []ManifestRoundTrips
<1>1. EditsInv => ManifestRoundTrips
  <2> SUFFICES ASSUME EditsInv PROVE ManifestRoundTrips
    OBVIOUS
  <2>1. PICK pr, s, revision, W : /\ pr = project /\ s = state /\ revision = project.revision
                                  /\ W = WrittenManifest(project)
    OBVIOUS
  <2>2. /\ IsProjectState(s) /\ ProjectValid(s) /\ s = pr.state
        /\ \A p \in Pads, l \in Layers : LayerValid(s.pads[p].layers[l])
    BY <2>1 DEF EditsInv, HistoryInv, TypedNow, state, ProjectValid
  <2>3. pr = [state |-> s, revision |-> revision]
    BY <2>1 DEF EditsInv, BoundsKept
  <2>4. ASSUME NEW section, section \notin {"banks", "assets", "audio", "midi", "ui"},
               section \notin {"schemaVersion", "format", "projectUuid", "revision"}
        PROVE  LET said == [state |-> SaidBy(Without(W, {section}), s), revision |-> revision]
               IN ParseManifest(Without(W, {section})) = {p \in {said} : ProjectValid(p.state)}
    <3>1. PICK M : M = Without(W, {section})
      OBVIOUS
    <3>2. PICK said : said = [state |-> SaidBy(M, s), revision |-> revision]
      OBVIOUS
    <3>3. /\ "banks" \in DOMAIN M /\ WrittenOf(M, s, revision)
          /\ HeaderReadable(M) /\ M.revision.value = revision
      <4>1. PICK names : names = {section}
        OBVIOUS
      <4>2. /\ {"projectUuid", "revision", "banks", "assets", "audio", "midi", "ui"} \cap names = {}
            /\ {"schemaVersion", "format", "projectUuid", "revision"} \cap names = {}
        BY <2>4, <4>1
      <4>3. M = Without(WrittenManifest(pr), names)
        BY <2>1, <3>1, <4>1
      <4>4. WrittenOf(M, pr.state, pr.revision)
        BY <4>2, <4>3, ManifestWritten
      <4>5. HeaderReadable(M) /\ M.revision.value = pr.revision
        BY <4>2, <4>3, ManifestHeader
      <4>6. s = pr.state /\ revision = pr.revision
        BY <2>1, <2>2
      <4> QED BY <4>4, <4>5, <4>6 DEF WrittenOf
    <3>4. SectionsReadable(M) /\ ReadState(M) = SaidBy(M, s)
      BY <2>2, <3>3, SectionsRead
    <3>5. ReadProjects(M) = {said}
      BY <3>2, <3>3, <3>4 DEF ReadProjects
    <3> QED BY <3>1, <3>2, <3>3, <3>5 DEF ParseManifest
  <2>5. ParseManifest(W) = {pr}
    <3>1. PICK M, said : M = Without(W, {"none"}) /\ said = [state |-> SaidBy(M, s), revision |-> revision]
      OBVIOUS
    <3>2. M = W
      BY <2>1, <3>1 DEF Without, WrittenManifest
    <3>3. DOMAIN M = ({"schemaVersion", "format", "projectUuid", "revision"} \cup Sections) \ {"none"}
      BY <2>1, <3>1, ManifestDomain
    <3>4. SaidBy(M, s) = s
      BY <2>2, <3>3, SaidWithout DEF Sections
    <3>5. said = pr /\ ProjectValid(said.state)
      BY <2>2, <2>3, <3>1, <3>4
    <3>6. ParseManifest(M) = {p \in {said} : ProjectValid(p.state)}
      BY <2>4, <3>1
    <3> QED BY <3>2, <3>5, <3>6
  <2>6. ASSUME NEW section \in Sections
        PROVE  ParseManifest(Without(W, {section})) \subseteq
                 {[pr EXCEPT !.state = Emptied(s, section)]}
    <3>1. PICK M : M = Without(W, {section})
      OBVIOUS
    <3>2. DOMAIN M = ({"schemaVersion", "format", "projectUuid", "revision"} \cup Sections) \ {section}
      BY <2>1, <3>1, ManifestDomain
    <3>3. HeaderReadable(M)
      <4>1. PICK names : names = {section}
        OBVIOUS
      <4>2. {"schemaVersion", "format", "projectUuid", "revision"} \cap names = {}
        BY <4>1 DEF Sections
      <4>3. M = Without(WrittenManifest(pr), names)
        BY <2>1, <3>1, <4>1
      <4> QED BY <4>2, <4>3, ManifestHeader
    <3>4. CASE section = "banks"
      <4>1. "banks" \notin DOMAIN M /\ "assets" \in Sections \cap DOMAIN M
        BY <3>2, <3>4 DEF Sections
      <4>2. ParseManifest(M) = {}
        BY <3>3, <4>1 DEF ParseManifest
      <4> QED BY <3>1, <4>2
    <3>5. CASE section \in {"assets", "audio", "midi", "ui"}
      <4>1. "banks" \in DOMAIN M /\ section \notin DOMAIN M
        BY <3>2, <3>5 DEF Sections
      <4>2. ~SectionsReadable(M)
        BY <3>5, <4>1 DEF SectionsReadable, Conforms
      <4>3. ParseManifest(M) = {}
        BY <3>3, <4>1, <4>2 DEF ParseManifest, ReadProjects
      <4> QED BY <3>1, <4>3
    <3>6. CASE section \notin {"banks", "assets", "audio", "midi", "ui"}
      <4>1. PICK said : said = [state |-> SaidBy(M, s), revision |-> revision]
        OBVIOUS
      <4>2. section \notin {"schemaVersion", "format", "projectUuid", "revision"}
        BY DEF Sections
      <4>3. ParseManifest(M) \subseteq {said}
        BY <2>4, <3>1, <3>6, <4>1, <4>2
      <4>4. SaidBy(M, s) = Emptied(s, section)
        BY <2>2, <3>2, <3>6, SaidWithout
      <4>5. said = [pr EXCEPT !.state = Emptied(s, section)]
        BY <2>3, <4>1, <4>4
      <4> QED BY <3>1, <4>3, <4>5
    <3> QED BY <3>4, <3>5, <3>6
  <2>7. ParseManifest(Without(W, Sections)) = {[pr EXCEPT !.state = DefaultProjectState(s.uuid)]}
    <3>1. PICK M : M = Without(W, Sections)
      OBVIOUS
    <3>2. /\ Sections \cap DOMAIN M = {} /\ "banks" \notin DOMAIN M
          /\ HeaderReadable(M) /\ M.projectUuid.value = s.uuid /\ M.revision.value = revision
      <4>1. /\ DOMAIN M = ({"schemaVersion", "format", "projectUuid", "revision"} \cup Sections)
                            \ Sections
            /\ {"schemaVersion", "format", "projectUuid", "revision"} \cap Sections = {}
        BY <2>1, <3>1, ManifestDomain DEF Sections
      <4>2. HeaderReadable(M) /\ M.projectUuid.value = s.uuid /\ M.revision.value = revision
        BY <2>1, <2>2, <3>1, <4>1, ManifestHeader
      <4> QED BY <4>1, <4>2 DEF Sections
    <3>3. ParseManifest(M) = {[state |-> DefaultProjectState(s.uuid), revision |-> revision]}
      BY <3>2 DEF ParseManifest
    <3> QED BY <2>3, <3>1, <3>3
  <2>8. /\ WrittenManifest(project) = W /\ project = pr /\ state = s
    BY <2>1
  <2> QED BY <2>5, <2>6, <2>7, <2>8 DEF ManifestRoundTrips
<1> QED BY EditsHold, <1>1, PTL
=============================================================================

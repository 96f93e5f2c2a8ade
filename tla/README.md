# Resamplr: TLA+ models, checks and proofs

Resamplr (`src/`) is a JUCE sampler: four banks of sixteen pads, sample playback, manual and
threshold recording, chopping, and project files. Its core logic is concurrent.
The message thread edits an immutable project and publishes snapshots of it, the
audio callback renders from those snapshots without locks or allocation, a writer
thread drains recorded blocks to disk, and a small pool of workers decodes and
renders. Around it, one controller keeps an undoable project that background
jobs commit results to, a chopping workspace cuts samples into slices, an input router
turns hands and MIDI into commands, and a serializer keeps the project on disk. This
directory models both layers in TLA+, checks them with TLC on small instances, and
proves results about them with TLAPS for all sizes.

## The system

### Components, their state and operations

| Component | Source | State | Operations | Correct when |
|---|---|---|---|---|
| Capture session | `Audio/CaptureWriter.*` | session state, stop request, active flag, FIFO of blocks (free and ready queue), pre-roll ring, .part file | prepare, startManual, requestStop, cancel, processInput, writer loop, shutdown | blocks are conserved; a published take has no hole; a stop ends in one terminal state; shutdown joins |
| Playback engine | `Audio/PlaybackEngine.*` | published pointer, command queue, voices, trigger ages, acknowledged generation | enqueue, processBlock (drain, render, acknowledge), prepare, panic | voice limits, choke groups, stealing order; nothing freed is played |
| State publisher | `Audio/PlaybackStatePublisher.*` | retained snapshots, next generation | publish, collectAcknowledged, clearWhenAudioIsStopped | frees only what is acknowledged, and in the end all of it |
| Audio runtime | `Audio/AudioRuntime.*` | device, device-error flag, ownership of the engine, the preview player and the capture writer | open, restart, applySettings, close, device callbacks | callbacks are removed before state is cleared |
| Job system | `Utilities/BackgroundJobSystem.*` | pending, active and completed jobs, tokens, count, stopping | submit, cancelOwner, tryPopCompleted, shutdown, worker loop | each job once, in priority order, within capacity; no lost wake-up; shutdown joins |
| SPSC queue | `Audio/AudioCommandQueue.h` | read and write positions, slots | tryPush, tryPop, resetWhenQuiescent | a bounded FIFO for one producer and one consumer |
| Preview player, auditions | `Audio/PreviewPlayer.*`, `Audio/SliceAuditionController.*`, `Sampling/SamplePreviewController.*` | command queue, audible voice, epochs, retired assets | start, stop, process, service, collect | slices in order; a retired sample is not released while audible |
| Asset registry, reclaimer | `Sampling/SampleAsset.*` | resident assets, retired assets by epoch | publish, find, erase, retire, collect | no asset freed in use |
| Import, derived, recorded assets | `Sampling/SampleImporter.*`, `DerivedAsset.*`, `RecordedAsset.*` | none between calls: jobs and commits | submit, decode, commit | a stale result commits nothing |
| Waveform cache | `Sampling/WaveformCache.*` | cached peaks in order of use | request, find, trim | its bound |
| Application controller | `App/ApplicationController.*` | project, undo and redo stacks, dirty flag, revision | every edit, commit*, undo, redo | undo is an inverse over any sequence of edits; refused edits change nothing |
| Project and pad model | `Model/*` | validated value types | validate*, replacePad, restoreState | validated states only |
| Chopping | `Chopping/*` (model, session, plan, render) | boundaries, selection, session state and undo, plan | begin, markers, split, accept, assign | markers ordered; results of a superseded session are refused |
| Lazy marker capture | `Chopping/LazyMarkerCapture.*` | its own SPSC queue, epoch | start, stop, capture, drain | one producer at a time |
| Transient analysis | `Chopping/TransientAnalysis.*` | none | submit, analyse | onsets keep the minimum distance, strongest first; a late result meets its session only |
| Input router | `Input/InputRouter.*` | held keys, mappings, active bank, MIDI commands that wait | mouse, keyboard, MIDI, layer audition, panic, flush | a key or a pad that started something can end it; MIDI stays in order |
| Sampler view | `App/SamplerView.*`, `App/ChoppingWorkspace.*` | import queue, recording flow, timers | job completion, 20 Hz service | results go to the project they were asked for |
| Panels, window | `App/RecordingPanel.*`, `App/WaveformEditor.*`, ... | widgets | paint, layout | no protocol of their own |
| Project serializer | `Serialization/ProjectSerializer.*` | .tmp, .bak and project files | save, load, migrate | a failed save leaves a loadable project |
| Smoke scenario | `Smoke/*` | script | self-test | a test, not a part of the sampler |

### How they interact

* Message thread to audio thread: `PlaybackStatePublisher::publish` stores a raw
  pointer; commands go through an SPSC queue; the publisher owns the snapshot.
* Audio thread to message thread: only the acknowledged generation (playback) and
  the acknowledged epoch (preview), read by the view's 20 Hz timer.
* Audio thread to writer thread: `CaptureFifo`, two SPSC queues of block
  descriptors (free and ready), and four atomics.
* Message thread to workers: `BackgroundJobSystem` under one mutex; results come
  back when the timer calls `tryPopCompleted`.
* MIDI thread: `InputRouter` queues commands for the timer and pushes lazy markers.
* View to model: `ApplicationController`, on the message thread only.

### Behaviours that are hard

Stop, cancel and device loss while a callback is half-way through a block; the
writer that decides a take is finished while the callback commits its last block;
a snapshot collected while a trigger loaded an older one; a wake-up lost between a
worker's check and its sleep; results of jobs for a project that was edited, undone or
replaced; undo over edits, commits and selections mixed; a release that finds its queue
full or its mapping changed; a MIDI device that goes with notes down; a crash in the middle of a save; two producers on a
single-producer queue. `PROJECT.json` lists each at its line.

## The modules

Paths below are relative to `src/Source`. `PROJECT.json` maps every definition to
the lines it models.

### CaptureSession

One recording, from `prepare()` to the join of the writer thread. A step is one
access to a shared atomic or queue with the thread-local work that follows it, so
the four threads interleave between a load and the store that depends on it.

* Message thread: `PrepareArmed/Failed`, `StartManual`, `StopRequest`, `StopLook`,
  `StopExchange` (the three accesses of `requestStop`), `Cancel`, `CancelStore`,
  `Shutdown`, `Joined`. One call at a time (`uiPc`).
* Audio thread (`cbPc`): `CallbackEnter` (first load), `CallbackActivate`,
  `CallbackReload` (second load), the threshold scan, block by block
  `AcquireBlock`, `CommitBlock` or `Overflow`, `CallbackLeave`, `CallbackStopCheck`.
* Writer thread (`wPc`): open, load, pop, write, look at `callbackActive_`,
  finalize, check, publish, complete, with every failure exit.
* Device: `audioDeviceStopped()` cancels from a thread of its own.

Frames are numbers in delivery order, so the order and the holes of a file show.
A short device read is any length up to the bound. A second `prepare()` on the
same object is not modelled.

### PlaybackEngine

`PlaybackStatePublisher` composed with `PlaybackEngine`. Snapshots are values with a
generation, which stands for the address; what matters in a pad is its mode, mono
flag, choke group, voice limit and number of layers. `HandleCommand` loads the
snapshot once; `StartLayer` allocates one voice per layer, and `allocateVoice()`
loads the snapshot *again*, so one trigger may mix two snapshots, as in the code.
`AckLoad` and `AckStore` are the two halves of the acknowledgement. Collection pops
from the front only: a looping voice pins its snapshot and all later ones.
`RestartDevice`, `Close` and `Clear` are the callers in `AudioRuntime` and
`Application`. Samples, gains and envelope values are left out: of several released
voices any may be stolen, and a voice may end in any block.

### JobSystem, BoundedJobs

`BackgroundJobSystem` with the critical sections of its mutex as steps, and the
waits, `notify_one`, `notify_all` and spurious wake-ups of its condition variable.
A job is its id, owner and priority; its function is any finite time between `Takes`
and `Finishes`. `BoundedJobs` is the promise made to the application: a job runs
once, results wait to be collected, the capacity bounds them all, and every accepted
job finishes. `Contract` refines it: pending and running jobs are `unfinished`.

### SpscQueue, BoundedQueue, LazyMarkers

`SpscQueue` is the class of `AudioCommandQueue.h`, one step per access to shared
memory, positions modulo `Width` (2^64 in the code, twelve here, so that they wrap).
With one producer it refines `BoundedQueue`; the modules of its users take it as
that. Acquire and release order each side's accesses, so interleaving them is
faithful as long as no slot is written while it is read, which is `NoSlotRace`.
`LazyMarkers` extends it with the two threads that push lazy markers and the message
thread that drains, starts and stops.

### SliceAudition

`SliceAuditionController`, the reclaimer and `PreviewPlayer`. `service()` is three
steps (collect, look at the player, advance or retire), a command two (its effect,
then the epoch). `StopPreview` is the one operation of `SamplePreviewController` the
application calls: it pushes into the same player with an epoch counter of its own.

### SliceModel, PadModel, SliceAssignment, Manifest

Values and functions, without state. `SliceModel` is the slice set, its validation and its
generators; `PadModel` the project state and `ProjectValid`, which every edit, undo and
load goes through; `SliceAssignment` the plan that puts slices on pads or layers and the
state its commit leads to; `Manifest` the JSON a project becomes, value by value with its
JSON kind, and what reading it accepts. A UUID stands for the content it names.

### ProjectEdits, LinearHistory

`ApplicationController` with `Project`: every edit of a pad, a layer or the settings, the
clipboard, selections (which take a revision but are no edits), jobs and the commits of
their results, plans and their commit, undo, redo, new and opened projects. Each operation
is one step on the message thread; an operation the code refuses changes nothing, so its
guard is the conjunction of the checks. A job carries a ghost field `since`, which says
whether its project was edited since its submission. `LinearHistory` is what undo and redo
promise; the two stacks and the content of the project refine it (`LineOfContents`).

### ChoppingSession, TransientAnalysis, ChoppingWorkspace

`ChoppingSession` is the session as a record and its operations as predicates;
`TransientAnalysis` is `analyse()` over integer envelopes, next to a reference that says
which onsets it must find; `ChoppingWorkspace` adds the handlers, the plan on display,
the analysis in flight and the lazy capture. Marker frames, grids and lengths come from
small sets.

### InputRouter, DeskProject, SamplerDesk

`InputRouter` follows a source (key, mouse button, MIDI note or layer audition) from the
hand through the router's tables and queues to the gate it holds open in the engine. `DeskProject` is what
router and workspace read of the project. `SamplerDesk` composes the two as the window
does: the same note plays a pad or sets a marker, depending on what is on display, while
the timer flushes, the audio thread plays, workers analyse, and the project is edited,
remapped or replaced, the audio device stops and starts, and the MIDI device is exchanged or
unplugged. `AuditionSelectedLayer` triggers its layer, through the same router and whatever is
on display, under a source that no hand holds and nothing releases: only a panic or a stop of
the device ends it. Two ghosts carry the properties: `hands`, what is physically down, and
`refused`, the sources that go on only because a full engine queue refused their release or a
panic, and no later one got through.

### SampleStore, ProjectFile, Studio

`SampleStore` is the registry of decoded samples with its running total. `ProjectFile` is
`ProjectSerializer::save()`, one step per file operation, each of which may fail, and the
process may die between any two; the three files are what survives. `Studio` composes them
with `SamplerView`: imports queue up, renders write files, takes are recorded and decoded,
saved projects are opened and their samples resolved, and the results come back whenever
the workers are done, to a project that was edited, undone or replaced meanwhile.

## The runs

| Run | Module, configuration | Shows |
|---|---|---|
| `capture` | CaptureSession.cfg | Blocks conserved, published takes gapless, stops stay stopped, stops and shutdowns end |
| `capture_lost_tail` | CaptureSession_lostTail.cfg | finding: a completed take may miss its last accepted block |
| `capture_cancel` | CaptureSession_cancel.cfg | finding: a cancelled take may be completed |
| `playback` | MCPlaybackEngine, PlaybackEngine.cfg | No dangling snapshot, choke groups, voice limit, stealing order, no leak of snapshots |
| `jobs` | MCJobSystem, JobSystem.cfg | Refinement of BoundedJobs, count, cancellation at shutdown, shutdown ends |
| `queue` | MCSpscQueue, SpscQueue.cfg | Refinement of BoundedQueue, no race on slots, truthful refusals |
| `lazy_markers` | MCLazyMarkers, LazyMarkers.cfg | finding: two producers overwrite a marker |
| `audition` | SliceAudition.cfg | Slices in order, stops final, auditions end |
| `project` | MCProjectEdits, ProjectEdits.cfg | Refinement of LinearHistory, undo always restorable, stale results refused, slices keep their bounds, assignments as planned, manifests come back as they were |
| `desk` | MCSamplerDesk, SamplerDesk.cfg | No gate of a key or a pad open without a hand on it, unless a full engine queue refused its end; a note-off that is answered ends its note, MIDI in order, slices fit their session and its undo line, analyses meet their reference |
| `studio` | MCStudio, Studio.cfg | Memory within budget, layers playable, renders on disk, imports moving, the last saved project survives |
| `audition_held` | SliceAudition_held.cfg | finding: a reference is given up before the start that needs it is popped |

### Bounds, and why they are enough

* `capture`: two blocks of one frame, so the FIFO is empty, half full and full, and a
  run of frames spans blocks; one frame of pre-roll, so it wraps; callbacks of one or
  two frames; three frames before a stop is requested, so that a frame can be dropped
  and a later one captured, the case a gapless file depends on. `StopReserve` frames
  come after the request: a stop that meets a callback whose state changed meanwhile
  is left to the next callback, which must be able to run.
* `playback`: two voices and two pads make allocation, stealing of released and of
  sounding voices, and choking happen; two projects differ in modes, groups and
  limits; three generations let a trigger hold one, the pointer name another and a
  third be collected; three commands through a queue of two reach the full queue.
* `jobs`: two workers, so one can sleep while the other runs; four jobs against a
  capacity of three reach the refusal; two priorities and two owners.
* `queue`: three slots, twelve position values, three values: full, empty and wrapped
  queues. Nothing is bounded but the width.
* `audition`: three slices, so that a sequence has a first, a middle and a last;
  a queue of two, so that starts and stops are refused; four requests. When they are
  used up the system may stop, hence no deadlock check there, nor in the runs above
  that count something.

* `project`: three pads of one layer, one of them the user's; a project file whose first
  pad holds a two-frame sample that is cut in two slices, one of them assigned, is opened
  at any time (one life after the first); one of copied pad, plan and job at a time; three
  revisions per project, enough for an edit, its undo and its redo, or an edit, a commit
  and an undo. One field per kind of edit is followed: the others take the same path.
* `desk`: one key and one note that two banks answer to in turn, queues of one command, so
  that each fills up at once; eight frames, two trims; three presses, edits, panics,
  markers or layer auditions. Releases, ticks, blocks, stops and starts of the device,
  opening and closing the workspace and commits are unbounded; so a press meets every
  change of the project before its release. Two sessions, so that one is superseded; one analysis;
  two revisions. `TransientAnalysis` meets its reference for every trim and setting of the
  cfg at the moment an analysis is submitted.
* `studio`: two pads of one layer, the user works on one; memory for two samples of
  one or two units, so that a second import, a resolution that has grown or a render may
  not fit; four gestures, one take, two failures (of any job, file operation or
  submission), three revisions. A save is one gesture and eight steps.

### Fairness

* Capture: the writer is scheduled, callbacks return, the device keeps calling while
  it runs, calls of the message thread return. No user action is fair: a liveness
  property starts from a stop request or a shutdown.
* Playback: the device keeps calling, and the view's 20 Hz timer keeps collecting
  (`SamplerView::timerCallback`).
* Jobs: each worker is scheduled and each job returns; a shutdown goes on once begun.
  Spurious wake-ups are possible and never needed. The refinement includes the
  fairness of `BoundedJobs`, so a lost wake-up would violate it.
* Queue: the consumer runs. Audition: the timer and the device go on.
* `project`, `desk` and `studio` state safety only and assume no fairness: what must
  happen there waits for the user. Imports are the exception and are stated as an
  invariant, that whenever a queue waits something is under way that will move it
  (`ImportsMove`); `jobs` shows that a job under way finishes.

## Findings

* A writer that found the ready queue empty looks at `callbackActive_`; a callback
  that commits its last block and leaves in between is not seen, and the take is
  finalized without that block (`CaptureWriter.cpp:418-423`). README line 94 says a stop
  drains. A second pop after the look would close the gap.
* `cancel()` loads the state, then stores `cancelled`; the writer stores `finalizing`
  and `completed` without comparing (`CaptureWriter.cpp:320-322, 422, 450`). The rules (`docs/AUDIO_THREAD_RULES.md`)
  say that a cancelled session never commits.
* The MIDI thread and the message thread share one single-producer queue
  (`InputRouter.cpp:184`, `ChoppingWorkspace.cpp:541`), against the rules' line 24.
* An audition mistakes a start that is still queued for a slice that ended
  (`SliceAuditionController.cpp:54-58`) and retires its sample at once. In the
  application the registry or a published snapshot usually still holds the sample; the
  reclaimer does not do what the rules' line 28 says of it. The same mistake makes a
  sequence skip a slice; the passing run contains those behaviours.

### Behaviours to know, which no run singles out

The models contain these; they contradict a document or surprise, but are not each given a
run of their own.

* `ResultsMeetTheirState` holds while a project stays open. Opening the same file again
  brings its UUID and revision back, so a result submitted before is accepted after
  (`isCurrentJobTarget`, `ApplicationController.cpp:49`); `job.since` tells such jobs apart.
* `TEST_PLAN.md:70` says that undo and redo "restore exact prior/next state and revision";
  the code restores the state and takes a *new* revision (`ApplicationController.cpp:527`),
  which is what makes stale results detectable: the mutant that restores the revision
  violates `ResultsMeetTheirState`. Undo also brings back the selection and the
  missing-file flags of its time; neither is part of the content `LinearHistory` speaks of.
* Pressing a pad selects it, and a selection takes a revision: a render or an import in
  flight becomes stale by playing a pad.
* Pasting or duplicating over a pad whose slices or take the project still refers to is
  refused by validation.
* A note-off is looked up among the pads of the bank on display (`findMidiPad`,
  `InputRouter.cpp:95-102, 111-113`), although the release it becomes does not depend on the
  pad: when the bank, the mapping or the channel filter was changed since the note-on, or
  notes set markers, or the MIDI queue is full, it is dropped and the note
  sounds on. `docs/MIDI_MAPPING.md:5-6` says that the active bank does not control MIDI
  note identity; `INPUT-M1-011` of `TEST_PLAN.md` says that the default mapping follows it; no
  document has a note that is let go of sound on. `NotesEnd` promises only what the code
  does. A variant of the model in which `findMidiPad` looks in every bank ends such notes too.
* `INPUT-M1-009` of `TEST_PLAN.md` (line 147) has a disconnect panic. Its implementation,
  `midiDeviceDisconnected()`, is called by a test only: neither exchanging the device
  (`AudioRuntime::setMidiInputEnabled`) nor unplugging it ends the notes that are down.
  No property excuses or forbids this: `NotesEnd` speaks of note-offs, which never come here.
* A layer audition of a gate pad sounds until "Stop", "All notes off", another panic or a stop
  of the device: nothing releases it. `GatesAreHeld` speaks of keys and pads, and lets them
  sound on only when a full engine queue refused their release (`releaseSource` is
  ignored by all its callers) or a panic.
* A panic does not drop MIDI commands that wait, and `keyDown` marks a key held before a full
  queue refuses its trigger, so that repeats of it are ignored.
* After a fixed-length split that discards its remainder the set does not reach the end of
  the trim, and every manual edit and lazy marker fails (`ChoppingSession.cpp:286`).
* `handleCompletedJob` of the workspace gives up its analysis for *any* transient result,
  and a reopened session with the same target accepts a result of the earlier one; the
  session's own UUID is not compared. Clearing the markers keeps the plan on display
  (`ChoppingWorkspace.cpp:164`). Committing twice from one session with changed markers is
  refused, as the set keeps its UUID.
* `submitNextImport` drops the front of the queue when the job system is full and leaves the
  rest waiting until another import is started (`SamplerView.cpp:1343`); `ImportsMove` names
  this case. A completed import of a project that was replaced pops an entry of the new
  project's queue (`SamplerView.cpp:1446`).
* `cancelRecording` after a take has completed decodes it again (`SamplerView.cpp:938`);
  the chooser for opening a project cancels a recording before it is known whether the
  file loads.
* A publication that fails when there was no file but an old backup restores that backup
  as the project (`ProjectSerializer.cpp:1146`).

## The proofs

Every theorem holds for all values of the constants its module's assumption allows.

### CaptureProofs

* `BlocksConserved`: `Spec => []BlockConservation`;
* `PublishedGapless`: `Spec => []PublishedIsGapless`;
* `EndedCleanly`: `Spec => []EndsCleanly`;
* `StopsAreFinal`: `Spec => StoppedStaysStopped`.

That a published file has no hole follows from no single variable. `CaptureInv` follows
the frames through the program: what the callback accepted is a run of frames without a gap
while `incomplete` is false; the file is a beginning of it; the block in the writer's hand
and the ready ones, in their order, are the parts that come next. The writer's place and the
state agree on how far a take has come (a failed or cancelled one is never published), and a
block is in exactly one of the free queue, the ready queue, the callback's hand and the
writer's. Each part has its own lemma over all the steps. A block and a position in it are
told apart by the assumption on `Nothing`.

### PlaybackProofs

* `TypeCorrect` (`[]TypeOK`), `InvariantHolds` (`[]IInv`), `ReclamationSafe`
  (`[]NoDanglingSnapshot`).

`NoDanglingSnapshot` is not inductive: it says that what is referred to is retained,
not that it stays so after the next collection, which frees up to whatever the
acknowledged generation says by then. `IInv` adds the reasons. *Consecutive*: the
publisher retains the generations `Floor .. nextGeneration - 1`, so being retained is
a comparison of numbers. *CurrentIsNewest*: the pointer names the last of them, which
collection never frees. *ReferencesInUse*: what the pointer, a trigger in progress and
the active voices refer to is retained and above the acknowledged generation.
*AcknowledgesUnused*: the generation that `AckLoad` computed and `AckStore` has not yet
published is at most any generation in use; it survives a publication in between
because new generations are higher, and nothing starts a voice between the two.
*SilentWhenClosed*: after `Close` the audio thread is out and no voice is active, which
makes `Clear` safe. Each action keeps each part (one lemma per action that matters).

Three more results rest on `OnlyLayersStart`: in every step but `StartLayer` a voice stays,
is released or falls silent.

* `ChokeGroupsHold`: `Spec => []ChokeGroupsExclude`. The property alone is not inductive:
  `GroupIsCleared` adds that from the command to the last layer the group of the triggered
  pad plays on no other pad, under the choke group of the snapshot the *trigger* loaded.
* `PadLimitsHold`: `Spec => []PadVoiceLimit`, with `PublishesProjects`: the limit the
  allocation reads is that of a project, whichever is published by then.
* `StealingIsLastResort`: `Spec => StealsOnlyWhenFull`, from the type invariant.

### JobSystemProofs

The set of workers need not even be finite.

* `CountIsExact` (`[]OutstandingIsHeld`) and `ShutdownCancelsAll` (`[]StoppingCancelsAll`).
* `QueueStaysInOrder` (`[]PendingInOrder`), the order of the pending queue. No run checks
  this one; it is proved for every number of jobs, priorities and workers.
* `StepsKeepContract`: `Spec => ContractSafety`, the initial state and the steps of
  `BoundedJobs`, so all of the refinement `KeepsContract` but its fairness. Taking a job is
  a stutter of the contract.

`JobInv` says that no two places hold the same job (`WorkersHoldOne`, `JobsAreDistinct`,
`ResultsAreDistinct`), without which neither a count by place nor one by id is kept, and
counts both ways (`Counted`). That `submit()` finds a place at all (`PositionExists`) is the
least-number principle, in the library's form for well-founded relations.

### SpscProofs

For every capacity and every width that the capacity divides, with one producer
(`OneProducer`, the contract of the class).

* `SlotsNeverRace` (`[]NoSlotRace`) and `RefusalsAreJustified` (`RefusalsAreTrue`);
* `StepsKeepQueue`: `OneProducer /\ QueueSpec => QueueSafety`, the initial state and the
  steps of `BoundedQueue`, so all of the refinement but its fairness.

Positions are compared modulo the width, so the proofs rest on lemmas of modular arithmetic
(`Remainder`, `RemainderIs`, `DistanceIs`, `PlusIs`). `QInv`: the distance of the positions
is at most the capacity; each side's copy of its own position is exact, as nobody else
stores it; a push that found room still has it and a pop that found a value still has it.
The refinement adds `ValuesInv`, what the slots hold: the slot of a push that has written is
its value, the copy of a pop that has read is the oldest value. The store of `writePosition_`
is then the moment of the abstract push, that of `readPosition_` the moment of the pop, and
writing a slot a stutter, since the slot written is none of those held (`Places`).

The second part is about `SliceAudition`, whose commands go through such a queue; the model
takes it to be the sequence that the first part shows it is.

* `AuditionsInOrder`: `Spec => SlicesInOrder`, and `AuditionStopsAreFinal`: `Spec => StopIsFinal`, for
  every number of slices (at least one) and requests, and every capacity. The properties look at what the
  player takes; `AuditionInv` says how what it will take got there. What waits is in order
  and after what was taken (`QueueOrdered`), stops included: behind a stop there are only
  starts of later requests. And as long as the controller has a sequence, all that waits or
  was taken is of its present slice or before, and every stop of an earlier request
  (`SequenceFollows`), so the next tick may push the next slice. `stop()` empties the
  sequence even where its push is refused; a sequence kept for a tick to go on with would
  break this first.

### ProjectEditsProofs

* `HistoryIsRestorable`: `Spec => []HistoryRestorable`. The invariant `HistoryInv` adds that
  the project itself validates and that *every* state in the stacks does, on both sides of
  its edit, since undo moves an edit to the other stack; `Chained` says that neighbours
  meet. The proof sorts every step into one of six forms (`StepForms`): an edit, a change of
  view, undo, redo, a start, or idle. One lemma per form keeps the invariant.
* `HistoryIsLinear`: `Spec => LineOfContents`, the refinement of `LinearHistory`, from the
  same forms: each maps to a step of the line or to a stutter.
* `ResultsAreCurrent`: `Spec => []ResultsMeetTheirState`. `JobsInv` orders revisions: a job
  whose project was edited since has a revision *below* the project's, because every
  change takes the next one.
* `ProjectTypes`: `Spec => []TypeOK`. The types are the shapes of the structs of `PadModel.h`
  and `SliceModel.h` (`IsProjectState`, `IsSliceSet`). `EditsInv` is `HistoryInv` with the
  types of the project, the clipboard, the plan and every job (`TypedNow`), of every state
  on both stacks (`StacksTyped`), and the bounds (`BoundsKept`): the states undo goes back to
  must be typed long before it does. A lemma per operation says what it makes of a typed
  project; the generators of cuts and the plans are typed as well (`CutSetTyped`, `PlanTyped`).
* `SliceBoundsStay`: `Spec => SlicesKeepTheirBounds`. A layer's bounds are those of the region
  it names, because the project validates; so it is enough that a region never
  changes under its name. It does not, because an edit only ever *adds* slice sets (`IsEdit`, part of
  `StacksTyped`), undo and redo take a set away or bring it back as a whole, and no two
  sets of one project share a UUID.
* `AssignmentsFollowPlans`: `Spec => AssignmentAsPlanned`. A plan that still matches the
  project has the destinations the request computes (`PlanPlaces`), and no two slices have
  the same one (`PlacesDiffer`): layer by layer they are the quotient and the remainder of a
  division by the number of layers, which is nonlinear arithmetic and proved by hand.
* `ManifestsRoundTrip`: `Spec => []ManifestRoundTrips`, from `EditsInv`: every reader gives back what
  its writer was given (`PadReads`, `RecordsRead`, `SliceSetReads`), provided the value is
  valid, which is why a project that does not validate need not round-trip. One section less
  is followed section by section (`SaidBy`, `SaidWithout`).

`EditsAssumption` is what all of this assumes of the file that may be opened: it is a project
the serializer accepts, a typed state that validates, with a revision.

### DeskProofs

* `NoGateStaysOpen`: `Spec => []GatesAreHeld`;
* `NotesAlwaysEnd`: `Spec => NotesEnd`;
* `MidiKeepsItsOrder`: `Spec => MidiInOrder`.

`GatesAreHeld` looks at what sounds when all queues have been played, which says nothing of
who will end it. `GateInv` does (`KeysHeld`, `MouseHeld`): a key that sounds after the engine's
queue is under a hand and in `heldKeys` and `heldUi`, a pad is under the mouse and in
`heldMouse`, so that the release will find it, or it is one of the `refused`. The MIDI
commands that wait, whose sources are notes, can add nothing to that. Auditions and notes open other sources,
stops and starts of the device only close some. The queues are folds (`After`), so the lemmas are about folds: what a queue
leaves open is what its second part leaves open after its first (`AfterBoth`), grows with
what was open before (`AfterMonotone`), and what is open was open before or has a trigger in
the queue (`AfterComesFrom`).

`NotesAlwaysEnd` rests on two facts. The router's copies are those of the project in every state
(`RouterFresh`, kept because every edit that touches them ends in `refreshFromProject()`), so
a note-off that the project answers becomes a release. And what sounds in the end is what
the engine's queue and then the waiting commands leave open (`SoundingSplit`): the timer moves
commands across that border without changing it (`FlushSoundsTheSame`), every other step
but a note-on leaves at most as many notes sounding (`OnlyNoteOns`).

* `SlicesStayFitted`: `Spec => []SlicesFitSession`, for every trim, count, length, frame and
  grid. The lemmas about data come first: every generator's bounds start at the trim's start
  and rise to its end (`EqualCut`, `FixedCut`, `ManualCut`, `FoundCut`), and every
  operation of a session leaves a session open on the same target (`AppliedStays`,
  `RewoundStays`, `ManualStays`, `DrainedStays`, `HandledStay`). Why `SliceInv` is needed:
  `acceptTransientResult()` compares the life and the revision of the project, not the session
  or the trim, so a result of an *earlier* session may be applied. It fits only because the trim
  cannot change without a revision: any two targets still about, the session's, those of
  analyses and of results, agree on the trim if they agree on life and revision
  (`TargetsAgree`), and those of the present have the project's (`TargetsPresent`), which is what
  the next session begins on.

* `SlicesAreUndoable`: `Spec => MarkersUndoable`: undo and redo walk one line of slices. A step
  may edit more than once: the timer applies every result that came in and then a marker for
  every frame the lazy capture holds. So what each of these leaves behind is
  `GoesOn`: the old slices and their undo line are a beginning of the new undo line and nothing
  can be redone; it composes, and a fold of edits goes on. The step that begins a session is
  no edit, and has another target only because sessions are numbered as they begin: `IdInv`.
* `AnalysesMeetReference`: `Spec => AnalysisSound`, for every signal, sensitivity, floor,
  minimum and look-back. The lemmas are about the greedy choice (`Taken`), by induction on
  the candidate looked at last: what is taken lies apart (`TakenApart`), the first is taken
  (`FirstIsTaken`), and candidates that come before all others are taken or not whatever follows
  (`TakenGrows`). A lower sensitivity leaves such a beginning of the candidates, since what is
  left out is weaker; that is why its markers are kept. The proof found the reference wrong at
  a boundary: a rise of exactly the floor is admitted (`strengths[index] >= threshold`), so
  markers rise to the floor, not above it.

`WorkspaceAssumption`, `AnalysisAssumption` and `DeskAssumption` are what this assumes of the
constants: counts, lengths and grids are natural numbers, frames integers, and a trim is not
empty: `ChoppingSession::begin()` refuses any other
(`src/Source/Chopping/ChoppingSession.cpp:16`). A sensitivity is at most one and no parameter
is negative, which `finiteParameters()` checks; a magnitude is a number at every frame of a trim,
as `analyse()` refuses a trim beyond the signal and `finiteMagnitude()` a sample that is none.

### StudioProofs

For every set of pads, every number of assets and revisions and every capacity. What the disk may
hold is what can be open (`Versions` is `Projects` in `Studio.cfg`).

* `SavedSurvives`: `FileSpec => []SavedProjectSurvives`. `FileInv` says *where* the last saved
  project is: in the file if there is one, else in the backup. The property alone would
  let `DropBackup` delete the copy that counts.
* `StudioTypesAlways`: `Spec => []StudioTypes`, the type of every variable, among them that
  what is saved, written or read back is a project. With it, every step of Studio is a step of
  ProjectFile or leaves the files alone: `StudioKeepsSavedProject`, the same promise for the
  whole application.
* `RendersAlwaysBack`: `Spec => []FilesBackProjects`. The states that matter are those of the project, of
  both histories and of every file (`Kept`), and each names a render only once its file
  is written. What makes this inductive is that a render is named by nobody until its
  result is handled (`OwnRender`), and one job has it (`OneRender`): so a job that fails
  deletes a file no state speaks of.
* `LayersAlwaysBacked`: `Spec => []LayersAreBacked`: the sample of every layer is
  resident, marked missing, or on its way: being resolved or waiting to be.
* `MemoryWithinBudget`: `Spec => []BudgetKept`: the running total is the sum of what the
  registry holds, and within the budget. The sum over a set is defined one element at
  a time in an order the library does not say; that it does not depend on the order
  (`SumAgrees`) is shown on a smallest set for which it would.
* `ImportsNeverStall`: `Spec => []ImportsMove`, by `ImportsInv`, which looks for an import in
  the jobs and in the results that wait.

### SequenceFacts

Facts about sequences that proofs share, and the two forms in which induction is had: a
nonempty set of numbers has a least one (`LeastNumber`), a collection of finite sets a smallest
(`SmallestSet`). So what a fold computes is proved by looking at the shortest sequence, or
the smallest set, that would refute it.

### Only model-checked

* All liveness properties, and the fairness in the refinements of `BoundedJobs` and `BoundedQueue`.
* `LazyMarkers` (whose run is a finding).

## Not modelled, and why

* Signal processing: interpolation, envelopes, mixing, the arithmetic of rendering and
  normalizing, decoding and encoding of files: floating-point computation without a
  protocol. A job's outcome is what matters here, and it is any outcome the code allows.
* Floating-point fields and the container of a project file, and the migration of older
  manifests; `Manifest` keeps sections, kinds, optional fields and identities.
* `WaveformCache`, sample previews and their jobs: in `studio` they only hold places in the
  job system, which is why any submission may be refused.
* A second `prepare()` on one CaptureSession, and the reset of the command queue while a
  push is in progress.
* Layout, painting, menus and device enumeration (`RecordingPanel`, `WaveformEditor`,
  `MainWindow`, `Application`), and the smoke test, which is a driver.

What would come next: that the project of `Studio` is one of `ProjectEdits`; previews in `Studio`.

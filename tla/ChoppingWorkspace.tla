-------------------------- MODULE ChoppingWorkspace --------------------------
(***************************************************************************)
(* The chopping workspace (src/Source/App/ChoppingWorkspace.cpp): the       *)
(* session it edits, the assignment plan on display, the transient analysis *)
(* it waits for and the lazy capture it drains.  Its handlers run on the    *)
(* message thread; LazyMarkerCapture's queue is also pushed by the MIDI     *)
(* thread (LazyMarkers.tla follows that queue index by index), and an       *)
(* analysis runs on a worker.                                               *)
(***************************************************************************)
EXTENDS DeskProject, ChoppingSession, TransientAnalysis

CONSTANTS Asset,         \* the source chopped
          Counts,        \* slice counts of the equal mode
          Lengths,       \* lengths of the fixed mode
          MarkerFrames,  \* frames the user picks
          Grids,         \* settings of the marker grid, 0 for none
          Minimum,       \* the minimum slice duration of an analysis
          LazyMinimum,   \* and of a lazy chop
          Envelopes,     \* what the source may sound like
          Sensitivities, LookBacks, Floor,
          LazyCapacity,  \* SpscQueue<LazyMarkerEvent, 256>
          MaxSessions,   \* bound: sessions begun
          MaxAnalyses    \* bound: analyses in flight

ASSUME WorkspaceAssumption ==
  Counts \cup Lengths \cup Grids \subseteq Nat /\ MarkerFrames \subseteq Int

\* finiteParameters(), and a PCM view that covers the trim: magnitudes are finite.
ASSUME AnalysisAssumption ==
  /\ Sensitivities \subseteq 0 .. 10 /\ LookBacks \subseteq Nat /\ Floor \in Nat /\ Minimum \in Nat
  /\ \A envelope \in Envelopes, trim \in Trims :
       \A frame \in trim.start .. trim.end - 1 : envelope[frame] \in Nat

VARIABLES
  work,      \* [session, plan, analysis]: session_, assignmentPlan_, analysisJob_
  visible,   \* SamplerView::choppingWorkspaceVisible_
  lazy,      \* lazyCapture_: [active, queue]
  analyses,  \* transient analyses queued or running
  results,   \* their results, in the order of completion
  sessions   \* ghost: sessions begun so far

workspaceVars == <<work, visible, lazy, analyses, results, sessions>>

session == work.session
NoWork == [session |-> IdleSession, plan |-> None, analysis |-> None]

\* Every edit of the slices makes the workspace forget the plan.
Edited(s) == [work EXCEPT !.session = s, !.plan = None]

\* A handler that only touches the work, by a gesture.
Edits(w) ==
  /\ Gesture
  /\ work' = w
  /\ UNCHANGED <<project, visible, lazy, analyses, results, sessions>>

(***************************************************************************)
(* Beginning and ending.                                                   *)
(***************************************************************************)

Target ==
  [id |-> sessions + 1, life |-> project.life, revision |-> project.revision, layer |-> "layer",
   asset |-> Asset, trimStart |-> project.trim.start, trimEnd |-> project.trim.end]

\* beginForLayer(): a session on the layer's trim, cut by the equal mode at once; where
\* that fails the session stays and the workspace is not shown.
BeginForLayer ==
  /\ sessions < MaxSessions
  /\ sessions' = sessions + 1
  /\ \E count \in Counts :
       /\ work' = Edited(IF EqualAccepts(Target, count) THEN WithEqual(Begun(Target), count)
                         ELSE Begun(Target))
       /\ visible' = EqualAccepts(Target, count)
  /\ UNCHANGED <<lazy, analyses, results>>

\* cancellation of the job whose handle is kept
CancelledJobs(handle) == {[a EXCEPT !.cancelled = @ \/ a.id = handle] : a \in analyses}

\* cancel(): the queue of the lazy capture keeps its markers.
CancelWork ==
  /\ work' = [NoWork EXCEPT !.session = Cancelled(session)]
  /\ lazy' = [lazy EXCEPT !.active = FALSE]

CancelAnalysis == analyses' = CancelledJobs(work.analysis)

(***************************************************************************)
(* Cutting and editing markers.                                            *)
(***************************************************************************)

\* snapMarker() with zero-crossing snap off: the grid's nearest point inside the trim.
Clamp(x, low, high) == IF x < low THEN low ELSE IF x > high THEN high ELSE x

SnapMarker(target, frame, grid) ==
  LET inside == Clamp(frame, target.trimStart + 1, target.trimEnd - 1)
      offset == inside - target.trimStart
      nearest == offset \div grid + (IF offset % grid >= grid - grid \div 2 THEN 1 ELSE 0)
      bucket == Clamp(nearest, 0, (target.trimEnd - target.trimStart - 1) \div grid)
  IN IF grid = 0 THEN inside
     ELSE Clamp(target.trimStart + bucket * grid, target.trimStart + 1, target.trimEnd - 1)

\* generateEqual()
GenerateEqual ==
  \E count \in Counts :
    Ready(session) /\ EqualAccepts(session.target, count)
      /\ Edits(Edited(WithEqual(session, count)))

\* generateFixed()
GenerateFixed ==
  \E length \in Lengths, discard \in BOOLEAN :
    Ready(session) /\ FixedAccepts(session.target, length)
      /\ Edits(Edited(WithFixed(session, length, discard)))

\* The frames the user's picks are snapped to.
Picks ==
  {SnapMarker(session.target, f, grid) : f \in MarkerFrames, grid \in Grids}

AddMarker ==
  /\ Ready(session)
  /\ \E f \in Picks : AddAccepts(session, f) /\ Edits(Edited(WithMarker(session, f)))

DeleteMarker ==
  /\ Ready(session)
  /\ \E i \in DOMAIN Boundaries(session) :
       DeleteAccepts(session, i) /\ Edits(Edited(WithoutMarker(session, i)))

MoveMarker ==
  /\ Ready(session)
  /\ \E i \in 2 .. Len(Boundaries(session)) - 1, f \in Picks :
       MoveAccepts(session, i, f) /\ Edits(Edited(WithMarkerMoved(session, i, f)))

\* An edit the session refuses still makes the workspace forget the plan.
RefusedEdit ==
  /\ work.plan # None
  /\ \E f \in Picks : ~AddAccepts(session, f)
  /\ Edits([work EXCEPT !.plan = None])

\* clearMarkersButton_.onClick: the one edit after which the plan stays.
ClearMarkers == Ready(session) /\ Edits([work EXCEPT !.session = Cleared(session)])

UndoSessionEdit == Ready(session) /\ session.undo # <<>> /\ Edits(Edited(Rewound(session)))
RedoSessionEdit == Ready(session) /\ session.redo # <<>> /\ Edits(Edited(Replayed(session)))

\* selectPreviousSlice(), selectNextSlice()
SelectSlice ==
  \E i \in {session.selected - 1, session.selected + 1} :
    SelectAccepts(session, i) /\ Edits([work EXCEPT !.session.selected = i])

\* auditionSelected(), auditionAll(); SliceAudition.tla follows what is heard.
Audition == Ready(session) /\ Edits([work EXCEPT !.session = Marked(session, "previewing")])

MarkerStep ==
  \/ GenerateEqual \/ GenerateFixed \/ AddMarker \/ DeleteMarker \/ MoveMarker \/ RefusedEdit
  \/ ClearMarkers \/ UndoSessionEdit \/ RedoSessionEdit \/ SelectSlice \/ Audition

(***************************************************************************)
(* Transient analysis.                                                     *)
(***************************************************************************)

\* submitTransientAnalysis(): the analysis before is cancelled, even when the
\* queue then refuses the new one.
SubmitTransientAnalysis ==
  /\ Ready(session)
  /\ Gesture
  /\ \/ /\ Cardinality(analyses) + Len(results) < MaxAnalyses
        /\ \E envelope \in Envelopes, sensitivity \in Sensitivities, lookBack \in LookBacks :
             LET job == [id |-> gestures, target |-> session.target, envelope |-> envelope,
                         sensitivity |-> sensitivity, floor |-> Floor, minimum |-> Minimum,
                         lookBack |-> lookBack, cancelled |-> FALSE]
             IN analyses' = CancelledJobs(work.analysis) \cup {job}
        /\ work' = [work EXCEPT !.session = Marked(session, "analysing"), !.analysis = gestures]
     \/ /\ CancelAnalysis
        /\ UNCHANGED work
  /\ UNCHANGED <<project, visible, lazy, results, sessions>>

\* analyse() ends on a worker; cancelled in time it fails, too late it succeeds.
AnalysisFinishes(job) ==
  /\ \E ok \in IF job.cancelled THEN BOOLEAN ELSE {TRUE} :
       results' = Append(results,
         [target |-> job.target, ok |-> ok,
          set |-> SetFromBoundaries(job.target.id, job.target, "transient",
                                    TransientBoundaries(job))])
  /\ analyses' = analyses \ {job}
  /\ UNCHANGED <<project, gestures, work, visible, lazy, sessions>>

\* handleCompletedJob(): any result of an analysis drops the handle.
Handled(w, result) ==
  IF Ready(w.session) /\ ResultAccepted(w.session, result)
  THEN [w EXCEPT !.analysis = None, !.plan = None, !.session = Applied(w.session, result.set)]
  ELSE [w EXCEPT !.analysis = None]

(***************************************************************************)
(* Lazy chop.                                                              *)
(***************************************************************************)

\* startLazy(): the audition may refuse to start, which stops the capture.
StartLazy ==
  /\ Ready(session) /\ ~lazy.active
  /\ \E started \in BOOLEAN : lazy' = [active |-> started, queue |-> <<>>]
  /\ Gesture
  /\ UNCHANGED <<project, work, visible, analyses, results, sessions>>

\* captureFromAudioThread(): clamped to the trim, never quantized; a full queue refuses.
CaptureMarker ==
  /\ lazy.active
  /\ \E f \in MarkerFrames :
       LET frame == Clamp(f, session.target.trimStart, session.target.trimEnd)
       IN lazy' = IF Len(lazy.queue) < LazyCapacity
                  THEN [lazy EXCEPT !.queue = Append(@, frame)] ELSE lazy

\* captureLazyMarker() from the Place Marker button
PlaceMarker ==
  CaptureMarker /\ Gesture /\ UNCHANGED <<project, work, visible, analyses, results, sessions>>

\* drainToSession(): one marker, measured against the slices so far.
TooClose(s, frame) ==
  \E i \in DOMAIN Boundaries(s) : Distance(frame, Boundaries(s)[i]) < LazyMinimum

WithLazyMarker(s, frame) ==
  IF Ready(s) /\ ~TooClose(s, frame) /\ AddAccepts(s, frame) THEN WithMarker(s, frame) ELSE s

\* drainLazyMarkers(): the queue is drained in the order of the frames.
InFrameOrder(queue) == FoldLeft(Inserted, <<>>, queue)

DrainedSession(s, queue) == FoldLeft(WithLazyMarker, s, InFrameOrder(queue))

Drained(w, queue) ==
  LET s == DrainedSession(w.session, queue)
  IN IF s.set = w.session.set THEN w ELSE [w EXCEPT !.session = MarkedLazy(s), !.plan = None]

StopLazy ==
  /\ lazy.active
  /\ work' = Drained(work, lazy.queue)
  /\ lazy' = [active |-> FALSE, queue |-> <<>>]
  /\ Gesture
  /\ UNCHANGED <<project, visible, analyses, results, sessions>>

\* SamplerView::timerCallback(): results in the order of completion, then service().
Service ==
  LET w == FoldLeft(Handled, work, results)
  IN /\ work' = IF lazy.active THEN Drained(w, lazy.queue) ELSE w
     /\ lazy' = IF lazy.active THEN [lazy EXCEPT !.queue = <<>>] ELSE lazy
     /\ results' = <<>>
     /\ UNCHANGED <<visible, analyses, sessions>>

(***************************************************************************)
(* Assignment; SliceAssignment.tla and ProjectEdits.tla follow the plan's   *)
(* destinations and the project it leads to.                               *)
(***************************************************************************)

PreviewAssignment ==
  /\ Ready(session) /\ session.target.life = project.life
  /\ Edits([work EXCEPT !.plan = [revision |-> project.revision, set |-> session.set]])

\* A set assigned under the same UUID before must be this very set.
Assignable(plan) ==
  /\ plan.revision = project.revision
  /\ \A set \in project.sets : set.uuid = plan.set.uuid => set = plan.set

LazyStep == StartLazy \/ PlaceMarker \/ StopLazy
=============================================================================

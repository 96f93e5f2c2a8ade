--------------------------- MODULE ChoppingSession ---------------------------
(***************************************************************************)
(* A chopping session (src/Source/Chopping/ChoppingSession.cpp): the        *)
(* provisional slice set of one layer, its own undo and redo, and the slice *)
(* selected.  A session is a record; each operation of the class is a       *)
(* predicate saying when it succeeds and the session it leads to.           *)
(*   target is [id, life, revision, layer, asset, trimStart, trimEnd], where *)
(* life stands for the project's UUID and id for the session's, of which    *)
(* the set's UUID is a digest.                                              *)
(***************************************************************************)
EXTENDS SliceModel

CONSTANT None

IdleSession ==
  [state |-> "idle", target |-> None, set |-> None, undo |-> <<>>, redo |-> <<>>, selected |-> 1]

Ready(session) == session.set # None

NewSet(session, algorithm, bounds) ==
  SetFromBoundaries(session.target.id, session.target, algorithm, bounds)

\* begin(): the whole trim is one slice.
BeginAccepts(target) == 0 <= target.trimStart /\ target.trimStart < target.trimEnd

Begun(target) ==
  [IdleSession EXCEPT !.state = "ready", !.target = target,
     !.set = SetFromBoundaries(target.id, target, "manual",
                               <<target.trimStart, target.trimEnd>>)]

\* cancel(): the target stays behind.
Cancelled(session) == [IdleSession EXCEPT !.state = "cancelled", !.target = session.target]

\* markAnalysing(), markPreviewing()
Marked(session, activity) ==
  IF Ready(session) THEN [session EXCEPT !.state = activity] ELSE session

ClampSelected(selected, set) == IF selected <= Len(set.regions) THEN selected ELSE Len(set.regions)

\* applyProvisional(): an equal set is no edit.
Applies(session, set) == Ready(session) /\ SliceSetValid(set)

\* Mutant of Applied: what was undone can still be redone after an edit.
AppliedKeepsRedo(session, set) ==
  IF set = session.set THEN [session EXCEPT !.state = "ready"]
  ELSE [session EXCEPT !.state = "ready", !.set = set,
          !.undo = Append(@, session.set), !.selected = ClampSelected(@, set)]

Applied(session, set) ==
  IF set = session.set THEN [session EXCEPT !.state = "ready"]
  ELSE [session EXCEPT !.state = "ready", !.set = set,
          !.undo = Append(@, session.set), !.redo = <<>>,
          !.selected = ClampSelected(@, set)]

\* boundaries(): from the first region's start over every region's end.
Boundaries(session) ==
  LET regions == session.set.regions
  IN <<regions[1].start>> \o [i \in 1 .. Len(regions) |-> regions[i].end]

\* applyManualBoundaries(); a set that left a gap at its end is refused here.
ManualAccepts(session, bounds) ==
  Ready(session) /\ BoundariesValid(bounds, session.target.trimStart, session.target.trimEnd)

WithBoundaries(session, bounds) == Applied(session, NewSet(session, "manual", bounds))

\* addMarker()
AddAccepts(session, frame) ==
  /\ Ready(session)
  /\ session.target.trimStart < frame
  /\ frame < session.target.trimEnd
  /\ \A i \in DOMAIN Boundaries(session) : Boundaries(session)[i] # frame
  /\ ManualAccepts(session, Inserted(Boundaries(session), frame))

WithMarker(session, frame) ==
  WithBoundaries(session, Inserted(Boundaries(session), frame))

\* deleteMarker(): any boundary that is no end of the trim.
Without(bounds, i) == SubSeq(bounds, 1, i - 1) \o SubSeq(bounds, i + 1, Len(bounds))

DeleteAccepts(session, i) ==
  /\ Ready(session)
  /\ Boundaries(session)[i] \notin {session.target.trimStart, session.target.trimEnd}
  /\ ManualAccepts(session, Without(Boundaries(session), i))

WithoutMarker(session, i) == WithBoundaries(session, Without(Boundaries(session), i))

\* moveMarker(): clamped strictly between the neighbours.
Moved(bounds, i, frame) ==
  [bounds EXCEPT ![i] = IF frame <= bounds[i - 1] THEN bounds[i - 1] + 1
                        ELSE IF frame >= bounds[i + 1] THEN bounds[i + 1] - 1 ELSE frame]

MoveAccepts(session, i, frame) ==
  /\ Ready(session)
  /\ 1 < i /\ i < Len(Boundaries(session))
  /\ ManualAccepts(session, Moved(Boundaries(session), i, frame))

WithMarkerMoved(session, i, frame) ==
  WithBoundaries(session, Moved(Boundaries(session), i, frame))

\* clearInternalMarkers()
Cleared(session) ==
  WithBoundaries(session, <<session.target.trimStart, session.target.trimEnd>>)

\* regenerateEqual(), regenerateFixed()
WithEqual(session, count) ==
  Applied(session, NewSet(session, "equal", EqualBoundaries(session.target, count)))

WithFixed(session, length, discard) ==
  Applied(session, FixedSet(session.target.id, session.target, length, discard))

\* markCurrentSetLazy(): relabels the set in place.
MarkedLazy(session) ==
  IF Ready(session) THEN [session EXCEPT !.set.algorithm = "lazy", !.state = "ready"] ELSE session

\* Mutant of IsCurrentTarget: the revision is not compared.
IsSameAsset(session, target) ==
  /\ session.state \notin {"idle", "cancelled"}
  /\ session.target.life = target.life
  /\ session.target.asset = target.asset

\* isCurrentTarget(): the session's identity is not compared.
IsCurrentTarget(session, target) ==
  /\ session.state \notin {"idle", "cancelled"}
  /\ session.target.life = target.life
  /\ session.target.asset = target.asset
  /\ session.target.revision = target.revision

\* acceptTransientResult()
ResultAccepted(session, result) ==
  /\ result.ok
  /\ IsCurrentTarget(session, result.target)
  /\ result.target.layer = session.target.layer
  /\ Applies(session, result.set)

\* undoSessionEdit(), redoSessionEdit()
Rewound(session) ==
  LET last == Len(session.undo)
  IN [session EXCEPT !.state = "ready", !.set = session.undo[last],
        !.undo = SubSeq(@, 1, last - 1), !.redo = Append(@, session.set),
        !.selected = ClampSelected(@, session.undo[last])]

Replayed(session) ==
  LET last == Len(session.redo)
  IN [session EXCEPT !.state = "ready", !.set = session.redo[last],
        !.redo = SubSeq(@, 1, last - 1), !.undo = Append(@, session.set),
        !.selected = ClampSelected(@, session.redo[last])]

\* selectSlice(), selectPreviousSlice(), selectNextSlice()
SelectAccepts(session, index) == Ready(session) /\ index \in 1 .. Len(session.set.regions)
=============================================================================

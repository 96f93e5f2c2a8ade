--------------------------- MODULE SliceAssignment ---------------------------
(***************************************************************************)
(* The plan that puts the slices of a set on pads or layers                *)
(* (src/Source/Chopping/AssignmentPlan.cpp) and the project it leads to    *)
(* (ApplicationController::commitSliceAssignment).                         *)
(*   A request is [project, revision, pad, set, byPads, startPad,          *)
(* startLayer, continue]; a plan is the request with one destination per   *)
(* slice.                                                                  *)
(***************************************************************************)
EXTENDS PadModel

PadOccupied(pad) == \E l \in Layers : pad.layers[l].enabled

\* The pad and the layer of the i-th slice.
DestinationPad(request, i) ==
  IF request.byPads THEN request.startPad + i - 1
  ELSE IF request.continue
       THEN request.startPad + (request.startLayer + i - 1) \div NumLayers
       ELSE request.startPad

DestinationLayer(request, i) ==
  IF request.byPads THEN 0
  ELSE IF request.continue THEN (request.startLayer + i - 1) % NumLayers
       ELSE request.startLayer + i - 1

\* How many slices find a place; a plan that needs more is refused.
Capacity(request) ==
  IF request.byPads THEN NumPads - request.startPad
  ELSE IF request.continue
       THEN (NumPads - request.startPad) * NumLayers - request.startLayer
       ELSE NumLayers - request.startLayer

\* The source layer still plays the asset the set was cut from.
SourceCurrent(s, request) ==
  /\ request.project = s.uuid
  /\ SliceSetValid(request.set)
  /\ Known(s, request.set.asset)
  /\ \E p \in Pads, l \in Layers :
       /\ s.pads[p].uuid = request.pad
       /\ <<request.pad, l>> = request.set.layer
       /\ s.pads[p].layers[l].asset = request.set.asset
       /\ s.pads[p].layers[l].enabled

\* buildAssignmentPlan() succeeds.
Plannable(s, request) ==
  /\ SourceCurrent(s, request)
  /\ Len(request.set.regions) <= Capacity(request)
  /\ \A i \in 1 .. Len(request.set.regions) :
       s.pads[DestinationPad(request, i)].uuid # request.pad

Destination(s, request, i) ==
  LET p == DestinationPad(request, i)
      l == DestinationLayer(request, i)
      occupied == IF request.byPads THEN PadOccupied(s.pads[p])
                                    ELSE s.pads[p].layers[l].enabled
  IN [slice |-> i, pad |-> p, layer |-> l, padUuid |-> s.pads[p].uuid,
      occupied |-> occupied, decision |-> IF occupied THEN "unresolved" ELSE "replace"]

\* buildAssignmentPlan()
Plan(s, request) ==
  [request |-> request,
   destinations |-> [i \in 1 .. Len(request.set.regions) |-> Destination(s, request, i)]]

\* hasUnresolvedConflicts()
Unresolved(plan) ==
  \E i \in DOMAIN plan.destinations : plan.destinations[i].decision = "unresolved"

\* setAssignmentDecision(): an empty destination is not skipped.
Decidable(plan, i, decision) ==
  /\ i \in DOMAIN plan.destinations
  /\ decision \in {"replace", "skip"}
  /\ decision = "skip" => plan.destinations[i].occupied

Decided(plan, i, decision) == [plan EXCEPT !.destinations[i].decision = decision]

\* ChoppingWorkspace::resolveAllConflicts()
AllResolved(plan, decision) ==
  [plan EXCEPT !.destinations = [i \in DOMAIN @ |->
     IF @[i].occupied THEN [@[i] EXCEPT !.decision = decision] ELSE @[i]]]

\* The layer that plays a slice from start to end, loop off.
SliceLayer(set, i) ==
  LET region == set.regions[i]
  IN [asset |-> set.asset, slice |-> [set |-> set.uuid, region |-> i], enabled |-> TRUE,
      play |-> [NoPlayback EXCEPT !.init = TRUE, !.start = region.start, !.end = region.end,
                                  !.loopStart = region.start, !.loopEnd = region.end]]

\* Mutant of Chosen: a destination the user skips is written all the same.
ChosenAll(plan) == DOMAIN plan.destinations

\* commitSliceAssignment(): the destinations that are not skipped.
Chosen(plan) ==
  {i \in DOMAIN plan.destinations : plan.destinations[i].decision = "replace"}

AssignedPad(s, plan, p) ==
  LET here == {i \in Chosen(plan) : plan.destinations[i].pad = p}
      base == IF here # {} /\ plan.request.byPads
              THEN [ClearedPad(s, p) EXCEPT !.name = "slice"] ELSE s.pads[p]
  IN [base EXCEPT !.layers = [l \in Layers |->
        IF \E i \in here : plan.destinations[i].layer = l
        THEN SliceLayer(plan.request.set,
                        CHOOSE i \in here : plan.destinations[i].layer = l)
        ELSE base.layers[l]]]

AssignedState(s, plan) ==
  [s EXCEPT !.pads = [p \in Pads |-> AssignedPad(s, plan, p)],
            !.sliceSets = @ \cup {plan.request.set}]

\* Nothing the plan was built from has changed but the user's decisions.
PlanMatches(s, plan) ==
  /\ Plannable(s, plan.request)
  /\ \A i \in DOMAIN plan.destinations :
       Plan(s, plan.request).destinations[i] =
         [plan.destinations[i] EXCEPT
            !.decision = IF plan.destinations[i].occupied THEN "unresolved" ELSE "replace"]

\* A set committed before under the same UUID has the same slices.
SetUnchanged(s, plan) ==
  \A set \in s.sliceSets : set.uuid = plan.request.set.uuid => set = plan.request.set

\* The checks of commitSliceAssignment() before it edits the project.
AssignmentCommits(s, revision, plan) ==
  /\ plan.request.project = s.uuid
  /\ plan.request.revision = revision
  /\ ~Unresolved(plan)
  /\ PlanMatches(s, plan)
  /\ SetUnchanged(s, plan)
  /\ Chosen(plan) # {}
=============================================================================

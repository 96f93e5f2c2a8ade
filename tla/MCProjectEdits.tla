--------------------------- MODULE MCProjectEdits ---------------------------
\* A project file with a two-frame sample on the first pad, cut in two, whose
\* first slice is on the second pad; the user works on the second pad.
EXTENDS ProjectEdits

CONSTANTS Sample, Import

MCEditedPads == {1}
MCAssets == {Import}
MCSourceFrames == [a \in MCAssets |-> 2]

OnePad == DefaultProjectState(-1)
WithSample ==
  [OnePad EXCEPT
     !.assets = {[uuid |-> Sample, frames |-> 2, missing |-> FALSE]},
     !.pads[0].layers[0] = [EmptyLayer EXCEPT !.asset = Sample, !.enabled = TRUE,
                                              !.play = FullRange(2)]]
CutInTwo ==
  LET source == [asset |-> Sample, layer |-> <<<<-1, 0>>, 0>>, trimStart |-> 0, trimEnd |-> 2]
  IN SetFromBoundaries("kept", source, "equal", <<0, 1, 2>>)

MCOpened ==
  [state |-> [WithSample EXCEPT !.sliceSets = {CutInTwo},
                                !.pads[1].layers[0] = SliceLayer(CutInTwo, 1)],
   revision |-> 0]
=============================================================================

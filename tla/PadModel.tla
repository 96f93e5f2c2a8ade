------------------------------ MODULE PadModel ------------------------------
(***************************************************************************)
(* The project state of src/Source/Model/PadModel.h and the functions of   *)
(* PadModel.cpp on it.  A pad keeps the fields some property tells apart;  *)
(* velocity windows, gains and pans, which no operation modelled here      *)
(* relates to anything else, are left out.  A layer's UUID always travels  *)
(* with its pad's, so it is the pair <<pad UUID, layer index>>.  An asset's *)
(* UUID stands for its content: UUIDs are fresh for an import or a take and *)
(* a digest of the recipe for a derived asset, so two assets of one UUID   *)
(* have one fingerprint.                                                   *)
(***************************************************************************)
EXTENDS SliceModel, FiniteSets

CONSTANTS NumPads,     \* totalPadCount
          NumLayers,   \* minimumLayersPerPad
          None         \* an empty UUID, an empty clipboard, no plan

ASSUME ModelSizes == NumPads \in Nat \ {0} /\ NumLayers \in Nat \ {0}

Pads == 0 .. NumPads - 1
Layers == 0 .. NumLayers - 1

\* struct SamplePlaybackSettings, uninitialized.
NoPlayback == [init |-> FALSE, start |-> 0, end |-> 0, loopStart |-> 0, loopEnd |-> 0,
               loop |-> FALSE, reverse |-> FALSE, snap |-> FALSE]

\* struct SampleLayer.  slice is None or [set, region]: the slice, set and
\* session UUIDs are always written together.
EmptyLayer == [asset |-> None, slice |-> None, enabled |-> FALSE, play |-> NoPlayback]

\* struct Pad; name, colour and parameters only tell the default from a change.
DefaultPad(uuid) ==
  [uuid |-> uuid, name |-> "default", colour |-> "default", parameters |-> "default",
   mapping |-> "default", layers |-> [l \in Layers |-> EmptyLayer]]

\* struct ProjectState and makeDefaultProjectState().
DefaultProjectState(uuid) ==
  [uuid |-> uuid, pads |-> [p \in Pads |-> DefaultPad(<<uuid, p>>)],
   assets |-> {}, derived |-> {}, recorded |-> {}, sliceSets |-> {},
   settings |-> [audio |-> "default", midi |-> "default", recording |-> "default"],
   ui |-> 0]

LayerUuids(s) == {<<s.pads[p].uuid, l>> : p \in Pads, l \in Layers}
AssetNamed(s, uuid) == {a \in s.assets : a.uuid = uuid}
Known(s, uuid) == AssetNamed(s, uuid) # {}
FramesOf(s, uuid) == (CHOOSE a \in s.assets : a.uuid = uuid).frames

\* makeClearedPad(): the identity and the mappings survive.
ClearedPad(s, p) ==
  [DefaultPad(s.pads[p].uuid) EXCEPT !.mapping = s.pads[p].mapping]

\* playbackBoundsValid() and validateSamplePlaybackSettings().
PlaybackValid(play, frames) ==
  /\ play.init
  /\ 0 < frames
  /\ play.start < play.end
  /\ play.end <= frames
  /\ play.start <= play.loopStart
  /\ play.loopStart < play.loopEnd
  /\ play.loopEnd <= play.end

FullRange(frames) ==
  [NoPlayback EXCEPT !.init = TRUE, !.end = frames, !.loopEnd = frames]

\* resolveSamplePlaybackSettings(): what a layer plays of a source of that length.
ResolvePlayback(layer, frames) ==
  IF PlaybackValid(layer.play, frames) THEN layer.play ELSE FullRange(frames)

\* validateLayer().
LayerValid(layer) ==
  /\ layer.enabled => layer.asset # None
  /\ layer.slice # None => layer.enabled /\ layer.play.init
  /\ ~layer.play.init => layer.play = NoPlayback
  /\ layer.play.init => layer.asset # None

\* validateProjectState(): the UUIDs of pads, layers and assets are distinct.
IdentitiesDistinct(s) ==
  /\ \A p, q \in Pads : s.pads[p].uuid = s.pads[q].uuid => p = q
  /\ \A a, b \in s.assets : a.uuid = b.uuid => a = b

\* The fields of the structs, as far as they are modelled; UUIDs, names and the like are
\* any values.
Playbacks == [init : BOOLEAN, start : Nat, end : Nat, loopStart : Nat, loopEnd : Nat,
              loop : BOOLEAN, reverse : BOOLEAN, snap : BOOLEAN]

IsLayer(layer) ==
  /\ layer = [asset |-> layer.asset, slice |-> layer.slice, enabled |-> layer.enabled,
              play |-> layer.play]
  /\ layer.enabled \in BOOLEAN /\ layer.play \in Playbacks

IsPad(pad) ==
  /\ pad = [uuid |-> pad.uuid, name |-> pad.name, colour |-> pad.colour,
            parameters |-> pad.parameters, mapping |-> pad.mapping,
            layers |-> [l \in Layers |-> pad.layers[l]]]
  /\ \A l \in Layers : IsLayer(pad.layers[l])

IsAsset(a) ==
  /\ a = [uuid |-> a.uuid, frames |-> a.frames, missing |-> a.missing]
  /\ a.frames \in Nat /\ a.missing \in BOOLEAN

IsDerived(d) == d = [asset |-> d.asset, parent |-> d.parent]

IsRecorded(r) ==
  r = [asset |-> r.asset, frames |-> r.frames, project |-> r.project, layer |-> r.layer]

IsSettings(x) == x = [audio |-> x.audio, midi |-> x.midi, recording |-> x.recording]

IsProjectState(s) ==
  /\ s = [uuid |-> s.uuid, pads |-> [p \in Pads |-> s.pads[p]], assets |-> s.assets,
          derived |-> s.derived, recorded |-> s.recorded, sliceSets |-> s.sliceSets,
          settings |-> s.settings, ui |-> s.ui]
  /\ \A p \in Pads : IsPad(s.pads[p])
  /\ \A a \in s.assets : IsAsset(a)
  /\ \A d \in s.derived : IsDerived(d)
  /\ \A r \in s.recorded : IsRecorded(r)
  /\ \A set \in s.sliceSets : IsSliceSet(set)
  /\ IsSettings(s.settings)

\* A derived asset's output and parent are in the project.
DerivedResolve(s) ==
  \A d \in s.derived : Known(s, d.asset) /\ Known(s, d.parent)

\* A recorded take's asset and the layer it was recorded for are in the project.
RecordedResolve(s) ==
  \A r \in s.recorded :
    /\ \E a \in AssetNamed(s, r.asset) : a.frames = r.frames
    /\ r.project = s.uuid
    /\ r.layer \in LayerUuids(s)

\* A slice set is well formed and its source asset and layer are in the project.
SliceSetsResolve(s) ==
  /\ \A set \in s.sliceSets :
       SliceSetValid(set) /\ Known(s, set.asset) /\ set.layer \in LayerUuids(s)
  /\ \A x, y \in s.sliceSets : x.uuid = y.uuid => x = y

\* Mutant of LayerPlaybackResolves: a slice's bounds are not compared.
ResolvesAnyBounds(s, layer) ==
  layer.play.init =>
    /\ Known(s, layer.asset)
    /\ PlaybackValid(layer.play, FramesOf(s, layer.asset))

\* The bounds of an initialized layer lie in its asset, and are those of its slice.
LayerPlaybackResolves(s, layer) ==
  layer.play.init =>
    /\ Known(s, layer.asset)
    /\ PlaybackValid(layer.play, FramesOf(s, layer.asset))
    /\ layer.slice # None =>
         \E set \in s.sliceSets :
           /\ set.uuid = layer.slice.set
           /\ set.asset = layer.asset
           /\ layer.slice.region \in 1 .. Len(set.regions)
           /\ layer.play.start = set.regions[layer.slice.region].start
           /\ layer.play.end = set.regions[layer.slice.region].end

\* validateProjectState().
ProjectValid(s) ==
  /\ IdentitiesDistinct(s)
  /\ \A p \in Pads, l \in Layers :
       /\ LayerValid(s.pads[p].layers[l])
       /\ LayerPlaybackResolves(s, s.pads[p].layers[l])
  /\ DerivedResolve(s)
  /\ RecordedResolve(s)
  /\ SliceSetsResolve(s)
=============================================================================

------------------------------ MODULE Manifest ------------------------------
(***************************************************************************)
(* The project manifest (src/Source/Serialization/ProjectSerializer.cpp):  *)
(* how a project becomes JSON and how JSON becomes a project again.  A JSON *)
(* object is a function of the properties it has; a value carries its JSON *)
(* kind, as a frame count is written as a decimal string and a property of *)
(* another kind is refused.  Arrays of assets and slice sets are sets, as  *)
(* in PadModel; fields PadModel leaves out are left out here.              *)
(***************************************************************************)
EXTENDS PadModel

Json(kind, value) == [kind |-> kind, value |-> value]
Text(value) == Json("text", value)
Decimal(value) == Json("decimal", value)
Bool(value) == Json("bool", value)
Array(values) == Json("array", values)
Object(fields) == Json("object", fields)

\* makeObject() with some properties set only when they say something.
With(fields, optional, present) ==
  [f \in DOMAIN fields \cup (IF present THEN DOMAIN optional ELSE {}) |->
     IF f \in DOMAIN fields THEN fields[f] ELSE optional[f]]

Without(object, names) == [f \in DOMAIN object \ names |-> object[f]]

\* requireObject(), readString(), readBool(), readInteger(), readDecimalString():
\* every property named is there, in the kind named.
Conforms(object, kinds) ==
  \A f \in DOMAIN kinds : f \in DOMAIN object /\ object[f].kind = kinds[f]

(***************************************************************************)
(* Writing.                                                                *)
(***************************************************************************)

\* samplePlaybackValue()
WrittenPlayback(play) ==
  [startFrame |-> Decimal(play.start), endFrame |-> Decimal(play.end),
   loopStartFrame |-> Decimal(play.loopStart), loopEndFrame |-> Decimal(play.loopEnd),
   loopEnabled |-> Bool(play.loop), reverseEnabled |-> Bool(play.reverse),
   zeroCrossingSnap |-> Bool(play.snap)]

\* Mutant of WrittenLayer: the slice a layer holds is not written.
WrittenWithoutSlice(layer) ==
  With([assetUuid |-> Text(layer.asset), enabled |-> Bool(layer.enabled)],
       [editing |-> Object(WrittenPlayback(layer.play))], layer.play.init)

\* layerValue()
WrittenLayer(layer) ==
  With(With([assetUuid |-> Text(layer.asset), enabled |-> Bool(layer.enabled)],
            [editing |-> Object(WrittenPlayback(layer.play))], layer.play.init),
       [sliceAssignment |-> Text(layer.slice)], layer.slice # None)

\* sliceAlgorithmName()
AlgorithmName(algorithm) == IF algorithm = "fixedLength" THEN "fixed-length" ELSE algorithm

\* sliceRegionValue()
WrittenRegion(region) == [startFrame |-> Decimal(region.start), endFrame |-> Decimal(region.end)]

\* sliceParametersValue() and sliceSetValue()
WrittenSliceSet(set) ==
  [uuid |-> Text(set.uuid), algorithm |-> Text(AlgorithmName(set.algorithm)),
   remainderPolicy |-> Text(IF set.discard THEN "discard" ELSE "include"),
   sourceAssetUuid |-> Text(set.asset), sourceLayerUuid |-> Text(set.layer),
   sourceTrimStart |-> Decimal(set.trimStart), sourceTrimEnd |-> Decimal(set.trimEnd),
   slices |-> Array([i \in DOMAIN set.regions |-> WrittenRegion(set.regions[i])])]

\* padParametersValue() and padValue()
WrittenPad(pad) ==
  [uuid |-> Text(pad.uuid), name |-> Text(pad.name), colourArgb |-> Text(pad.colour),
   parameters |-> Object(pad.parameters), mapping |-> Text(pad.mapping),
   layers |-> Array([l \in Layers |-> WrittenLayer(pad.layers[l])])]

\* bankValue(): the pads in order.
WrittenBanks(s) == Array([p \in Pads |-> WrittenPad(s.pads[p])])

\* assetValue(), derivedAssetValue(), recordedAssetValue()
WrittenAsset(a) ==
  [uuid |-> Text(a.uuid), frameCount |-> Decimal(a.frames), missing |-> Bool(a.missing)]

WrittenDerived(d) == [derivedAssetUuid |-> Text(d.asset), parentAssetUuid |-> Text(d.parent)]

WrittenRecorded(r) ==
  [recordedAssetUuid |-> Text(r.asset), frameCount |-> Decimal(r.frames),
   targetProjectUuid |-> Text(r.project), targetLayerUuid |-> Text(r.layer)]

\* manifestValue()
WrittenManifest(project) ==
  LET s == project.state
  IN [schemaVersion |-> Json("integer", 1), format |-> Text("padflow-project"),
      projectUuid |-> Text(s.uuid), revision |-> Decimal(project.revision),
      banks |-> WrittenBanks(s),
      assets |-> Array({WrittenAsset(a) : a \in s.assets}),
      derivedAssets |-> Array({WrittenDerived(d) : d \in s.derived}),
      recordedAssets |-> Array({WrittenRecorded(r) : r \in s.recorded}),
      sliceSets |-> Array({WrittenSliceSet(x) : x \in s.sliceSets}),
      audio |-> Object(s.settings.audio), midi |-> Object(s.settings.midi),
      recording |-> Object(s.settings.recording), ui |-> Object(s.ui)]

(***************************************************************************)
(* Reading: for each object, what is demanded of it and what it becomes.   *)
(***************************************************************************)

PlaybackKinds ==
  [f \in {"startFrame", "endFrame", "loopStartFrame", "loopEndFrame"} |-> "decimal"]
PlaybackFlags == [f \in {"loopEnabled", "reverseEnabled", "zeroCrossingSnap"} |-> "bool"]

\* readSamplePlayback()
ReadPlayback(object) ==
  [init |-> TRUE, start |-> object.startFrame.value, end |-> object.endFrame.value,
   loopStart |-> object.loopStartFrame.value, loopEnd |-> object.loopEndFrame.value,
   loop |-> object.loopEnabled.value, reverse |-> object.reverseEnabled.value,
   snap |-> object.zeroCrossingSnap.value]

\* readLayer(): what is not written keeps its default.
LayerReadable(object) ==
  /\ Conforms(object, [assetUuid |-> "text", enabled |-> "bool"])
  /\ "editing" \in DOMAIN object =>
       /\ object.editing.kind = "object"
       /\ Conforms(object.editing.value, PlaybackKinds)
       /\ Conforms(object.editing.value, PlaybackFlags)
  /\ "sliceAssignment" \in DOMAIN object => object.sliceAssignment.kind = "text"

ReadLayer(object) ==
  [asset |-> object.assetUuid.value, enabled |-> object.enabled.value,
   slice |-> IF "sliceAssignment" \in DOMAIN object THEN object.sliceAssignment.value ELSE None,
   play |-> IF "editing" \in DOMAIN object THEN ReadPlayback(object.editing.value)
            ELSE NoPlayback]

\* readSliceAlgorithm()
ReadAlgorithm(name) == IF name = "fixed-length" THEN "fixedLength" ELSE name

\* readSliceRegion(), readSliceParameters() and readSliceSet()
SliceSetReadable(object) ==
  /\ Conforms(object, [uuid |-> "text", algorithm |-> "text", remainderPolicy |-> "text",
                       sourceAssetUuid |-> "text", sourceLayerUuid |-> "text",
                       sourceTrimStart |-> "decimal", sourceTrimEnd |-> "decimal",
                       slices |-> "array"])
  /\ object.algorithm.value \in {"equal", "fixed-length", "transient", "manual", "lazy"}
  /\ object.remainderPolicy.value \in {"include", "discard"}
  /\ \A i \in DOMAIN object.slices.value :
       Conforms(object.slices.value[i], [startFrame |-> "decimal", endFrame |-> "decimal"])

ReadRegion(object) == Region(object.startFrame.value, object.endFrame.value)

ReadSliceSet(object) ==
  [uuid |-> object.uuid.value, algorithm |-> ReadAlgorithm(object.algorithm.value),
   discard |-> object.remainderPolicy.value = "discard",
   asset |-> object.sourceAssetUuid.value, layer |-> object.sourceLayerUuid.value,
   trimStart |-> object.sourceTrimStart.value, trimEnd |-> object.sourceTrimEnd.value,
   regions |-> [i \in DOMAIN object.slices.value |-> ReadRegion(object.slices.value[i])]]

\* readPad() and readPadParameters()
PadReadable(object) ==
  /\ Conforms(object, [uuid |-> "text", name |-> "text", colourArgb |-> "text",
                       parameters |-> "object", mapping |-> "text", layers |-> "array"])
  /\ DOMAIN object.layers.value = Layers
  /\ \A l \in Layers : LayerReadable(object.layers.value[l])

ReadPad(object) ==
  [uuid |-> object.uuid.value, name |-> object.name.value, colour |-> object.colourArgb.value,
   parameters |-> object.parameters.value, mapping |-> object.mapping.value,
   layers |-> [l \in Layers |-> ReadLayer(object.layers.value[l])]]

\* readAsset(), readDerivedAsset(), readRecordedAsset()
AssetKinds == [uuid |-> "text", frameCount |-> "decimal", missing |-> "bool"]
ReadAsset(object) ==
  [uuid |-> object.uuid.value, frames |-> object.frameCount.value,
   missing |-> object.missing.value]

DerivedKinds == [derivedAssetUuid |-> "text", parentAssetUuid |-> "text"]
ReadDerived(object) ==
  [asset |-> object.derivedAssetUuid.value, parent |-> object.parentAssetUuid.value]

RecordedKinds == [recordedAssetUuid |-> "text", frameCount |-> "decimal",
                  targetProjectUuid |-> "text", targetLayerUuid |-> "text"]
ReadRecorded(object) ==
  [asset |-> object.recordedAssetUuid.value, frames |-> object.frameCount.value,
   project |-> object.targetProjectUuid.value, layer |-> object.targetLayerUuid.value]

\* The sections of the model; those a manifest may lack are read as empty.
Sections == {"banks", "assets", "derivedAssets", "recordedAssets", "sliceSets",
             "audio", "midi", "recording", "ui"}

Entries(manifest, section) ==
  IF section \in DOMAIN manifest THEN manifest[section].value ELSE {}

HeaderReadable(manifest) ==
  /\ Conforms(manifest, [schemaVersion |-> "integer", format |-> "text",
                         projectUuid |-> "text", revision |-> "decimal"])
  /\ manifest.schemaVersion.value = 1
  /\ manifest.format.value = "padflow-project"

\* readAudio(), readMidi(), readRecording() and readUi() are the objects' own.
SectionsReadable(manifest) ==
  /\ Conforms(manifest, [banks |-> "array", assets |-> "array", audio |-> "object",
                         midi |-> "object", ui |-> "object"])
  /\ DOMAIN manifest.banks.value = Pads
  /\ \A p \in Pads : PadReadable(manifest.banks.value[p])
  /\ \A a \in manifest.assets.value : Conforms(a, AssetKinds)
  /\ \A d \in Entries(manifest, "derivedAssets") : Conforms(d, DerivedKinds)
  /\ \A r \in Entries(manifest, "recordedAssets") : Conforms(r, RecordedKinds)
  /\ \A x \in Entries(manifest, "sliceSets") : SliceSetReadable(x)

ReadState(manifest) ==
  LET default == DefaultProjectState(manifest.projectUuid.value)
  IN [default EXCEPT
        !.pads = [p \in Pads |-> ReadPad(manifest.banks.value[p])],
        !.assets = {ReadAsset(a) : a \in manifest.assets.value},
        !.derived = {ReadDerived(d) : d \in Entries(manifest, "derivedAssets")},
        !.recorded = {ReadRecorded(r) : r \in Entries(manifest, "recordedAssets")},
        !.sliceSets = {ReadSliceSet(x) : x \in Entries(manifest, "sliceSets")},
        !.settings.audio = manifest.audio.value,
        !.settings.midi = manifest.midi.value,
        !.settings.recording = IF "recording" \in DOMAIN manifest
                               THEN manifest.recording.value ELSE @,
        !.ui = manifest.ui.value]

ReadProjects(manifest) ==
  IF SectionsReadable(manifest)
  THEN {[state |-> ReadState(manifest), revision |-> manifest.revision.value]}
  ELSE {}

\* parseManifest(): the projects a manifest can be read as, one or none.  One
\* with no model section at all is an empty project of an earlier version.
ParseManifest(manifest) ==
  IF ~HeaderReadable(manifest) THEN {}
  ELSE IF "banks" \notin DOMAIN manifest
  THEN IF Sections \cap DOMAIN manifest # {} THEN {}
       ELSE {[state |-> DefaultProjectState(manifest.projectUuid.value),
              revision |-> manifest.revision.value]}
  ELSE {p \in ReadProjects(manifest) : ProjectValid(p.state)}

\* A project's state with one section back at its default.
Emptied(s, section) ==
  LET default == DefaultProjectState(s.uuid)
  IN CASE section = "derivedAssets" -> [s EXCEPT !.derived = default.derived]
       [] section = "recordedAssets" -> [s EXCEPT !.recorded = default.recorded]
       [] section = "sliceSets" -> [s EXCEPT !.sliceSets = default.sliceSets]
       [] section = "recording" -> [s EXCEPT !.settings.recording = default.settings.recording]
       [] OTHER -> s
=============================================================================

----------------------------- MODULE SamplerDesk -----------------------------
(***************************************************************************)
(* The sampler's window at work (src/Source/App/SamplerView.cpp): what the *)
(* user's hands, a MIDI device, the window's timer, the workers and the     *)
(* audio thread do to the input router and the chopping workspace, which    *)
(* share the project, and through which the same key, pad or note plays a   *)
(* pad or places a marker, depending on what is on display.                 *)
(***************************************************************************)
EXTENDS ChoppingWorkspace, InputRouter

CONSTANT MaxLives  \* bound: projects after the first

vars == <<project, gestures, work, visible, lazy, analyses, results, sessions, heldKeys,
          heldMouse, routed, midiCommands, deferred, engineQueue, gates, heldUi, hands, refused>>

deskVars == <<project, gestures>>
PlaysMarkers == visible /\ lazy.active

(***************************************************************************)
(* Keys, pads and notes.                                                   *)
(***************************************************************************)

\* keyPressed(); a repeat is a press of a key that is down.  textEntry: a text
\* editor has the focus.
KeyPressed(k) ==
  \E textEntry \in BOOLEAN :
    /\ Gesture
    /\ hands' = hands \cup {Key(k)}
    /\ IF PlaysMarkers /\ ~textEntry
       THEN CaptureMarker /\ UNCHANGED <<heldKeys, engineQueue, heldUi, refused>>
       ELSE /\ IF textEntry THEN UNCHANGED <<heldKeys, engineQueue, heldUi, refused>>
               ELSE KeyDown(k)
            /\ UNCHANGED lazy
    /\ UNCHANGED <<project, work, visible, analyses, results, sessions>>
    /\ UNCHANGED <<heldMouse, routed, midiCommands, deferred, gates>>

KeyReleased(k) == KeyUp(k) /\ UNCHANGED <<deskVars, workspaceVars>>

\* onPadMouseDown: the pads are hidden while the workspace is on display.
PadMouseDown(p) ==
  /\ ~visible
  /\ Gesture
  /\ MouseDown(p)
  /\ UNCHANGED workspaceVars

PadMouseUp(p) == MouseUp(p) /\ UNCHANGED <<deskVars, workspaceVars>>

\* handleIncomingMidiMessage(): while markers are placed, every note is one.
MidiNoteOn(n) ==
  /\ Midi(n) \notin hands
  /\ Gesture
  /\ hands' = hands \cup {Midi(n)}
  /\ IF PlaysMarkers THEN CaptureMarker /\ UNCHANGED midiCommands
                     ELSE NoteOn(n) /\ UNCHANGED lazy
  /\ UNCHANGED <<project, work, visible, analyses, results, sessions>>
  /\ UNCHANGED <<heldKeys, heldMouse, routed, deferred, engineQueue, gates, heldUi, refused>>

MidiNoteOff(n) ==
  /\ Midi(n) \in hands
  /\ hands' = hands \ {Midi(n)}
  /\ IF PlaysMarkers THEN UNCHANGED midiCommands ELSE NoteOff(n)
  /\ UNCHANGED <<deskVars, workspaceVars>>
  /\ UNCHANGED <<heldKeys, heldMouse, routed, deferred, engineQueue, gates, heldUi, refused>>

\* auditionSelectedLayer(): the button and a click on the waveform, in reach whatever
\* is on display.  Nothing happens while the layer's sample is not decoded.
AuditionSelectedLayer ==
  /\ Gesture
  /\ \E decoded \in BOOLEAN :
       IF decoded THEN Enqueue(Trigger(LayerAudition)) ELSE UNCHANGED engineQueue
  /\ UNCHANGED <<project, workspaceVars, heldKeys, heldMouse, routed, midiCommands, deferred, gates,
                 heldUi, hands, refused>>

\* timerCallback()
TimerCallback ==
  /\ FlushMidiCommands
  /\ Service
  /\ UNCHANGED <<deskVars, heldKeys, heldMouse, routed, gates, heldUi, hands, refused>>

ProcessBlock == AudioBlock /\ UNCHANGED <<deskVars, workspaceVars>>

Devices == (DeviceStops \/ DeviceStarts \/ MidiUnplugged) /\ UNCHANGED <<deskVars, workspaceVars>>

(***************************************************************************)
(* What is on display, and the edits of the project.                       *)
(***************************************************************************)

unplayed == <<heldKeys, heldMouse, midiCommands, deferred, engineQueue, gates, heldUi, hands,
              refused>>

\* setChoppingWorkspaceVisible(true)
OpenWorkspace ==
  ~visible /\ BeginForLayer /\ UNCHANGED <<deskVars, routerVars>>

\* setChoppingWorkspaceVisible(false), and cancelButton_ through onCancel.
CloseWorkspace ==
  /\ visible
  /\ CancelWork /\ CancelAnalysis
  /\ visible' = FALSE
  /\ UNCHANGED <<deskVars, results, sessions, routerVars>>

\* An edit whose handler ends in refreshFromProject().
Publish(p) ==
  /\ project' = p
  /\ RefreshFromProject(p)

\* selectBank(): its buttons are hidden while the workspace is on display.
SelectBank(bank) ==
  /\ ~visible /\ MayRevise(1) /\ Gesture
  /\ Publish([Revised(project, 1) EXCEPT !.bank = bank])
  /\ UNCHANGED <<workspaceVars, unplayed>>

\* An edit of the trim, of the pads' mappings or of something else, an undo or
\* redo of any of them or of an assignment.
EditProject ==
  /\ MayRevise(1) /\ Gesture
  /\ \/ \E trim \in Trims : Publish([Revised(project, 1) EXCEPT !.trim = trim])
     \/ \E mapping \in Mappings : Publish([Revised(project, 1) EXCEPT !.mapping = mapping])
     \/ Publish([Revised(project, 1) EXCEPT !.sets = {}])
  /\ UNCHANGED <<workspaceVars, unplayed>>

\* showMidiSettings(): another channel, another device.  Nothing is released for
\* the notes the device taken away holds.
ApplyMidiSettings ==
  /\ MayRevise(1) /\ Gesture
  /\ \E open, sameDevice \in BOOLEAN :
       /\ open # project.open \/ ~sameDevice
       /\ Publish([Revised(project, 1) EXCEPT !.open = open])
       /\ hands' = IF sameDevice THEN hands ELSE hands \ NoteSources
  /\ UNCHANGED <<workspaceVars, heldKeys, heldMouse, midiCommands, deferred, engineQueue, gates,
                 heldUi, refused>>

\* commitAssignment(): unless the user stays in the editor, it closes.
CommitAssignment ==
  /\ work.plan # None /\ Assignable(work.plan)
  /\ MayRevise(1)
  /\ \E steps \in IF work.plan.set \in project.sets THEN {0, 1} ELSE {1}, stay \in BOOLEAN :
       /\ Publish([Revised(project, steps) EXCEPT !.sets = @ \cup {work.plan.set}])
       /\ IF stay
          THEN work' = [work EXCEPT !.plan = None] /\ UNCHANGED <<visible, lazy, analyses>>
          ELSE CancelWork /\ CancelAnalysis /\ visible' = FALSE
  /\ UNCHANGED <<gestures, results, sessions, unplayed>>

\* "All notes off" in the MIDI settings, stopAudition().
AllNotesOff ==
  /\ Gesture
  /\ PanicCommand
  /\ UNCHANGED <<project, workspaceVars, routed, midiCommands, deferred, gates, heldUi, hands>>

\* newButton_, openButton_: the workspace is cancelled, the project's jobs too.
StartOver ==
  /\ project.life < MaxLives
  /\ Gesture
  /\ IF visible THEN CancelWork ELSE UNCHANGED <<work, lazy>>
  /\ visible' = FALSE
  /\ analyses' = {[a EXCEPT !.cancelled = TRUE] : a \in analyses}
  /\ PanicCommand
  /\ \E trim \in Trims :
       Publish([project EXCEPT !.life = @ + 1, !.revision = 0, !.trim = trim, !.sets = {}])
  /\ UNCHANGED <<results, sessions, midiCommands, deferred, gates, heldUi, hands>>

Init ==
  /\ DeskInit
  /\ work = NoWork /\ lazy = [active |-> FALSE, queue |-> <<>>]
  /\ visible = FALSE /\ analyses = {} /\ results = <<>> /\ sessions = 0
  /\ RouterInit

\* The controls of the workspace, used while it is on display.
WorkspaceStep ==
  /\ visible
  /\ MarkerStep \/ SubmitTransientAnalysis \/ LazyStep \/ PreviewAssignment
  /\ UNCHANGED routerVars

Worker == \E job \in analyses : AnalysisFinishes(job) /\ UNCHANGED routerVars

Next ==
  \/ \E k \in Keys : KeyPressed(k) \/ KeyReleased(k)
  \/ \E p \in MousePads : PadMouseDown(p) \/ PadMouseUp(p)
  \/ \E n \in Notes : MidiNoteOn(n) \/ MidiNoteOff(n)
  \/ AuditionSelectedLayer \/ TimerCallback \/ ProcessBlock \/ Devices \/ Worker
  \/ OpenWorkspace \/ CloseWorkspace \/ WorkspaceStep \/ CommitAssignment
  \/ \E bank \in Banks : SelectBank(bank)
  \/ EditProject \/ ApplyMidiSettings \/ AllNotesOff \/ StartOver

Spec == Init /\ [][Next]_vars

(***************************************************************************)
(* Properties.                                                             *)
(***************************************************************************)

\* Once every queued command is played, a key or a pad still sounds only while a
\* hand is on it, or if a full engine queue refused its release or a panic and no
\* later one got through.  Remapping a pad, changing banks, opening the workspace,
\* typing in a text field, a panic or a restart of the device between press and
\* release leave none of their gates open.  Auditions, which no hand holds, sound
\* until a panic; for notes see NotesEnd.
GatesAreHeld ==
  LET manual == {Key(k) : k \in Keys} \cup {Mouse(p) : p \in MousePads}
  IN Sounding \cap manual \subseteq hands \cup refused

\* The router answers a note: no markers are placed, the channel filter is open, a pad
\* of the bank shown has the note, and its message finds room to wait.
Answers(n) ==
  /\ ~PlaysMarkers
  /\ project.open /\ n \in project.mapping[project.bank]
  /\ Len(midiCommands) < MidiCapacity

\* A note-off that the router answers as the project stands, after whatever edits, undo or
\* replacement of it, ends the note, and no note sounds anew without a note-on: full
\* queues of the engine, panics and restarts of the device in between included.  A
\* note-off it does not answer leaves its note open (InputRouter.cpp:111), which is less
\* than docs/MIDI_MAPPING.md promises; nor does a device that goes end its notes.
NotesEnd ==
  [][\A n \in Notes :
       /\ MidiNoteOff(n) /\ Answers(n) => Midi(n) \notin Sounding'
       /\ Midi(n) \in Sounding' \ Sounding => MidiNoteOn(n)]_vars

\* MIDI commands reach the engine once and in the order the device sent them,
\* whenever the engine's queue fills up in between (InputRouter.cpp:28).
MidiInOrder ==
  [][\E taken \in 0 .. Len(Waiting) :
       LET rest == SubSeq(Waiting, taken + 1, Len(Waiting))
       IN /\ taken > 0 => engineQueue' = engineQueue \o SubSeq(Waiting, 1, taken)
          /\ Len(rest) <= Len(Waiting')
          /\ SubSeq(Waiting', 1, Len(rest)) = rest]_vars

\* Whatever regenerates, edits, undoes or analyses, the slices on display and
\* those undo and redo lead to are a valid cut of the trim the session was begun
\* on, even by a result that comes from an earlier session.
FitsTarget(set) ==
  /\ SliceSetValid(set)
  /\ set.trimStart = session.target.trimStart /\ set.trimEnd = session.target.trimEnd
  /\ set.regions[1].start = session.target.trimStart

SlicesFitSession ==
  Ready(session) =>
    /\ FitsTarget(session.set)
    /\ \A i \in DOMAIN session.undo : FitsTarget(session.undo[i])
    /\ \A i \in DOMAIN session.redo : FitsTarget(session.redo[i])
    /\ session.selected \in DOMAIN session.set.regions

\* Within a session the slices form one line that undo and redo walk, whichever
\* of the controls, the lazy capture or a late analysis cuts them.
RegionsOf(sets) == [i \in DOMAIN sets |-> sets[i].regions]

Line == INSTANCE LinearHistory
          WITH past <- RegionsOf(session.undo),
               present <- IF Ready(session) THEN session.set.regions ELSE <<>>,
               future <- RegionsOf(session.redo)

MarkersUndoable ==
  [][Ready(session) /\ Ready(session') /\ session'.target = session.target =>
       Line!Edits \/ Line!Undo \/ Line!Redo]_<<session.set, session.undo, session.redo>>

\* What an analysis finds meets its reference for whatever it is asked.
AnalysisSound == [][\A job \in analyses' \ analyses : AnalysisMeetsReference(job)]_vars
=============================================================================

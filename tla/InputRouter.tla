----------------------------- MODULE InputRouter -----------------------------
(***************************************************************************)
(* The input router (src/Source/Input/InputRouter.cpp) between the user's   *)
(* hands and the engine's command queue.  Mouse and keys arrive on the      *)
(* message thread; MIDI arrives on the device's thread, which sees the      *)
(* project through atomics refreshFromProject() stores, and whose commands  *)
(* wait in midiCommands_ for the message thread's timer.  One handler is    *)
(* one step; which pad a source sounds is not followed, only that it does.  *)
(***************************************************************************)
EXTENDS DeskProject, SequencesExt

CONSTANTS MousePads,       \* pads of the bank shown the user clicks
          MidiCapacity,    \* SpscQueue<AudioCommand, 256>: midiCommands_
          EngineCapacity   \* the engine's command queue

ASSUME RouterAssumption == MidiCapacity \in Nat \ {0} /\ EngineCapacity \in Nat \ {0}

VARIABLES
  heldKeys,      \* heldKeyCodes_
  heldMouse,     \* heldMousePads_
  routed,        \* the notes midiNotes_, selectedBank_ and midiChannelFilter_ let through
  midiCommands,  \* midiCommands_
  deferred,      \* deferredMidiCommand_: at most one
  engineQueue,   \* PlaybackEngine's command queue
  gates,         \* the sources the engine holds open (external)
  heldUi,        \* SamplerView::heldUiKeys_
  hands,         \* ghost: the keys, buttons and notes of the device down
  refused        \* ghost: sources whose release, or panic, a full engine queue refused

routerVars == <<heldKeys, heldMouse, routed, midiCommands, deferred, engineQueue, gates, heldUi,
                hands, refused>>
queues == <<midiCommands, deferred, engineQueue, gates>>

Key(k) == <<"key", k>>
Mouse(p) == <<"mouse", p>>
Midi(n) == <<"midi", n>>
LayerAudition == <<"audition">>  \* auditionSourceId_: fresh each time, and never released

NoteSources == {Midi(n) : n \in Notes}

\* struct AudioCommand
Trigger(source) == [type |-> "trigger", source |-> source]
Release(source) == [type |-> "release", source |-> source]
Panic == [type |-> "panic", source |-> <<>>]

\* What a command does to the sources that are open, and a queue of them.
Effect(open, command) ==
  CASE command.type = "trigger" -> open \cup {command.source}
    [] command.type = "release" -> open \ {command.source}
    [] command.type = "panic"   -> {}

After(open, commands) == FoldLeft(Effect, open, commands)

\* What sounds once the engine's queue is played, and once those before it are, too.
Played == After(gates, engineQueue)
Waiting == deferred \o midiCommands
Sounding == After(gates, engineQueue \o Waiting)

EngineFull == Len(engineQueue) >= EngineCapacity

\* engine_.enqueue(), which refuses when the queue is full.
Enqueue(command) ==
  engineQueue' = IF EngineFull THEN engineQueue ELSE Append(engineQueue, command)

\* releaseSource(): every caller ignores that it may fail.
ReleaseSource(source) ==
  /\ Enqueue(Release(source))
  /\ refused' = IF EngineFull THEN refused \cup {source} ELSE refused \ {source}

\* keyDown(): repeats are ignored until the key was up; heldUi is set when it succeeds.
KeyDown(k) ==
  IF k \in project.mapping[project.bank] /\ k \notin heldKeys
  THEN /\ heldKeys' = heldKeys \cup {k}
       /\ Enqueue(Trigger(Key(k)))
       /\ heldUi' = IF EngineFull THEN heldUi ELSE heldUi \cup {k}
       /\ UNCHANGED refused
  ELSE UNCHANGED <<heldKeys, engineQueue, heldUi, refused>>

\* Mutant of KeyUp: only a key that plays a pad now is released.
KeyUpByMapping(k) ==
  /\ Key(k) \in hands
  /\ hands' = hands \ {Key(k)}
  /\ IF k \in heldUi
     THEN /\ heldUi' = heldUi \ {k}
          /\ heldKeys' = heldKeys \ {k}
          /\ IF k \in project.mapping[project.bank]
             THEN ReleaseSource(Key(k)) ELSE UNCHANGED <<engineQueue, refused>>
     ELSE UNCHANGED <<heldUi, heldKeys, engineQueue, refused>>
  /\ UNCHANGED <<heldMouse, routed, midiCommands, deferred, gates>>

\* keyStateChanged() and keyUp()
KeyUp(k) ==
  /\ Key(k) \in hands
  /\ hands' = hands \ {Key(k)}
  /\ IF k \in heldUi
     THEN /\ heldUi' = heldUi \ {k}
          /\ heldKeys' = heldKeys \ {k}
          /\ IF k \in heldKeys THEN ReleaseSource(Key(k)) ELSE UNCHANGED <<engineQueue, refused>>
     ELSE UNCHANGED <<heldUi, heldKeys, engineQueue, refused>>
  /\ UNCHANGED <<heldMouse, routed, midiCommands, deferred, gates>>

\* SamplerView selects the pad, then mouseDown() does: two revisions.
MouseDown(p) ==
  /\ Mouse(p) \notin hands
  /\ MayRevise(2)
  /\ project' = Revised(project, 2)
  /\ hands' = hands \cup {Mouse(p)}
  /\ heldMouse' = heldMouse \cup {p}
  /\ Enqueue(Trigger(Mouse(p)))
  /\ UNCHANGED <<heldKeys, routed, midiCommands, deferred, gates, heldUi, refused>>

\* mouseUp()
MouseUp(p) ==
  /\ Mouse(p) \in hands
  /\ hands' = hands \ {Mouse(p)}
  /\ heldMouse' = heldMouse \ {p}
  /\ IF p \in heldMouse THEN ReleaseSource(Mouse(p)) ELSE UNCHANGED <<engineQueue, refused>>
  /\ UNCHANGED <<heldKeys, routed, midiCommands, deferred, gates, heldUi>>

\* makeMidiCommand() and tryPush(): what becomes of a note message.
MidiQueued(command) ==
  midiCommands' = IF Len(midiCommands) < MidiCapacity THEN Append(midiCommands, command)
                  ELSE midiCommands

NoteOn(n) == IF n \in routed THEN MidiQueued(Trigger(Midi(n))) ELSE UNCHANGED midiCommands

NoteOff(n) == IF n \in routed THEN MidiQueued(Release(Midi(n))) ELSE UNCHANGED midiCommands

\* Mutant of FlushMidiCommands: the command the engine refuses is dropped.
FlushDropsRefused ==
  LET room == EngineCapacity - Len(engineQueue)
      taken == IF room < Len(Waiting) THEN room ELSE Len(Waiting)
      rest == SubSeq(Waiting, taken + 1, Len(Waiting))
  IN /\ engineQueue' = engineQueue \o SubSeq(Waiting, 1, taken)
     /\ deferred' = <<>>
     /\ midiCommands' = IF rest = <<>> THEN <<>> ELSE Tail(rest)

\* flushMidiCommands(): in order, until the engine takes no more.
FlushMidiCommands ==
  LET room == EngineCapacity - Len(engineQueue)
      taken == IF room < Len(Waiting) THEN room ELSE Len(Waiting)
      rest == SubSeq(Waiting, taken + 1, Len(Waiting))
  IN /\ engineQueue' = engineQueue \o SubSeq(Waiting, 1, taken)
     /\ deferred' = IF rest = <<>> THEN <<>> ELSE <<rest[1]>>
     /\ midiCommands' = IF rest = <<>> THEN <<>> ELSE Tail(rest)

\* panic(): forgets what is held; the MIDI commands that wait are not dropped.
PanicCommand ==
  /\ heldKeys' = {}
  /\ heldMouse' = {}
  /\ Enqueue(Panic)
  /\ refused' = IF EngineFull THEN refused \cup Played ELSE {}

\* Mutant of RefreshFromProject: it runs before the project is changed.
RefreshBeforeEdit(p) == routed' = Answering(project)

\* refreshFromProject()
RefreshFromProject(p) == routed' = Answering(p)

\* PlaybackEngine::processBlock() handles every command queued.
AudioBlock ==
  /\ engineQueue # <<>>
  /\ gates' = Played
  /\ engineQueue' = <<>>
  /\ UNCHANGED <<heldKeys, heldMouse, routed, midiCommands, deferred, heldUi, hands, refused>>

\* audioDeviceStopped(), or the first callback after an error, silences the engine;
\* audioDeviceAboutToStart() empties its queue besides.
DeviceStops ==
  /\ gates' = {}
  /\ UNCHANGED <<heldKeys, heldMouse, routed, midiCommands, deferred, engineQueue, heldUi, hands,
                 refused>>

DeviceStarts ==
  /\ gates' = {} /\ engineQueue' = <<>> /\ refused' = {}
  /\ UNCHANGED <<heldKeys, heldMouse, routed, midiCommands, deferred, heldUi, hands>>

\* The MIDI device is unplugged: its notes are gone without a note-off, and
\* nothing calls midiDeviceDisconnected().
MidiUnplugged ==
  /\ hands \cap NoteSources # {}
  /\ hands' = hands \ NoteSources
  /\ UNCHANGED <<heldKeys, heldMouse, routed, midiCommands, deferred, engineQueue, gates, heldUi,
                 refused>>

RouterInit ==
  /\ heldKeys = {} /\ heldMouse = {} /\ heldUi = {} /\ hands = {} /\ refused = {}
  /\ routed = Answering(project)
  /\ midiCommands = <<>> /\ deferred = <<>> /\ engineQueue = <<>> /\ gates = {}
=============================================================================

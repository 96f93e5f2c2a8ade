--------------------------- MODULE PlaybackEngine ---------------------------
(***************************************************************************)
(* Playback: PlaybackStatePublisher on the message thread publishes        *)
(* immutable snapshots of the project and frees them when the audio thread *)
(* has acknowledged that nothing refers to them; PlaybackEngine on the     *)
(* audio thread takes commands from a bounded queue, triggers and steals   *)
(* voices, renders, and acknowledges.  The two share the snapshot pointer, *)
(* the command queue and the acknowledged generation.                      *)
(*                                                                         *)
(* A snapshot is a value here because it is never written after it is      *)
(* published; its generation stands for its address.  Samples, gains and   *)
(* envelopes are left out: a voice is inactive, playing (attack, decay or  *)
(* sustain) or in release.                                                 *)
(***************************************************************************)
EXTENDS Integers, Sequences, FiniteSets

CONSTANTS
  VoiceCount,     \* PlaybackEngine::voiceCount
  QueueCapacity,  \* the capacity of AudioCommandQueue
  Pads, Sources,  \* pad indices; identities of what holds a pad down
  Projects,       \* the project states that get published: [Pads -> PadSettings]
  MaxGeneration,  \* bound: snapshots published
  MaxCommands,    \* bound: commands accepted
  Nothing         \* a null snapshot pointer

Voices == 1 .. VoiceCount

Modes == {"oneShot", "gate", "toggle"}

\* What a snapshot says of a pad.  "layers" is the number of layers a trigger starts: those
\* enabled, with an asset, and with the velocity in their range.
PadSettings == [mode : Modes, mono : BOOLEAN, choke : Nat, limit : Nat \ {0}, layers : Nat]

Snapshot == [generation : Nat, pads : [Pads -> PadSettings]]

Trigger == [snapshot : Snapshot, pad : Pads, source : Sources, layers : Nat \ {0}]

ASSUME PlaybackAssumption ==
  /\ VoiceCount \in Nat \ {0} /\ QueueCapacity \in Nat \ {0}
  /\ MaxGeneration \in Nat /\ MaxCommands \in Nat
  /\ Projects \subseteq [Pads -> PadSettings] /\ Projects # {}
  /\ Nothing \notin Snapshot \union Trigger

VARIABLES
  snapshots,       \* snapshots_: what the publisher owns, oldest first
  nextGeneration,  \* nextGeneration_
  current,         \* snapshot_: the published snapshot, or Nothing
  commands,        \* commands_
  accepted,        \* commands accepted so far, for the bound
  voices,          \* voices_
  nextAge,         \* nextTriggerAge_
  reclaimable,     \* reclaimableSnapshotGeneration_
  audioPc,         \* where the audio thread is in processBlock
  trig,            \* the locals of trigger() while it starts the layers of a pad
  lowest,          \* minimumReferencedGeneration, between its load and its use
  running          \* the audio callback is registered

publisher == <<snapshots, nextGeneration>>
engine    == <<voices, nextAge, audioPc, trig, lowest>>
vars      == <<publisher, current, commands, accepted, engine, reclaimable, running>>

-----------------------------------------------------------------------------

Command == [type : {"triggerPad"}, pad : Pads, source : Sources]
             \union [type : {"releaseSource"}, source : Sources] \union [type : {"panic"}]

Inactive == [stage |-> "inactive"]

Voice ==
  {Inactive} \union
  [stage : {"playing", "release"}, pad : Pads, source : Sources, choke : Nat, mode : Modes,
   age : Nat, generation : Nat]

Active(v) == voices[v].stage # "inactive"

\* releaseVoice() on each voice of a set.
Released(set) ==
  [v \in Voices |-> IF v \in set THEN [voices[v] EXCEPT !.stage = "release"] ELSE voices[v]]

Init ==
  /\ snapshots = <<>> /\ nextGeneration = 1 /\ current = Nothing
  /\ commands = <<>> /\ accepted = 0
  /\ voices = [v \in Voices |-> Inactive] /\ nextAge = 1
  /\ reclaimable = 0 /\ audioPc = "out" /\ trig = Nothing /\ lowest = 0
  /\ running = TRUE

-----------------------------------------------------------------------------
(* The message thread: the publisher, and the commands of the input router.*)

\* publish(): the pointer changes first, but the same thread owns the snapshot throughout.
Publish(project) ==
  LET snapshot == [generation |-> nextGeneration, pads |-> project]
  IN  /\ running /\ nextGeneration <= MaxGeneration
      /\ current' = snapshot /\ snapshots' = Append(snapshots, snapshot)
      /\ nextGeneration' = nextGeneration + 1
      /\ UNCHANGED <<commands, accepted, engine, reclaimable, running>>

\* Faulty variants of Collect: it frees the acknowledged generation's successor too, or
\* keeps the acknowledged generation itself.
CollectTooMuch ==
  /\ \E k \in 1 .. Len(snapshots) :
       /\ \A i \in 1 .. k - 1 : snapshots[i].generation <= reclaimable + 1
       /\ k = Len(snapshots) \/ snapshots[k].generation > reclaimable + 1
       /\ snapshots' = SubSeq(snapshots, k, Len(snapshots))
  /\ UNCHANGED <<nextGeneration, current, commands, accepted, engine, reclaimable, running>>

CollectTooLittle ==
  /\ \E k \in 1 .. Len(snapshots) :
       /\ \A i \in 1 .. k - 1 : snapshots[i].generation < reclaimable
       /\ k = Len(snapshots) \/ snapshots[k].generation >= reclaimable
       /\ snapshots' = SubSeq(snapshots, k, Len(snapshots))
  /\ UNCHANGED <<nextGeneration, current, commands, accepted, engine, reclaimable, running>>

\* collectAcknowledged(): pop acknowledged snapshots from the front, never the last one.
Collect ==
  /\ \E k \in 1 .. Len(snapshots) :
       /\ \A i \in 1 .. k - 1 : snapshots[i].generation <= reclaimable
       /\ k = Len(snapshots) \/ snapshots[k].generation > reclaimable
       /\ snapshots' = SubSeq(snapshots, k, Len(snapshots))
  /\ UNCHANGED <<nextGeneration, current, commands, accepted, engine, reclaimable, running>>

\* Faulty variant of Enqueue: a full queue is not noticed.
EnqueueUnchecked(command) ==
  /\ running /\ accepted < MaxCommands
  /\ commands' = Append(commands, command) /\ accepted' = accepted + 1
  /\ UNCHANGED <<publisher, current, engine, reclaimable, running>>

\* enqueue(): a full queue refuses the command.
Enqueue(command) ==
  /\ running /\ accepted < MaxCommands /\ Len(commands) < QueueCapacity
  /\ commands' = Append(commands, command) /\ accepted' = accepted + 1
  /\ UNCHANGED <<publisher, current, engine, reclaimable, running>>

\* AudioRuntime::restart() and applySettings(): the callback is removed, which waits for it,
\* the voices are cleared, and when the device starts again prepare() empties the queue.
RestartDevice ==
  /\ running /\ audioPc = "out"
  /\ voices' = [v \in Voices |-> Inactive] /\ commands' = <<>>
  /\ UNCHANGED <<publisher, current, accepted, nextAge, audioPc, trig, lowest, reclaimable,
                 running>>

\* AudioRuntime::close(): the callback is removed, which waits for it, and voices are cleared.
Close ==
  /\ running /\ audioPc = "out"
  /\ running' = FALSE /\ voices' = [v \in Voices |-> Inactive]
  /\ UNCHANGED <<publisher, current, commands, accepted, nextAge, audioPc, trig, lowest,
                 reclaimable>>

\* clearWhenAudioIsStopped(), which Application::shutdown() calls after the close.
Clear ==
  /\ ~ running
  /\ current' = Nothing /\ snapshots' = <<>>
  /\ UNCHANGED <<nextGeneration, commands, accepted, engine, reclaimable, running>>

-----------------------------------------------------------------------------
(* The audio thread: processBlock().                                       *)

\* A callback that follows a device error clears the voices before its block.
BlockBegins ==
  /\ running /\ audioPc = "out"
  /\ audioPc' = "drain"
  /\ \/ UNCHANGED voices
     \/ voices' = [v \in Voices |-> Inactive]
  /\ UNCHANGED <<publisher, current, commands, accepted, nextAge, trig, lowest,
                 reclaimable, running>>

\* Voices that a trigger of pad p by source s ends: under toggle the source's own, which
\* then is all the trigger does; else those of a mono pad and of the rest of its choke group.
Toggled(p, s) ==
  {v \in Voices : Active(v) /\ voices[v].pad = p /\ voices[v].source = s}

\* Faulty variant of Displaced: the choke group is not looked at.
DisplacedNoChoke(settings, p) ==
  {v \in Voices : Active(v) /\ settings.mono /\ voices[v].pad = p}

Displaced(settings, p) ==
  {v \in Voices : Active(v) /\
     \/ settings.mono /\ voices[v].pad = p
     \/ settings.choke # 0 /\ voices[v].choke = settings.choke /\ voices[v].pad # p}

\* handleCommand() up to the layers of a trigger, under the snapshot loaded here.
HandleTrigger(c) ==
  IF current = Nothing
    THEN UNCHANGED <<voices, audioPc, trig>>
    ELSE LET settings == current.pads[c.pad]
             toggled  == Toggled(c.pad, c.source)
         IN  IF settings.mode = "toggle" /\ toggled # {}
               THEN voices' = Released(toggled) /\ UNCHANGED <<audioPc, trig>>
               ELSE /\ voices' = Released(Displaced(settings, c.pad))
                    /\ IF settings.layers = 0
                         THEN UNCHANGED <<audioPc, trig>>
                         ELSE /\ audioPc' = "layers"
                              /\ trig' = [snapshot |-> current, pad |-> c.pad,
                                          source |-> c.source, layers |-> settings.layers]

HandleRelease(c) ==
  /\ voices' = Released({v \in Voices : /\ Active(v) /\ voices[v].source = c.source
                                        /\ voices[v].mode # "oneShot"})
  /\ UNCHANGED <<audioPc, trig>>

HandlePanic ==
  /\ voices' = [v \in Voices |-> Inactive]
  /\ UNCHANGED <<audioPc, trig>>

HandleCommand ==
  /\ audioPc = "drain" /\ commands # <<>>
  /\ LET c == Head(commands)
     IN  \/ c.type = "triggerPad" /\ HandleTrigger(c)
         \/ c.type = "releaseSource" /\ HandleRelease(c)
         \/ c.type = "panic" /\ HandlePanic
  /\ commands' = Tail(commands)
  /\ UNCHANGED <<publisher, current, accepted, nextAge, lowest, reclaimable, running>>

\* allocateVoice(): it loads the snapshot again, so its limit may be a later snapshot's
\* than the one being triggered.  Of several released voices the code takes the one with
\* the lowest envelope: any of them here.
PadVoices(p) == {v \in Voices : Active(v) /\ voices[v].pad = p}

Oldest(set) == {v \in set : \A w \in set : voices[v].age <= voices[w].age}

PreferReleased(set) ==
  LET released == {v \in set : voices[v].stage = "release"}
  IN  IF released # {} THEN released ELSE Oldest(set)

Free == {v \in Voices : ~ Active(v)}

\* Faulty variants of Allocation: no limit per pad; and the oldest voice before a free one.
AllocationUnlimited(p) ==
  IF Free # {} THEN {v \in Free : \A w \in Free : v <= w} ELSE PreferReleased(Voices)

AllocationOldestFirst(p) ==
  IF Cardinality(PadVoices(p)) >= (IF current = Nothing THEN 1 ELSE current.pads[p].limit)
    THEN PreferReleased(PadVoices(p))
    ELSE IF Free = Voices THEN Free ELSE Oldest(Voices \ Free)

Allocation(p) ==
  IF Cardinality(PadVoices(p)) >= (IF current = Nothing THEN 1 ELSE current.pads[p].limit)
    THEN PreferReleased(PadVoices(p))
    ELSE IF Free # {} THEN {v \in Free : \A w \in Free : v <= w}
                      ELSE PreferReleased(Voices)

\* trigger(), one layer: the voice keeps the generation of the snapshot it was made from.
StartLayer ==
  /\ audioPc = "layers"
  /\ \E v \in Allocation(trig.pad) :
       voices' = [voices EXCEPT ![v] =
         [stage |-> "playing", pad |-> trig.pad, source |-> trig.source,
          choke |-> trig.snapshot.pads[trig.pad].choke,
          mode |-> trig.snapshot.pads[trig.pad].mode,
          age |-> nextAge, generation |-> trig.snapshot.generation]]
  /\ nextAge' = nextAge + 1
  /\ IF trig.layers = 1
       THEN audioPc' = "drain" /\ trig' = Nothing
       ELSE trig' = [trig EXCEPT !.layers = @ - 1] /\ UNCHANGED audioPc
  /\ UNCHANGED <<publisher, current, commands, accepted, lowest, reclaimable, running>>

\* The queue is empty and the block is rendered: some voices reach their end.
Render ==
  /\ audioPc = "drain" /\ commands = <<>>
  /\ \E ended \in SUBSET {v \in Voices : Active(v)} :
       voices' = [v \in Voices |-> IF v \in ended THEN Inactive ELSE voices[v]]
  /\ audioPc' = "acknowledge"
  /\ UNCHANGED <<publisher, current, commands, accepted, nextAge, trig, lowest, reclaimable,
                 running>>

\* The lowest generation that the pointer or an active voice refers to, 0 if there is none.
AckLoad ==
  LET used == {voices[v].generation : v \in {w \in Voices : Active(w)}}
                \union IF current = Nothing THEN {} ELSE {current.generation}
  IN  /\ audioPc = "acknowledge"
      /\ \/ used = {} /\ lowest' = 0
         \/ lowest' \in used /\ \A g \in used : lowest' <= g
      /\ audioPc' = "store"
      /\ UNCHANGED <<publisher, current, commands, accepted, voices, nextAge, trig,
                     reclaimable, running>>

AckStore ==
  /\ audioPc = "store"
  /\ reclaimable' = IF lowest > 0 THEN lowest - 1 ELSE 0
  /\ audioPc' = "out" /\ lowest' = 0
  /\ UNCHANGED <<publisher, current, commands, accepted, voices, nextAge, trig, running>>

-----------------------------------------------------------------------------

MessageThread ==
  \/ \E project \in Projects : Publish(project)
  \/ \E command \in Command : Enqueue(command)
  \/ Collect \/ RestartDevice \/ Close \/ Clear

AudioThread ==
  BlockBegins \/ HandleCommand \/ StartLayer \/ Render \/ AckLoad \/ AckStore

Next == MessageThread \/ AudioThread

Spec == Init /\ [][Next]_vars

\* The device goes on calling, and the view's timer goes on collecting.
FairSpec == Spec /\ WF_vars(AudioThread) /\ WF_vars(Collect)

-----------------------------------------------------------------------------
(* Properties.                                                             *)

TypeOK ==
  /\ snapshots \in Seq(Snapshot) /\ nextGeneration \in Nat \ {0}
  /\ current \in Snapshot \union {Nothing}
  /\ commands \in Seq(Command) /\ Len(commands) <= QueueCapacity /\ accepted \in Nat
  /\ voices \in [Voices -> Voice] /\ nextAge \in Nat /\ reclaimable \in Nat
  /\ audioPc \in {"out", "drain", "layers", "acknowledge", "store"}
  /\ trig \in Trigger \union {Nothing} /\ (audioPc = "layers" => trig # Nothing)
  /\ lowest \in Nat /\ running \in BOOLEAN

Retained == {snapshots[i].generation : i \in DOMAIN snapshots}

\* The audio thread never refers to a freed snapshot: not through the published pointer, not
\* through the one a trigger loaded before a newer one was published, and not through the
\* sample data an active voice still plays.
NoDanglingSnapshot ==
  /\ current # Nothing => current.generation \in Retained
  /\ audioPc = "layers" => trig.snapshot.generation \in Retained
  /\ \A v \in Voices : Active(v) => voices[v].generation \in Retained

\* Voices of one choke group that are not being released all belong to one pad, even when an
\* edit moves pads between groups while they sound.
ChokeGroupsExclude ==
  \A v, w \in Voices :
    voices[v].stage = "playing" /\ voices[w].stage = "playing"
      /\ voices[v].choke = voices[w].choke /\ voices[v].choke # 0
      => voices[v].pad = voices[w].pad

\* A pad never has more active voices than the highest limit any published project gave it,
\* although a trigger and its allocations may see different snapshots.
PadVoiceLimit ==
  \A p \in Pads : \E project \in Projects : Cardinality(PadVoices(p)) <= project[p].limit

\* A voice that sounds is taken from another pad only when every voice is sounding.
StealsOnlyWhenFull ==
  [][\A v \in Voices :
       Active(v) /\ voices'[v].stage = "playing" /\ voices'[v].pad # voices[v].pad
         => /\ Free = {}
            /\ voices[v].stage = "release" \/ \A w \in Voices : voices[w].stage = "playing"]_vars

\* When triggers and edits stop and every voice falls silent, the publisher comes down to the
\* one snapshot that is published: no retired snapshot and none of its assets leaks.
RetiredSnapshotsFreed ==
  (<>[](running /\ \A v \in Voices : ~ Active(v))) => <>[](Len(snapshots) <= 1)
=============================================================================

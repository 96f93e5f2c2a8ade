--------------------------- MODULE PlaybackProofs ---------------------------
(***************************************************************************)
(* TLAPS proofs about PlaybackEngine, for every number of voices, pads,    *)
(* sources, projects, snapshots and commands: the type invariant; that the *)
(* audio thread never refers to a snapshot that the publisher freed; and,  *)
(* of the voices, choke groups, the voice limit of a pad, and when a       *)
(* sounding voice may be stolen.                                           *)
(***************************************************************************)
EXTENDS PlaybackEngine, SequenceTheorems, FiniteSetTheorems, TLAPS

-----------------------------------------------------------------------------
(* The inductive invariant.                                                *)

\* The generation of the oldest retained snapshot, if there is one.
Floor == nextGeneration - Len(snapshots)

\* Generation g belongs to a retained snapshot, and has not been acknowledged.
InUse(g) == Floor <= g /\ g < nextGeneration /\ reclaimable < g

\* The publisher retains consecutive generations, up to the last one it gave out.
Consecutive ==
  /\ Len(snapshots) < nextGeneration
  /\ \A i \in 1 .. Len(snapshots) : snapshots[i].generation = Floor + i - 1

\* The published snapshot is the newest, which is why Collect may free all but the last.
CurrentIsNewest == current # Nothing => current.generation = nextGeneration - 1

\* What the audio thread refers to is retained and not yet acknowledged ...
ReferencesInUse ==
  /\ current # Nothing => InUse(current.generation)
  /\ audioPc = "layers" => InUse(trig.snapshot.generation)
  /\ \A v \in Voices : Active(v) => InUse(voices[v].generation)

\* ... nor will it be by the acknowledgement that is on its way.
AcknowledgesUnused ==
  /\ reclaimable < nextGeneration /\ lowest < nextGeneration
  /\ lowest > 0 =>
       /\ current # Nothing => lowest <= current.generation
       /\ \A v \in Voices : Active(v) => lowest <= voices[v].generation
  /\ audioPc # "store" => lowest = 0

\* Once the callback is gone no voice is left.
SilentWhenClosed == ~ running => audioPc = "out" /\ \A v \in Voices : ~ Active(v)

IInv ==
  /\ TypeOK /\ Consecutive /\ CurrentIsNewest /\ ReferencesInUse /\ AcknowledgesUnused
  /\ SilentWhenClosed

-----------------------------------------------------------------------------
(* Type correctness.                                                       *)

\* The voice that sounds nothing is a voice.
LEMMA InactiveIsVoice == Inactive \in Voice
  BY DEF Voice, Inactive

\* What is known of a voice that sounds.
LEMMA ActiveVoice ==
  ASSUME NEW v \in Voice, v.stage # "inactive"
  PROVE  /\ v.generation \in Nat /\ v.age \in Nat /\ v.pad \in Pads
         /\ [v EXCEPT !.stage = "release"] \in Voice
  BY DEF Voice, Inactive

\* Releasing voices that are active keeps the voices well typed.
LEMMA ReleasedType ==
  ASSUME voices \in [Voices -> Voice], NEW S \in SUBSET Voices, \A v \in S : Active(v)
  PROVE  Released(S) \in [Voices -> Voice]
<1>1. ASSUME NEW v \in Voices
      PROVE  (IF v \in S THEN [voices[v] EXCEPT !.stage = "release"] ELSE voices[v]) \in Voice
  BY <1>1, ActiveVoice DEF Active
<1> QED BY <1>1 DEF Released

\* Types hold when the application starts.
LEMMA InitType == Init => TypeOK
  BY PlaybackAssumption, InactiveIsVoice DEF Init, TypeOK

\* Types survive a publication, a collection, a command and the changes of the device.
LEMMA MessageThreadType == TypeOK /\ MessageThread => TypeOK'
<1> SUFFICES ASSUME TypeOK, MessageThread PROVE TypeOK'
  OBVIOUS
<1> USE DEF publisher, engine
<1>1. ASSUME NEW project \in Projects, Publish(project) PROVE TypeOK'
  <2>1. project \in [Pads -> PadSettings]
    BY PlaybackAssumption
  <2>2. [generation |-> nextGeneration, pads |-> project] \in Snapshot
    BY <2>1 DEF TypeOK, Snapshot
  <2> QED BY <1>1, <2>2 DEF Publish, TypeOK
<1>2. ASSUME NEW command \in Command, Enqueue(command) PROVE TypeOK'
  <2>1. Append(commands, command) \in Seq(Command)
    BY <1>2 DEF TypeOK
  <2>2. Len(Append(commands, command)) <= QueueCapacity
    BY <1>2, PlaybackAssumption DEF TypeOK, Enqueue
  <2> QED BY <1>2, <2>1, <2>2 DEF Enqueue, TypeOK
<1>3. CASE Collect
  <2>1. PICK k \in 1 .. Len(snapshots) : snapshots' = SubSeq(snapshots, k, Len(snapshots))
    BY <1>3 DEF Collect
  <2>2. snapshots' \in Seq(Snapshot)
    BY <2>1, SubSeqProperties DEF TypeOK
  <2> QED BY <1>3, <2>2 DEF Collect, TypeOK
<1>4. CASE RestartDevice
  BY <1>4, InactiveIsVoice, PlaybackAssumption DEF RestartDevice, TypeOK
<1>5. CASE Close
  BY <1>5, InactiveIsVoice DEF Close, TypeOK
<1>6. CASE Clear
  BY <1>6 DEF Clear, TypeOK
<1> QED BY <1>1, <1>2, <1>3, <1>4, <1>5, <1>6 DEF MessageThread

\* What a trigger leaves when it starts to fill the layers of its pad.
LEMMA HandleTriggerType ==
  ASSUME TypeOK, audioPc = "drain", NEW c \in [type : {"triggerPad"}, pad : Pads, source : Sources],
         HandleTrigger(c)
  PROVE  /\ voices' \in [Voices -> Voice]
         /\ \/ audioPc' = audioPc /\ trig' = trig
            \/ audioPc' = "layers" /\ trig' \in Trigger /\ trig'.snapshot = current
               /\ current # Nothing
<1>1. CASE current = Nothing
  BY <1>1 DEF HandleTrigger, TypeOK
<1>2. CASE current # Nothing
  <2> DEFINE settings == current.pads[c.pad]
  <2>1. current \in Snapshot /\ settings \in PadSettings
    BY <1>2 DEF TypeOK, Snapshot
  <2>2. CASE settings.mode = "toggle" /\ Toggled(c.pad, c.source) # {}
    <3>1. voices' = Released(Toggled(c.pad, c.source)) /\ UNCHANGED <<audioPc, trig>>
      BY <1>2, <2>2 DEF HandleTrigger
    <3>2. Released(Toggled(c.pad, c.source)) \in [Voices -> Voice]
      BY ReleasedType DEF Toggled, TypeOK
    <3> QED BY <3>1, <3>2
  <2>3. CASE ~ (settings.mode = "toggle" /\ Toggled(c.pad, c.source) # {})
    <3>1. /\ voices' = Released(Displaced(settings, c.pad))
          /\ IF settings.layers = 0
               THEN UNCHANGED <<audioPc, trig>>
               ELSE /\ audioPc' = "layers"
                    /\ trig' = [snapshot |-> current, pad |-> c.pad,
                                source |-> c.source, layers |-> settings.layers]
      BY <1>2, <2>3 DEF HandleTrigger
    <3>2. Released(Displaced(settings, c.pad)) \in [Voices -> Voice]
      BY ReleasedType DEF Displaced, TypeOK
    <3>3. CASE settings.layers = 0
      BY <3>1, <3>2, <3>3
    <3>4. CASE settings.layers # 0
      <4>1. settings.layers \in Nat \ {0}
        BY <2>1, <3>4 DEF PadSettings
      <4> QED BY <1>2, <2>1, <3>1, <3>2, <3>4, <4>1 DEF Trigger
    <3> QED BY <3>3, <3>4
  <2> QED BY <2>2, <2>3
<1> QED BY <1>1, <1>2

\* Types survive the handling of one command, the choking it does included.
LEMMA HandleCommandType == TypeOK /\ HandleCommand => TypeOK'
<1> SUFFICES ASSUME TypeOK, HandleCommand PROVE TypeOK'
  OBVIOUS
<1> USE DEF publisher, engine
<1> DEFINE c == Head(commands)
<1>1. c \in Command /\ Tail(commands) \in Seq(Command) /\ Len(Tail(commands)) <= QueueCapacity
  BY PlaybackAssumption DEF HandleCommand, TypeOK
<1>2. voices' \in [Voices -> Voice]
      /\ \/ audioPc' = audioPc /\ trig' = trig
         \/ audioPc' = "layers" /\ trig' \in Trigger
  <2>1. CASE c.type = "triggerPad" /\ HandleTrigger(c)
    <3>1. c \in [type : {"triggerPad"}, pad : Pads, source : Sources]
      BY <1>1, <2>1 DEF Command
    <3>2. audioPc = "drain"
      BY DEF HandleCommand
    <3> QED BY <2>1, <3>1, <3>2, HandleTriggerType
  <2>2. CASE HandleRelease(c)
    <3>1. Released({v \in Voices : /\ Active(v) /\ voices[v].source = c.source
                                   /\ voices[v].mode # "oneShot"}) \in [Voices -> Voice]
      BY ReleasedType DEF TypeOK
    <3> QED BY <2>2, <3>1 DEF HandleRelease
  <2>3. CASE HandlePanic
    BY <2>3, InactiveIsVoice DEF HandlePanic
  <2> QED BY <2>1, <2>2, <2>3 DEF HandleCommand
<1>3. Nothing \notin Trigger
  BY PlaybackAssumption
<1> QED BY <1>1, <1>2, <1>3 DEF HandleCommand, TypeOK

\* Types survive the allocation of one voice.
LEMMA StartLayerType == TypeOK /\ StartLayer => TypeOK'
<1> SUFFICES ASSUME TypeOK, StartLayer PROVE TypeOK'
  OBVIOUS
<1> USE DEF publisher, engine
<1>1. audioPc = "layers" /\ trig \in Trigger
  BY DEF StartLayer, TypeOK
<1> DEFINE started == [stage |-> "playing", pad |-> trig.pad, source |-> trig.source,
                       choke |-> trig.snapshot.pads[trig.pad].choke,
                       mode |-> trig.snapshot.pads[trig.pad].mode,
                       age |-> nextAge, generation |-> trig.snapshot.generation]
<1>2. started \in Voice
  <2>1. trig.pad \in Pads /\ trig.source \in Sources /\ trig.snapshot \in Snapshot
    BY <1>1 DEF Trigger
  <2>2. trig.snapshot.generation \in Nat /\ trig.snapshot.pads[trig.pad] \in PadSettings
    BY <2>1 DEF Snapshot
  <2>3. /\ trig.snapshot.pads[trig.pad].choke \in Nat
        /\ trig.snapshot.pads[trig.pad].mode \in Modes
    BY <2>2 DEF PadSettings
  <2> QED BY <2>1, <2>2, <2>3 DEF Voice, TypeOK
<1>3. voices' \in [Voices -> Voice]
  <2>1. PICK v \in Allocation(trig.pad) : voices' = [voices EXCEPT ![v] = started]
    BY DEF StartLayer
  <2> QED BY <2>1, <1>2 DEF TypeOK
<1>4. \/ audioPc' = "drain" /\ trig' = Nothing
      \/ audioPc' = "layers" /\ trig' \in Trigger
  <2>1. CASE trig.layers = 1
    BY <2>1 DEF StartLayer
  <2>2. CASE trig.layers # 1
    BY <1>1, <2>2 DEF StartLayer, Trigger
  <2> QED BY <2>1, <2>2
<1>5. Nothing \notin Trigger
  BY PlaybackAssumption
<1> QED BY <1>3, <1>4, <1>5 DEF StartLayer, TypeOK

\* The generations that the pointer and the active voices refer to.
LEMMA UsedGenerations ==
  ASSUME TypeOK
  PROVE  ({voices[v].generation : v \in {w \in Voices : Active(w)}}
            \union IF current = Nothing THEN {} ELSE {current.generation}) \subseteq Nat
<1>1. ASSUME NEW v \in Voices, Active(v) PROVE voices[v].generation \in Nat
  BY <1>1, ActiveVoice DEF TypeOK, Active
<1>2. current # Nothing => current.generation \in Nat
  BY DEF TypeOK, Snapshot
<1> QED BY <1>1, <1>2

\* Types survive every step of a callback.
LEMMA AudioThreadType == TypeOK /\ AudioThread => TypeOK'
<1> SUFFICES ASSUME TypeOK, AudioThread PROVE TypeOK'
  OBVIOUS
<1> USE DEF publisher, engine
<1>1. CASE BlockBegins
  <2>1. voices' \in [Voices -> Voice]
    BY <1>1, InactiveIsVoice DEF BlockBegins, TypeOK
  <2> QED BY <1>1, <2>1 DEF BlockBegins, TypeOK
<1>2. CASE HandleCommand
  BY <1>2, HandleCommandType
<1>3. CASE StartLayer
  BY <1>3, StartLayerType
<1>4. CASE Render
  <2>1. voices' \in [Voices -> Voice]
    BY <1>4, InactiveIsVoice DEF Render, TypeOK
  <2> QED BY <1>4, <2>1 DEF Render, TypeOK
<1>5. CASE AckLoad
  <2>1. lowest' \in Nat
    BY <1>5, UsedGenerations DEF AckLoad
  <2> QED BY <1>5, <2>1 DEF AckLoad, TypeOK
<1>6. CASE AckStore
  BY <1>6 DEF AckStore, TypeOK
<1> QED BY <1>1, <1>2, <1>3, <1>4, <1>5, <1>6 DEF AudioThread

\* Every variable of the publisher and of the engine keeps its type.
THEOREM TypeCorrect == Spec => []TypeOK
<1>1. TypeOK /\ [Next]_vars => TypeOK'
  <2> SUFFICES ASSUME TypeOK, [Next]_vars PROVE TypeOK'
    OBVIOUS
  <2>1. CASE MessageThread
    BY <2>1, MessageThreadType
  <2>2. CASE AudioThread
    BY <2>2, AudioThreadType
  <2>3. CASE UNCHANGED vars
    BY <2>3 DEF vars, publisher, engine, TypeOK
  <2> QED BY <2>1, <2>2, <2>3 DEF Next
<1> QED BY InitType, <1>1, PTL DEF Spec

-----------------------------------------------------------------------------
(* Memory safety of reclamation.                                           *)

\* Releasing voices starts none, and none changes the snapshot it plays from.
LEMMA ReleasedKeeps ==
  ASSUME voices \in [Voices -> Voice], NEW S \in SUBSET Voices, \A v \in S : Active(v),
         NEW v \in Voices
  PROVE  /\ Released(S)[v].stage # "inactive" <=> Active(v)
         /\ Active(v) => Released(S)[v].generation = voices[v].generation
<1>1. CASE v \in S
  <2>1. Released(S)[v] = [voices[v] EXCEPT !.stage = "release"]
    BY <1>1 DEF Released
  <2>2. voices[v] \in [stage : {"playing", "release"}, pad : Pads, source : Sources,
                       choke : Nat, mode : Modes, age : Nat, generation : Nat]
    BY <1>1 DEF Active, Voice, Inactive
  <2>3. Active(v)
    BY <1>1
  <2> QED BY <2>1, <2>2, <2>3
<1>2. CASE v \notin S
  BY <1>2 DEF Released, Active
<1> QED BY <1>1, <1>2

\* The inductive invariant holds when the application starts.
LEMMA InitSafe == Init => IInv
<1> SUFFICES ASSUME Init PROVE IInv
  OBVIOUS
<1>1. TypeOK
  BY InitType
<1>2. Len(snapshots) = 0
  BY DEF Init
<1>3. \A v \in Voices : ~ Active(v)
  BY DEF Init, Active, Inactive
<1> QED BY <1>1, <1>2, <1>3
     DEF Init, IInv, Consecutive, CurrentIsNewest, ReferencesInUse, AcknowledgesUnused,
         SilentWhenClosed, Floor

\* A publication retains the new snapshot and takes nothing away.
LEMMA PublishSafe ==
  ASSUME IInv, TypeOK', NEW project \in Projects, Publish(project)
  PROVE  IInv'
<1> USE DEF IInv, publisher, engine
<1> DEFINE new == [generation |-> nextGeneration, pads |-> project]
<1>1. /\ snapshots' = Append(snapshots, new) /\ current' = new /\ running' = running
      /\ nextGeneration' = nextGeneration + 1 /\ nextGeneration \in Nat
      /\ Len(snapshots') = Len(snapshots) + 1
      /\ UNCHANGED <<reclaimable, lowest, trig, audioPc, voices>>
  BY DEF Publish, TypeOK
<1>2. Floor' = Floor /\ Floor \in Int
  BY <1>1 DEF Floor, TypeOK
<1>3. Consecutive'
  <2>1. \A i \in 1 .. Len(snapshots) : snapshots'[i] = snapshots[i]
    BY <1>1 DEF TypeOK
  <2>2. snapshots'[Len(snapshots) + 1] = new
    BY <1>1 DEF TypeOK
  <2>3. new.generation = Floor + Len(snapshots)
    BY <1>1 DEF Floor, TypeOK
  <2>4. ASSUME NEW i \in 1 .. Len(snapshots) + 1
        PROVE  snapshots'[i].generation = Floor + i - 1
    <3>1. CASE i = Len(snapshots) + 1
      BY <1>2, <2>2, <2>3, <3>1 DEF TypeOK
    <3>2. CASE i \in 1 .. Len(snapshots)
      BY <2>1, <3>2 DEF Consecutive
    <3> QED BY <3>1, <3>2 DEF TypeOK
  <2>5. Len(snapshots') < nextGeneration'
    BY <1>1 DEF Consecutive, TypeOK
  <2> QED BY <1>1, <1>2, <2>4, <2>5 DEF Consecutive
<1>4. CurrentIsNewest'
  BY <1>1 DEF CurrentIsNewest
<1>5. \A g \in Nat : InUse(g) => InUse(g)'
  BY <1>1, <1>2 DEF InUse
<1>6. InUse(current.generation)'
  <2>1. current'.generation = nextGeneration /\ Floor <= nextGeneration
    BY <1>1 DEF Floor, TypeOK
  <2> QED BY <1>1, <1>2, <2>1 DEF InUse, AcknowledgesUnused, TypeOK
<1>7. audioPc = "layers" => trig.snapshot.generation \in Nat
  BY PlaybackAssumption DEF TypeOK, Trigger, Snapshot
<1>8. \A v \in Voices : Active(v) => voices[v].generation \in Nat
  BY ActiveVoice DEF TypeOK, Active
<1>9. ReferencesInUse'
  <2>1. (audioPc = "layers" => InUse(trig.snapshot.generation))'
    BY <1>1, <1>5, <1>7 DEF ReferencesInUse, InUse
  <2>2. (\A v \in Voices : Active(v) => InUse(voices[v].generation))'
    BY <1>1, <1>5, <1>8 DEF ReferencesInUse, Active, InUse
  <2> QED BY <1>6, <2>1, <2>2 DEF ReferencesInUse
<1>10. AcknowledgesUnused'
  BY <1>1, <1>8 DEF AcknowledgesUnused, Active, TypeOK
<1>11. SilentWhenClosed'
  BY <1>1 DEF SilentWhenClosed, Active
<1> QED BY <1>3, <1>4, <1>9, <1>10, <1>11

\* Collect frees generations up to the acknowledged one only, and what is in use lies above.
LEMMA CollectSafe ==
  ASSUME IInv, TypeOK', Collect
  PROVE  IInv'
<1> USE DEF IInv, publisher, engine
<1>1. PICK k \in 1 .. Len(snapshots) :
        /\ \A i \in 1 .. k - 1 : snapshots[i].generation <= reclaimable
        /\ snapshots' = SubSeq(snapshots, k, Len(snapshots))
  BY DEF Collect
<1>2. /\ Len(snapshots) \in Nat /\ k \in Nat /\ nextGeneration \in Nat /\ reclaimable \in Nat
      /\ UNCHANGED <<current, reclaimable, lowest, trig, audioPc, voices, running,
                     nextGeneration>>
  BY DEF Collect, TypeOK
<1>3. /\ Len(snapshots') = Len(snapshots) - k + 1
      /\ \A i \in 1 .. Len(snapshots) - k + 1 : snapshots'[i] = snapshots[k + i - 1]
  BY <1>1, <1>2, SubSeqProperties DEF TypeOK
<1>4. Floor' = Floor + k - 1
  BY <1>2, <1>3 DEF Floor
<1>5. Consecutive'
  <2>1. ASSUME NEW i \in 1 .. Len(snapshots')
        PROVE  snapshots'[i].generation = Floor' + i - 1
    <3>1. k + i - 1 \in 1 .. Len(snapshots) /\ snapshots'[i] = snapshots[k + i - 1]
      BY <1>2, <1>3
    <3>2. snapshots[k + i - 1].generation = Floor + (k + i - 1) - 1
      BY <3>1 DEF Consecutive
    <3> QED BY <1>2, <1>4, <3>1, <3>2 DEF Floor
  <2>2. Len(snapshots') < nextGeneration'
    BY <1>2, <1>3 DEF Consecutive
  <2> QED BY <2>1, <2>2 DEF Consecutive
<1>6. ASSUME NEW g \in Nat, InUse(g) PROVE InUse(g)'
  <2>1. CASE k = 1
    BY <1>2, <1>4, <1>6, <2>1 DEF InUse, Floor
  <2>2. CASE k # 1
    <3>1. k - 1 \in 1 .. k - 1 /\ k - 1 \in 1 .. Len(snapshots)
      BY <1>2, <2>2
    <3>2. Floor + (k - 1) - 1 <= reclaimable
      BY <1>1, <3>1 DEF Consecutive
    <3> QED BY <1>2, <1>4, <1>6, <3>2 DEF InUse, Floor
  <2> QED BY <2>1, <2>2
<1>7. current # Nothing => current.generation \in Nat
  BY DEF TypeOK, Snapshot
<1>8. audioPc = "layers" => trig.snapshot.generation \in Nat
  BY PlaybackAssumption DEF TypeOK, Trigger, Snapshot
<1>9. \A v \in Voices : Active(v) => voices[v].generation \in Nat
  BY ActiveVoice DEF TypeOK, Active
<1>10. ReferencesInUse'
  <2>1. (current # Nothing => InUse(current.generation))'
    BY <1>2, <1>6, <1>7 DEF ReferencesInUse, InUse
  <2>2. (audioPc = "layers" => InUse(trig.snapshot.generation))'
    BY <1>2, <1>6, <1>8 DEF ReferencesInUse, InUse
  <2>3. (\A v \in Voices : Active(v) => InUse(voices[v].generation))'
    BY <1>2, <1>6, <1>9 DEF ReferencesInUse, Active, InUse
  <2> QED BY <2>1, <2>2, <2>3 DEF ReferencesInUse
<1>11. CurrentIsNewest' /\ AcknowledgesUnused' /\ SilentWhenClosed'
  BY <1>2 DEF CurrentIsNewest, AcknowledgesUnused, SilentWhenClosed, Active
<1> QED BY <1>5, <1>10, <1>11

\* A step that gives out no generation and moves no reference and no acknowledgement, and
\* starts no voice, keeps the invariant.
LEMMA QuietSafe ==
  ASSUME IInv, TypeOK',
         UNCHANGED <<snapshots, nextGeneration, current, reclaimable, running>>,
         lowest' = lowest, audioPc = "layers" \/ audioPc' # "layers", ~ (audioPc = "store"),
         audioPc' = "layers" => trig'.snapshot = trig.snapshot,
         running \/ audioPc' = "out",
         \A v \in Voices : Active(v)' =>
            (Active(v) /\ voices'[v].generation = voices[v].generation)
  PROVE  IInv'
<1> USE DEF IInv
<1>1. Floor' = Floor
  BY DEF Floor
<1>2. lowest = 0
  BY DEF AcknowledgesUnused
<1>3. ReferencesInUse'
  BY <1>1 DEF ReferencesInUse, InUse
<1>4. AcknowledgesUnused'
  BY <1>2 DEF AcknowledgesUnused
<1>5. Consecutive' /\ CurrentIsNewest' /\ SilentWhenClosed'
  BY <1>1 DEF Consecutive, CurrentIsNewest, SilentWhenClosed
<1> QED BY <1>3, <1>4, <1>5

\* A collection frees only what the acknowledged generation covers; nothing in use is.
LEMMA MessageThreadSafe ==
  ASSUME IInv, TypeOK', MessageThread
  PROVE  IInv'
<1> USE DEF publisher, engine
<1>1. CASE \E project \in Projects : Publish(project)
  BY <1>1, PublishSafe
<1>2. CASE Collect
  BY <1>2, CollectSafe
<1>3. CASE \E command \in Command : Enqueue(command)
  BY <1>3 DEF Enqueue, IInv, Consecutive, CurrentIsNewest, ReferencesInUse,
              AcknowledgesUnused, SilentWhenClosed, InUse, Floor, Active
<1>4. CASE RestartDevice
  <2>1. audioPc = "out" /\ UNCHANGED <<audioPc, trig, lowest, running>>
    BY <1>4 DEF RestartDevice
  <2>2. \A v \in Voices : ~ Active(v)'
    BY <1>4 DEF RestartDevice, Active, Inactive
  <2> QED BY <1>4, <2>1, <2>2, QuietSafe DEF RestartDevice
<1>5. CASE Close
  <2>1. /\ audioPc = "out" /\ ~ running'
        /\ UNCHANGED <<snapshots, nextGeneration, current, reclaimable, audioPc, lowest>>
    BY <1>5 DEF Close
  <2>2. \A v \in Voices : ~ Active(v)'
    BY <1>5 DEF Close, Active, Inactive
  <2>3. Floor' = Floor
    BY <2>1 DEF Floor
  <2>4. Consecutive' /\ CurrentIsNewest'
    BY <2>1, <2>3 DEF IInv, Consecutive, CurrentIsNewest
  <2>5. ReferencesInUse'
    BY <2>1, <2>2, <2>3 DEF IInv, ReferencesInUse, InUse
  <2>6. AcknowledgesUnused' /\ SilentWhenClosed'
    BY <2>1, <2>2 DEF IInv, AcknowledgesUnused, SilentWhenClosed
  <2> QED BY <2>4, <2>5, <2>6 DEF IInv
<1>6. CASE Clear
  <2>1. /\ ~ running /\ current' = Nothing /\ Len(snapshots') = 0
        /\ UNCHANGED <<nextGeneration, reclaimable, audioPc, lowest, voices, running>>
    BY <1>6 DEF Clear
  <2>2. audioPc = "out" /\ \A v \in Voices : ~ Active(v)
    BY <2>1 DEF IInv, SilentWhenClosed
  <2>3. Consecutive'
    BY <2>1 DEF IInv, Consecutive, TypeOK
  <2>4. CurrentIsNewest' /\ ReferencesInUse'
    BY <2>1, <2>2 DEF CurrentIsNewest, ReferencesInUse, Active
  <2>5. AcknowledgesUnused' /\ SilentWhenClosed'
    BY <2>1, <2>2 DEF IInv, AcknowledgesUnused, SilentWhenClosed, Active
  <2> QED BY <2>3, <2>4, <2>5 DEF IInv
<1> QED BY <1>1, <1>2, <1>3, <1>4, <1>5, <1>6 DEF MessageThread

\* A trigger takes the newest snapshot, which no collection has reached.
LEMMA HandleCommandSafe ==
  ASSUME IInv, TypeOK', HandleCommand
  PROVE  IInv'
<1> USE DEF publisher, engine
<1> DEFINE c == Head(commands)
<1>1. /\ audioPc = "drain" /\ c \in Command /\ TypeOK
      /\ UNCHANGED <<snapshots, nextGeneration, current, reclaimable, running, lowest>>
  BY DEF HandleCommand, IInv, TypeOK
<1>2. running
  BY <1>1 DEF IInv, SilentWhenClosed
<1>3. CASE c.type = "triggerPad" /\ HandleTrigger(c)
  <2>1. c \in [type : {"triggerPad"}, pad : Pads, source : Sources]
    BY <1>1, <1>3 DEF Command
  <2>2. \A v \in Voices : Active(v)' =>
          Active(v) /\ voices'[v].generation = voices[v].generation
    <3>1. \/ UNCHANGED voices
          \/ voices' = Released(Toggled(c.pad, c.source))
          \/ voices' = Released(Displaced(current.pads[c.pad], c.pad))
      BY <1>3 DEF HandleTrigger
    <3> DEFINE T == Toggled(c.pad, c.source)
               D == Displaced(current.pads[c.pad], c.pad)
    <3>2. T \in SUBSET Voices /\ \A v \in T : Active(v)
      BY DEF Toggled
    <3>3. D \in SUBSET Voices /\ \A v \in D : Active(v)
      BY DEF Displaced
    <3>4. CASE UNCHANGED voices
      BY <3>4 DEF Active
    <3>5. CASE voices' = Released(T)
      <4> HIDE DEF T
      <4> QED BY <1>1, <3>2, <3>5, ReleasedKeeps DEF TypeOK, Active
    <3>6. CASE voices' = Released(D)
      <4> HIDE DEF D
      <4> QED BY <1>1, <3>3, <3>6, ReleasedKeeps DEF TypeOK, Active
    <3> QED BY <3>1, <3>4, <3>5, <3>6
  <2>3. CASE audioPc' = audioPc /\ trig' = trig
    BY <1>1, <1>2, <2>2, <2>3, QuietSafe
  <2>4. CASE audioPc' = "layers" /\ trig'.snapshot = current /\ current # Nothing
    <3>1. Floor' = Floor /\ lowest = 0
      BY <1>1 DEF Floor, IInv, AcknowledgesUnused
    <3>2. ReferencesInUse'
      BY <1>1, <2>2, <2>4, <3>1 DEF IInv, ReferencesInUse, InUse
    <3>3. AcknowledgesUnused' /\ SilentWhenClosed'
      BY <1>1, <1>2, <3>1 DEF IInv, AcknowledgesUnused, SilentWhenClosed
    <3>4. Consecutive' /\ CurrentIsNewest'
      BY <1>1, <3>1 DEF IInv, Consecutive, CurrentIsNewest
    <3> QED BY <3>2, <3>3, <3>4 DEF IInv
  <2> QED BY <1>1, <1>3, <2>1, <2>3, <2>4, HandleTriggerType
<1>4. CASE HandleRelease(c)
  <2> DEFINE S == {v \in Voices : /\ Active(v) /\ voices[v].source = c.source
                                  /\ voices[v].mode # "oneShot"}
  <2>1. voices' = Released(S) /\ UNCHANGED <<audioPc, trig>>
    BY <1>4 DEF HandleRelease
  <2>2. \A v \in Voices : Active(v)' =>
          Active(v) /\ voices'[v].generation = voices[v].generation
    BY <1>1, <2>1, ReleasedKeeps DEF TypeOK, Active
  <2> QED BY <1>1, <1>2, <2>1, <2>2, QuietSafe
<1>5. CASE HandlePanic
  <2>1. \A v \in Voices : ~ Active(v)'
    BY <1>5 DEF HandlePanic, Active, Inactive
  <2> QED BY <1>1, <1>2, <1>5, <2>1, QuietSafe DEF HandlePanic
<1> QED BY <1>3, <1>4, <1>5 DEF HandleCommand

\* The voice that a layer starts plays from the snapshot the trigger loaded.
LEMMA StartLayerSafe ==
  ASSUME IInv, TypeOK', StartLayer
  PROVE  IInv'
<1> USE DEF publisher, engine
<1>1. /\ audioPc = "layers" /\ TypeOK
      /\ UNCHANGED <<snapshots, nextGeneration, current, reclaimable, running, lowest>>
      /\ InUse(trig.snapshot.generation)
  BY DEF StartLayer, IInv, ReferencesInUse
<1>2. \/ audioPc' = "drain"
      \/ audioPc' = "layers" /\ trig'.snapshot = trig.snapshot
  <2>1. trig \in Trigger
    BY <1>1 DEF TypeOK
  <2> QED BY <1>1, <2>1 DEF StartLayer, Trigger
<1>3. \A v \in Voices :
        voices'[v] = voices[v] \/ voices'[v].generation = trig.snapshot.generation
  <2> TAKE v \in Voices
  <2>1. PICK w \in Allocation(trig.pad) :
          voices' = [voices EXCEPT ![w] =
            [stage |-> "playing", pad |-> trig.pad, source |-> trig.source,
             choke |-> trig.snapshot.pads[trig.pad].choke,
             mode |-> trig.snapshot.pads[trig.pad].mode,
             age |-> nextAge, generation |-> trig.snapshot.generation]]
    BY DEF StartLayer
  <2>2. v # w => voices'[v] = voices[v]
    BY <1>1, <2>1 DEF TypeOK
  <2>3. v = w => voices'[v].generation = trig.snapshot.generation
    BY <1>1, <2>1 DEF TypeOK
  <2> QED BY <2>2, <2>3
<1>4. Floor' = Floor /\ lowest = 0 /\ running
  BY <1>1 DEF Floor, IInv, AcknowledgesUnused, SilentWhenClosed
<1>5. ReferencesInUse'
  <2>1. (\A v \in Voices : Active(v) => InUse(voices[v].generation))'
    BY <1>1, <1>3, <1>4 DEF IInv, ReferencesInUse, InUse, Active
  <2> QED BY <1>1, <1>2, <1>4, <2>1 DEF IInv, ReferencesInUse, InUse
<1>6. AcknowledgesUnused' /\ SilentWhenClosed'
  BY <1>1, <1>4 DEF IInv, AcknowledgesUnused, SilentWhenClosed
<1>7. Consecutive' /\ CurrentIsNewest'
  BY <1>1, <1>4 DEF IInv, Consecutive, CurrentIsNewest
<1> QED BY <1>5, <1>6, <1>7 DEF IInv

\* The acknowledgement names a generation below everything that is referred to, and what is
\* published before it is stored lies above it.
LEMMA AcknowledgeSafe ==
  ASSUME IInv, TypeOK', AckLoad \/ AckStore
  PROVE  IInv'
<1> USE DEF publisher, engine
<1>1. /\ TypeOK
      /\ UNCHANGED <<snapshots, nextGeneration, current, running, voices, trig>>
      /\ audioPc # "out" /\ audioPc' # "layers"
  BY DEF AckLoad, AckStore, IInv
<1>2. running
  BY <1>1 DEF IInv, SilentWhenClosed
<1>3. Floor' = Floor /\ Floor > 0 /\ Floor \in Nat
  BY <1>1 DEF Floor, IInv, Consecutive, TypeOK
<1>4. current # Nothing => current.generation \in Nat
  BY <1>1 DEF TypeOK, Snapshot
<1>5. \A v \in Voices : Active(v) => voices[v].generation \in Nat
  BY <1>1, ActiveVoice DEF TypeOK, Active
<1>6. CASE AckLoad
  <2> DEFINE used == {voices[v].generation : v \in {w \in Voices : Active(w)}}
                       \union IF current = Nothing THEN {} ELSE {current.generation}
  <2>1. /\ reclaimable' = reclaimable /\ audioPc' = "store"
        /\ \/ used = {} /\ lowest' = 0
           \/ lowest' \in used /\ \A g \in used : lowest' <= g
    BY <1>6 DEF AckLoad
  <2>2. lowest' < nextGeneration
    <3>1. \A g \in used : g < nextGeneration
      BY DEF IInv, ReferencesInUse, InUse
    <3>2. CASE lowest' = 0
      BY <1>1, <3>2 DEF TypeOK
    <3>3. CASE lowest' \in used
      BY <3>1, <3>3
    <3> QED BY <2>1, <3>2, <3>3
  <2>3. lowest' > 0 =>
          /\ current # Nothing => lowest' <= current.generation
          /\ \A v \in Voices : Active(v) => lowest' <= voices[v].generation
    BY <2>1
  <2>4. AcknowledgesUnused'
    BY <1>1, <2>1, <2>2, <2>3 DEF IInv, AcknowledgesUnused, Active
  <2>5. ReferencesInUse'
    BY <1>1, <1>3, <2>1 DEF IInv, ReferencesInUse, InUse, Active
  <2> QED BY <1>1, <1>2, <1>3, <2>4, <2>5
          DEF IInv, Consecutive, CurrentIsNewest, SilentWhenClosed
<1>7. CASE AckStore
  <2>1. /\ reclaimable' = (IF lowest > 0 THEN lowest - 1 ELSE 0)
        /\ audioPc' = "out" /\ lowest' = 0
    BY <1>7 DEF AckStore
  <2>2. /\ reclaimable' \in Nat /\ reclaimable' < nextGeneration
        /\ current # Nothing => reclaimable' < current.generation
        /\ \A v \in Voices : Active(v) => reclaimable' < voices[v].generation
    <3>1. CASE lowest > 0
      BY <1>1, <1>4, <1>5, <2>1, <3>1 DEF IInv, AcknowledgesUnused, TypeOK
    <3>2. CASE ~ (lowest > 0)
      BY <1>1, <1>3, <1>4, <1>5, <2>1, <3>2 DEF IInv, ReferencesInUse, InUse, TypeOK
    <3> QED BY <3>1, <3>2
  <2>3. ReferencesInUse'
    BY <1>1, <1>3, <2>1, <2>2 DEF IInv, ReferencesInUse, InUse, Active
  <2>4. AcknowledgesUnused'
    BY <1>1, <2>1, <2>2 DEF AcknowledgesUnused, TypeOK
  <2> QED BY <1>1, <1>2, <1>3, <2>3, <2>4
          DEF IInv, Consecutive, CurrentIsNewest, SilentWhenClosed
<1> QED BY <1>6, <1>7

\* An acknowledgement is of a generation below all that are in use.
LEMMA AudioThreadSafe ==
  ASSUME IInv, TypeOK', AudioThread
  PROVE  IInv'
<1> USE DEF publisher, engine
<1>1. CASE BlockBegins
  <2>1. /\ running /\ audioPc = "out" /\ audioPc' = "drain"
        /\ UNCHANGED <<snapshots, nextGeneration, current, reclaimable, running, lowest>>
        /\ \A v \in Voices : Active(v)' =>
             Active(v) /\ voices'[v].generation = voices[v].generation
    BY <1>1 DEF BlockBegins, Active, Inactive
  <2> QED BY <2>1, QuietSafe
<1>2. CASE HandleCommand
  BY <1>2, HandleCommandSafe
<1>3. CASE StartLayer
  BY <1>3, StartLayerSafe
<1>4. CASE Render
  <2>1. /\ audioPc = "drain" /\ audioPc' = "acknowledge"
        /\ UNCHANGED <<snapshots, nextGeneration, current, reclaimable, running, lowest>>
        /\ \A v \in Voices : Active(v)' =>
             Active(v) /\ voices'[v].generation = voices[v].generation
    BY <1>4 DEF Render, Active, Inactive
  <2>2. running
    BY <2>1 DEF IInv, SilentWhenClosed
  <2> QED BY <2>1, <2>2, QuietSafe
<1>5. CASE AckLoad \/ AckStore
  BY <1>5, AcknowledgeSafe
<1> QED BY <1>1, <1>2, <1>3, <1>4, <1>5 DEF AudioThread

\* A generation in use belongs to a retained snapshot.
LEMMA InUseIsRetained ==
  ASSUME TypeOK, Consecutive, NEW g \in Nat, InUse(g)
  PROVE  g \in Retained
<1> DEFINE i == g - Floor + 1
<1>1. i \in 1 .. Len(snapshots)
  BY DEF InUse, Floor, TypeOK
<1>2. snapshots[i].generation = g
  BY <1>1 DEF Consecutive, Floor, TypeOK
<1> QED BY <1>1, <1>2 DEF Retained, TypeOK

\* What is in use is retained, so nothing that is referred to has been freed.
LEMMA InvariantSafe == IInv => NoDanglingSnapshot
<1> SUFFICES ASSUME IInv PROVE NoDanglingSnapshot
  OBVIOUS
<1>1. TypeOK /\ Consecutive /\ ReferencesInUse
  BY DEF IInv
<1>2. current # Nothing => current.generation \in Retained
  BY <1>1, InUseIsRetained DEF ReferencesInUse, TypeOK, Snapshot
<1>3. audioPc = "layers" => trig.snapshot.generation \in Retained
  BY <1>1, InUseIsRetained, PlaybackAssumption
     DEF ReferencesInUse, TypeOK, Trigger, Snapshot
<1>4. \A v \in Voices : Active(v) => voices[v].generation \in Retained
  BY <1>1, InUseIsRetained, ActiveVoice DEF ReferencesInUse, TypeOK, Active
<1> QED BY <1>2, <1>3, <1>4 DEF NoDanglingSnapshot

\* The inductive invariant holds in every behaviour of publisher and engine
\* (PlaybackStatePublisher::collectAcknowledged() against PlaybackEngine::processBlock()).
THEOREM InvariantHolds == Spec => []IInv
<1>1. TypeOK /\ TypeOK' /\ IInv /\ [Next]_vars => IInv'
  <2> SUFFICES ASSUME TypeOK, TypeOK', IInv, [Next]_vars PROVE IInv'
    OBVIOUS
  <2>1. CASE MessageThread
    BY <2>1, MessageThreadSafe
  <2>2. CASE AudioThread
    BY <2>2, AudioThreadSafe
  <2>3. CASE UNCHANGED vars
    BY <2>3 DEF vars, publisher, engine, IInv, Consecutive, CurrentIsNewest,
                ReferencesInUse, AcknowledgesUnused, SilentWhenClosed, InUse, Floor, Active
  <2> QED BY <2>1, <2>2, <2>3 DEF Next
<1> QED BY InitSafe, TypeCorrect, <1>1, PTL DEF Spec

\* The publisher never frees a snapshot that the published pointer, a trigger in progress or
\* an active voice still refers to (PlaybackStatePublisher::collectAcknowledged).
THEOREM ReclamationSafe == Spec => []NoDanglingSnapshot
  BY InvariantHolds, InvariantSafe, PTL


-----------------------------------------------------------------------------
(* Apart from the start of a layer, voices only fade.                      *)

\* Voice v stays as it is, is released while it sounds, or falls silent.
Fades(v) ==
  \/ voices'[v] = voices[v]
  \/ voices'[v] = Inactive
  \/ Active(v) /\ voices'[v] = [voices[v] EXCEPT !.stage = "release"]

\* A voice that sounds has a pad, a choke group and a stage.
LEMMA SoundingVoice ==
  ASSUME TypeOK, NEW v \in Voices, Active(v)
  PROVE  /\ voices[v] \in [stage : {"playing", "release"}, pad : Pads, source : Sources,
                           choke : Nat, mode : Modes, age : Nat, generation : Nat]
         /\ voices[v].stage \in {"playing", "release"} /\ voices[v].pad \in Pads
<1>1. voices[v] \in Voice /\ voices[v] # Inactive
  BY DEF TypeOK, Active, Inactive
<1> QED BY <1>1 DEF Voice

\* A voice that faded sounds on its old pad, if it sounds, and plays only if it did.
LEMMA FadedVoice ==
  ASSUME TypeOK, NEW v \in Voices, Fades(v)
  PROVE  /\ voices'[v].stage = "playing" => voices'[v] = voices[v]
         /\ voices'[v].stage # "inactive" => Active(v) /\ voices'[v].pad = voices[v].pad
<1>1. CASE voices'[v] = voices[v]
  BY <1>1 DEF Active
<1>2. CASE voices'[v] = Inactive
  BY <1>2 DEF Inactive
<1>3. CASE Active(v) /\ voices'[v] = [voices[v] EXCEPT !.stage = "release"]
  <2>1. voices'[v].stage = "release" /\ voices'[v].pad = voices[v].pad
    BY <1>3, SoundingVoice
  <2> QED BY <1>3, <2>1
<1> QED BY <1>1, <1>2, <1>3 DEF Fades

\* Releasing a set of voices that sound.
LEMMA ReleasedFades ==
  ASSUME NEW S \in SUBSET Voices, \A v \in S : Active(v), voices' = Released(S)
  PROVE  \A v \in Voices : Fades(v)
<1> SUFFICES ASSUME NEW v \in Voices PROVE Fades(v)
  OBVIOUS
<1>1. CASE v \in S
  <2>1. voices'[v] = [voices[v] EXCEPT !.stage = "release"]
    BY <1>1 DEF Released
  <2> QED BY <1>1, <2>1 DEF Fades
<1>2. CASE v \notin S
  <2>1. voices'[v] = voices[v]
    BY <1>2 DEF Released
  <2> QED BY <2>1 DEF Fades
<1> QED BY <1>1, <1>2

\* No command starts a voice by itself.
LEMMA CommandsFade ==
  ASSUME TypeOK, HandleCommand
  PROVE  \A v \in Voices : Fades(v)
<1> DEFINE c == Head(commands)
<1>1. CASE HandleTrigger(c)
  <2>1. \/ voices' = voices
        \/ voices' = Released(Toggled(c.pad, c.source))
        \/ voices' = Released(Displaced(current.pads[c.pad], c.pad))
    BY <1>1 DEF HandleTrigger
  <2>2. CASE voices' = voices
    BY <2>2 DEF Fades
  <2>3. CASE voices' = Released(Toggled(c.pad, c.source))
    BY <2>3, ReleasedFades DEF Toggled
  <2>4. CASE voices' = Released(Displaced(current.pads[c.pad], c.pad))
    BY <2>4, ReleasedFades DEF Displaced
  <2> QED BY <2>1, <2>2, <2>3, <2>4
<1>2. CASE HandleRelease(c)
  <2> DEFINE S == {v \in Voices : /\ Active(v) /\ voices[v].source = c.source
                                  /\ voices[v].mode # "oneShot"}
  <2>1. voices' = Released(S) /\ S \in SUBSET Voices /\ \A v \in S : Active(v)
    BY <1>2 DEF HandleRelease
  <2> HIDE DEF S
  <2> QED BY <2>1, ReleasedFades
<1>3. CASE HandlePanic
  BY <1>3 DEF HandlePanic, Fades
<1> QED BY <1>1, <1>2, <1>3 DEF HandleCommand

\* Nor does any other step but StartLayer.
LEMMA OnlyLayersStart ==
  ASSUME TypeOK, [Next]_vars
  PROVE  StartLayer \/ \A v \in Voices : Fades(v)
<1> USE DEF publisher, engine
<1>1. ASSUME UNCHANGED voices
      PROVE  \A v \in Voices : Fades(v)
  BY <1>1 DEF Fades
<1>2. ASSUME NEW project \in Projects, Publish(project)
      PROVE  UNCHANGED voices
  BY <1>2 DEF Publish
<1>3. ASSUME NEW command \in Command, Enqueue(command)
      PROVE  UNCHANGED voices
  BY <1>3 DEF Enqueue
<1>4. CASE Collect \/ Clear \/ AckLoad \/ AckStore \/ UNCHANGED vars
  <2>1. UNCHANGED voices
    BY <1>4 DEF Collect, Clear, AckLoad, AckStore, vars
  <2> QED BY <1>1, <2>1
<1>5. CASE RestartDevice \/ Close \/ BlockBegins \/ Render
  <2>1. CASE RestartDevice
    BY <2>1 DEF RestartDevice, Fades
  <2>2. CASE Close
    BY <2>2 DEF Close, Fades
  <2>3. CASE BlockBegins
    BY <2>3 DEF BlockBegins, Fades
  <2>4. CASE Render
    BY <2>4 DEF Render, Fades
  <2> QED BY <1>5, <2>1, <2>2, <2>3, <2>4
<1>6. CASE HandleCommand
  BY <1>6, CommandsFade
<1> QED BY <1>1, <1>2, <1>3, <1>4, <1>5, <1>6 DEF Next, MessageThread, AudioThread

\* What StartLayer puts in place of the voice it allocates.
Started ==
  [stage |-> "playing", pad |-> trig.pad, source |-> trig.source,
   choke |-> trig.snapshot.pads[trig.pad].choke,
   mode |-> trig.snapshot.pads[trig.pad].mode,
   age |-> nextAge, generation |-> trig.snapshot.generation]

\* A voice taken from a set is in that set.
LEMMA PreferredIsMember == \A S : PreferReleased(S) \subseteq S
  BY DEF PreferReleased, Oldest

\* StartLayer starts one voice and leaves the others alone.
LEMMA LayerStartsOne ==
  ASSUME TypeOK, StartLayer
  PROVE  \E v \in Voices :
           /\ v \in Allocation(trig.pad) /\ voices'[v] = Started
           /\ \A w \in Voices : w # v => voices'[w] = voices[w]
<1>1. PICK v \in Allocation(trig.pad) : voices' = [voices EXCEPT ![v] = Started]
  BY DEF StartLayer, Started
<1>2. PadVoices(trig.pad) \subseteq Voices /\ Free \subseteq Voices
  BY DEF PadVoices, Free
<1>3. v \in Voices
  BY <1>1, <1>2, PreferredIsMember DEF Allocation
<1> QED BY <1>1, <1>3 DEF TypeOK

-----------------------------------------------------------------------------
(* Stealing.                                                               *)

\* A sounding voice goes to another pad only when all voices sound, and one that is not being
\* released only when all of them play.
THEOREM StealingIsLastResort == Spec => StealsOnlyWhenFull
<1> DEFINE Justified ==
      \A v \in Voices :
        Active(v) /\ voices'[v].stage = "playing" /\ voices'[v].pad # voices[v].pad
          => /\ Free = {}
             /\ voices[v].stage = "release" \/ \A w \in Voices : voices[w].stage = "playing"
<1>1. ASSUME TypeOK, [Next]_vars
      PROVE  Justified
  <2>1. CASE \A v \in Voices : Fades(v)
    BY <1>1, <2>1, FadedVoice
  <2>2. CASE StartLayer
    <3>1. PICK u \in Voices :
            /\ u \in Allocation(trig.pad) /\ voices'[u] = Started
            /\ \A w \in Voices : w # u => voices'[w] = voices[w]
      BY <1>1, <2>2, LayerStartsOne
    <3> SUFFICES ASSUME NEW v \in Voices, Active(v), voices'[v].pad # voices[v].pad
                 PROVE  /\ Free = {}
                        /\ \/ voices[v].stage = "release"
                           \/ \A w \in Voices : voices[w].stage = "playing"
      OBVIOUS
    <3>2. v = u /\ voices'[v].pad = trig.pad
      BY <3>1 DEF Started
    <3>3. v \notin PadVoices(trig.pad) /\ v \notin Free
      BY <3>2 DEF PadVoices, Free
    <3>4. Free = {} /\ v \in PreferReleased(Voices)
      BY <3>1, <3>2, <3>3, PreferredIsMember DEF Allocation
    <3>5. \A w \in Voices : voices[w].stage \in {"playing", "release"}
      BY <1>1, <3>4, SoundingVoice DEF Free
    <3> QED BY <3>4, <3>5 DEF PreferReleased
  <2> QED BY <1>1, <2>1, <2>2, OnlyLayersStart
<1>2. TypeOK /\ [Next]_vars => [Justified]_vars
  BY <1>1
<1> QED BY TypeCorrect, <1>2, PTL DEF Spec, StealsOnlyWhenFull

-----------------------------------------------------------------------------
(* Choke groups.                                                           *)

\* While the layers of a pad start, its choke group plays on no other pad: the trigger
\* released them, and only this pad's layers start before the next command.
GroupIsCleared ==
  audioPc = "layers" =>
    \A v \in Voices :
      voices[v].stage = "playing" /\ trig.snapshot.pads[trig.pad].choke # 0
        /\ voices[v].choke = trig.snapshot.pads[trig.pad].choke
        => voices[v].pad = trig.pad

\* Where the audio thread starts layers, it had begun to or has just handled a trigger.
LEMMA LayersBegin ==
  ASSUME TypeOK, [Next]_vars, audioPc' = "layers"
  PROVE  HandleCommand \/ StartLayer \/ (audioPc = "layers" /\ trig' = trig)
<1> USE DEF publisher, engine
<1>1. ASSUME NEW project \in Projects, Publish(project)
      PROVE  audioPc' = audioPc /\ trig' = trig
  BY <1>1 DEF Publish
<1>2. ASSUME NEW command \in Command, Enqueue(command)
      PROVE  audioPc' = audioPc /\ trig' = trig
  BY <1>2 DEF Enqueue
<1>3. CASE Collect \/ RestartDevice \/ Close \/ Clear \/ UNCHANGED vars
  BY <1>3 DEF Collect, RestartDevice, Close, Clear, vars
<1>4. ~ BlockBegins /\ ~ Render /\ ~ AckLoad /\ ~ AckStore
  BY DEF BlockBegins, Render, AckLoad, AckStore
<1> QED BY <1>1, <1>2, <1>3, <1>4 DEF Next, MessageThread, AudioThread

\* A trigger that goes on to its layers has released the others of its group.
LEMMA TriggerClearsGroup ==
  ASSUME TypeOK, HandleCommand, audioPc' = "layers"
  PROVE  GroupIsCleared'
<1> DEFINE c == Head(commands)
           settings == current.pads[c.pad]
<1>1. audioPc = "drain"
  BY DEF HandleCommand
<1>2. HandleTrigger(c)
  BY <1>1 DEF HandleCommand, HandleRelease, HandlePanic
<1>3. /\ voices' = Released(Displaced(settings, c.pad))
      /\ trig' = [snapshot |-> current, pad |-> c.pad, source |-> c.source,
                  layers |-> settings.layers]
  BY <1>1, <1>2 DEF HandleTrigger
<1>4. trig'.pad = c.pad /\ trig'.snapshot.pads[trig'.pad] = settings
  BY <1>3
<1> HIDE DEF c, settings
<1>5. ASSUME NEW v \in Voices, voices'[v].stage = "playing", settings.choke # 0,
             voices'[v].choke = settings.choke
      PROVE  voices'[v].pad = c.pad
  <2>1. Fades(v)
    BY CommandsFade
  <2>2. voices'[v] = voices[v] /\ Active(v)
    BY <1>5, <2>1, FadedVoice
  <2>3. v \notin Displaced(settings, c.pad)
    <3> SUFFICES ASSUME v \in Displaced(settings, c.pad) PROVE FALSE
      OBVIOUS
    <3>1. voices'[v] = [voices[v] EXCEPT !.stage = "release"]
      BY <1>3 DEF Released
    <3>2. voices'[v].stage = "release"
      BY <2>2, <3>1, SoundingVoice
    <3> QED BY <1>5, <3>2
  <2> QED BY <1>5, <2>2, <2>3 DEF Displaced
<1> QED BY <1>4, <1>5 DEF GroupIsCleared

ChokeInv == ChokeGroupsExclude /\ GroupIsCleared

\* Fading voices cannot meet in a group.
LEMMA FadingKeepsGroups ==
  ASSUME TypeOK, ChokeGroupsExclude, \A v \in Voices : Fades(v)
  PROVE  ChokeGroupsExclude'
<1>1. \A v \in Voices : voices'[v].stage = "playing" => voices'[v] = voices[v]
  BY FadedVoice
<1> QED BY <1>1 DEF ChokeGroupsExclude

\* A layer joins a group whose other voices play its pad.
LEMMA LayerKeepsGroups ==
  ASSUME TypeOK, ChokeInv, StartLayer
  PROVE  ChokeInv'
<1> DEFINE choke == trig.snapshot.pads[trig.pad].choke
           pad == trig.pad
<1>1. PICK u \in Voices :
        /\ voices'[u] = Started
        /\ \A w \in Voices : w # u => voices'[w] = voices[w]
  BY LayerStartsOne
<1>2. voices'[u].choke = choke /\ voices'[u].pad = pad
  BY <1>1 DEF Started
<1>3. audioPc = "layers" /\ trig \in Trigger
  BY DEF StartLayer, TypeOK
<1>4. audioPc' = "layers" => trig'.pad = pad /\ trig'.snapshot.pads[trig'.pad].choke = choke
  <2>1. audioPc' = "layers" => trig' = [trig EXCEPT !.layers = @ - 1]
    BY DEF StartLayer
  <2>2. [trig EXCEPT !.layers = @ - 1].pad = trig.pad
        /\ [trig EXCEPT !.layers = @ - 1].snapshot = trig.snapshot
    BY <1>3 DEF Trigger
  <2> QED BY <2>1, <2>2
<1>5. \A v \in Voices : voices[v].stage = "playing" /\ choke # 0 /\ voices[v].choke = choke
                          => voices[v].pad = pad
  BY <1>3 DEF ChokeInv, GroupIsCleared
<1> HIDE DEF choke, pad
<1>6. \A v \in Voices : voices'[v].stage = "playing" /\ choke # 0 /\ voices'[v].choke = choke
                          => voices'[v].pad = pad
  BY <1>1, <1>2, <1>5
<1>7. ChokeGroupsExclude'
  <2> SUFFICES ASSUME NEW v \in Voices, NEW w \in Voices,
                      voices'[v].stage = "playing", voices'[w].stage = "playing",
                      voices'[v].choke = voices'[w].choke, voices'[v].choke # 0
               PROVE  voices'[v].pad = voices'[w].pad
    BY DEF ChokeGroupsExclude
  <2>1. CASE v = u \/ w = u
    BY <1>2, <1>6, <2>1
  <2>2. CASE v # u /\ w # u
    BY <1>1, <2>2 DEF ChokeInv, ChokeGroupsExclude
  <2> QED BY <2>1, <2>2
<1>8. GroupIsCleared'
  BY <1>4, <1>6 DEF GroupIsCleared
<1> QED BY <1>7, <1>8 DEF ChokeInv

\* Voices of one choke group that play all belong to one pad.
THEOREM ChokeGroupsHold == Spec => []ChokeGroupsExclude
<1>1. Init => ChokeInv
  BY DEF Init, Inactive, ChokeInv, ChokeGroupsExclude, GroupIsCleared
<1>2. ASSUME TypeOK, ChokeInv, [Next]_vars
      PROVE  ChokeInv'
  <2>1. CASE StartLayer
    BY <1>2, <2>1, LayerKeepsGroups
  <2>2. CASE ~ StartLayer
    <3>1. \A v \in Voices : Fades(v)
      BY <1>2, <2>2, OnlyLayersStart
    <3>2. ChokeGroupsExclude'
      BY <1>2, <3>1, FadingKeepsGroups DEF ChokeInv
    <3>3. GroupIsCleared'
      <4>1. CASE audioPc' # "layers"
        BY <4>1 DEF GroupIsCleared
      <4>2. CASE audioPc' = "layers" /\ HandleCommand
        BY <1>2, <4>2, TriggerClearsGroup
      <4>3. CASE audioPc' = "layers" /\ ~ HandleCommand
        <5>1. audioPc = "layers" /\ trig' = trig
          BY <1>2, <2>2, <4>3, LayersBegin
        <5>2. \A v \in Voices : voices'[v].stage = "playing" => voices'[v] = voices[v]
          BY <1>2, <3>1, FadedVoice
        <5> QED BY <1>2, <5>1, <5>2 DEF ChokeInv, GroupIsCleared
      <4> QED BY <4>1, <4>2, <4>3
    <3> QED BY <3>2, <3>3 DEF ChokeInv
  <2> QED BY <2>1, <2>2
<1>3. TypeOK /\ ChokeInv /\ [Next]_vars => ChokeInv'
  BY <1>2
<1>4. ChokeInv => ChokeGroupsExclude
  BY DEF ChokeInv
<1> QED BY TypeCorrect, <1>1, <1>3, <1>4, PTL DEF Spec

-----------------------------------------------------------------------------
(* The voice limit of a pad.                                               *)

\* The published snapshot is one of the projects.
PublishesProjects == current # Nothing => current.pads \in Projects

\* There are finitely many voices, so those of a pad can be counted.
LEMMA PadVoicesFinite ==
  ASSUME NEW S \in SUBSET Voices
  PROVE  IsFiniteSet(S) /\ Cardinality(S) \in Nat
<1>1. IsFiniteSet(Voices)
  BY PlaybackAssumption, FS_Interval DEF Voices
<1>2. IsFiniteSet(S)
  BY <1>1, FS_Subset
<1> QED BY <1>2, FS_CardinalityType

\* Each pad has a limit in each project.
LEMMA LimitIsPositive ==
  ASSUME NEW project \in Projects, NEW p \in Pads
  PROVE  project[p].limit \in Nat \ {0}
  BY PlaybackAssumption DEF PadSettings

\* Fewer voices are within the same limit.
LEMMA FadingKeepsLimit ==
  ASSUME PadVoiceLimit, NEW p \in Pads, PadVoices(p)' \subseteq PadVoices(p)
  PROVE  \E project \in Projects : Cardinality(PadVoices(p)') <= project[p].limit
<1>1. PICK project \in Projects : Cardinality(PadVoices(p)) <= project[p].limit
  BY DEF PadVoiceLimit
<1>2. PadVoices(p) \in SUBSET Voices
  BY DEF PadVoices
<1> DEFINE before == PadVoices(p)
           after == PadVoices(p)'
<1>3. before \in SUBSET Voices /\ after \in SUBSET before
  BY <1>2
<1> HIDE DEF before, after
<1>4. /\ Cardinality(after) <= Cardinality(before)
      /\ Cardinality(after) \in Nat /\ Cardinality(before) \in Nat
  <2>1. IsFiniteSet(before) /\ Cardinality(before) \in Nat
    BY <1>3, PadVoicesFinite
  <2>2. after \in SUBSET Voices
    BY <1>3
  <2> QED BY <1>3, <2>1, <2>2, FS_Subset, PadVoicesFinite
<1>5. project[p].limit \in Nat
  BY LimitIsPositive
<1>6. Cardinality(after) <= project[p].limit
  BY <1>1, <1>4, <1>5 DEF before
<1> QED BY <1>6 DEF after

\* A layer takes a voice of its pad when the pad is at the limit of the published project.
LEMMA LayerKeepsLimit ==
  ASSUME TypeOK, PadVoiceLimit, PublishesProjects, StartLayer, NEW p \in Pads
  PROVE  \E project \in Projects : Cardinality(PadVoices(p)') <= project[p].limit
<1>1. PICK u \in Voices :
        /\ u \in Allocation(trig.pad) /\ voices'[u] = Started
        /\ \A w \in Voices : w # u => voices'[w] = voices[w]
  BY LayerStartsOne
<1>2. voices'[u].pad = trig.pad
  BY <1>1 DEF Started
<1>3. CASE p # trig.pad \/ u \in PadVoices(p)
  <2>1. PadVoices(p)' \subseteq PadVoices(p)
    BY <1>1, <1>2, <1>3 DEF PadVoices, Active
  <2> QED BY <2>1, FadingKeepsLimit
<1>4. CASE p = trig.pad /\ u \notin PadVoices(p)
  <2> DEFINE limit == IF current = Nothing THEN 1 ELSE current.pads[p].limit
             before == PadVoices(p)
             after == PadVoices(p)'
  <2>1. PICK project \in Projects : limit <= project[p].limit /\ limit \in Nat \ {0}
    <3>1. CASE current = Nothing
      <4>1. PICK project \in Projects : TRUE
        BY PlaybackAssumption
      <4>2. project[p].limit \in Nat \ {0}
        BY LimitIsPositive
      <4> QED BY <3>1, <4>2
    <3>2. CASE current # Nothing
      <4>1. current.pads \in Projects
        BY <3>2 DEF PublishesProjects
      <4>2. current.pads[p].limit \in Nat \ {0}
        BY <4>1, LimitIsPositive
      <4> QED BY <3>2, <4>1, <4>2
    <3> QED BY <3>1, <3>2
  <2>2. ~ (Cardinality(before) >= limit)
    BY <1>1, <1>4, PreferredIsMember DEF Allocation
  <2>3. after \subseteq before \union {u} /\ before \in SUBSET Voices
    BY <1>1 DEF PadVoices, Active
  <2> HIDE DEF limit, before, after
  <2>4. IsFiniteSet(before) /\ Cardinality(before) \in Nat
    BY <2>3, PadVoicesFinite
  <2>5. IsFiniteSet(before \union {u}) /\ Cardinality(before \union {u}) <= Cardinality(before) + 1
    <3>1. /\ IsFiniteSet(before \union {u})
          /\ Cardinality(before \union {u}) =
               IF u \in before THEN Cardinality(before) ELSE Cardinality(before) + 1
      BY <2>4, FS_AddElement
    <3> QED BY <2>4, <3>1
  <2>6. Cardinality(after) <= Cardinality(before \union {u})
    BY <2>3, <2>5, FS_Subset
  <2>7. Cardinality(after) \in Nat /\ Cardinality(before \union {u}) \in Nat
    BY <2>3, PadVoicesFinite
  <2>8. project[p].limit \in Nat
    BY LimitIsPositive
  <2>9. Cardinality(after) <= project[p].limit
    BY <2>1, <2>2, <2>4, <2>5, <2>6, <2>7, <2>8
  <2> QED BY <2>9 DEF after
<1> QED BY <1>3, <1>4

\* No pad has more voices than some project allows it, although a trigger and its allocations
\* may see different projects.
THEOREM PadLimitsHold == Spec => []PadVoiceLimit
<1> DEFINE LimitInv == PadVoiceLimit /\ PublishesProjects
<1>1. Init => LimitInv
  <2> SUFFICES ASSUME Init PROVE LimitInv
    OBVIOUS
  <2>1. \A p \in Pads : PadVoices(p) = {}
    BY DEF Init, PadVoices, Active, Inactive
  <2>2. Cardinality({}) = 0
    BY FS_EmptySet
  <2>3. PICK project \in Projects : TRUE
    BY PlaybackAssumption
  <2>4. \A p \in Pads : Cardinality(PadVoices(p)) <= project[p].limit
    BY <2>1, <2>2, LimitIsPositive
  <2> QED BY <2>4 DEF Init, PadVoiceLimit, PublishesProjects
<1>2. ASSUME TypeOK, LimitInv, [Next]_vars
      PROVE  LimitInv'
  <2>1. PublishesProjects'
    <3>1. \/ current' = current
          \/ current' = Nothing
          \/ \E project \in Projects : current'.pads = project
      <4>1. ASSUME NEW project \in Projects, Publish(project)
            PROVE  current'.pads = project
        BY <4>1 DEF Publish
      <4>2. ASSUME NEW command \in Command, Enqueue(command)
            PROVE  current' = current
        BY <4>2 DEF Enqueue
      <4>3. CASE Collect \/ RestartDevice \/ Close \/ Clear
        BY <4>3 DEF Collect, RestartDevice, Close, Clear
      <4>4. CASE AudioThread
        BY <4>4 DEF AudioThread, BlockBegins, HandleCommand, StartLayer, Render, AckLoad,
                    AckStore
      <4>5. CASE UNCHANGED vars
        BY <4>5 DEF vars
      <4> QED BY <1>2, <4>1, <4>2, <4>3, <4>4, <4>5 DEF Next, MessageThread
    <3> QED BY <1>2, <3>1 DEF PublishesProjects
  <2>2. ASSUME NEW p \in Pads
        PROVE  \E project \in Projects : Cardinality(PadVoices(p)') <= project[p].limit
    <3>1. CASE StartLayer
      BY <1>2, <3>1, LayerKeepsLimit
    <3>2. CASE ~ StartLayer
      <4>1. \A v \in Voices : Fades(v)
        BY <1>2, <3>2, OnlyLayersStart
      <4>2. \A v \in Voices : voices'[v].stage # "inactive" =>
                                Active(v) /\ voices'[v].pad = voices[v].pad
        BY <1>2, <4>1, FadedVoice
      <4>3. PadVoices(p)' \subseteq PadVoices(p)
        BY <4>2 DEF PadVoices, Active
      <4> QED BY <1>2, <4>3, FadingKeepsLimit
    <3> QED BY <3>1, <3>2
  <2> QED BY <2>1, <2>2 DEF PadVoiceLimit
<1>3. TypeOK /\ LimitInv /\ [Next]_vars => LimitInv'
  BY <1>2
<1> QED BY TypeCorrect, <1>1, <1>3, PTL DEF Spec
=============================================================================

---------------------------- MODULE SliceAudition ----------------------------
(***************************************************************************)
(* Audition of slices: SliceAuditionController on the message thread       *)
(* queues starts and stops for PreviewPlayer on the audio thread, advances *)
(* a sequence from the 20 Hz timer, and retires its reference to the       *)
(* sample under an epoch that the player acknowledges.  The preview        *)
(* controller's stop() pushes into the same player with epochs of its own. *)
(*                                                                         *)
(* All slices are cut from one sample; positions within a slice are left   *)
(* out: a slice that plays may end in any block.                           *)
(***************************************************************************)
EXTENDS Integers, Sequences, FiniteSets

CONSTANTS
  SliceCount,     \* slices of the provisional slice set
  QueueCapacity,  \* capacity of PreviewPlayer::commands_
  MaxRequests     \* bound: requests of the user, restarts of the device included

ASSUME AuditionAssumption ==
  SliceCount \in Nat \ {0} /\ QueueCapacity \in Nat \ {0} /\ MaxRequests \in Nat

VARIABLES
  sequence, index,  \* sequence_ and sequenceIndex_ (from 1) of the controller
  holds,            \* activeAsset_ is not null
  epoch,            \* epoch_
  retired,          \* epochs under which reclaimer_ holds a reference
  previewEpoch,     \* revision_ of the SamplePreviewController
  tick,             \* where the message thread is in service()
  commands,         \* commands_ of the player
  playing,          \* activeMeter_, and the slice the audio thread plays
  acknowledged,     \* acknowledgedEpoch_
  pendingEpoch,     \* epoch of a popped command before it is acknowledged
  requests,         \* requests of the user so far, for the bound
  asked,            \* history: the request that the controller's sequence was started by
  started, silenced \* history: the last slice started; requests stopped so far

controller == <<sequence, index, holds, epoch, retired>>
player     == <<playing, acknowledged, pendingEpoch, started, silenced>>
vars == <<controller, previewEpoch, tick, commands, player, requests, asked>>

-----------------------------------------------------------------------------

Slices == 1 .. SliceCount

Silent == [request |-> 0, slice |-> 0]

Start(slice, e, r) == [type |-> "start", epoch |-> e, request |-> r, slice |-> slice]
Stop(e, r) == [type |-> "stop", epoch |-> e, request |-> r, slice |-> 0]

HasRoom == Len(commands) < QueueCapacity

\* tryPush() of a command, refused when the queue is full.
Push(command) == commands' = IF HasRoom THEN Append(commands, command) ELSE commands

Init ==
  /\ sequence = <<>> /\ index = 0 /\ holds = FALSE /\ epoch = 0 /\ retired = {}
  /\ previewEpoch = 0 /\ tick = "none" /\ commands = <<>>
  /\ playing = Silent /\ acknowledged = 0 /\ pendingEpoch = 0
  /\ requests = 0 /\ asked = 0 /\ started = Silent /\ silenced = 0

Request == tick = "none" /\ requests < MaxRequests /\ requests' = requests + 1

-----------------------------------------------------------------------------
(* The message thread.                                                     *)

\* startSelected() and startSequential(): the epoch is used up even if the push is refused.
StartSequence(slices) ==
  /\ Request
  /\ sequence' = slices /\ index' = 1 /\ holds' = TRUE /\ asked' = requests'
  /\ epoch' = epoch + 1 /\ Push(Start(slices[1], epoch', requests'))
  /\ UNCHANGED <<retired, previewEpoch, tick, player>>

\* Faulty variant of StopAudition: the sequence is kept, with the reference it plays from.
StopKeepsSequence ==
  /\ Request
  /\ epoch' = epoch + 1 /\ Push(Stop(epoch', requests'))
  /\ UNCHANGED <<sequence, index, holds, retired, previewEpoch, tick, player, asked>>

\* stop(): the reference is retired under the epoch of the stop, unless the push is refused.
StopAudition ==
  /\ Request
  /\ sequence' = <<>> /\ index' = 0
  /\ epoch' = epoch + 1 /\ Push(Stop(epoch', requests'))
  /\ IF HasRoom
       THEN /\ retired' = IF holds THEN retired \union {epoch'} ELSE retired
            /\ holds' = FALSE
       ELSE UNCHANGED <<retired, holds>>
  /\ UNCHANGED <<previewEpoch, tick, player, asked>>

\* SamplePreviewController::stop(), of a preview that holds no asset.
StopPreview ==
  /\ Request
  /\ previewEpoch' = previewEpoch + 1 /\ Push(Stop(previewEpoch', 0))
  /\ UNCHANGED <<controller, tick, player, asked>>

\* service(): collect what is acknowledged, ...
ServiceCollects ==
  /\ tick = "none" /\ (holds \/ retired # {})
  /\ retired' = {e \in retired : e > acknowledged}
  /\ tick' = "look"
  /\ UNCHANGED <<sequence, index, holds, epoch, previewEpoch, commands, player,
                 requests, asked>>

\* ... return when there is nothing to play or the player plays, ...
ServiceLooks ==
  /\ tick = "look"
  /\ tick' = IF holds /\ playing = Silent THEN "advance" ELSE "none"
  /\ UNCHANGED <<controller, previewEpoch, commands, player, requests, asked>>

Retire ==
  /\ sequence' = <<>> /\ retired' = retired \union {acknowledged} /\ holds' = FALSE

\* Faulty variants of ServiceAdvances: the index stays, or a finished sequence does.
ServiceRepeats ==
  /\ tick = "advance" /\ tick' = "none"
  /\ IF Len(sequence) <= 1
       THEN Retire /\ UNCHANGED <<index, epoch, commands>>
       ELSE /\ epoch' = epoch + 1 /\ Push(Start(sequence[index], epoch', asked))
            /\ UNCHANGED <<sequence, index, holds, retired>>
  /\ UNCHANGED <<previewEpoch, player, requests, asked>>

ServiceNeverRetires ==
  /\ tick = "advance" /\ tick' = "none"
  /\ IF index >= Len(sequence)
       THEN UNCHANGED <<sequence, index, holds, retired, epoch, commands>>
       ELSE /\ index' = index + 1 /\ epoch' = epoch + 1
            /\ Push(Start(sequence[index'], epoch', asked))
            /\ UNCHANGED <<sequence, holds, retired>>
  /\ UNCHANGED <<previewEpoch, player, requests, asked>>

\* ... or else start the next slice, or retire the reference under the epoch acknowledged last.
ServiceAdvances ==
  /\ tick = "advance" /\ tick' = "none"
  /\ IF Len(sequence) <= 1
       THEN Retire /\ UNCHANGED <<index, epoch, commands>>
       ELSE /\ index' = index + 1
            /\ IF index' > Len(sequence)
                 THEN Retire /\ UNCHANGED <<epoch, commands>>
                 ELSE /\ epoch' = epoch + 1
                      /\ Push(Start(sequence[index'], epoch', asked))
                      /\ IF HasRoom THEN UNCHANGED <<sequence, holds, retired>> ELSE Retire
  /\ UNCHANGED <<previewEpoch, player, requests, asked>>

\* AudioRuntime::restart(): the callback is removed, the player silenced, and when the device
\* starts again prepare() empties the queue.
RestartDevice ==
  /\ Request /\ pendingEpoch = 0
  /\ playing' = Silent /\ commands' = <<>>
  /\ UNCHANGED <<controller, previewEpoch, tick, acknowledged, pendingEpoch, started,
                 silenced, asked>>

-----------------------------------------------------------------------------
(* The audio thread: processAdd().                                         *)

\* A command takes effect ...
PlayerPops ==
  /\ pendingEpoch = 0 /\ commands # <<>>
  /\ LET c == Head(commands)
     IN  /\ playing' = IF c.type = "start" THEN [request |-> c.request, slice |-> c.slice]
                                           ELSE Silent
         /\ started' = IF c.type = "start" THEN playing' ELSE started
         /\ silenced' = IF c.type = "stop" /\ c.request > 0 THEN c.request ELSE silenced
         /\ pendingEpoch' = c.epoch
  /\ commands' = Tail(commands)
  /\ UNCHANGED <<controller, previewEpoch, tick, acknowledged, requests, asked>>

\* ... before its epoch is acknowledged.
PlayerAcknowledges ==
  /\ pendingEpoch # 0
  /\ acknowledged' = pendingEpoch /\ pendingEpoch' = 0
  /\ UNCHANGED <<controller, previewEpoch, tick, commands, playing, started, silenced,
                 requests, asked>>

\* The end of the slice is reached while a block is rendered.
PlayerEnds ==
  /\ pendingEpoch = 0 /\ commands = <<>> /\ playing # Silent
  /\ playing' = Silent
  /\ UNCHANGED <<controller, previewEpoch, tick, commands, acknowledged, pendingEpoch,
                 started, silenced, requests, asked>>

-----------------------------------------------------------------------------

User ==
  \/ \E slice \in Slices : StartSequence(<<slice>>)
  \/ StartSequence([i \in Slices |-> i])
  \/ StopAudition \/ StopPreview \/ RestartDevice

Service == ServiceCollects \/ ServiceLooks \/ ServiceAdvances

AudioThread == PlayerPops \/ PlayerAcknowledges \/ PlayerEnds

Next == User \/ Service \/ AudioThread

Spec == Init /\ [][Next]_vars

\* The timer goes on and the device goes on calling.
FairSpec == Spec /\ WF_vars(Service) /\ WF_vars(AudioThread)

-----------------------------------------------------------------------------
(* Properties.                                                             *)

\* A step in which the player starts a slice.
Starts == pendingEpoch = 0 /\ pendingEpoch' # 0 /\ Head(commands).type = "start"

\* Slices of a sequence start in ascending order, none twice, wherever the timer's ticks fall
\* between the blocks of the audio thread, and never a slice of an earlier request after one
\* of a later request.
SlicesInOrder ==
  [][Starts =>
       \/ started'.request > started.request
       \/ started'.request = started.request /\ started'.slice > started.slice]_vars

\* Once the player has taken a stop, no slice starts that was requested before it: a tick
\* cannot bring the stopped sequence back.
StopIsFinal == [][Starts => started'.request > silenced]_vars

\* Every audition ends: when the requests stop, the player falls silent and the controller
\* gives up its reference, also when a start or a stop was refused or a restart ate it.
AuditionEnds == <>[](playing = Silent /\ ~ holds)

\* While the player plays the sample, or is about to, the audition or its reclaimer holds it:
\* it is "destroyed only after the audio thread acknowledges a later epoch"
\* (docs/AUDIO_THREAD_RULES.md:28).
HeldWhileUsed ==
  playing # Silent \/ (\E i \in DOMAIN commands : commands[i].type = "start")
    => holds \/ retired # {}
=============================================================================

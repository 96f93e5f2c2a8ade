--------------------------- MODULE CaptureSession ---------------------------
(***************************************************************************)
(* One capture session of Audio/CaptureWriter: the audio callback copies   *)
(* input frames into FIFO blocks, a writer thread drains them into a       *)
(* .part file and publishes it, and the message thread starts, stops,      *)
(* cancels and closes the session.  The threads share the atomics state,   *)
(* stopRequested, callbackActive and incomplete and the two SPSC queues    *)
(* of CaptureFifo; a step of the model is one access to one of them, with  *)
(* the thread-local work that follows it.                                  *)
(*                                                                         *)
(* Input frames are numbered from 1 in the order the device delivers them; *)
(* a block, the pre-roll ring and a file hold sequences of frame numbers.  *)
(* A behaviour is one session, from prepare() to the join of its writer.   *)
(***************************************************************************)
EXTENDS Integers, Sequences, FiniteSets

CONSTANTS
  BlockCount,         \* blocks in the FIFO
  FramesPerBlock,     \* spec.maximumFramesPerBlock
  PreRollFrames,      \* capacity of the pre-roll ring, in frames
  MaxCallbackFrames,  \* bound: frames the device delivers in one callback
  MaxFrames,          \* bound: frames delivered before a stop is requested
  StopReserve,        \* bound: frames the device still delivers after that
  Nothing             \* no block in hand, no such file

ASSUME CaptureAssumption ==
  /\ BlockCount \in Nat \ {0}
  /\ Nothing \notin Nat \union Seq(Nat) \union [block : Nat, frames : Seq(Nat)]
  /\ FramesPerBlock \in Nat \ {0} /\ PreRollFrames \in Nat
  /\ MaxCallbackFrames \in Nat \ {0} /\ MaxFrames \in Nat /\ StopReserve \in Nat

VARIABLES
  mode,            \* spec_.mode
  state,           \* state_
  stopRequested,   \* stopRequested_
  callbackActive,  \* callbackActive_
  incomplete,      \* incomplete_ (overflowCount_ > 0)
  free, ready,     \* CaptureFifo: the queues of free blocks and of ready descriptors
  preRoll,         \* contents of preRoll_, oldest frame first
  delivered,       \* input frames the device has delivered to the session
  accepted,        \* every frame counted by framesAccepted_, in order
  framesWritten,   \* framesWritten_
  temp, final,     \* contents of the .part file and of the destination
  cbPc, cbState, cbPre, cbLive, cbBlock,  \* the audio callback's locals
  wPc, wState, wBlock,                    \* the writer thread's locals
  uiPc,            \* where the message thread is in a call on the session
  devPc,           \* the device: running, in audioDeviceStopped(), or stopped
  cancelStored     \* history: a cancel() has stored `cancelled'

shared  == <<mode, state, stopRequested, callbackActive, incomplete>>
audio   == <<cbPc, cbState, cbPre, cbLive, cbBlock, preRoll, delivered, accepted>>
writer  == <<wPc, wState, wBlock, framesWritten, temp, final>>
control == <<uiPc, devPc, cancelStored>>
vars   == <<shared, free, ready, audio, writer, control>>

-----------------------------------------------------------------------------
(* Capture states and helpers.                                             *)

Capturing == {"armed", "waitingForThreshold", "recording"}

Blocks == 1 .. BlockCount

Least(a, b) == IF a <= b THEN a ELSE b

\* The frames of a callback that delivers n of them.
NewFrames(n) == [i \in 1..n |-> delivered + i]

\* appendPreRollFrame over a run of frames: the ring keeps the last PreRollFrames.
AppendPreRoll(frames) ==
  LET all  == preRoll \o frames
      kept == Least(Len(all), PreRollFrames)
  IN  SubSeq(all, Len(all) - kept + 1, Len(all))

\* The part of a run that goes into the next block, and what stays for later blocks.
Chunk(frames) == SubSeq(frames, 1, Least(Len(frames), FramesPerBlock))
Rest(frames)  == SubSeq(frames, Least(Len(frames), FramesPerBlock) + 1, Len(frames))

-----------------------------------------------------------------------------
(* prepare(): the state its synchronous part leaves when it has started    *)
(* the writer thread and waits for it.                                     *)

Init ==
  /\ mode \in {"manual", "threshold"}
  /\ state = "idle" /\ stopRequested = FALSE /\ callbackActive = FALSE
  /\ incomplete = FALSE
  /\ free = [i \in Blocks |-> i] /\ ready = <<>>
  /\ preRoll = <<>> /\ delivered = 0 /\ accepted = <<>>
  /\ framesWritten = 0 /\ temp = Nothing /\ final = Nothing
  /\ cbPc = "out" /\ cbState = "idle" /\ cbPre = <<>> /\ cbLive = <<>>
  /\ cbBlock = Nothing
  /\ wPc = "open" /\ wState = "idle" /\ wBlock = Nothing
  /\ uiPc = "prepare" /\ devPc = "running" /\ cancelStored = FALSE

-----------------------------------------------------------------------------
(* The message thread.                                                     *)

\* prepare() wakes: the writer opened its file, and the session is armed.
PrepareArmed ==
  /\ uiPc = "prepare" /\ wPc # "open" /\ state # "failed"
  /\ state' = IF mode = "threshold" THEN "waitingForThreshold" ELSE "armed"
  /\ uiPc' = "free"
  /\ UNCHANGED <<mode, stopRequested, callbackActive, incomplete, free, ready, audio,
                 writer, devPc, cancelStored>>

\* prepare() wakes: the writer failed to open its file, and prepare() shuts down.
PrepareFailed ==
  /\ uiPc = "prepare" /\ state = "failed"
  /\ uiPc' = "join"
  /\ UNCHANGED <<shared, free, ready, audio, writer, devPc, cancelStored>>

\* startManual(): a compare-exchange from armed.
StartManual ==
  /\ uiPc = "free" /\ mode = "manual" /\ state = "armed"
  /\ state' = "recording"
  /\ UNCHANGED <<mode, stopRequested, callbackActive, incomplete, free, ready, audio,
                 writer, control>>

\* requestStop(): publish the request ...
StopRequest ==
  /\ uiPc = "free"
  /\ stopRequested' = TRUE /\ uiPc' = "stopLook"
  /\ UNCHANGED <<mode, state, callbackActive, incomplete, free, ready, audio, writer,
                 devPc, cancelStored>>

\* ... leave it to a callback that is running, ...
StopLook ==
  /\ uiPc = "stopLook"
  /\ uiPc' = IF callbackActive THEN "free" ELSE "stopExchange"
  /\ UNCHANGED <<shared, free, ready, audio, writer, devPc, cancelStored>>

\* ... or else compare-exchange in a loop until stopping or no longer capturing.
StopExchange ==
  /\ uiPc = "stopExchange"
  /\ state' = IF state \in Capturing THEN "stopping" ELSE state
  /\ uiPc' = "free"
  /\ UNCHANGED <<mode, stopRequested, callbackActive, incomplete, free, ready, audio,
                 writer, devPc, cancelStored>>

\* cancel() loads the state and stores `cancelled' in a second step.  shutdown() makes
\* the same call, once the device no longer runs the callback, and then joins.
Cancel ==
  /\ uiPc = "free" /\ state \notin {"idle", "completed", "failed"}
  /\ uiPc' = "cancelStore"
  /\ UNCHANGED <<shared, free, ready, audio, writer, devPc, cancelStored>>

Shutdown ==
  /\ uiPc = "free" /\ cbPc = "out"
  /\ uiPc' = IF state \in {"idle", "completed", "failed"} THEN "join" ELSE "shutdownStore"
  /\ UNCHANGED <<shared, free, ready, audio, writer, devPc, cancelStored>>

CancelStore ==
  /\ uiPc \in {"cancelStore", "shutdownStore"}
  /\ state' = "cancelled" /\ cancelStored' = TRUE
  /\ uiPc' = IF uiPc = "cancelStore" THEN "free" ELSE "join"
  /\ UNCHANGED <<mode, stopRequested, callbackActive, incomplete, free, ready, audio,
                 writer, devPc>>

\* shutdown() returns from the join, removes a leftover .part file and resets the state.
Joined ==
  /\ uiPc = "join" /\ wPc = "done"
  /\ temp' = Nothing
  /\ state' = IF state = "completed" THEN "completed" ELSE "idle"
  /\ uiPc' = "closed"
  /\ UNCHANGED <<mode, stopRequested, callbackActive, incomplete, free, ready, audio,
                 wPc, wState, wBlock, framesWritten, final, devPc, cancelStored>>

-----------------------------------------------------------------------------
(* The device: audioDeviceStopped() cancels the session once the callback  *)
(* has returned for the last time, on a thread of the device's own.        *)

DeviceRuns == devPc = "running" /\ uiPc \notin {"shutdownStore", "join", "closed"}

DeviceStops ==
  /\ DeviceRuns /\ cbPc = "out"
  /\ devPc' = IF state \in {"idle", "completed", "failed"} THEN "stopped" ELSE "cancelStore"
  /\ UNCHANGED <<shared, free, ready, audio, writer, uiPc, cancelStored>>

DeviceCancelStore ==
  /\ devPc = "cancelStore"
  /\ state' = "cancelled" /\ cancelStored' = TRUE /\ devPc' = "stopped"
  /\ UNCHANGED <<mode, stopRequested, callbackActive, incomplete, free, ready, audio,
                 writer, uiPc>>

-----------------------------------------------------------------------------
(* The audio callback: processInput().                                     *)

Budget == MaxFrames + IF stopRequested THEN StopReserve ELSE 0

\* The first load of the state: a callback that finds the session capturing goes on.
CallbackEnter(n) ==
  /\ DeviceRuns /\ cbPc = "out" /\ state \in Capturing
  /\ delivered + n <= Budget
  /\ cbLive' = NewFrames(n) /\ delivered' = delivered + n
  /\ cbPc' = "activate"
  /\ UNCHANGED <<shared, free, ready, cbState, cbPre, cbBlock, preRoll, accepted, writer,
                 control>>

CallbackActivate ==
  /\ cbPc = "activate"
  /\ callbackActive' = TRUE /\ cbPc' = "reload"
  /\ UNCHANGED <<mode, state, stopRequested, incomplete, free, ready, cbState, cbPre,
                 cbLive, cbBlock, preRoll, delivered, accepted, writer, control>>

\* The second load, and what the callback does under the state it finds.
CallbackReload ==
  /\ cbPc = "reload"
  /\ cbState' = state
  /\ cbPc' = CASE state = "waitingForThreshold" -> "scan"
               [] state = "recording"           -> "acquire"
               [] OTHER                         -> "leave"
  /\ preRoll' = IF state = "armed" THEN AppendPreRoll(cbLive) ELSE preRoll
  /\ cbLive' = IF state \in {"waitingForThreshold", "recording"} THEN cbLive ELSE <<>>
  /\ UNCHANGED <<shared, free, ready, cbPre, cbBlock, delivered, accepted, writer, control>>

\* No frame reaches the threshold: all of them join the pre-roll.
ScanQuiet ==
  /\ cbPc = "scan"
  /\ preRoll' = AppendPreRoll(cbLive) /\ cbLive' = <<>> /\ cbPc' = "leave"
  /\ UNCHANGED <<shared, free, ready, cbState, cbPre, cbBlock, delivered, accepted,
                 writer, control>>

\* Faulty variant of ScanTriggers: the crossing stores `recording' without comparing.
ScanTriggersBlindly(k) ==
  /\ cbPc = "scan" /\ k < Len(cbLive)
  /\ preRoll' = AppendPreRoll(SubSeq(cbLive, 1, k))
  /\ state' = "recording" /\ cbState' = "recording"
  /\ cbPre' = preRoll' /\ cbLive' = SubSeq(cbLive, k + 1, Len(cbLive))
  /\ cbPc' = "acquire"
  /\ UNCHANGED <<mode, stopRequested, callbackActive, incomplete, free, ready, cbBlock,
                 delivered, accepted, writer, control>>

\* The frame after the first k reaches the threshold: the callback that wins the
\* compare-exchange flushes the pre-roll and captures from that frame on.
ScanTriggers(k) ==
  /\ cbPc = "scan" /\ k < Len(cbLive)
  /\ preRoll' = AppendPreRoll(SubSeq(cbLive, 1, k))
  /\ IF state = "waitingForThreshold"
       THEN /\ state' = "recording" /\ cbState' = "recording"
            /\ cbPre' = preRoll' /\ cbLive' = SubSeq(cbLive, k + 1, Len(cbLive))
            /\ cbPc' = "acquire"
       ELSE /\ cbLive' = <<>> /\ cbPc' = "leave"
            /\ UNCHANGED <<state, cbState, cbPre>>
  /\ UNCHANGED <<mode, stopRequested, callbackActive, incomplete, free, ready, cbBlock,
                 delivered, accepted, writer, control>>

\* beginAudioWrite() of flushPreRoll() or captureFrames() gets a free block ...
AcquireBlock ==
  /\ cbPc = "acquire"
  /\ free # <<>>
  /\ cbBlock' = Head(free) /\ free' = Tail(free)
  /\ cbPc' = "commit"
  /\ UNCHANGED <<shared, ready, cbState, cbPre, cbLive, preRoll, delivered, accepted,
                 writer, control>>

\* Faulty variant of Overflow: the dropped run is not remembered.
OverflowUnmarked ==
  /\ cbPc = "acquire" /\ free = <<>>
  /\ cbPre' = <<>> /\ cbLive' = IF cbPre = <<>> THEN <<>> ELSE cbLive
  /\ cbPc' = IF cbPre = <<>> THEN "leave" ELSE "acquire"
  /\ UNCHANGED <<shared, free, ready, cbState, cbBlock, preRoll, delivered, accepted,
                 writer, control>>

\* ... or finds none: the rest of the run is dropped and the take marked incomplete.
Overflow ==
  /\ cbPc = "acquire" /\ free = <<>>
  /\ incomplete' = TRUE
  /\ cbPre' = <<>>
  /\ cbLive' = IF cbPre = <<>> THEN <<>> ELSE cbLive
  /\ cbPc' = IF cbPre = <<>> THEN "leave" ELSE "acquire"
  /\ UNCHANGED <<mode, state, stopRequested, callbackActive, free, ready, cbState, cbBlock,
                 preRoll, delivered, accepted, writer, control>>

\* commitAudioWrite(): pre-roll first, and never pre-roll and live input in one block.
CommitBlock ==
  LET run == IF cbPre = <<>> THEN cbLive ELSE cbPre
  IN  /\ cbPc = "commit"
      /\ ready' = Append(ready, [block |-> cbBlock, frames |-> Chunk(run)])
      /\ accepted' = accepted \o Chunk(run)
      /\ cbBlock' = Nothing
      /\ cbPre' = Rest(cbPre)
      /\ cbLive' = IF cbPre = <<>> THEN Rest(cbLive) ELSE cbLive
      /\ cbPc' = IF cbPre' = <<>> /\ cbLive' = <<>> THEN "leave" ELSE "acquire"
      /\ UNCHANGED <<shared, free, cbState, preRoll, delivered, writer, control>>

\* Faulty variant of CallbackLeave: the early return leaves the flag set.
CallbackLeaveActive ==
  /\ cbPc = "leave"
  /\ IF cbState \in Capturing
       THEN cbPc' = "stopCheck" /\ callbackActive' = FALSE /\ UNCHANGED cbState
       ELSE cbPc' = "out" /\ cbState' = "idle" /\ UNCHANGED callbackActive
  /\ UNCHANGED <<mode, state, stopRequested, incomplete, free, ready, cbPre, cbLive,
                 cbBlock, preRoll, delivered, accepted, writer, control>>

\* Either way the flag is cleared; a callback that did capture then looks for a stop.
CallbackLeave ==
  /\ cbPc = "leave"
  /\ callbackActive' = FALSE
  /\ IF cbState \in Capturing
       THEN cbPc' = "stopCheck" /\ UNCHANGED cbState
       ELSE cbPc' = "out" /\ cbState' = "idle"
  /\ UNCHANGED <<mode, state, stopRequested, incomplete, free, ready, cbPre, cbLive,
                 cbBlock, preRoll, delivered, accepted, writer, control>>

\* A stop requested meanwhile: compare-exchange from the state this callback worked under.
CallbackStopCheck ==
  /\ cbPc = "stopCheck"
  /\ state' = IF stopRequested /\ state = cbState THEN "stopping" ELSE state
  /\ cbPc' = "out" /\ cbState' = "idle"
  /\ UNCHANGED <<mode, stopRequested, callbackActive, incomplete, free, ready,
                 cbPre, cbLive, cbBlock, preRoll, delivered, accepted, writer, control>>

-----------------------------------------------------------------------------
(* The writer thread: writerLoop().                                        *)

WriterOpens ==
  /\ wPc = "open"
  /\ temp' = <<>> /\ wPc' = "load"
  /\ UNCHANGED <<shared, free, ready, audio, wState, wBlock, framesWritten, final, control>>

\* No directory, no stream or no encoder: nothing is left on disk.
WriterCannotOpen ==
  /\ wPc = "open"
  /\ state' = "failed" /\ wPc' = "done"
  /\ UNCHANGED <<mode, stopRequested, callbackActive, incomplete, free, ready, audio,
                 wState, wBlock, framesWritten, temp, final, control>>

\* Faulty variant of WriterLoads: the loop waits for a stop even when cancelled.
WriterLoadsBlindly ==
  /\ wPc = "load"
  /\ wState' = state /\ wPc' = "pop"
  /\ UNCHANGED <<shared, free, ready, audio, wBlock, framesWritten, temp, final, control>>

\* The head of the loop: a cancelled session removes its file and ends.
WriterLoads ==
  /\ wPc = "load"
  /\ wState' = state
  /\ IF state = "cancelled"
       THEN temp' = Nothing /\ wPc' = "done"
       ELSE wPc' = "pop" /\ UNCHANGED temp
  /\ UNCHANGED <<shared, free, ready, audio, wBlock, framesWritten, final, control>>

WriterPops ==
  /\ wPc = "pop" /\ ready # <<>>
  /\ wBlock' = Head(ready) /\ ready' = Tail(ready)
  /\ wPc' = "write"
  /\ UNCHANGED <<shared, free, audio, wState, framesWritten, temp, final, control>>

\* Nothing ready: a session that was stopping when the loop began may finalize.
WriterFindsNothing ==
  /\ wPc = "pop" /\ ready = <<>>
  /\ wPc' = IF wState = "stopping" THEN "look" ELSE "load"
  /\ UNCHANGED <<shared, free, ready, audio, wState, wBlock, framesWritten, temp, final,
                 control>>

WriterWrites ==
  /\ wPc = "write"
  /\ temp' = temp \o wBlock.frames
  /\ framesWritten' = framesWritten + Len(wBlock.frames)
  /\ free' = Append(free, wBlock.block) /\ wBlock' = Nothing
  /\ wPc' = "load"
  /\ UNCHANGED <<shared, ready, audio, wState, final, control>>

\* Faulty variants of WriterCannotWrite: the early return skips the release of the block,
\* or the removal of the file.
WriterLosesBlock ==
  /\ wPc = "write"
  /\ wBlock' = Nothing /\ state' = "failed" /\ wPc' = "remove"
  /\ UNCHANGED <<mode, stopRequested, callbackActive, incomplete, free, ready, audio,
                 wState, framesWritten, temp, final, control>>

WriterLeavesFile ==
  /\ wPc = "write"
  /\ free' = Append(free, wBlock.block) /\ wBlock' = Nothing
  /\ state' = "failed" /\ wPc' = "done"
  /\ UNCHANGED <<mode, stopRequested, callbackActive, incomplete, ready, audio, wState,
                 framesWritten, temp, final, control>>

\* The encoder refuses the block: the state is failed before the file is removed.
WriterCannotWrite ==
  /\ wPc = "write"
  /\ free' = Append(free, wBlock.block) /\ wBlock' = Nothing
  /\ state' = "failed"
  /\ wPc' = "remove"
  /\ UNCHANGED <<mode, stopRequested, callbackActive, incomplete, ready, audio, wState,
                 framesWritten, temp, final, control>>

WriterRemoves ==
  /\ wPc = "remove"
  /\ temp' = Nothing /\ wPc' = "done"
  /\ UNCHANGED <<shared, free, ready, audio, wState, wBlock, framesWritten, final, control>>

WriterLooks ==
  /\ wPc = "look"
  /\ wPc' = IF callbackActive THEN "load" ELSE "finalize"
  /\ UNCHANGED <<shared, free, ready, audio, wState, wBlock, framesWritten, temp, final,
                 control>>

WriterFinalizes ==
  /\ wPc = "finalize"
  /\ state' = "finalizing" /\ wPc' = "check"
  /\ UNCHANGED <<mode, stopRequested, callbackActive, incomplete, free, ready, audio,
                 wState, wBlock, framesWritten, temp, final, control>>

\* An incomplete or empty take is removed before the session is reported failed.
WriterChecks ==
  /\ wPc = "check"
  /\ IF incomplete \/ framesWritten = 0
       THEN temp' = Nothing /\ wPc' = "reject"
       ELSE wPc' = "publish" /\ UNCHANGED temp
  /\ UNCHANGED <<shared, free, ready, audio, wState, wBlock, framesWritten, final, control>>

WriterPublishes ==
  /\ wPc = "publish"
  /\ final' = temp /\ temp' = Nothing /\ wPc' = "complete"
  /\ UNCHANGED <<shared, free, ready, audio, wState, wBlock, framesWritten, control>>

\* The closed file cannot be read back or moved to its destination.
WriterCannotPublish ==
  /\ wPc = "publish"
  /\ temp' = Nothing /\ wPc' = "reject"
  /\ UNCHANGED <<shared, free, ready, audio, wState, wBlock, framesWritten, final, control>>

WriterRejects ==
  /\ wPc = "reject"
  /\ state' = "failed" /\ wPc' = "done"
  /\ UNCHANGED <<mode, stopRequested, callbackActive, incomplete, free, ready, audio,
                 wState, wBlock, framesWritten, temp, final, control>>

WriterCompletes ==
  /\ wPc = "complete"
  /\ state' = "completed" /\ wPc' = "done"
  /\ UNCHANGED <<mode, stopRequested, callbackActive, incomplete, free, ready, audio,
                 wState, wBlock, framesWritten, temp, final, control>>

-----------------------------------------------------------------------------

MessageThread ==
  \/ PrepareArmed \/ PrepareFailed \/ StartManual
  \/ StopRequest \/ StopLook \/ StopExchange
  \/ Cancel \/ CancelStore \/ Shutdown \/ Joined

CallbackStep ==
  \/ CallbackActivate \/ CallbackReload
  \/ ScanQuiet \/ \E k \in 0 .. MaxCallbackFrames - 1 : ScanTriggers(k)
  \/ AcquireBlock \/ Overflow \/ CommitBlock
  \/ CallbackLeave \/ CallbackStopCheck

CallbackBegins == \E n \in 1 .. MaxCallbackFrames : CallbackEnter(n)

WriterThread ==
  \/ WriterOpens \/ WriterCannotOpen \/ WriterLoads
  \/ WriterPops \/ WriterFindsNothing \/ WriterWrites \/ WriterCannotWrite
  \/ WriterRemoves \/ WriterLooks \/ WriterFinalizes \/ WriterChecks
  \/ WriterPublishes \/ WriterCannotPublish \/ WriterRejects \/ WriterCompletes

Device == DeviceStops \/ DeviceCancelStore

Next == MessageThread \/ Device \/ CallbackBegins \/ CallbackStep \/ WriterThread

Spec == Init /\ [][Next]_vars

\* Every call of the message thread and every callback returns, the writer thread is
\* scheduled, and a device that runs goes on calling.  Nobody has to stop or cancel.
Fairness ==
  /\ WF_vars(WriterThread) /\ WF_vars(CallbackStep) /\ WF_vars(CallbackBegins)
  /\ WF_vars(PrepareArmed \/ PrepareFailed \/ StopLook \/ StopExchange)
  /\ WF_vars(CancelStore) /\ WF_vars(Joined) /\ WF_vars(DeviceCancelStore)

FairSpec == Spec /\ Fairness

-----------------------------------------------------------------------------
(* Properties.                                                             *)

FreeBlocks   == {free[i] : i \in DOMAIN free}
ReadyBlocks  == {ready[i].block : i \in DOMAIN ready}
CallbackHold == {cbBlock} \ {Nothing}
WriterHold   == IF wBlock = Nothing THEN {} ELSE {wBlock.block}

\* At every step a FIFO block is in exactly one place, once: the free queue, the ready queue,
\* the callback's hand or the writer's hand.  A block in two places would be written by the
\* callback while the writer encodes it; a block in none would shrink the FIFO for good.
BlockConservation ==
  /\ FreeBlocks \union ReadyBlocks \union CallbackHold \union WriterHold = Blocks
  /\ FreeBlocks \cap (ReadyBlocks \union CallbackHold \union WriterHold) = {}
  /\ ReadyBlocks \cap (CallbackHold \union WriterHold) = {}
  /\ CallbackHold \cap WriterHold = {}
  /\ \A i, j \in DOMAIN free : free[i] = free[j] => i = j
  /\ \A i, j \in DOMAIN ready : ready[i].block = ready[j].block => i = j

\* A file that reaches its destination holds audio without a hole: a non-empty run of
\* consecutive input frames, from the first frame of the take, whatever overflowed, whenever
\* the stop came, and however pre-roll and live input were cut into blocks.
PublishedIsGapless ==
  final # Nothing =>
    /\ final # <<>> /\ Len(final) <= Len(accepted)
    /\ \A i \in 1 .. Len(final) : final[i] = accepted[1] + i - 1

\* When the writer thread has ended no .part file is left, and the session is reported
\* completed only if its file is at its destination.
EndsCleanly ==
  /\ wPc = "done" => temp = Nothing
  /\ state = "completed" => final # Nothing

\* A stop is never undone: no thread's late compare-exchange or store brings a session that is
\* past capturing back to armed, waiting or recording.
StoppedStaysStopped ==
  [][state' \in Capturing => state \in Capturing \union {"idle"}]_vars

\* A requested stop ends the session: the writer thread finishes, even when the request met a
\* running callback that worked under another state and left the request to the next one.
StopEndsSession == stopRequested ~> wPc = "done"

\* shutdown() returns: the join ends although its store of `cancelled' may be overwritten by
\* the writer.
ShutdownJoins == (uiPc = "join") ~> (uiPc = "closed")

\* A session reported completed has written every frame it accepted.
CompletedIsDrained == state = "completed" => framesWritten = Len(accepted)

\* A session whose cancellation has been stored is never reported completed.
CancelledNeverCompletes == cancelStored => state # "completed"
=============================================================================

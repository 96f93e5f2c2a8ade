----------------------------- MODULE LazyMarkers -----------------------------
(***************************************************************************)
(* Chopping/LazyMarkerCapture as the application uses it: while a lazy     *)
(* chop is active, the MIDI thread captures a marker on every note         *)
(* (InputRouter::captureLazyMidi) and the message thread captures one on   *)
(* every key, pad or Place Marker (ChoppingWorkspace::captureLazyMarker).  *)
(* Both push into one SpscQueue, which the message thread drains.          *)
(*                                                                         *)
(* A marker is its number, in the order of the captures.                   *)
(***************************************************************************)
EXTENDS SpscQueue

CONSTANT MaxMarkers  \* bound: markers captured

VARIABLES
  active,    \* active_
  task,      \* what the message thread is in the middle of
  captured,  \* markers captured so far, for their numbers and the bound
  accepted,  \* markers whose capture returned true
  drained    \* markers handed to the chopping session

lazyVars == <<active, task, captured, accepted, drained>>
vars == <<queueVars, lazyVars>>

LazyInit ==
  /\ QueueInit /\ active = FALSE /\ task = "free" /\ captured = 0
  /\ accepted = {} /\ drained = {}

\* start(): the queue is reset, one position after the other, and the capture activated.
StartLazy ==
  /\ task = "free" /\ ~ active
  /\ readPosition' = 0 /\ task' = "resetWrite"
  /\ UNCHANGED <<writePosition, storage, push, pop, received, active, captured, accepted,
                 drained>>

ResetWrite ==
  /\ task = "resetWrite"
  /\ writePosition' = 0 /\ task' = "activate"
  /\ UNCHANGED <<readPosition, storage, push, pop, received, active, captured, accepted,
                 drained>>

Activate ==
  /\ task = "activate"
  /\ active' = TRUE /\ task' = "free"
  /\ UNCHANGED <<queueVars, captured, accepted, drained>>

\* stopLazy() deactivates and drains; service() drains on every tick while active.
StopLazy ==
  /\ task = "free"
  /\ active' = FALSE /\ task' = "drain"
  /\ UNCHANGED <<queueVars, captured, accepted, drained>>

Service ==
  /\ task = "free" /\ active
  /\ task' = "drain"
  /\ UNCHANGED <<queueVars, active, captured, accepted, drained>>

\* captureFromAudioThread(): an inactive capture refuses; otherwise the marker is pushed.
Capture(p) ==
  /\ active /\ captured < MaxMarkers
  /\ PushBegin(p, captured + 1)
  /\ captured' = captured + 1
  /\ task' = IF p = "message" THEN "mark" ELSE task
  /\ p = "message" => task = "free"
  /\ UNCHANGED <<active, accepted, drained>>

\* The rest of the push: true is returned once the position is published.
Pushes(p) ==
  /\ PushLook(p) \/ PushStore(p) \/ PushPublish(p)
  /\ accepted' = IF push[p].pc = "publish" THEN accepted \union {push[p].value} ELSE accepted
  /\ task' = IF p = "message" /\ push'[p].pc = "idle" THEN "free" ELSE task
  /\ UNCHANGED <<active, captured, drained>>

\* drainToSession(): pop until the queue is empty.
Drains ==
  /\ task = "drain" /\ Consumer
  /\ drained' = IF pop.pc = "publish" THEN drained \union {pop.value} ELSE drained
  /\ task' = IF pop.pc = "look" /\ pop'.pc = "idle" THEN "free" ELSE task
  /\ UNCHANGED <<active, captured, accepted>>

Next ==
  \/ StartLazy \/ ResetWrite \/ Activate \/ StopLazy \/ Service \/ Drains
  \/ \E p \in Producers : Capture(p) \/ Pushes(p)

Spec == LazyInit /\ [][Next]_vars

-----------------------------------------------------------------------------
(* Property.                                                               *)

\* A marker whose capture was answered with true is drained or still waits in the queue: "SPSC
\* queues are not silently shared by multiple producers [...] commands are never accepted and
\* silently dropped" (docs/AUDIO_THREAD_RULES.md:24).
AcceptedAreKept ==
  \A m \in accepted : m \in drained \/ \E i \in DOMAIN Contents : Contents[i] = m
=============================================================================

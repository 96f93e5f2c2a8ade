------------------------------ MODULE SpscQueue ------------------------------
(***************************************************************************)
(* Audio/AudioCommandQueue.h: the bounded queue behind every channel       *)
(* between two threads (playback and preview commands, capture blocks,     *)
(* MIDI commands, lazy markers).  Positions are unsigned integers of Width *)
(* values that only grow and wrap; a step is one access to shared memory.  *)
(* The class does not know its threads: Producers is the set of those that *)
(* push, one in the intended use.                                          *)
(***************************************************************************)
EXTENDS Integers, Sequences, FiniteSets

CONSTANTS
  Values,     \* template parameter Value
  Capacity,   \* template parameter Capacity
  Width,      \* number of values of std::size_t: 2^64 in the code
  Producers,  \* threads that call tryPush
  None        \* not a value

ASSUME QueueAssumption ==
  /\ Capacity \in Nat \ {0} /\ Width \in Nat /\ Width > Capacity
  /\ Width % Capacity = 0
  /\ None \notin Values /\ Producers # {}

VARIABLES
  writePosition, readPosition,  \* writePosition_, readPosition_
  storage,                      \* storage_
  push,                         \* the locals of each producer in tryPush
  pop,                          \* the locals of the consumer in tryPop
  received                      \* the value the last successful tryPop gave out

queueVars == <<writePosition, readPosition, storage, push, pop, received>>

-----------------------------------------------------------------------------

Position == 0 .. Width - 1

PushIdle == [pc |-> "idle", value |-> None, write |-> 0]
PopIdle  == [pc |-> "idle", value |-> None, read |-> 0]

\* Unsigned arithmetic on positions, ...
Plus(p, n) == (p + n) % Width

\* ... and the slot of a position.
Distance(from, to) == (to - from) % Width
Slot(p) == p % Capacity

QueueInit ==
  /\ writePosition = 0 /\ readPosition = 0
  /\ storage = [s \in 0 .. Capacity - 1 |-> None]
  /\ push = [p \in Producers |-> PushIdle] /\ pop = PopIdle /\ received = None

-----------------------------------------------------------------------------
(* tryPush().                                                              *)

PushBegin(p, v) ==
  /\ push[p].pc = "idle"
  /\ push' = [push EXCEPT ![p] = [pc |-> "look", value |-> v, write |-> writePosition]]
  /\ UNCHANGED <<writePosition, readPosition, storage, pop, received>>

\* Faulty variants of PushLook: a slot too many, and a slot too few.
PushLookLate(p) ==
  /\ push[p].pc = "look"
  /\ push' = [push EXCEPT ![p] = IF Distance(readPosition, @.write) > Capacity
                                   THEN PushIdle ELSE [@ EXCEPT !.pc = "store"]]
  /\ UNCHANGED <<writePosition, readPosition, storage, pop, received>>

PushLookEarly(p) ==
  /\ push[p].pc = "look"
  /\ push' = [push EXCEPT ![p] = IF Distance(readPosition, @.write) >= Capacity - 1
                                   THEN PushIdle ELSE [@ EXCEPT !.pc = "store"]]
  /\ UNCHANGED <<writePosition, readPosition, storage, pop, received>>

\* The queue is full, and the push is refused; or it has room.
PushLook(p) ==
  /\ push[p].pc = "look"
  /\ push' = [push EXCEPT ![p] = IF Distance(readPosition, @.write) = Capacity
                                   THEN PushIdle ELSE [@ EXCEPT !.pc = "store"]]
  /\ UNCHANGED <<writePosition, readPosition, storage, pop, received>>

PushStore(p) ==
  /\ push[p].pc = "store"
  /\ storage' = [storage EXCEPT ![Slot(push[p].write)] = push[p].value]
  /\ push' = [push EXCEPT ![p].pc = "publish"]
  /\ UNCHANGED <<writePosition, readPosition, pop, received>>

PushPublish(p) ==
  /\ push[p].pc = "publish"
  /\ writePosition' = Plus(push[p].write, 1)
  /\ push' = [push EXCEPT ![p] = PushIdle]
  /\ UNCHANGED <<readPosition, storage, pop, received>>

-----------------------------------------------------------------------------
(* tryPop().                                                               *)

PopBegin ==
  /\ pop.pc = "idle"
  /\ pop' = [pc |-> "look", value |-> None, read |-> readPosition]
  /\ UNCHANGED <<writePosition, readPosition, storage, push, received>>

\* Faulty variant of PopLook: the slot is given up before its value was read.
PopLookReleases ==
  /\ pop.pc = "look"
  /\ IF pop.read = writePosition
       THEN pop' = PopIdle /\ UNCHANGED readPosition
       ELSE pop' = [pop EXCEPT !.pc = "fetch"] /\ readPosition' = Plus(pop.read, 1)
  /\ UNCHANGED <<writePosition, storage, push, received>>

PopLook ==
  /\ pop.pc = "look"
  /\ pop' = IF pop.read = writePosition THEN PopIdle ELSE [pop EXCEPT !.pc = "fetch"]
  /\ UNCHANGED <<writePosition, readPosition, storage, push, received>>

PopFetch ==
  /\ pop.pc = "fetch"
  /\ pop' = [pop EXCEPT !.value = storage[Slot(pop.read)], !.pc = "publish"]
  /\ UNCHANGED <<writePosition, readPosition, storage, push, received>>

PopPublish ==
  /\ pop.pc = "publish"
  /\ readPosition' = Plus(pop.read, 1) /\ received' = pop.value
  /\ pop' = PopIdle
  /\ UNCHANGED <<writePosition, storage, push>>

\* resetWhenQuiescent(), called as its name says.
ResetWhenQuiescent ==
  /\ pop.pc = "idle" /\ \A p \in Producers : push[p].pc = "idle"
  /\ readPosition' = 0 /\ writePosition' = 0
  /\ UNCHANGED <<storage, push, pop, received>>

-----------------------------------------------------------------------------

Producer(p) ==
  \/ \E v \in Values : PushBegin(p, v)
  \/ PushLook(p) \/ PushStore(p) \/ PushPublish(p)

Consumer == PopBegin \/ PopLook \/ PopFetch \/ PopPublish

QueueNext == (\E p \in Producers : Producer(p)) \/ Consumer \/ ResetWhenQuiescent

QueueSpec == QueueInit /\ [][QueueNext]_queueVars

\* The consumer drains whenever it runs; nobody has to push.
FairQueueSpec == QueueSpec /\ WF_queueVars(Consumer)

-----------------------------------------------------------------------------
(* Properties.                                                             *)

QueueTypeOK ==
  /\ writePosition \in Position /\ readPosition \in Position
  /\ storage \in [0 .. Capacity - 1 -> Values \union {None}]
  /\ push \in [Producers -> [pc : {"idle", "look", "store", "publish"},
                             value : Values \union {None}, write : Position]]
  /\ pop \in [pc : {"idle", "look", "fetch", "publish"}, value : Values \union {None},
              read : Position]
  /\ received \in Values \union {None}

\* size()
Size == Distance(readPosition, writePosition)

\* The values in the queue, oldest first: where the positions wrap, the slots must go on.
Contents == [i \in 1 .. Size |-> storage[Slot(Plus(readPosition, i - 1))]]

\* A producer never stores into the slot that the consumer is copying from, nor into one whose
\* value was published and not yet taken: the plain array under the atomics has no data race.
NoSlotRace ==
  \A p \in Producers : push[p].pc = "store" =>
    /\ pop.pc = "fetch" => Slot(push[p].write) # Slot(pop.read)
    /\ \A i \in 0 .. Size - 1 : Slot(push[p].write) # Slot(Plus(readPosition, i))

\* A push is refused only when the queue is full, and a pop only when it is empty, at the time
\* of the look that decides, although each side decides on positions of different ages.
RefusalsAreTrue ==
  [][/\ \A p \in Producers : push[p].pc = "look" /\ push'[p].pc = "idle" => Size = Capacity
     /\ pop.pc = "look" /\ pop'.pc = "idle" => Size = 0]_queueVars

\* With one producer and one consumer the class is a bounded queue, across wrapped positions.
Queue == INSTANCE BoundedQueue WITH contents <- Contents

KeepsQueue == Queue!AbsSpec
=============================================================================

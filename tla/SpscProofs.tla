----------------------------- MODULE SpscProofs -----------------------------
(***************************************************************************)
(* TLAPS proofs about SpscQueue, for every capacity and every width of the *)
(* positions the capacity divides: with one producer the slots are free of *)
(* data races, nothing is refused without reason, and every step is one of *)
(* BoundedQueue or leaves it alone, however often the positions wrap.      *)
(* And about SliceAudition, whose starts and stops go through such a       *)
(* queue: slices start in order and a stop is final, for every number of   *)
(* slices and requests and every capacity.                                 *)
(***************************************************************************)
EXTENDS SpscQueue, SliceAudition, SequenceFacts

\* The contract of the class: the producing thread is one.
OneProducer == \A p, q \in Producers : p = q

(***************************************************************************)
(* Arithmetic of positions.                                                *)
(***************************************************************************)

\* A multiple of m other than 0 is at least m away from it.
LEMMA Multiples ==
  ASSUME NEW m \in Nat \ {0}, NEW q \in Int
  PROVE  /\ q >= 1 => m * q >= m
         /\ q <= -1 => m * q <= -m
  OBVIOUS

\* Division with remainder.
LEMMA Remainder ==
  ASSUME NEW m \in Nat \ {0}, NEW x \in Int
  PROVE  (x % m) \in 0 .. m - 1 /\ \E q \in Int : x = m * q + (x % m)
<1>1. x \div m \in Int /\ x = m * (x \div m) + (x % m)
  OBVIOUS
<1>2. (x % m) \in 0 .. m - 1
  OBVIOUS
<1>3. \E q \in Int : x = m * q + (x % m)
  <2> DEFINE q == x \div m
  <2>1. q \in Int /\ x = m * q + (x % m)
    BY <1>1
  <2> HIDE DEF q
  <2> QED BY <2>1
<1> QED BY <1>2, <1>3

\* A remainder is known by where it lies.
LEMMA RemainderIs ==
  ASSUME NEW m \in Nat \ {0}, NEW x \in Int, NEW y \in 0 .. m - 1, NEW k \in {-1, 0, 1},
         x = y + k * m
  PROVE  (x % m) = y
<1>1. PICK q \in Int : x = m * q + (x % m)
  BY Remainder
<1>2. (x % m) \in 0 .. m - 1
  BY Remainder
<1> DEFINE d == q - k
<1>3. d \in Int /\ m * d = m * q - k * m
  OBVIOUS
<1>4. y - (x % m) = m * d
  BY <1>1, <1>2, <1>3
<1>5. -m < y - (x % m) /\ y - (x % m) < m
  BY <1>2
<1>6. ~(d >= 1) /\ ~(d <= -1)
  <2> HIDE DEF d
  <2> QED BY <1>3, <1>4, <1>5, <1>2, Multiples
<1>7. d = 0
  BY <1>3, <1>6
<1> QED BY <1>1, <1>2, <1>7

\* The sizes, and what a position is.
LEMMA Sizes ==
  /\ Capacity \in Nat \ {0} /\ Width \in Nat \ {0} /\ Width > Capacity
  /\ 0 \in Position
  /\ \A p \in Position : p \in Int /\ 0 <= p /\ p < Width
  BY QueueAssumption DEF Position

\* The width of positions is a multiple of the capacity, by assumption.
LEMMA WidthIsMultiple == \E k \in Int : Width = Capacity * k
<1>1. Width \in Int /\ Width % Capacity = 0
  BY QueueAssumption
<1>2. \E k \in Int : Width = Capacity * k + (Width % Capacity)
  BY <1>1, Sizes, Remainder
<1>3. \A k \in Int : Capacity * k \in Int /\ Capacity * k + 0 = Capacity * k
  BY Sizes
<1> QED BY <1>1, <1>2, <1>3

\* Going on from a position wraps at the width.
LEMMA PlusIs ==
  ASSUME NEW a \in Position, NEW n \in 0 .. Width
  PROVE  /\ Plus(a, n) \in Position
         /\ Plus(a, n) = IF a + n < Width THEN a + n ELSE a + n - Width
<1>1. CASE a + n < Width
  <2>1. a + n \in 0 .. Width - 1 /\ a + n \in Int /\ a + n = (a + n) + 0 * Width
    BY <1>1, Sizes
  <2>2. 0 \in {-1, 0, 1} /\ Width \in Nat \ {0}
    BY Sizes
  <2>3. (a + n) % Width = a + n
    BY <2>1, <2>2, RemainderIs
  <2> QED BY <1>1, <2>1, <2>3 DEF Plus, Position
<1>2. CASE ~(a + n < Width)
  <2>1. a + n - Width \in 0 .. Width - 1 /\ a + n = (a + n - Width) + 1 * Width
    BY <1>2, Sizes DEF Position
  <2>2. (a + n) % Width = a + n - Width
    BY <2>1, RemainderIs, Sizes
  <2> QED BY <1>2, <2>1, <2>2 DEF Plus, Position
<1> QED BY <1>1, <1>2

\* How far one position is ahead of another.
LEMMA DistanceIs ==
  ASSUME NEW a \in Position, NEW b \in Position
  PROVE  /\ Distance(a, b) \in 0 .. Width - 1
         /\ Distance(a, b) = IF a <= b THEN b - a ELSE b - a + Width
<1>1. CASE a <= b
  <2>1. b - a \in 0 .. Width - 1 /\ b - a \in Int /\ b - a = (b - a) + 0 * Width
    BY <1>1, Sizes DEF Position
  <2>2. (b - a) % Width = b - a
    BY <2>1, RemainderIs, Sizes
  <2> QED BY <1>1, <2>1, <2>2 DEF Distance
<1>2. CASE ~(a <= b)
  <2>1. b - a + Width \in 0 .. Width - 1 /\ b - a \in Int /\ b - a = (b - a + Width) + (-1) * Width
    BY <1>2, Sizes DEF Position
  <2>2. (b - a) % Width = b - a + Width
    BY <2>1, RemainderIs, Sizes
  <2> QED BY <1>2, <2>1, <2>2 DEF Distance
<1> QED BY <1>1, <1>2

\* Positions less than the capacity apart have slots of their own.
LEMMA SlotsApart ==
  ASSUME NEW a \in Position, NEW b \in Position, a # b, Distance(a, b) < Capacity
  PROVE  Slot(a) # Slot(b)
<1>1. a \in Int /\ b \in Int /\ Capacity \in Nat \ {0}
  BY Sizes DEF Position
<1>2. PICK qa \in Int : a = Capacity * qa + (a % Capacity)
  BY <1>1, Remainder
<1>3. PICK qb \in Int : b = Capacity * qb + (b % Capacity)
  BY <1>1, Remainder
<1>4. PICK k \in Int : Width = Capacity * k
  BY WidthIsMultiple
<1>5. (a % Capacity) \in Int /\ (b % Capacity) \in Int
  BY <1>1, Remainder
<1>6. SUFFICES ASSUME (a % Capacity) = (b % Capacity) PROVE FALSE
  BY DEF Slot
<1>7. CASE a <= b
  <2> DEFINE d == qb - qa
  <2>1. d \in Int /\ Capacity * d = Capacity * qb - Capacity * qa
    BY <1>1
  <2>2. b - a = Capacity * d
    BY <1>1, <1>2, <1>3, <1>5, <1>6, <2>1
  <2>3. 0 < b - a /\ b - a < Capacity
    BY <1>1, <1>7, DistanceIs
  <2> HIDE DEF d
  <2> QED BY <1>1, <2>1, <2>2, <2>3, Multiples
<1>8. CASE ~(a <= b)
  <2> DEFINE d == (qb - qa) + k
  <2>1. d \in Int /\ Capacity * d = Capacity * qb - Capacity * qa + Capacity * k
    BY <1>1
  <2>2. b - a + Width = Capacity * d
    BY <1>1, <1>2, <1>3, <1>4, <1>5, <1>6, <2>1
  <2>3. 0 < b - a + Width /\ b - a + Width < Capacity
    BY <1>1, <1>8, DistanceIs, Sizes DEF Position
  <2> HIDE DEF d
  <2> QED BY <1>1, <2>1, <2>2, <2>3, Multiples
<1> QED BY <1>1, <1>7, <1>8

\* What one push and one pop do to the number of values held.
LEMMA SizeSteps ==
  ASSUME NEW r \in Position, NEW w \in Position
  PROVE  /\ Plus(w, 1) \in Position /\ Plus(r, 1) \in Position
         /\ Distance(r, w) < Capacity => Distance(r, Plus(w, 1)) = Distance(r, w) + 1
         /\ Distance(r, w) > 0 => Distance(Plus(r, 1), w) = Distance(r, w) - 1
<1>1. 1 \in 0 .. Width
  BY Sizes
<1>2. /\ Plus(w, 1) \in Position
      /\ Plus(w, 1) = IF w + 1 < Width THEN w + 1 ELSE w + 1 - Width
  BY <1>1, PlusIs
<1>3. /\ Plus(r, 1) \in Position
      /\ Plus(r, 1) = IF r + 1 < Width THEN r + 1 ELSE r + 1 - Width
  BY <1>1, PlusIs
<1>4. Distance(r, w) = IF r <= w THEN w - r ELSE w - r + Width
  BY DistanceIs
<1>5. Distance(r, Plus(w, 1)) =
        IF r <= Plus(w, 1) THEN Plus(w, 1) - r ELSE Plus(w, 1) - r + Width
  BY <1>2, DistanceIs
<1>6. Distance(Plus(r, 1), w) =
        IF Plus(r, 1) <= w THEN w - Plus(r, 1) ELSE w - Plus(r, 1) + Width
  BY <1>3, DistanceIs
<1> HIDE DEF Distance, Plus
<1> QED BY <1>2, <1>3, <1>4, <1>5, <1>6, Sizes

\* The i-th value held is that much nearer to the write position.
LEMMA DistanceFromValue ==
  ASSUME NEW r \in Position, NEW w \in Position, NEW i \in 0 .. Distance(r, w) - 1
  PROVE  /\ Plus(r, i) \in Position
         /\ Distance(Plus(r, i), w) = Distance(r, w) - i
         /\ Plus(r, i) # w
<1>1. Distance(r, w) \in 0 .. Width - 1
      /\ Distance(r, w) = IF r <= w THEN w - r ELSE w - r + Width
  BY DistanceIs
<1>2. i \in 0 .. Width
  BY <1>1, Sizes
<1>3. /\ Plus(r, i) \in Position
      /\ Plus(r, i) = IF r + i < Width THEN r + i ELSE r + i - Width
  BY <1>2, PlusIs
<1>4. Distance(Plus(r, i), w) =
        IF Plus(r, i) <= w THEN w - Plus(r, i) ELSE w - Plus(r, i) + Width
  BY <1>3, DistanceIs
<1> QED BY <1>1, <1>2, <1>3, <1>4, Sizes DEF Position

(***************************************************************************)
(* The queue.                                                              *)
(***************************************************************************)

\* The inductive invariant: each side's own position is the one it loaded, since
\* nobody else stores it; a push that has found room still has it, a pop that has
\* found a value still has it, because the other side only makes more.
QInv ==
  /\ QueueTypeOK
  /\ Size <= Capacity
  /\ \A p \in Producers : push[p].pc # "idle" => push[p].write = writePosition
  /\ \A p \in Producers : push[p].pc \in {"store", "publish"} => Size < Capacity
  /\ pop.pc # "idle" => pop.read = readPosition
  /\ pop.pc \in {"fetch", "publish"} => Size > 0

\* The invariant holds of an empty queue.
LEMMA QInvInitially == QueueInit => QInv
<1> SUFFICES ASSUME QueueInit PROVE QInv
  OBVIOUS
<1>1. 0 \in Position
  BY Sizes DEF Position
<1>2. Size = 0
  BY <1>1, DistanceIs DEF QueueInit, Size
<1>3. QueueTypeOK
  BY <1>1 DEF QueueInit, QueueTypeOK, PushIdle, PopIdle
<1> QED BY <1>2, <1>3, Sizes DEF QueueInit, QInv, PushIdle, PopIdle

\* It survives every access of either thread and a reset of an idle queue.
LEMMA QInvKept ==
  ASSUME OneProducer, QInv, [QueueNext]_queueVars
  PROVE  QInv'
<1> USE DEF QInv, QueueTypeOK
<1>0. Size \in 0 .. Width - 1 /\ Capacity \in Nat \ {0}
  BY DistanceIs, Sizes DEF Size
<1>1. ASSUME NEW p \in Producers, NEW v \in Values, PushBegin(p, v) PROVE QInv'
  <2>1. Size' = Size
    BY <1>1 DEF PushBegin, Size
  <2>2. QueueTypeOK'
    BY <1>1 DEF PushBegin
  <2> QED BY <1>1, <2>1, <2>2 DEF PushBegin
<1>2. ASSUME NEW p \in Producers, PushLook(p) PROVE QInv'
  <2>1. Size' = Size
    BY <1>2 DEF PushLook, Size
  <2>2. QueueTypeOK'
    <3> DEFINE Locals == [pc : {"idle", "look", "store", "publish"},
                          value : Values \union {None}, write : Position]
    <3>1. \/ push' = [push EXCEPT ![p] = PushIdle]
          \/ push' = [push EXCEPT ![p] = [push[p] EXCEPT !.pc = "store"]]
      BY <1>2 DEF PushLook
    <3>2. PushIdle \in Locals /\ [push[p] EXCEPT !.pc = "store"] \in Locals
      BY <1>2, Sizes DEF PushIdle
    <3>3. push \in [Producers -> Locals]
      OBVIOUS
    <3>4. push' \in [Producers -> Locals]
      <4> HIDE DEF Locals, QInv, QueueTypeOK
      <4> QED BY <3>1, <3>2, <3>3, <1>2
    <3> QED BY <1>2, <3>4 DEF PushLook
  <2>3. push[p].pc = "look" /\ push[p].write = writePosition
    BY <1>2 DEF PushLook
  <2>4. /\ \A q \in Producers : q = p
        /\ push'[p] = IF Size = Capacity THEN PushIdle ELSE [push[p] EXCEPT !.pc = "store"]
    BY <1>2, <2>3 DEF PushLook, Size, OneProducer
  <2>5. /\ push'[p].pc # "idle" => push'[p].write = writePosition /\ Size # Capacity
    BY <2>3, <2>4 DEF PushIdle
  <2> QED BY <1>0, <1>2, <2>1, <2>2, <2>4, <2>5 DEF PushLook
<1>3. ASSUME NEW p \in Producers, PushStore(p) PROVE QInv'
  <2>1. Size' = Size
    BY <1>3 DEF PushStore, Size
  <2>2. QueueTypeOK'
    BY <1>3 DEF PushStore
  <2> QED BY <1>3, <2>1, <2>2 DEF PushStore
<1>4. ASSUME NEW p \in Producers, PushPublish(p) PROVE QInv'
  <2>1. /\ push[p].write = writePosition /\ Size < Capacity
        /\ writePosition' = Plus(writePosition, 1) /\ readPosition' = readPosition
    BY <1>4 DEF PushPublish
  <2>2. writePosition' \in Position /\ Size' = Size + 1
    BY <2>1, SizeSteps DEF Size
  <2>3. QueueTypeOK'
    BY <1>4, <2>2, Sizes DEF PushPublish, PushIdle, Position
  <2>4. \A q \in Producers : push'[q].pc = "idle"
    BY <1>4 DEF PushPublish, PushIdle, OneProducer
  <2> QED BY <1>0, <1>4, <2>1, <2>2, <2>3, <2>4 DEF PushPublish
<1>5. CASE PopBegin
  <2>1. Size' = Size
    BY <1>5 DEF PopBegin, Size
  <2> QED BY <1>5, <2>1 DEF PopBegin
<1>6. CASE PopLook
  <2>1. Size' = Size
    BY <1>6 DEF PopLook, Size
  <2>2. pop.read = readPosition /\ pop.read \in Position
    BY <1>6 DEF PopLook
  <2>3. readPosition # writePosition => Size > 0
    <3>1. Size = IF readPosition <= writePosition THEN writePosition - readPosition
                 ELSE writePosition - readPosition + Width
      BY DistanceIs DEF Size
    <3> QED BY <3>1, Sizes
  <2>4. QueueTypeOK'
    <3>1. pop' \in {PopIdle, [pop EXCEPT !.pc = "fetch"]}
      BY <1>6 DEF PopLook
    <3>2. pop' \in [pc : {"idle", "look", "fetch", "publish"},
                    value : Values \union {None}, read : Position]
      BY <3>1, Sizes DEF PopIdle
    <3> QED BY <1>6, <3>2 DEF PopLook
  <2> QED BY <1>6, <2>1, <2>2, <2>3, <2>4 DEF PopLook, PopIdle
<1>7. CASE PopFetch
  <2>1. Size' = Size
    BY <1>7 DEF PopFetch, Size
  <2>2. Slot(pop.read) \in 0 .. Capacity - 1
    <3>1. pop.read \in Int
      BY Sizes
    <3> QED BY <1>0, <3>1, Remainder DEF Slot
  <2> QED BY <1>7, <2>1, <2>2 DEF PopFetch
<1>8. CASE PopPublish
  <2>1. /\ pop.read = readPosition /\ Size > 0
        /\ readPosition' = Plus(readPosition, 1) /\ writePosition' = writePosition
    BY <1>8 DEF PopPublish
  <2>2. readPosition' \in Position /\ Size' = Size - 1
    BY <2>1, SizeSteps DEF Size
  <2>3. QueueTypeOK'
    BY <1>8, <2>2, Sizes DEF PopPublish, PopIdle, Position
  <2> QED BY <1>0, <1>8, <2>2, <2>3 DEF PopPublish, PopIdle
<1>9. CASE ResetWhenQuiescent
  <2>1. 0 \in Position
    BY Sizes DEF Position
  <2>2. Size' = 0
    BY <1>9, <2>1, DistanceIs DEF ResetWhenQuiescent, Size
  <2> QED BY <1>0, <1>9, <2>1, <2>2 DEF ResetWhenQuiescent
<1>10. CASE UNCHANGED queueVars
  BY <1>10 DEF queueVars, Size
<1> QED
  BY <1>1, <1>2, <1>3, <1>4, <1>5, <1>6, <1>7, <1>8, <1>9, <1>10
     DEF QueueNext, Producer, Consumer

\* The slot about to be stored into holds no value and is not the one being copied.
LEMMA QInvNoRace == QInv => NoSlotRace
<1> SUFFICES ASSUME QInv, NEW p \in Producers, push[p].pc = "store"
             PROVE  /\ pop.pc = "fetch" => Slot(push[p].write) # Slot(pop.read)
                    /\ \A i \in 0 .. Size - 1 :
                         Slot(push[p].write) # Slot(Plus(readPosition, i))
  BY DEF NoSlotRace
<1>1. /\ push[p].write = writePosition /\ Size < Capacity /\ Size \in 0 .. Width - 1
      /\ readPosition \in Position /\ writePosition \in Position
  BY DistanceIs DEF QInv, QueueTypeOK, Size
<1>2. ASSUME NEW i \in 0 .. Size - 1 PROVE Slot(writePosition) # Slot(Plus(readPosition, i))
  <2>1. /\ Plus(readPosition, i) \in Position
        /\ Distance(Plus(readPosition, i), writePosition) = Size - i
        /\ Plus(readPosition, i) # writePosition
    BY <1>1, <1>2, DistanceFromValue DEF Size
  <2>2. Distance(Plus(readPosition, i), writePosition) < Capacity
    BY <1>1, <2>1, Sizes
  <2> QED BY <1>1, <2>1, <2>2, SlotsApart
<1>3. ASSUME pop.pc = "fetch" PROVE Slot(writePosition) # Slot(pop.read)
  <2>1. pop.read = readPosition /\ Size > 0
    BY <1>3 DEF QInv
  <2>2. readPosition # writePosition
    <3>1. SUFFICES ASSUME readPosition = writePosition PROVE Size = 0
      BY <2>1
    <3> QED BY <1>1, <3>1, DistanceIs, Sizes DEF Size
  <2> QED BY <1>1, <2>1, <2>2, SlotsApart DEF Size
<1> QED BY <1>1, <1>2, <1>3

\* A look that refuses sees what is so.
LEMMA LooksAreTrue ==
  ASSUME QInv, [QueueNext]_queueVars
  PROVE  /\ \A p \in Producers :
              push[p].pc = "look" /\ push'[p].pc = "idle" => Size = Capacity
         /\ pop.pc = "look" /\ pop'.pc = "idle" => Size = 0
<1> USE DEF QInv, QueueTypeOK
<1>1. ASSUME NEW p \in Producers, push[p].pc = "look", push'[p].pc = "idle"
      PROVE  Size = Capacity
  <2>1. PushLook(p)
    BY <1>1 DEF QueueNext, Producer, Consumer, queueVars, PushBegin, PushLook, PushStore,
                PushPublish, PopBegin, PopLook, PopFetch, PopPublish, ResetWhenQuiescent
  <2>2. push[p].write = writePosition
    BY <1>1
  <2> QED BY <1>1, <2>1, <2>2 DEF PushLook, Size
<1>2. ASSUME pop.pc = "look", pop'.pc = "idle" PROVE Size = 0
  <2>1. PopLook
    BY <1>2 DEF QueueNext, Producer, Consumer, queueVars, PushBegin, PushLook, PushStore,
                PushPublish, PopBegin, PopLook, PopFetch, PopPublish, ResetWhenQuiescent
  <2>2. readPosition = writePosition
    BY <1>2, <2>1 DEF PopLook
  <2> QED BY <2>2, DistanceIs DEF Size, Position
<1> QED BY <1>1, <1>2

\* The queue's array has no data race with one producer and one consumer, for any
\* capacity, any number of positions it divides, and any number of wraps.
THEOREM SlotsNeverRace == OneProducer /\ QueueSpec => []NoSlotRace
<1> SUFFICES ASSUME OneProducer PROVE QueueSpec => []NoSlotRace
  OBVIOUS
<1>1. QInv /\ [QueueNext]_queueVars => QInv'
  BY QInvKept
<1> QED BY <1>1, QInvInitially, QInvNoRace, PTL DEF QueueSpec

\* tryPush() refuses only a full queue, tryPop() only an empty one.
THEOREM RefusalsAreJustified == OneProducer /\ QueueSpec => RefusalsAreTrue
<1> SUFFICES ASSUME OneProducer PROVE QueueSpec => RefusalsAreTrue
  OBVIOUS
<1>1. QInv /\ [QueueNext]_queueVars => QInv'
  BY QInvKept
<1>2. QInv /\ [QueueNext]_queueVars =>
        [/\ \A p \in Producers : push[p].pc = "look" /\ push'[p].pc = "idle" => Size = Capacity
         /\ pop.pc = "look" /\ pop'.pc = "idle" => Size = 0]_queueVars
  BY LooksAreTrue
<1> QED BY <1>1, <1>2, QInvInitially, PTL DEF QueueSpec, RefusalsAreTrue

(***************************************************************************)
(* What the queue holds.                                                   *)
(***************************************************************************)

\* The slot of the i-th value held, from 0.
HeldIn(i) == Slot(Plus(readPosition, i))

\* What is held is values; what a push has stored stays in its slot until it is
\* published, and what a pop has copied is what its slot holds until it is given up.
ValuesInv ==
  /\ QInv
  /\ \A i \in 0 .. Size - 1 : storage[HeldIn(i)] \in Values
  /\ \A p \in Producers : push[p].pc # "idle" => push[p].value \in Values
  /\ \A p \in Producers : push[p].pc = "publish" => storage[Slot(writePosition)] = push[p].value
  /\ pop.pc = "publish" => pop.value = storage[Slot(readPosition)]

\* A function on 1 .. n is a sequence.
LEMMA NumberedIsSequence ==
  ASSUME NEW V, NEW n \in Nat, NEW s \in [1 .. n -> V]
  PROVE  s \in Seq(V) /\ Len(s) = n
<1>1. s \in Seq(V)
  BY SeqDef
<1>2. Len(s) \in Nat /\ DOMAIN s = 1 .. Len(s) /\ DOMAIN s = 1 .. n
  BY <1>1, LenProperties
<1> QED BY <1>1, <1>2

\* The first value lies at the read position, the next one behind the last at the
\* write position; behind a value taken the others are one nearer.
LEMMA Places ==
  ASSUME QInv
  PROVE  /\ Size \in 0 .. Width - 1 /\ readPosition \in Position /\ writePosition \in Position
         /\ Plus(readPosition, 0) = readPosition
         /\ Plus(readPosition, Size) = writePosition
         /\ \A i \in 0 .. Size - 1 :
              Size > 0 => Plus(Plus(readPosition, 1), i) = Plus(readPosition, i + 1)
<1>1. readPosition \in Position /\ writePosition \in Position
  BY DEF QInv, QueueTypeOK
<1>2. /\ Size \in 0 .. Width - 1
      /\ Size = IF readPosition <= writePosition THEN writePosition - readPosition
                ELSE writePosition - readPosition + Width
  BY <1>1, DistanceIs DEF Size
<1>3. \A n \in 0 .. Width : Plus(readPosition, n) = IF readPosition + n < Width
                                                   THEN readPosition + n ELSE readPosition + n - Width
  BY <1>1, PlusIs
<1>4. 0 \in 0 .. Width /\ Size \in 0 .. Width /\ 1 \in 0 .. Width
  BY <1>2, Sizes
<1>5. Plus(readPosition, 0) = readPosition /\ Plus(readPosition, Size) = writePosition
  BY <1>1, <1>2, <1>3, <1>4, Sizes
<1>6. ASSUME NEW i \in 0 .. Size - 1
      PROVE  Plus(Plus(readPosition, 1), i) = Plus(readPosition, i + 1)
  <2>1. i \in 0 .. Width /\ i + 1 \in 0 .. Width
    BY <1>2, <1>6, Sizes
  <2>2. PICK next : next = Plus(readPosition, 1)
    OBVIOUS
  <2>3. next \in Position /\ next = IF readPosition + 1 < Width THEN readPosition + 1
                                    ELSE readPosition + 1 - Width
    BY <1>1, <1>4, <2>2, PlusIs
  <2>4. Plus(next, i) = IF next + i < Width THEN next + i ELSE next + i - Width
    BY <2>1, <2>3, PlusIs
  <2>5. Plus(readPosition, i + 1) = IF readPosition + (i + 1) < Width
                                    THEN readPosition + (i + 1) ELSE readPosition + (i + 1) - Width
    BY <1>3, <2>1
  <2>6. Plus(next, i) = Plus(readPosition, i + 1)
    BY <1>1, <1>2, <2>1, <2>3, <2>4, <2>5, Sizes
  <2> QED BY <2>2, <2>6
<1> QED BY <1>1, <1>2, <1>5, <1>6

\* The contents are a sequence of values.
LEMMA ContentsTyped ==
  ASSUME ValuesInv
  PROVE  /\ Contents \in Seq(Values) /\ Len(Contents) = Size
         /\ \A i \in 1 .. Size : Contents[i] = storage[HeldIn(i - 1)]
<1>1. Size \in Nat
  BY Places DEF ValuesInv
<1>2. \A i \in 1 .. Size : storage[HeldIn(i - 1)] \in Values
  <2>1. \A i \in 1 .. Size : i - 1 \in 0 .. Size - 1
    BY <1>1
  <2> QED BY <2>1 DEF ValuesInv
<1>3. Contents \in [1 .. Size -> Values]
  BY <1>2 DEF Contents, HeldIn
<1>4. \A i \in 1 .. Size : Contents[i] = storage[HeldIn(i - 1)]
  BY DEF Contents, HeldIn
<1> QED BY <1>1, <1>3, <1>4, NumberedIsSequence

\* A push about to publish or store is not in a slot that holds a value.
LEMMA WriteSlotIsFree ==
  ASSUME ValuesInv, Size < Capacity
  PROVE  \A i \in 0 .. Size - 1 : HeldIn(i) # Slot(writePosition)
<1> TAKE i \in 0 .. Size - 1
<1>1. /\ Plus(readPosition, i) \in Position
      /\ Distance(Plus(readPosition, i), writePosition) = Size - i
      /\ Plus(readPosition, i) # writePosition
  BY Places, DistanceFromValue DEF Size, ValuesInv
<1>2. Distance(Plus(readPosition, i), writePosition) < Capacity
  BY <1>1, Places, Sizes DEF ValuesInv
<1> QED BY <1>1, <1>2, Places, SlotsApart DEF HeldIn, ValuesInv

\* A value held lies in a slot of its own.
LEMMA FirstIsHeld ==
  ASSUME ValuesInv, Size > 0
  PROVE  HeldIn(0) = Slot(readPosition) /\ 0 \in 0 .. Size - 1
  BY Places DEF HeldIn, ValuesInv

\* A step that leaves the positions and the held values alone leaves the contents alone.
LEMMA SameContents ==
  ASSUME UNCHANGED <<readPosition, writePosition>>,
         \A i \in 0 .. Size - 1 : storage'[HeldIn(i)] = storage[HeldIn(i)], Size \in Nat
  PROVE  Contents' = Contents
<1>1. Size' = Size
  BY DEF Size
<1>2. \A i \in 1 .. Size : i - 1 \in 0 .. Size - 1
  OBVIOUS
<1>3. \A i \in 1 .. Size : storage'[Slot(Plus(readPosition, i - 1))]
                             = storage[Slot(Plus(readPosition, i - 1))]
  BY <1>2 DEF HeldIn
<1> QED BY <1>1, <1>3 DEF Contents

\* A value stored in the free slot changes nothing held.
LEMMA StoreKeeps ==
  ASSUME OneProducer, ValuesInv, QInv', NEW p \in Producers, PushStore(p)
  PROVE  ValuesInv' /\ Contents' = Contents
<1>1. /\ push[p].pc = "store" /\ push[p].write = writePosition /\ push[p].value \in Values
      /\ Size < Capacity /\ Size \in Nat
  BY Places DEF PushStore, ValuesInv, QInv
<1>2. /\ storage' = [storage EXCEPT ![Slot(writePosition)] = push[p].value]
      /\ push' = [push EXCEPT ![p].pc = "publish"]
      /\ UNCHANGED <<writePosition, readPosition, pop, received>>
  BY <1>1 DEF PushStore
<1>3. \A i \in 0 .. Size - 1 : storage'[HeldIn(i)] = storage[HeldIn(i)]
  BY <1>1, <1>2, WriteSlotIsFree DEF ValuesInv, QInv, QueueTypeOK
<1>4. Contents' = Contents /\ Size' = Size
  BY <1>1, <1>2, <1>3, SameContents DEF Size
<1>5. \A i \in 0 .. Size' - 1 : storage'[HeldIn(i)'] \in Values
  BY <1>2, <1>3, <1>4 DEF HeldIn, ValuesInv
<1>6. \A q \in Producers : q = p
  BY DEF OneProducer
<1>7. push'[p].value = push[p].value
  BY <1>2 DEF ValuesInv, QInv, QueueTypeOK
<1>8. storage'[Slot(writePosition)] = push[p].value
  <2>1. Slot(writePosition) \in 0 .. Capacity - 1
    BY Places, Sizes, Remainder DEF Slot, ValuesInv
  <2> QED BY <1>2, <2>1 DEF ValuesInv, QInv, QueueTypeOK
<1>9. pop'.pc = "publish" => pop'.value = storage'[Slot(readPosition')]
  <2>1. SUFFICES ASSUME pop.pc = "publish" PROVE pop.value = storage'[Slot(readPosition)]
    BY <1>2
  <2>2. Size > 0
    BY <2>1 DEF ValuesInv, QInv
  <2> QED BY <1>3, <2>1, <2>2, FirstIsHeld DEF ValuesInv
<1> QED BY <1>1, <1>2, <1>4, <1>5, <1>6, <1>7, <1>8, <1>9 DEF ValuesInv

\* A publication puts the stored value behind what is held.
LEMMA PublicationPuts ==
  ASSUME OneProducer, ValuesInv, QInv', NEW p \in Producers, PushPublish(p)
  PROVE  ValuesInv' /\ Queue!Put(push[p].value)
<1>1. /\ push[p].pc = "publish" /\ push[p].write = writePosition /\ push[p].value \in Values
      /\ storage[Slot(writePosition)] = push[p].value
      /\ Size < Capacity /\ Size \in Nat
  BY Places DEF PushPublish, ValuesInv, QInv
<1>2. /\ writePosition' = Plus(writePosition, 1) /\ push' = [push EXCEPT ![p] = PushIdle]
      /\ UNCHANGED <<readPosition, storage, pop, received>>
  BY <1>1 DEF PushPublish
<1>3. Size' = Size + 1
  BY <1>1, <1>2, Places, SizeSteps DEF Size, ValuesInv
<1>4. /\ \A i \in 0 .. Size - 1 : storage[HeldIn(i)] \in Values
      /\ HeldIn(Size) = Slot(writePosition)
  BY Places DEF HeldIn, ValuesInv
<1>5. \A i \in 0 .. Size : storage[HeldIn(i)] \in Values
  <2>1. \A i \in 0 .. Size : i \in 0 .. Size - 1 \/ i = Size
    BY <1>1
  <2> QED BY <1>1, <1>4, <2>1
<1>6. \A q \in Producers : push'[q].pc = "idle"
  BY <1>2 DEF OneProducer, PushIdle, ValuesInv, QInv, QueueTypeOK
<1>7. ValuesInv'
  <2>1. \A i \in 0 .. Size' - 1 : storage'[HeldIn(i)'] \in Values
    <3>1. Size' - 1 = Size
      BY <1>1, <1>3
    <3> QED BY <1>2, <1>5, <3>1 DEF HeldIn
  <2> QED BY <1>2, <1>6, <2>1 DEF ValuesInv
<1>8. Contents' = Append(Contents, push[p].value)
  <2>1. PICK c, v : c = Contents /\ v = push[p].value
    OBVIOUS
  <2>2. PICK d : d = Contents'
    OBVIOUS
  <2>3. c \in Seq(Values) /\ Len(c) = Size /\ \A i \in 1 .. Size : c[i] = storage[HeldIn(i - 1)]
    BY <2>1, ContentsTyped
  <2>4. d = [i \in 1 .. Size + 1 |-> storage[HeldIn(i - 1)]]
    BY <1>2, <1>3, <2>2 DEF Contents, HeldIn
  <2>5. d \in [1 .. Size + 1 -> Values]
    <3>1. \A i \in 1 .. Size + 1 : i - 1 \in 0 .. Size
      BY <1>1
    <3> QED BY <1>5, <2>4, <3>1
  <2>6. d \in Seq(Values) /\ Len(d) = Size + 1
    BY <1>1, <2>5, NumberedIsSequence
  <2>7. PICK e : e = Append(c, v)
    OBVIOUS
  <2>8. /\ e \in Seq(Values) /\ Len(e) = Size + 1 /\ e[Size + 1] = v
        /\ \A i \in 1 .. Size : e[i] = c[i]
    BY <1>1, <2>1, <2>3, <2>7, AppendProperties
  <2>9. \A i \in 1 .. Size + 1 : d[i] = e[i]
    <3>1. \A i \in 1 .. Size + 1 : i \in 1 .. Size \/ i = Size + 1
      BY <1>1
    <3>2. d[Size + 1] = storage[HeldIn(Size)]
      <4>1. PICK n : n = Size + 1
        OBVIOUS
      <4>2. n \in 1 .. Size + 1 /\ n - 1 = Size
        BY <1>1, <4>1
      <4>3. d[n] = storage[HeldIn(n - 1)]
        BY <2>4, <4>2
      <4> QED BY <4>1, <4>2, <4>3
    <3>3. \A i \in 1 .. Size : d[i] = storage[HeldIn(i - 1)]
      BY <1>1, <2>4
    <3> QED BY <1>1, <1>4, <2>1, <2>3, <2>8, <3>1, <3>2, <3>3
  <2>10. d = e
    BY <2>6, <2>8, <2>9, SeqEqual
  <2> QED BY <2>1, <2>2, <2>7, <2>10
<1> QED BY <1>1, <1>2, <1>7, <1>8, ContentsTyped DEF Queue!Put

\* A pop takes what is held first.
LEMMA PublicationTakes ==
  ASSUME ValuesInv, QInv', PopPublish
  PROVE  ValuesInv' /\ Queue!Take
<1>1. /\ pop.read = readPosition /\ pop.value = storage[Slot(readPosition)]
      /\ Size > 0 /\ Size \in Nat
  BY Places DEF PopPublish, ValuesInv, QInv
<1>2. /\ readPosition' = Plus(readPosition, 1) /\ received' = pop.value /\ pop' = PopIdle
      /\ UNCHANGED <<writePosition, storage, push>>
  BY <1>1 DEF PopPublish
<1>3. Size' = Size - 1
  BY <1>1, <1>2, Places, SizeSteps DEF Size, ValuesInv
<1>4. \A i \in 0 .. Size - 1 : HeldIn(i)' = HeldIn(i + 1)
  BY <1>1, <1>2, Places DEF HeldIn, ValuesInv
<1>5. ValuesInv'
  <2>1. \A i \in 0 .. Size' - 1 : storage'[HeldIn(i)'] \in Values
    <3>1. \A i \in 0 .. Size' - 1 : i \in 0 .. Size - 1 /\ i + 1 \in 0 .. Size - 1
      BY <1>1, <1>3
    <3> QED BY <1>2, <1>4, <3>1 DEF ValuesInv
  <2>2. pop'.pc # "publish"
    BY <1>2 DEF PopIdle
  <2> QED BY <1>2, <2>1, <2>2 DEF ValuesInv
<1>6. /\ Contents \in Seq(Values) /\ Len(Contents) = Size
      /\ \A i \in 1 .. Size : Contents[i] = storage[HeldIn(i - 1)]
  BY ContentsTyped
<1>7. Contents # <<>>
  BY <1>1, <1>6, EmptySeq
<1>8. received' = Head(Contents)
  <2>1. Contents[1] = storage[HeldIn(0)]
    BY <1>1, <1>6
  <2>2. Head(Contents) = Contents[1]
    BY <1>6, <1>7
  <2> QED BY <1>1, <1>2, <2>1, <2>2, FirstIsHeld
<1>9. Contents' = Tail(Contents)
  <2>1. PICK c, d, t : c = Contents /\ d = Contents' /\ t = Tail(Contents)
    OBVIOUS
  <2>2. /\ t \in Seq(Values) /\ Len(t) = Size - 1
        /\ \A i \in 1 .. Size - 1 : t[i] = c[i + 1]
    BY <1>6, <1>7, <2>1, HeadTailProperties
  <2>3. \A i \in 1 .. Size - 1 : t[i] = storage[HeldIn(i)]
    <3>1. \A i \in 1 .. Size - 1 : i + 1 \in 1 .. Size /\ i + 1 - 1 = i
      BY <1>1
    <3> QED BY <1>6, <2>1, <2>2, <3>1
  <2>4. d = [i \in 1 .. Size - 1 |-> storage[HeldIn(i)]]
    <3>1. \A i \in 1 .. Size - 1 : i - 1 \in 0 .. Size - 1 /\ i - 1 + 1 = i
      BY <1>1
    <3>2. \A i \in 1 .. Size - 1 : storage'[HeldIn(i - 1)'] = storage[HeldIn(i)]
      BY <1>2, <1>4, <3>1
    <3>3. d = [i \in 1 .. Size - 1 |-> storage'[HeldIn(i - 1)']]
      BY <1>2, <1>3, <2>1 DEF Contents, HeldIn
    <3> QED BY <3>2, <3>3
  <2>5. d \in [1 .. Size - 1 -> Values]
    <3>1. \A i \in 1 .. Size - 1 : i \in 0 .. Size - 1
      BY <1>1
    <3> QED BY <2>4, <3>1 DEF ValuesInv
  <2>6. Size - 1 \in Nat
    BY <1>1
  <2>7. d \in Seq(Values) /\ Len(d) = Size - 1
    BY <2>5, <2>6, NumberedIsSequence
  <2>8. \A i \in 1 .. Size - 1 : d[i] = t[i]
    BY <2>3, <2>4
  <2>9. d = t
    BY <2>2, <2>7, <2>8, SeqEqual
  <2> QED BY <2>1, <2>9
<1> QED BY <1>5, <1>7, <1>8, <1>9 DEF Queue!Take

\* A reset empties the queue.
LEMMA ResetEmpties ==
  ASSUME ValuesInv, QInv', ResetWhenQuiescent
  PROVE  ValuesInv' /\ Queue!Empty
<1>1. /\ readPosition' = 0 /\ writePosition' = 0 /\ received' = received
      /\ pop'.pc = "idle" /\ \A p \in Producers : push'[p].pc = "idle"
  BY DEF ResetWhenQuiescent
<1>2. Size' = 0
  BY <1>1, Sizes, DistanceIs DEF Size
<1>3. Contents' = <<>>
  <2>1. PICK d : d = Contents'
    OBVIOUS
  <2>2. 0 \in Nat /\ d \in [1 .. 0 -> Values]
    BY <1>2, <2>1 DEF Contents
  <2>3. d \in Seq(Values) /\ Len(d) = 0
    BY <2>2, NumberedIsSequence
  <2>4. d = <<>>
    BY <2>3, EmptySeq
  <2> QED BY <2>1, <2>4
<1>4. ValuesInv'
  BY <1>1, <1>2 DEF ValuesInv
<1> QED BY <1>1, <1>3, <1>4 DEF Queue!Empty

\* Every step keeps the values, and puts one, takes one, empties the queue or is none of it.
LEMMA StepsOfQueue ==
  ASSUME OneProducer, ValuesInv, [QueueNext]_queueVars
  PROVE  ValuesInv' /\ (Queue!AbsNext \/ UNCHANGED <<Contents, received>>)
<1>1. QInv'
  BY QInvKept DEF ValuesInv
<1>2. ASSUME UNCHANGED <<readPosition, writePosition, storage, received>>,
             \A p \in Producers : push'[p].pc # "idle" => push'[p].value \in Values,
             \A p \in Producers : push'[p].pc = "publish" =>
               push[p].pc = "publish" /\ push'[p].value = push[p].value,
             pop'.pc = "publish" => pop'.value = storage[Slot(readPosition)]
      PROVE  ValuesInv' /\ UNCHANGED <<Contents, received>>
  <2>1. Size' = Size /\ \A i \in 0 .. Size - 1 : HeldIn(i)' = HeldIn(i)
    BY <1>2 DEF Size, HeldIn
  <2>2. Contents' = Contents
    BY <1>2 DEF Contents, Size
  <2> QED BY <1>1, <1>2, <2>1, <2>2 DEF ValuesInv
<1>3. ASSUME NEW p \in Producers, NEW v \in Values, PushBegin(p, v)
      PROVE  ValuesInv' /\ UNCHANGED <<Contents, received>>
  BY <1>2, <1>3 DEF PushBegin, ValuesInv, QInv, QueueTypeOK
<1>4. ASSUME NEW p \in Producers, PushLook(p)
      PROVE  ValuesInv' /\ UNCHANGED <<Contents, received>>
  <2>1. \A q \in Producers : \/ push'[q] = push[q] \/ push'[q] = PushIdle
                             \/ q = p /\ push'[q] = [push[q] EXCEPT !.pc = "store"]
    BY <1>4 DEF PushLook, ValuesInv, QInv, QueueTypeOK
  <2>2. push[p].pc = "look" /\ push[p].value \in Values
    BY <1>4 DEF PushLook, ValuesInv
  <2>3. \A q \in Producers : push[q] \in [pc : {"idle", "look", "store", "publish"},
                                          value : Values \union {None}, write : Position]
    BY DEF ValuesInv, QInv, QueueTypeOK
  <2> QED BY <1>2, <1>4, <2>1, <2>2, <2>3 DEF PushLook, PushIdle, ValuesInv
<1>5. ASSUME NEW p \in Producers, PushStore(p)
      PROVE  ValuesInv' /\ UNCHANGED <<Contents, received>>
  BY <1>1, <1>5, StoreKeeps DEF PushStore
<1>6. ASSUME NEW p \in Producers, PushPublish(p) PROVE ValuesInv' /\ Queue!AbsNext
  <2>1. ValuesInv' /\ Queue!Put(push[p].value)
    BY <1>1, <1>6, PublicationPuts
  <2>2. push[p].value \in Values
    BY <1>6 DEF PushPublish, ValuesInv
  <2> QED BY <2>1, <2>2 DEF Queue!AbsNext
<1>7. CASE PopBegin
  BY <1>2, <1>7 DEF PopBegin, ValuesInv
<1>8. CASE PopLook
  BY <1>2, <1>8 DEF PopLook, PopIdle, ValuesInv, QInv, QueueTypeOK
<1>9. CASE PopFetch
  <2>1. pop.read = readPosition /\ pop.pc = "fetch"
    BY <1>9 DEF PopFetch, ValuesInv, QInv
  <2>2. pop'.value = storage[Slot(readPosition)]
    BY <1>9, <2>1 DEF PopFetch, ValuesInv, QInv, QueueTypeOK
  <2> QED BY <1>2, <1>9, <2>2 DEF PopFetch, ValuesInv
<1>10. CASE PopPublish
  BY <1>1, <1>10, PublicationTakes DEF Queue!AbsNext
<1>11. CASE ResetWhenQuiescent
  BY <1>1, <1>11, ResetEmpties DEF Queue!AbsNext
<1>12. CASE UNCHANGED queueVars
  BY <1>2, <1>12 DEF queueVars, ValuesInv
<1> QED
  BY <1>3, <1>4, <1>5, <1>6, <1>7, <1>8, <1>9, <1>10, <1>11, <1>12
     DEF QueueNext, Producer, Consumer

\* All of BoundedQueue but its fairness.
QueueSafety == Queue!AbsInit /\ [][Queue!AbsNext]_(Queue!abstract)

\* With one producer the class is a bounded first-in first-out queue: a publication puts
\* the value pushed behind all others, the end of a pop gives out the oldest, and no
\* other access changes what is held.
THEOREM StepsKeepQueue == OneProducer /\ QueueSpec => QueueSafety
<1> SUFFICES ASSUME OneProducer PROVE QueueSpec => QueueSafety
  OBVIOUS
<1>1. QueueInit => ValuesInv /\ Queue!AbsInit
  <2> SUFFICES ASSUME QueueInit PROVE ValuesInv /\ Queue!AbsInit
    OBVIOUS
  <2>1. Size = 0 /\ QInv
    BY QInvInitially, Sizes, DistanceIs DEF QueueInit, Size
  <2>2. ValuesInv
    BY <2>1 DEF ValuesInv, QueueInit, PushIdle, PopIdle
  <2>3. Contents \in Seq(Values) /\ Len(Contents) = 0
    BY <2>1, <2>2, ContentsTyped
  <2>4. Contents = <<>>
    BY <2>3, EmptySeq
  <2> QED BY <2>2, <2>4 DEF QueueInit, Queue!AbsInit
<1>2. ValuesInv /\ [QueueNext]_queueVars => ValuesInv' /\ [Queue!AbsNext]_(Queue!abstract)
  BY StepsOfQueue DEF Queue!abstract
<1> QED BY <1>1, <1>2, PTL DEF QueueSpec, QueueSafety

-----------------------------------------------------------------------------
(***************************************************************************)
(* Auditions, whose commands such a queue carries: the order in which what *)
(* a user asks for reaches the player.                                     *)
(***************************************************************************)

Commands == [type : {"start", "stop"}, epoch : Nat \ {0}, request : Nat, slice : Nat]

\* A start comes after another: it is of a later request, or of a later slice of the same.
Follows(a, b) == a.request > b.request \/ (a.request = b.request /\ a.slice > b.slice)

\* d may wait behind c.
Succeeds(c, d) ==
  d.type = "start" => IF c.type = "start" THEN Follows(d, c) ELSE d.request > c.request

AuditionTyped ==
  /\ epoch \in Nat /\ previewEpoch \in Nat /\ pendingEpoch \in Nat
  /\ requests \in Nat /\ asked \in 0 .. requests /\ silenced \in 0 .. requests
  /\ started \in [request : 0 .. asked, slice : Nat]
  /\ commands \in Seq(Commands)
  /\ \A i \in 1 .. Len(commands) :
       commands[i].request <= IF commands[i].type = "start" THEN asked ELSE requests

\* What waits is in order, and after what the player has taken.
QueueOrdered ==
  /\ \A i, j \in 1 .. Len(commands) : i < j => Succeeds(commands[i], commands[j])
  /\ \A i \in 1 .. Len(commands) :
       commands[i].type = "start" =>
         Follows(commands[i], started) /\ commands[i].request > silenced

\* The slice the controller is at, as a start.
Present == [request |-> asked, slice |-> sequence[index]]

\* c is of a slice up to p, or stops an earlier request.
Passed(c, p) == IF c.type = "start" THEN ~Follows(c, p) ELSE c.request < p.request

\* Slices in ascending order.
Ascending(slices) ==
  /\ slices \in Seq(Nat) /\ slices # <<>>
  /\ \A i, j \in 1 .. Len(slices) : i < j => slices[i] < slices[j]

\* What is asked for next comes after all that waits or was taken.
SequenceFollows ==
  sequence # <<>> =>
    /\ Ascending(sequence) /\ index \in 1 .. Len(sequence)
    /\ silenced < asked /\ ~Follows(started, Present)
    /\ \A i \in 1 .. Len(commands) : Passed(commands[i], Present)

AuditionInv == AuditionTyped /\ QueueOrdered /\ SequenceFollows

\* A pushed command is the last, or was refused.
LEMMA PushedQueue ==
  ASSUME commands \in Seq(Commands), NEW c \in Commands, Push(c)
  PROVE  /\ commands' \in Seq(Commands)
         /\ \A i \in 1 .. Len(commands') :
              \/ i \in 1 .. Len(commands) /\ commands'[i] = commands[i]
              \/ i = Len(commands) + 1 /\ commands'[i] = c
<1>1. Len(commands) \in Nat
  BY LenProperties
<1>2. CASE commands' = commands
  BY <1>2
<1>3. CASE commands' = Append(commands, c)
  BY <1>1, <1>3, AppendProperties
<1> QED BY <1>2, <1>3 DEF Push

\* A command that may wait behind all others keeps the queue in order.
LEMMA PushKeepsOrder ==
  ASSUME AuditionTyped, QueueOrdered, NEW c \in Commands, Push(c),
         UNCHANGED <<started, silenced>>,
         \A i \in 1 .. Len(commands) : Succeeds(commands[i], c),
         c.type = "start" => Follows(c, started) /\ c.request > silenced
  PROVE  QueueOrdered'
<1>1. commands \in Seq(Commands) /\ Len(commands) \in Nat
  BY LenProperties DEF AuditionTyped
<1>2. /\ commands' \in Seq(Commands)
      /\ \A i \in 1 .. Len(commands') :
           \/ i \in 1 .. Len(commands) /\ commands'[i] = commands[i]
           \/ i = Len(commands) + 1 /\ commands'[i] = c
  BY <1>1, PushedQueue
<1>3. ASSUME NEW i \in 1 .. Len(commands'), NEW j \in 1 .. Len(commands'), i < j
      PROVE  Succeeds(commands'[i], commands'[j])
  <2>1. Len(commands') \in Nat
    BY <1>2, LenProperties
  <2>2. i \in 1 .. Len(commands) /\ commands'[i] = commands[i]
    BY <1>1, <1>2, <1>3, <2>1
  <2>3. CASE j \in 1 .. Len(commands) /\ commands'[j] = commands[j]
    BY <1>3, <2>2, <2>3 DEF QueueOrdered
  <2>4. CASE commands'[j] = c
    BY <2>2, <2>4
  <2> QED BY <1>2, <2>3, <2>4
<1>4. ASSUME NEW i \in 1 .. Len(commands'), commands'[i].type = "start"
      PROVE  Follows(commands'[i], started') /\ commands'[i].request > silenced'
  <2>1. CASE i \in 1 .. Len(commands) /\ commands'[i] = commands[i]
    BY <1>4, <2>1 DEF QueueOrdered
  <2>2. CASE commands'[i] = c
    BY <1>4, <2>2
  <2> QED BY <1>2, <2>1, <2>2
<1> QED BY <1>3, <1>4 DEF QueueOrdered

\* What waits: its fields, and that what is of a later request may wait behind it.
LEMMA WaitingTyped ==
  ASSUME AuditionTyped, NEW i \in 1 .. Len(commands)
  PROVE  /\ commands[i] \in Commands /\ commands[i].request \in 0 .. requests
         /\ commands[i].slice \in Nat /\ commands[i].epoch \in Nat \ {0}
         /\ commands[i].type = "start" => commands[i].request <= asked
         /\ \A d : d.request \in Nat /\ d.request > requests => Succeeds(commands[i], d)
<1>1. commands[i] \in Commands
  BY ElementOfSeq DEF AuditionTyped
<1>2. commands[i].request \in Nat /\ commands[i].slice \in Nat /\ commands[i].epoch \in Nat \ {0}
  BY <1>1 DEF Commands
<1>3. /\ requests \in Nat /\ asked \in 0 .. requests
      /\ commands[i].request <= IF commands[i].type = "start" THEN asked ELSE requests
  BY DEF AuditionTyped
<1>4. commands[i].type = "start" => commands[i].request <= asked
  BY <1>2, <1>3
<1>5. commands[i].request \in 0 .. requests
  BY <1>2, <1>3
<1>6. ASSUME NEW d, d.request \in Nat, d.request > requests PROVE Succeeds(commands[i], d)
  <2>1. d.request > commands[i].request
    BY <1>3, <1>5, <1>6
  <2> QED BY <2>1 DEF Succeeds, Follows
<1> QED BY <1>1, <1>2, <1>4, <1>5, <1>6

\* Nothing waits at first.
LEMMA AuditionInit ==
  ASSUME Init
  PROVE  AuditionInv
<1>1. commands = <<>> /\ Len(commands) = 0 /\ commands \in Seq(Commands)
  BY EmptySeq DEF Init
<1>2. AuditionTyped
  BY <1>1 DEF Init, AuditionTyped, Silent
<1>3. QueueOrdered /\ SequenceFollows
  BY <1>1 DEF Init, QueueOrdered, SequenceFollows
<1> QED BY <1>2, <1>3 DEF AuditionInv

\* What a push leaves typed, ...
LEMMA PushKeepsTypes ==
  ASSUME AuditionTyped, NEW c \in Commands, Push(c),
         UNCHANGED <<pendingEpoch, started, silenced>>,
         epoch' \in Nat, previewEpoch' \in Nat, requests' \in Nat, requests <= requests',
         asked' \in asked .. requests',
         c.request <= IF c.type = "start" THEN asked' ELSE requests'
  PROVE  AuditionTyped'
<1>1. /\ pendingEpoch \in Nat /\ requests \in Nat /\ asked \in 0 .. requests
      /\ silenced \in 0 .. requests /\ started \in [request : 0 .. asked, slice : Nat]
      /\ commands \in Seq(Commands)
  BY DEF AuditionTyped
<1>2. commands' \in Seq(Commands) /\ Len(commands) \in Nat
  BY <1>1, PushedQueue, LenProperties
<1>3. ASSUME NEW i \in 1 .. Len(commands')
      PROVE  commands'[i].request <= IF commands'[i].type = "start" THEN asked' ELSE requests'
  <2>1. CASE i \in 1 .. Len(commands) /\ commands'[i] = commands[i]
    <3>1. /\ commands[i].request \in 0 .. requests
          /\ commands[i].type = "start" => commands[i].request <= asked
      BY <2>1, WaitingTyped
    <3> QED BY <1>1, <2>1, <3>1
  <2>2. CASE commands'[i] = c
    BY <2>2
  <2> QED BY <1>1, <2>1, <2>2, PushedQueue
<1>4. silenced' \in 0 .. requests' /\ asked' \in 0 .. requests'
  BY <1>1
<1>5. started' \in [request : 0 .. asked', slice : Nat]
  BY <1>1
<1> QED BY <1>1, <1>2, <1>3, <1>4, <1>5 DEF AuditionTyped

\* ... and passed.
LEMMA PushPasses ==
  ASSUME AuditionTyped, NEW c \in Commands, Push(c), NEW p, Passed(c, p),
         \A i \in 1 .. Len(commands) : Passed(commands[i], p)
  PROVE  \A i \in 1 .. Len(commands') : Passed(commands'[i], p)
<1> SUFFICES ASSUME NEW i \in 1 .. Len(commands') PROVE Passed(commands'[i], p)
  OBVIOUS
<1>1. CASE i \in 1 .. Len(commands) /\ commands'[i] = commands[i]
  BY <1>1
<1>2. CASE commands'[i] = c
  BY <1>2
<1> QED BY <1>1, <1>2, PushedQueue DEF AuditionTyped

\* A new request is for slices that follow all that was requested before.
LEMMA StartKeeps ==
  ASSUME AuditionInv, NEW slices, Ascending(slices), StartSequence(slices)
  PROVE  AuditionInv'
<1>1. /\ epoch \in Nat /\ previewEpoch \in Nat /\ requests \in Nat /\ asked \in 0 .. requests
      /\ silenced \in 0 .. requests /\ started \in [request : 0 .. asked, slice : Nat]
      /\ AuditionTyped /\ QueueOrdered
  BY DEF AuditionInv, AuditionTyped
<1>2. PICK e, r, first : e = epoch + 1 /\ r = requests + 1 /\ first = slices[1]
  OBVIOUS
<1>3. /\ sequence' = slices /\ index' = 1 /\ asked' = r /\ requests' = r /\ epoch' = e
      /\ Push(Start(first, e, r)) /\ UNCHANGED <<previewEpoch, pendingEpoch, started, silenced>>
  BY <1>2 DEF StartSequence, Request, player
<1>4. PICK c : c = [type |-> "start", epoch |-> e, request |-> r, slice |-> first]
  OBVIOUS
<1>5. Len(slices) \in Nat \ {0} /\ first \in Nat /\ 1 \in 1 .. Len(slices)
  <2>1. Len(slices) \in Nat \ {0}
    BY EmptySeq, LenProperties DEF Ascending
  <2>2. 1 \in 1 .. Len(slices)
    BY <2>1
  <2>3. slices[1] \in Nat
    BY <2>2, ElementOfSeq DEF Ascending
  <2> QED BY <1>2, <2>1, <2>2, <2>3
<1>6. /\ c \in Commands /\ Push(c) /\ c.type = "start" /\ c.request = r /\ c.slice = first
      /\ r \in Nat /\ e \in Nat /\ r > requests
  <2>1. r \in Nat /\ e \in Nat \ {0} /\ r > requests
    BY <1>1, <1>2
  <2> QED BY <1>3, <1>4, <1>5, <2>1 DEF Commands, Start
<1>7. AuditionTyped'
  BY <1>1, <1>3, <1>6, PushKeepsTypes
<1>8. /\ \A i \in 1 .. Len(commands) : Succeeds(commands[i], c)
      /\ Follows(c, started) /\ c.request > silenced
  <2>1. \A i \in 1 .. Len(commands) : Succeeds(commands[i], c)
    BY <1>1, <1>6, WaitingTyped
  <2>2. c.request > started.request
    BY <1>1, <1>6
  <2> QED BY <1>1, <1>6, <2>1, <2>2 DEF Follows
<1>9. QueueOrdered'
  BY <1>1, <1>3, <1>6, <1>8, PushKeepsOrder
<1>10. PICK p : p = [request |-> r, slice |-> first]
  OBVIOUS
<1>11. Present' = p /\ p.request = r /\ p.slice = first
  BY <1>2, <1>3, <1>10 DEF Present
<1>12. \A i \in 1 .. Len(commands) : Passed(commands[i], p)
  <2> SUFFICES ASSUME NEW i \in 1 .. Len(commands) PROVE Passed(commands[i], p)
    OBVIOUS
  <2>1. commands[i].request \in 0 .. requests
    BY <1>1, WaitingTyped
  <2> QED BY <1>1, <1>6, <1>11, <2>1 DEF Passed, Follows
<1>13. Passed(c, p)
  BY <1>5, <1>6, <1>11 DEF Passed, Follows
<1>14. \A i \in 1 .. Len(commands') : Passed(commands'[i], p)
  BY <1>1, <1>6, <1>12, <1>13, PushPasses
<1>15. silenced' < asked' /\ ~Follows(started', p)
  BY <1>1, <1>3, <1>6, <1>11 DEF Follows
<1>16. SequenceFollows'
  BY <1>3, <1>5, <1>11, <1>14, <1>15 DEF SequenceFollows
<1> QED BY <1>7, <1>9, <1>16 DEF AuditionInv

\* A stop is of a request of its own, and leaves no sequence.
LEMMA StopKeeps ==
  ASSUME AuditionInv, StopAudition
  PROVE  AuditionInv'
<1>1. /\ epoch \in Nat /\ previewEpoch \in Nat /\ requests \in Nat /\ asked \in 0 .. requests
      /\ AuditionTyped /\ QueueOrdered
  BY DEF AuditionInv, AuditionTyped
<1>2. PICK e, r : e = epoch + 1 /\ r = requests + 1
  OBVIOUS
<1>3. /\ sequence' = <<>> /\ requests' = r /\ epoch' = e /\ Push(Stop(e, r))
      /\ UNCHANGED <<previewEpoch, asked, pendingEpoch, started, silenced>>
  BY <1>2 DEF StopAudition, Request, player
<1>4. PICK c : c = [type |-> "stop", epoch |-> e, request |-> r, slice |-> 0]
  OBVIOUS
<1>5. /\ c \in Commands /\ Push(c) /\ c.type # "start" /\ c.request = r
      /\ r \in Nat /\ e \in Nat /\ r > requests
  <2>1. r \in Nat /\ e \in Nat \ {0} /\ r > requests
    BY <1>1, <1>2
  <2> QED BY <1>3, <1>4, <2>1 DEF Commands, Stop
<1>6. AuditionTyped'
  BY <1>1, <1>3, <1>5, PushKeepsTypes
<1>7. \A i \in 1 .. Len(commands) : Succeeds(commands[i], c)
  BY <1>5 DEF Succeeds
<1>8. QueueOrdered'
  BY <1>1, <1>3, <1>5, <1>7, PushKeepsOrder
<1> QED BY <1>3, <1>6, <1>8 DEF AuditionInv, SequenceFollows

\* Steps that neither queue nor take a command, and leave the sequence or give it up.
LEMMA QuietKeeps ==
  ASSUME AuditionInv,
         UNCHANGED <<epoch, previewEpoch, requests, asked, commands, started, silenced>>,
         pendingEpoch' \in Nat, UNCHANGED <<sequence, index>> \/ sequence' = <<>>
  PROVE  AuditionInv'
<1>1. AuditionTyped'
  BY DEF AuditionInv, AuditionTyped
<1>2. QueueOrdered'
  BY DEF AuditionInv, QueueOrdered
<1>3. CASE UNCHANGED <<sequence, index>>
  <2>1. Present' = Present
    BY <1>3 DEF Present
  <2>2. SequenceFollows'
    BY <1>3, <2>1 DEF AuditionInv, SequenceFollows
  <2> QED BY <1>1, <1>2, <2>2 DEF AuditionInv
<1>4. CASE sequence' = <<>>
  BY <1>1, <1>2, <1>4 DEF AuditionInv, SequenceFollows
<1> QED BY <1>3, <1>4

\* The stop of a preview is of no request, and passes everything.
LEMMA PreviewKeeps ==
  ASSUME AuditionInv, StopPreview
  PROVE  AuditionInv'
<1>1. /\ epoch \in Nat /\ previewEpoch \in Nat /\ requests \in Nat /\ asked \in 0 .. requests
      /\ silenced \in 0 .. requests /\ AuditionTyped /\ QueueOrdered
  BY DEF AuditionInv, AuditionTyped
<1>2. PICK e, r : e = previewEpoch + 1 /\ r = requests + 1
  OBVIOUS
<1>3. /\ requests' = r /\ previewEpoch' = e /\ Push(Stop(e, 0))
      /\ UNCHANGED <<sequence, index, epoch, asked, pendingEpoch, started, silenced>>
  BY <1>2 DEF StopPreview, Request, controller, player
<1>4. PICK c : c = [type |-> "stop", epoch |-> e, request |-> 0, slice |-> 0]
  OBVIOUS
<1>5. /\ c \in Commands /\ Push(c) /\ c.type # "start" /\ c.request = 0
      /\ r \in Nat /\ e \in Nat /\ r > requests
  <2>1. r \in Nat /\ e \in Nat \ {0} /\ r > requests
    BY <1>1, <1>2
  <2> QED BY <1>3, <1>4, <2>1 DEF Commands, Stop
<1>6. AuditionTyped'
  BY <1>1, <1>3, <1>5, PushKeepsTypes
<1>7. \A i \in 1 .. Len(commands) : Succeeds(commands[i], c)
  BY <1>5 DEF Succeeds
<1>8. QueueOrdered'
  BY <1>1, <1>3, <1>5, <1>7, PushKeepsOrder
<1>9. SequenceFollows'
  <2> SUFFICES ASSUME sequence # <<>>
               PROVE  /\ Ascending(sequence) /\ index \in 1 .. Len(sequence)
                      /\ silenced < asked /\ ~Follows(started, Present)
                      /\ \A i \in 1 .. Len(commands') : Passed(commands'[i], Present)
    BY <1>3 DEF SequenceFollows, Present
  <2>1. PICK p : p = Present
    OBVIOUS
  <2>2. /\ Ascending(sequence) /\ index \in 1 .. Len(sequence)
        /\ silenced < asked /\ ~Follows(started, p)
        /\ \A i \in 1 .. Len(commands) : Passed(commands[i], p)
    BY <2>1 DEF AuditionInv, SequenceFollows
  <2>3. Passed(c, p)
    BY <1>1, <1>5, <2>1, <2>2 DEF Passed, Present
  <2>4. \A i \in 1 .. Len(commands') : Passed(commands'[i], p)
    BY <1>1, <1>5, <2>2, <2>3, PushPasses
  <2> QED BY <2>1, <2>2, <2>4
<1> QED BY <1>6, <1>8, <1>9 DEF AuditionInv

\* A device that starts again finds the queue empty.
LEMMA RestartKeeps ==
  ASSUME AuditionInv, RestartDevice
  PROVE  AuditionInv'
<1>1. /\ commands' = <<>> /\ requests' = requests + 1
      /\ UNCHANGED <<sequence, index, epoch, previewEpoch, asked, pendingEpoch, started, silenced>>
  BY DEF RestartDevice, Request, controller
<1>2. commands' \in Seq(Commands) /\ Len(commands') = 0
  BY <1>1, EmptySeq
<1>3. AuditionTyped'
  <2>1. /\ epoch \in Nat /\ previewEpoch \in Nat /\ pendingEpoch \in Nat /\ requests \in Nat
        /\ asked \in 0 .. requests /\ silenced \in 0 .. requests
        /\ started \in [request : 0 .. asked, slice : Nat]
    BY DEF AuditionInv, AuditionTyped
  <2>2. requests' \in Nat /\ asked' \in 0 .. requests' /\ silenced' \in 0 .. requests'
    BY <1>1, <2>1
  <2>3. \A i \in 1 .. Len(commands') :
          commands'[i].request <= IF commands'[i].type = "start" THEN asked' ELSE requests'
    BY <1>2
  <2> QED BY <1>1, <1>2, <2>1, <2>2, <2>3 DEF AuditionTyped
<1>4. QueueOrdered'
  BY <1>2 DEF QueueOrdered
<1>5. SequenceFollows'
  BY <1>1, <1>2 DEF AuditionInv, SequenceFollows, Present
<1> QED BY <1>3, <1>4, <1>5 DEF AuditionInv

\* The tick asks for the next slice of the sequence, or gives it up.
LEMMA AdvanceKeeps ==
  ASSUME AuditionInv, ServiceAdvances
  PROVE  AuditionInv'
<1>1. /\ epoch \in Nat /\ previewEpoch \in Nat /\ requests \in Nat /\ asked \in 0 .. requests
      /\ silenced \in 0 .. requests /\ started \in [request : 0 .. asked, slice : Nat]
      /\ pendingEpoch \in Nat /\ AuditionTyped /\ QueueOrdered
  BY DEF AuditionInv, AuditionTyped
<1>2. UNCHANGED <<previewEpoch, requests, asked, pendingEpoch, started, silenced>>
  BY DEF ServiceAdvances, player
<1>3. CASE Len(sequence) <= 1 \/ index + 1 > Len(sequence)
  <2>1. sequence' = <<>> /\ UNCHANGED <<epoch, commands>>
    BY <1>3 DEF ServiceAdvances, Retire
  <2> QED BY <1>1, <1>2, <2>1, QuietKeeps
<1>4. CASE ~(Len(sequence) <= 1 \/ index + 1 > Len(sequence))
  <2>1. PICK e, n, next : e = epoch + 1 /\ n = index + 1 /\ next = sequence[n]
    OBVIOUS
  <2>2. /\ index' = n /\ epoch' = e /\ Push(Start(next, e, asked))
        /\ (sequence' = sequence \/ sequence' = <<>>)
    BY <1>4, <2>1 DEF ServiceAdvances, Retire
  <2>3. sequence # <<>>
    BY <1>4, EmptySeq
  <2>4. PICK now : now = sequence[index]
    OBVIOUS
  <2>5. PICK p : p = [request |-> asked, slice |-> now]
    OBVIOUS
  <2>6. /\ sequence \in Seq(Nat) /\ index \in 1 .. Len(sequence)
        /\ \A i, j \in 1 .. Len(sequence) : i < j => sequence[i] < sequence[j]
        /\ silenced < asked /\ ~Follows(started, p)
        /\ \A i \in 1 .. Len(commands) : Passed(commands[i], p)
    BY <2>3, <2>4, <2>5 DEF AuditionInv, SequenceFollows, Ascending, Present
  <2>7. Len(sequence) \in Nat /\ n \in 1 .. Len(sequence) /\ index < n
    <3>1. Len(sequence) \in Nat
      BY <2>6, LenProperties
    <3>2. index \in Nat /\ 1 <= index /\ index + 1 <= Len(sequence)
      BY <1>4, <2>6, <3>1
    <3> QED BY <2>1, <3>1, <3>2
  <2>8. now \in Nat /\ next \in Nat /\ now < next
    <3>1. now \in Nat /\ next \in Nat
      BY <2>1, <2>4, <2>6, <2>7, ElementOfSeq
    <3> QED BY <2>1, <2>4, <2>6, <2>7, <3>1
  <2>9. PICK c : c = [type |-> "start", epoch |-> e, request |-> asked, slice |-> next]
    OBVIOUS
  <2>10. /\ c \in Commands /\ Push(c) /\ c.type = "start" /\ c.request = asked
         /\ c.slice = next /\ e \in Nat
    <3>1. asked \in Nat /\ e \in Nat \ {0}
      BY <1>1, <2>1
    <3> QED BY <2>2, <2>8, <2>9, <3>1 DEF Commands, Start
  <2>11. AuditionTyped'
    BY <1>1, <1>2, <2>2, <2>10, PushKeepsTypes
  <2>12. \A i \in 1 .. Len(commands) : Succeeds(commands[i], c)
    <3> SUFFICES ASSUME NEW i \in 1 .. Len(commands) PROVE Succeeds(commands[i], c)
      OBVIOUS
    <3>1. /\ commands[i].request \in Nat /\ commands[i].slice \in Nat
          /\ commands[i].type = "start" => commands[i].request <= asked
      BY <1>1, WaitingTyped
    <3>2. Passed(commands[i], p)
      BY <2>6
    <3> QED BY <1>1, <2>5, <2>8, <2>10, <3>1, <3>2 DEF Succeeds, Passed, Follows
  <2>13. Follows(c, started) /\ c.request > silenced
    BY <1>1, <2>5, <2>6, <2>8, <2>10 DEF Follows
  <2>14. QueueOrdered'
    BY <1>1, <1>2, <2>10, <2>12, <2>13, PushKeepsOrder
  <2>15. CASE sequence' = <<>>
    BY <2>11, <2>14, <2>15 DEF AuditionInv, SequenceFollows
  <2>16. CASE sequence' = sequence
    <3>1. PICK q : q = [request |-> asked, slice |-> next]
      OBVIOUS
    <3>2. Present' = q
      BY <1>2, <2>1, <2>2, <2>16, <3>1 DEF Present
    <3>3. \A i \in 1 .. Len(commands) : Passed(commands[i], q)
      <4> SUFFICES ASSUME NEW i \in 1 .. Len(commands) PROVE Passed(commands[i], q)
        OBVIOUS
      <4>1. commands[i].request \in Nat /\ commands[i].slice \in Nat
        BY <1>1, WaitingTyped
      <4>2. Passed(commands[i], p)
        BY <2>6
      <4> QED BY <1>1, <2>5, <2>8, <3>1, <4>1, <4>2 DEF Passed, Follows
    <3>4. Passed(c, q)
      BY <1>1, <2>8, <2>10, <3>1 DEF Passed, Follows
    <3>5. \A i \in 1 .. Len(commands') : Passed(commands'[i], q)
      BY <1>1, <2>10, <3>3, <3>4, PushPasses
    <3>6. ~Follows(started', q)
      BY <1>1, <1>2, <2>5, <2>6, <2>8, <3>1 DEF Follows
    <3>7. Ascending(sequence') /\ index' \in 1 .. Len(sequence') /\ silenced' < asked'
      BY <1>2, <2>2, <2>3, <2>6, <2>7, <2>16 DEF Ascending
    <3>8. SequenceFollows'
      BY <3>2, <3>5, <3>6, <3>7 DEF SequenceFollows
    <3> QED BY <2>11, <2>14, <3>8 DEF AuditionInv
  <2> QED BY <2>2, <2>15, <2>16
<1> QED BY <1>3, <1>4

\* What the player takes is the first that waits.
LEMMA PopTakes ==
  ASSUME AuditionInv, PlayerPops
  PROVE  /\ Head(commands) = commands[1] /\ 1 \in 1 .. Len(commands) /\ Len(commands) \in Nat
         /\ commands' \in Seq(Commands) /\ Len(commands') = Len(commands) - 1
         /\ \A i \in 1 .. Len(commands') :
              i + 1 \in 1 .. Len(commands) /\ commands'[i] = commands[i + 1]
<1>1. commands \in Seq(Commands) /\ commands # <<>> /\ commands' = Tail(commands)
  BY DEF PlayerPops, AuditionInv, AuditionTyped
<1>2. Len(commands) \in Nat \ {0}
  BY <1>1, EmptySeq, LenProperties
<1>3. Head(commands) = commands[1]
  BY <1>1, HeadTailProperties
<1>4. commands' \in Seq(Commands) /\ Len(commands') = Len(commands) - 1
      /\ \A i \in 1 .. Len(commands') : commands'[i] = commands[i + 1]
  BY <1>1, HeadTailProperties
<1> QED BY <1>2, <1>3, <1>4

\* What it takes was before all that waits.
LEMMA PopKeeps ==
  ASSUME AuditionInv, PlayerPops
  PROVE  AuditionInv'
<1>1. /\ epoch \in Nat /\ previewEpoch \in Nat /\ requests \in Nat /\ asked \in 0 .. requests
      /\ silenced \in 0 .. requests /\ started \in [request : 0 .. asked, slice : Nat]
      /\ AuditionTyped /\ QueueOrdered
  BY DEF AuditionInv, AuditionTyped
<1>2. PICK c : c = commands[1]
  OBVIOUS
<1>3. /\ UNCHANGED <<sequence, index, epoch, previewEpoch, requests, asked>>
      /\ started' = IF c.type = "start" THEN [request |-> c.request, slice |-> c.slice] ELSE started
      /\ silenced' = IF c.type = "stop" /\ c.request > 0 THEN c.request ELSE silenced
      /\ pendingEpoch' = c.epoch
  BY <1>2, PopTakes DEF PlayerPops, controller
<1>4. /\ c \in Commands /\ c.request \in 0 .. requests /\ c.slice \in Nat /\ c.epoch \in Nat
      /\ c.type = "start" => c.request <= asked
  BY <1>1, <1>2, PopTakes, WaitingTyped
<1>5. PICK n \in Nat : n = Len(commands)
  BY PopTakes
<1>6. /\ 1 \in 1 .. n /\ commands' \in Seq(Commands) /\ Len(commands') = n - 1
      /\ \A i \in 1 .. n - 1 : i + 1 \in 1 .. n /\ commands'[i] = commands[i + 1]
  BY <1>5, PopTakes
<1>7. started' \in [request : 0 .. asked, slice : Nat] /\ silenced' \in 0 .. requests
  BY <1>1, <1>3, <1>4
<1>8. ASSUME NEW i \in 1 .. n - 1
      PROVE  commands'[i].request <= IF commands'[i].type = "start" THEN asked' ELSE requests'
  <2>1. i + 1 \in 1 .. n /\ commands'[i] = commands[i + 1]
    BY <1>6
  <2> QED BY <1>1, <1>3, <1>5, <2>1 DEF AuditionTyped
<1>9. AuditionTyped'
  BY <1>1, <1>3, <1>4, <1>6, <1>7, <1>8 DEF AuditionTyped
<1>10. ASSUME NEW i \in 1 .. n - 1, NEW j \in 1 .. n - 1, i < j
       PROVE  Succeeds(commands'[i], commands'[j])
  <2>1. /\ i + 1 \in 1 .. n /\ commands'[i] = commands[i + 1] /\ i + 1 < j + 1
        /\ j + 1 \in 1 .. n /\ commands'[j] = commands[j + 1]
    BY <1>6, <1>10
  <2> QED BY <1>1, <1>5, <2>1 DEF QueueOrdered
<1>11. ASSUME NEW i \in 1 .. n - 1, commands'[i].type = "start"
       PROVE  Follows(commands'[i], started') /\ commands'[i].request > silenced'
  <2>1. PICK d : d = commands'[i]
    OBVIOUS
  <2>2. i + 1 \in 1 .. n /\ d = commands[i + 1] /\ 1 < i + 1
    BY <1>6, <2>1
  <2>3. Succeeds(c, d) /\ Follows(d, started) /\ d.request > silenced /\ d.type = "start"
    BY <1>1, <1>2, <1>5, <1>6, <1>11, <2>1, <2>2 DEF QueueOrdered
  <2>4. CASE c.type = "start"
    BY <1>3, <2>1, <2>3, <2>4 DEF Succeeds, Follows
  <2>5. CASE c.type # "start"
    BY <1>3, <2>1, <2>3, <2>5 DEF Succeeds
  <2> QED BY <2>4, <2>5
<1>12. QueueOrdered'
  BY <1>6, <1>10, <1>11 DEF QueueOrdered
<1>13. SequenceFollows'
  <2> SUFFICES ASSUME sequence # <<>>
               PROVE  /\ Ascending(sequence) /\ index \in 1 .. Len(sequence)
                      /\ silenced' < asked /\ ~Follows(started', Present)
                      /\ \A i \in 1 .. n - 1 : Passed(commands'[i], Present)
    BY <1>3, <1>6 DEF SequenceFollows, Present
  <2>1. PICK p : p = Present
    OBVIOUS
  <2>2. /\ Ascending(sequence) /\ index \in 1 .. Len(sequence)
        /\ silenced < asked /\ ~Follows(started, p)
        /\ \A i \in 1 .. n : Passed(commands[i], p)
    BY <1>5, <2>1 DEF AuditionInv, SequenceFollows
  <2>3. Passed(c, p) /\ p.request = asked
    BY <1>2, <1>6, <2>1, <2>2 DEF Present
  <2>4. silenced' < asked
    BY <1>3, <2>2, <2>3 DEF Passed
  <2>5. ~Follows(started', p)
    BY <1>3, <2>2, <2>3 DEF Passed, Follows
  <2>6. \A i \in 1 .. n - 1 : Passed(commands'[i], p)
    BY <1>6, <2>2
  <2> QED BY <2>1, <2>2, <2>4, <2>5, <2>6
<1> QED BY <1>9, <1>12, <1>13 DEF AuditionInv

\* The slices of a request, one or all of them, ascend.
LEMMA RequestsAscend ==
  /\ Ascending([i \in Slices |-> i])
  /\ \A slice \in Slices : Ascending(<<slice>>)
<1>1. PICK n \in Nat \ {0} : n = SliceCount
  BY AuditionAssumption
<1>2. PICK all : all = [i \in 1 .. n |-> i]
  OBVIOUS
<1>3. all \in Seq(Nat) /\ Len(all) = n /\ all # <<>>
  <2>1. all \in [1 .. n -> Nat]
    BY <1>2
  <2>2. all \in Seq(Nat) /\ Len(all) = n
    BY <1>2, <2>1, IsASeq, LenProperties
  <2> QED BY <2>2, EmptySeq
<1>4. Ascending(all)
  BY <1>2, <1>3 DEF Ascending
<1>5. ASSUME NEW slice \in Slices PROVE Ascending(<<slice>>)
  <2>1. slice \in Nat
    BY <1>1, <1>5 DEF Slices
  <2>2. PICK one : one = <<slice>>
    OBVIOUS
  <2>3. one \in Seq(Nat) /\ Len(one) = 1 /\ one # <<>>
    BY <2>1, <2>2
  <2> QED BY <2>2, <2>3 DEF Ascending
<1> QED BY <1>1, <1>2, <1>4, <1>5 DEF Slices

\* Every step keeps the invariant.
LEMMA AuditionNext ==
  ASSUME AuditionInv, [Next]_vars
  PROVE  AuditionInv'
<1>1. pendingEpoch \in Nat
  BY DEF AuditionInv, AuditionTyped
<1>2. CASE UNCHANGED vars
  <2>1. UNCHANGED <<sequence, index, epoch, previewEpoch, requests, asked, commands, pendingEpoch,
                    started, silenced>>
    BY <1>2 DEF vars, controller, player
  <2> QED BY <1>1, <2>1, QuietKeeps
<1>3. CASE User
  <2>1. ASSUME NEW slice \in Slices, StartSequence(<<slice>>) PROVE AuditionInv'
    <3>1. PICK slices : slices = <<slice>>
      OBVIOUS
    <3> QED BY <2>1, <3>1, RequestsAscend, StartKeeps
  <2>2. CASE StartSequence([i \in Slices |-> i])
    <3>1. PICK slices : slices = [i \in Slices |-> i]
      OBVIOUS
    <3> QED BY <2>2, <3>1, RequestsAscend, StartKeeps
  <2> QED BY <1>3, <2>1, <2>2, StopKeeps, PreviewKeeps, RestartKeeps DEF User
<1>4. CASE ServiceCollects \/ ServiceLooks
  <2>1. UNCHANGED <<sequence, index, epoch, previewEpoch, requests, asked, commands, pendingEpoch,
                    started, silenced>>
    BY <1>4 DEF ServiceCollects, ServiceLooks, controller, player
  <2> QED BY <1>1, <2>1, QuietKeeps
<1>5. CASE PlayerAcknowledges \/ PlayerEnds
  <2>1. pendingEpoch' \in Nat
    BY <1>1, <1>5 DEF PlayerAcknowledges, PlayerEnds, AuditionInv, AuditionTyped
  <2> QED BY <1>5, <2>1, QuietKeeps DEF PlayerAcknowledges, PlayerEnds, controller
<1> QED BY <1>2, <1>3, <1>4, <1>5, AdvanceKeeps, PopKeeps DEF Next, Service, AudioThread

\* A start of the player is of the first command that waits.
LEMMA StartsFollow ==
  ASSUME AuditionInv, [Next]_vars, Starts
  PROVE  Follows(started', started) /\ started'.request > silenced
<1>1. PlayerPops
  <2>1. pendingEpoch = 0 /\ pendingEpoch' # 0
    BY DEF Starts
  <2>2. ~(UNCHANGED vars)
    BY <2>1 DEF vars, player
  <2>3. ~User
    BY <2>1 DEF User, StartSequence, StopAudition, StopPreview, RestartDevice, player
  <2>4. ~Service
    BY <2>1 DEF Service, ServiceCollects, ServiceLooks, ServiceAdvances, player
  <2>5. ~PlayerAcknowledges /\ ~PlayerEnds
    BY <2>1 DEF PlayerAcknowledges, PlayerEnds
  <2> QED BY <2>2, <2>3, <2>4, <2>5 DEF Next, AudioThread
<1>2. PICK c : c = commands[1]
  OBVIOUS
<1>3. c.type = "start" /\ Head(commands) = c /\ 1 \in 1 .. Len(commands)
  BY <1>1, <1>2, PopTakes DEF Starts
<1>4. started'.request = c.request /\ started'.slice = c.slice
  <2>1. started' = [request |-> c.request, slice |-> c.slice]
    BY <1>1, <1>3 DEF PlayerPops
  <2> QED BY <2>1
<1>5. Follows(c, started) /\ c.request > silenced
  BY <1>2, <1>3 DEF AuditionInv, QueueOrdered
<1> QED BY <1>4, <1>5 DEF Follows

\* Slices of a sequence start in ascending order, none twice, wherever the timer's ticks fall
\* between the blocks of the audio thread, and never a slice of an earlier request after one
\* of a later request.
THEOREM AuditionsInOrder == Spec => SlicesInOrder
<1>1. Init => AuditionInv
  BY AuditionInit
<1>2. AuditionInv /\ [Next]_vars => AuditionInv'
  BY AuditionNext
<1>3. AuditionInv /\ [Next]_vars =>
        [Starts =>
           \/ started'.request > started.request
           \/ started'.request = started.request /\ started'.slice > started.slice]_vars
  BY StartsFollow DEF Follows
<1> QED BY <1>1, <1>2, <1>3, PTL DEF Spec, SlicesInOrder

\* Once the player has taken a stop, no slice starts that was requested before it: a tick
\* cannot bring the stopped sequence back.
THEOREM AuditionStopsAreFinal == Spec => StopIsFinal
<1>1. Init => AuditionInv
  BY AuditionInit
<1>2. AuditionInv /\ [Next]_vars => AuditionInv'
  BY AuditionNext
<1>3. AuditionInv /\ [Next]_vars =>
        [Starts => started'.request > silenced]_vars
  BY StartsFollow
<1> QED BY <1>1, <1>2, <1>3, PTL DEF Spec, StopIsFinal
=============================================================================

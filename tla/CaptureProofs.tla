---------------------------- MODULE CaptureProofs ----------------------------
(***************************************************************************)
(* TLAPS proofs about CaptureSession, for every number and size of blocks, *)
(* every size of the pre-roll and every number of frames delivered: no     *)
(* block is lost or shared, what is published has no hole, and a stop is   *)
(* not undone.                                                             *)
(***************************************************************************)
EXTENDS CaptureSession, SequenceTheorems, TLAPS

-----------------------------------------------------------------------------
(* Runs of frames.                                                         *)

Frames == Seq(Nat)

\* s holds consecutive frames, and the last of them is the frame `last'.
Ends(s, last) == \A i \in 1 .. Len(s) : s[i] = last - Len(s) + i

\* s stands in the accepted frames from behind position k on.
Matches(s, k) ==
  k + Len(s) <= Len(accepted) /\ \A j \in 1 .. Len(s) : s[j] = accepted[k + j]

\* s is a beginning of the take, frame by frame.
Run(s) == \A i \in 1 .. Len(s) : s[i] = accepted[1] + i - 1

\* What SubSeq() takes out of a run.
LEMMA PartOfFrames ==
  ASSUME NEW s \in Frames, NEW m \in 1 .. Len(s) + 1, NEW n \in m - 1 .. Len(s)
  PROVE  /\ SubSeq(s, m, n) \in Frames
         /\ Len(SubSeq(s, m, n)) = n - m + 1
         /\ \A i \in 1 .. n - m + 1 : SubSeq(s, m, n)[i] = s[m + i - 1]
<1>1. /\ Len(s) \in Nat /\ m \in Int /\ n \in Int /\ m <= n + 1
      /\ \A i \in m .. n : s[i] \in Nat
  BY LenProperties, ElementOfSeq DEF Frames
<1>2. /\ SubSeq(s, m, n) \in Frames
      /\ Len(SubSeq(s, m, n)) = IF m <= n THEN n - m + 1 ELSE 0
      /\ \A i \in 1 .. n - m + 1 : SubSeq(s, m, n)[i] = s[m + i - 1]
  BY <1>1, SubSeqProperties, SMT DEF Frames
<1> QED BY <1>1, <1>2

\* A run and the frames that follow it are one run.
LEMMA JoinedFrames ==
  ASSUME NEW s \in Frames, NEW t \in Frames, NEW d \in Int,
         Ends(s, d), Ends(t, d + Len(t))
  PROVE  s \o t \in Frames /\ Len(s \o t) = Len(s) + Len(t) /\ Ends(s \o t, d + Len(t))
<1>1. /\ Len(s) \in Nat /\ Len(t) \in Nat
      /\ s \o t \in Frames /\ Len(s \o t) = Len(s) + Len(t)
      /\ \A i \in 1 .. Len(s) + Len(t) :
           (s \o t)[i] = IF i <= Len(s) THEN s[i] ELSE t[i - Len(s)]
  BY ConcatProperties, LenProperties DEF Frames
<1>2. ASSUME NEW i \in 1 .. Len(s) + Len(t)
      PROVE  (s \o t)[i] = d + Len(t) - (Len(s) + Len(t)) + i
  <2>1. CASE i <= Len(s)
    <3>1. i \in 1 .. Len(s)
      BY <1>1, <2>1
    <3>2. s[i] = d - Len(s) + i
      BY <3>1 DEF Ends
    <3> QED BY <1>1, <2>1, <3>2
  <2>2. CASE ~ (i <= Len(s))
    <3>1. i - Len(s) \in 1 .. Len(t)
      BY <1>1, <2>2
    <3>2. t[i - Len(s)] = d + Len(t) - Len(t) + (i - Len(s))
      BY <3>1 DEF Ends
    <3> QED BY <1>1, <2>2, <3>2
  <2> QED BY <2>1, <2>2
<1> QED BY <1>1, <1>2 DEF Ends

\* The two parts of a sequence of frames that is cut.
LEMMA CutInTwo ==
  ASSUME NEW s \in Frames, NEW k \in 0 .. Len(s)
  PROVE  LET front == SubSeq(s, 1, k)
             back  == SubSeq(s, k + 1, Len(s))
         IN  /\ front \in Frames /\ back \in Frames
             /\ Len(front) = k /\ Len(back) = Len(s) - k
             /\ \A i \in 1 .. k : front[i] = s[i]
             /\ \A i \in 1 .. Len(s) - k : back[i] = s[k + i]
<1> DEFINE n == Len(s)
           front == SubSeq(s, 1, k)
           back  == SubSeq(s, k + 1, n)
<1>1. n \in Nat /\ k \in 0 .. n
  BY LenProperties DEF Frames
<1>2. /\ front \in Frames /\ Len(front) = k
      /\ \A i \in 1 .. k : front[i] = s[i]
  <2>1. 1 \in 1 .. n + 1 /\ k \in 1 - 1 .. n
    BY <1>1
  <2>2. /\ front \in Frames /\ Len(front) = k - 1 + 1
        /\ \A i \in 1 .. k - 1 + 1 : front[i] = s[1 + i - 1]
    BY <2>1, PartOfFrames
  <2> HIDE DEF front
  <2> QED BY <1>1, <2>2
<1>3. /\ back \in Frames /\ Len(back) = n - k
      /\ \A i \in 1 .. n - k : back[i] = s[k + i]
  <2>1. k + 1 \in 1 .. n + 1 /\ n \in (k + 1) - 1 .. n
    BY <1>1
  <2>2. /\ back \in Frames /\ Len(back) = n - (k + 1) + 1
        /\ \A i \in 1 .. n - (k + 1) + 1 : back[i] = s[(k + 1) + i - 1]
    BY <2>1, PartOfFrames
  <2> HIDE DEF back
  <2> QED BY <1>1, <2>2
<1> QED BY <1>2, <1>3

\* The two parts of a run that is cut are runs.
LEMMA CutFrames ==
  ASSUME NEW s \in Frames, NEW d \in Int, Ends(s, d), NEW k \in 0 .. Len(s)
  PROVE  /\ Ends(SubSeq(s, 1, k), d - (Len(s) - k))
         /\ Ends(SubSeq(s, k + 1, Len(s)), d)
<1> DEFINE front == SubSeq(s, 1, k)
           back  == SubSeq(s, k + 1, Len(s))
<1>1. /\ Len(s) \in Nat /\ k \in 0 .. Len(s)
      /\ \A i \in 1 .. Len(s) : s[i] = d - Len(s) + i
  BY LenProperties DEF Frames, Ends
<1>2. /\ Len(front) = k /\ Len(back) = Len(s) - k
      /\ \A i \in 1 .. k : front[i] = s[i]
      /\ \A i \in 1 .. Len(s) - k : back[i] = s[k + i]
  BY CutInTwo
<1> HIDE DEF front, back
<1>3. Ends(front, d - (Len(s) - k)) /\ Ends(back, d)
  BY <1>1, <1>2 DEF Ends
<1> QED BY <1>3 DEF front, back

\* The ring of the pre-roll holds the end of the frames that went through it.
LEMMA PreRollAppended ==
  ASSUME PreRollFrames \in Nat, preRoll \in Frames, NEW s \in Frames
  PROVE  /\ AppendPreRoll(s) \in Frames
         /\ \A d \in Int : Ends(preRoll, d) /\ Ends(s, d + Len(s)) =>
                             Ends(AppendPreRoll(s), d + Len(s))
<1> DEFINE all == preRoll \o s
           cut == Len(all) - Least(Len(all), PreRollFrames)
<1>1. AppendPreRoll(s) = SubSeq(all, cut + 1, Len(all))
  BY DEF AppendPreRoll
<1>2. all \in Frames /\ Len(all) \in Nat /\ Len(s) \in Nat
  BY ConcatProperties, LenProperties DEF Frames
<1>3. cut \in 0 .. Len(all)
  <2> HIDE DEF all
  <2> QED BY <1>2 DEF Least
<1>4. AppendPreRoll(s) \in Frames
  <2> HIDE DEF all, cut
  <2>1. cut + 1 \in 1 .. Len(all) + 1 /\ Len(all) \in (cut + 1) - 1 .. Len(all)
    BY <1>2, <1>3
  <2> QED BY <1>1, <1>2, <2>1, PartOfFrames
<1>5. ASSUME NEW d \in Int, Ends(preRoll, d), Ends(s, d + Len(s))
      PROVE  Ends(AppendPreRoll(s), d + Len(s))
  <2>1. Ends(all, d + Len(s)) /\ d + Len(s) \in Int
    BY <1>2, <1>5, JoinedFrames
  <2> HIDE DEF all, cut
  <2> QED BY <1>1, <1>2, <1>3, <2>1, CutFrames
<1> QED BY <1>4, <1>5

\* The next block takes a first part of a run, and the rest stays.
LEMMA ChunkedFrames ==
  ASSUME FramesPerBlock \in Nat, NEW s \in Frames
  PROVE  /\ Chunk(s) \in Frames /\ Rest(s) \in Frames
         /\ Len(Chunk(s)) + Len(Rest(s)) = Len(s)
         /\ \A d \in Int : Ends(s, d) => Ends(Chunk(s), d - Len(Rest(s))) /\ Ends(Rest(s), d)
<1> DEFINE k == Least(Len(s), FramesPerBlock)
<1>1. Len(s) \in Nat /\ k \in 0 .. Len(s)
  BY LenProperties DEF Frames, Least
<1>2. Chunk(s) = SubSeq(s, 1, k) /\ Rest(s) = SubSeq(s, k + 1, Len(s))
  BY DEF Chunk, Rest
<1> HIDE DEF k
<1>3. /\ Chunk(s) \in Frames /\ Len(Chunk(s)) = k
      /\ Rest(s) \in Frames /\ Len(Rest(s)) = Len(s) - k
  BY <1>1, <1>2, CutInTwo
<1>4. Len(Chunk(s)) + Len(Rest(s)) = Len(s)
  BY <1>1, <1>3
<1>5. \A d \in Int : Ends(s, d) => Ends(Chunk(s), d - (Len(s) - k)) /\ Ends(Rest(s), d)
  BY <1>1, <1>2, CutFrames
<1> QED BY <1>3, <1>4, <1>5

\* The frames of a callback come behind those delivered before.
LEMMA NewFramesEnd ==
  ASSUME delivered \in Nat, NEW n \in Nat
  PROVE  NewFrames(n) \in Frames /\ Len(NewFrames(n)) = n /\ Ends(NewFrames(n), delivered + n)
  BY DEF NewFrames, Frames, Ends

-----------------------------------------------------------------------------
(* The inductive invariant.                                                *)

Descriptor == [block : Blocks, frames : Frames]

\* What each variable holds.
CaptureTypes ==
  /\ mode \in {"manual", "threshold"}
  /\ state \in Capturing \union {"idle", "stopping", "finalizing", "completed", "failed",
                                 "cancelled"}
  /\ incomplete \in BOOLEAN
  /\ free \in Seq(Blocks) /\ ready \in Seq(Descriptor)
  /\ preRoll \in Frames /\ accepted \in Frames /\ cbPre \in Frames /\ cbLive \in Frames
  /\ delivered \in Nat /\ framesWritten \in Nat
  /\ temp \in Frames \union {Nothing} /\ final \in Frames \union {Nothing}
  /\ cbBlock \in Blocks \union {Nothing} /\ wBlock \in Descriptor \union {Nothing}

\* A thread holds a block between the two steps that need it, and at no other time.
Hands ==
  /\ cbPc = "commit" <=> cbBlock # Nothing
  /\ wPc = "write" <=> wBlock # Nothing

\* Who can be where in which state.  Nothing is captured before the session is armed, and
\* no callback that saw an earlier state is still at work when frames are accepted.
Phases ==
  /\ uiPc = "prepare" =>
       /\ state \in {"idle", "failed"} /\ devPc # "cancelStore" /\ cbPc = "out"
       /\ preRoll = <<>> /\ accepted = <<>> /\ ready = <<>> /\ framesWritten = 0
       /\ wPc \in {"open", "load", "pop", "done"} /\ wState # "stopping"
       /\ state = "failed" => wPc = "done"
  /\ wPc = "open" => uiPc = "prepare"
  /\ state \in {"armed", "waitingForThreshold"} =>
       accepted = <<>> /\ cbPc \notin {"acquire", "commit"}
  /\ mode = "threshold" => state # "armed"
  /\ mode = "manual" => cbPc # "scan" /\ state # "waitingForThreshold"
  /\ cbPc = "scan" => state # "recording"

\* The callback's runs of frames lead up to the last frame delivered, and the pre-roll
\* leads up to them while it may still be flushed.
Input ==
  /\ cbPc \notin {"activate", "reload", "scan", "acquire", "commit"} => cbLive = <<>>
  /\ cbPc \notin {"acquire", "commit"} => cbPre = <<>>
  /\ Ends(cbLive, delivered) /\ Ends(cbPre, delivered - Len(cbLive))
  /\ state = "waitingForThreshold" => Ends(preRoll, delivered - Len(cbLive))

\* Until a block is missing the take has no hole, and what a recording callback still
\* holds continues it.
Gapless ==
  ~ incomplete =>
    /\ Run(accepted)
    /\ state = "recording" \/ cbPc \in {"acquire", "commit"} =>
         Ends(accepted, delivered - Len(cbLive) - Len(cbPre))

\* The frames of the block the writer has popped.
InHand == IF wPc = "write" THEN wBlock.frames ELSE <<>>

\* from[i] frames were accepted before the i-th ready block; the first of these blocks
\* continues what is written and in hand, and the last ends the take.
Offsets(from) ==
  /\ from[1] = Len(temp) + Len(InHand) /\ from[Len(ready) + 1] = Len(accepted)
  /\ \A i \in 1 .. Len(ready) :
       from[i + 1] = from[i] + Len(ready[i].frames) /\ Matches(ready[i].frames, from[i])

\* The file, the block in hand and the ready blocks are the take, cut into parts.
Written ==
  wPc \in {"load", "pop", "write", "look", "finalize", "check"} =>
    /\ temp # Nothing /\ framesWritten = Len(temp)
    /\ Matches(temp, 0) /\ Matches(InHand, Len(temp))
    /\ \E from \in [1 .. Len(ready) + 1 -> 0 .. Len(accepted)] : Offsets(from)

\* A file without a hole.
Good(file) == file # <<>> /\ Len(file) <= Len(accepted) /\ Run(file)

\* Only a good file is published, and only a published one completes the session.
Files ==
  /\ wPc = "publish" => temp # Nothing /\ Good(temp)
  /\ final # Nothing => Good(final)
  /\ wPc = "complete" => final # Nothing
  /\ wPc \in {"open", "reject", "complete", "done"} => temp = Nothing
  /\ state = "completed" => final # Nothing

CaptureInv ==
  /\ CaptureTypes /\ Hands /\ Phases /\ Input /\ Gapless /\ Written /\ Files
  /\ BlockConservation

-----------------------------------------------------------------------------
(* Each part of it is kept by every step.                                  *)

\* The constants, as the lemmas use them.
LEMMA CaptureConstants ==
  /\ BlockCount \in Nat /\ FramesPerBlock \in Nat /\ PreRollFrames \in Nat
  /\ MaxCallbackFrames \in Nat
  /\ Nothing \notin Blocks /\ Nothing \notin Frames /\ Nothing \notin Descriptor
<1>1. Descriptor \subseteq [block : Nat, frames : Seq(Nat)]
  BY CaptureAssumption DEF Descriptor, Blocks, Frames
<1> QED BY <1>1, CaptureAssumption DEF Blocks, Frames

\* Every variable keeps its type.
LEMMA CaptureTypesKept ==
  ASSUME CaptureTypes, Hands, Written, [Next]_vars
  PROVE  CaptureTypes'
<1> USE DEF CaptureTypes
<1>1. CASE MessageThread
  BY <1>1 DEF MessageThread, PrepareArmed, PrepareFailed, StartManual, StopRequest, StopLook,
     StopExchange, Cancel, Shutdown, CancelStore, Joined, Capturing, shared, audio, writer,
     control
<1>2. CASE Device
  BY <1>2 DEF Device, DeviceStops, DeviceCancelStore, shared, audio, writer, control
<1>3. ASSUME NEW n \in 1 .. MaxCallbackFrames, CallbackEnter(n)
      PROVE  CaptureTypes'
  BY <1>3, NewFramesEnd, CaptureConstants DEF CallbackEnter, shared, writer, control
<1>4. CASE CallbackActivate \/ CallbackLeave \/ CallbackStopCheck
  BY <1>4 DEF CallbackActivate, CallbackLeave, CallbackStopCheck, shared, writer, control
<1>5. CASE CallbackReload \/ ScanQuiet
  <2>1. <<>> \in Frames
    BY DEF Frames
  <2> QED BY <1>5, <2>1, PreRollAppended, CaptureConstants
             DEF CallbackReload, ScanQuiet, shared, writer, control
<1>6. ASSUME NEW k \in 0 .. MaxCallbackFrames - 1, ScanTriggers(k)
      PROVE  CaptureTypes'
  <2>1. k \in 0 .. Len(cbLive)
    BY <1>6, LenProperties, CaptureConstants DEF ScanTriggers, Frames
  <2>2. SubSeq(cbLive, 1, k) \in Frames /\ SubSeq(cbLive, k + 1, Len(cbLive)) \in Frames
    BY <2>1, CutInTwo
  <2>3. <<>> \in Frames
    BY DEF Frames
  <2> QED BY <1>6, <2>2, <2>3, PreRollAppended, CaptureConstants
             DEF ScanTriggers, Capturing, writer, control
<1>7. CASE AcquireBlock
  BY <1>7, HeadTailProperties DEF AcquireBlock, shared, writer, control
<1>8. CASE Overflow
  <2>1. <<>> \in Frames
    BY DEF Frames
  <2> QED BY <1>8, <2>1 DEF Overflow, writer, control
<1>9. CASE CommitBlock
  <2> DEFINE run == IF cbPre = <<>> THEN cbLive ELSE cbPre
             descriptor == [block |-> cbBlock, frames |-> Chunk(run)]
  <2>1. run \in Frames /\ cbBlock \in Blocks
    BY <1>9 DEF CommitBlock, Hands
  <2>2. Chunk(run) \in Frames /\ Rest(cbPre) \in Frames /\ Rest(cbLive) \in Frames
    BY <2>1, ChunkedFrames, CaptureConstants
  <2>3. descriptor \in Descriptor /\ accepted \o Chunk(run) \in Frames
    BY <2>1, <2>2, ConcatProperties DEF Descriptor, Frames
  <2>4. /\ ready' = Append(ready, descriptor) /\ accepted' = accepted \o Chunk(run)
        /\ cbBlock' = Nothing /\ cbPre' = Rest(cbPre)
        /\ cbLive' = IF cbPre = <<>> THEN Rest(cbLive) ELSE cbLive
        /\ UNCHANGED <<shared, free, cbState, preRoll, delivered, writer, control>>
    BY <1>9 DEF CommitBlock
  <2> HIDE DEF descriptor, run
  <2>5. ready' \in Seq(Descriptor)
    BY <2>3, <2>4, AppendProperties
  <2> QED BY <2>2, <2>3, <2>4, <2>5 DEF shared, writer, control
<1>10. CASE WriterPops
  BY <1>10, HeadTailProperties DEF WriterPops, shared, audio, control
<1>11. CASE WriterWrites
  <2>1. wBlock \in Descriptor /\ temp \in Frames
    BY <1>11 DEF WriterWrites, Hands, Written
  <2>2. wBlock.block \in Blocks /\ wBlock.frames \in Frames
    BY <2>1 DEF Descriptor
  <2>3. temp \o wBlock.frames \in Frames /\ Len(wBlock.frames) \in Nat
    BY <2>1, <2>2, ConcatProperties, LenProperties DEF Frames
  <2>4. Append(free, wBlock.block) \in Seq(Blocks)
    BY <2>2, AppendProperties
  <2> QED BY <1>11, <2>3, <2>4 DEF WriterWrites, shared, audio, control
<1>12. CASE WriterCannotWrite
  <2>1. wBlock.block \in Blocks
    BY <1>12 DEF WriterCannotWrite, Hands, Descriptor
  <2>2. Append(free, wBlock.block) \in Seq(Blocks)
    BY <2>1, AppendProperties
  <2> QED BY <1>12, <2>2 DEF WriterCannotWrite, audio, control
<1>13. CASE WriterOpens
  <2>1. <<>> \in Frames
    BY DEF Frames
  <2> QED BY <1>13, <2>1 DEF WriterOpens, shared, audio, control
<1>14. CASE \/ WriterCannotOpen \/ WriterLoads \/ WriterFindsNothing \/ WriterRemoves
            \/ WriterLooks \/ WriterFinalizes \/ WriterChecks \/ WriterPublishes
            \/ WriterCannotPublish \/ WriterRejects \/ WriterCompletes
  BY <1>14 DEF WriterCannotOpen, WriterLoads, WriterFindsNothing, WriterRemoves, WriterLooks,
     WriterFinalizes, WriterChecks, WriterPublishes, WriterCannotPublish, WriterRejects,
     WriterCompletes, shared, audio, control
<1>15. CASE UNCHANGED vars
  BY <1>15 DEF vars, shared, audio, writer, control
<1> QED
  BY <1>1, <1>2, <1>3, <1>4, <1>5, <1>6, <1>7, <1>8, <1>9, <1>10, <1>11, <1>12, <1>13, <1>14,
     <1>15 DEF Next, CallbackBegins, CallbackStep, WriterThread

\* A block is taken into a hand as its thread moves to the step that needs it.
LEMMA HandsKept ==
  ASSUME CaptureTypes, Hands, Phases, [Next]_vars
  PROVE  Hands'
<1> USE DEF Hands
<1>1. CASE MessageThread \/ Device \/ CallbackBegins \/ UNCHANGED vars
  BY <1>1 DEF MessageThread, PrepareArmed, PrepareFailed, StartManual, StopRequest, StopLook,
     StopExchange, Cancel, Shutdown, CancelStore, Joined, Device, DeviceStops,
     DeviceCancelStore, CallbackBegins, CallbackEnter, vars, audio, writer
<1>2. CASE CallbackActivate \/ CallbackReload \/ ScanQuiet \/ Overflow \/ CommitBlock
           \/ CallbackLeave \/ CallbackStopCheck
  BY <1>2 DEF CallbackActivate, CallbackReload, ScanQuiet, Overflow, CommitBlock,
     CallbackLeave, CallbackStopCheck, writer
<1>3. ASSUME NEW k \in 0 .. MaxCallbackFrames - 1, ScanTriggers(k)
      PROVE  Hands'
  BY <1>3 DEF ScanTriggers, writer
<1>4. CASE AcquireBlock
  BY <1>4, HeadTailProperties, CaptureConstants DEF AcquireBlock, CaptureTypes, writer
<1>5. CASE WriterPops
  BY <1>5, HeadTailProperties, CaptureConstants DEF WriterPops, CaptureTypes, audio
<1>6. CASE \/ WriterOpens \/ WriterCannotOpen \/ WriterLoads \/ WriterFindsNothing
           \/ WriterWrites \/ WriterCannotWrite \/ WriterRemoves \/ WriterLooks
           \/ WriterFinalizes \/ WriterChecks \/ WriterPublishes \/ WriterCannotPublish
           \/ WriterRejects \/ WriterCompletes
  BY <1>6 DEF WriterOpens, WriterCannotOpen, WriterLoads, WriterFindsNothing, WriterWrites,
     WriterCannotWrite, WriterRemoves, WriterLooks, WriterFinalizes, WriterChecks,
     WriterPublishes, WriterCannotPublish, WriterRejects, WriterCompletes, audio
<1> QED
  BY <1>1, <1>2, <1>3, <1>4, <1>5, <1>6 DEF Next, CallbackStep, WriterThread

\* The threads stay where the state lets them be.
LEMMA PhasesKept ==
  ASSUME CaptureTypes, Hands, Phases, [Next]_vars
  PROVE  Phases'
<1> USE DEF Phases
<1>1. CASE MessageThread
  <2>1. CASE PrepareArmed
    <3>1. mode \in {"manual", "threshold"} /\ UNCHANGED <<mode, accepted, cbPc, wPc>>
      BY <2>1 DEF PrepareArmed, CaptureTypes, audio, writer
    <3>2. /\ uiPc' = "free" /\ wPc # "open" /\ accepted = <<>> /\ cbPc = "out"
          /\ state' = IF mode = "threshold" THEN "waitingForThreshold" ELSE "armed"
      BY <2>1 DEF PrepareArmed
    <3> QED BY <3>1, <3>2
  <2>2. CASE StartManual
    BY <2>2 DEF StartManual, audio, writer, control
  <2>3. CASE PrepareFailed \/ StopRequest \/ StopLook \/ Cancel \/ Shutdown
    BY <2>3 DEF PrepareFailed, StopRequest, StopLook, Cancel, Shutdown, shared, audio,
       writer, control
  <2>4. CASE StopExchange \/ CancelStore \/ Joined
    BY <2>4 DEF StopExchange, CancelStore, Joined, Capturing, audio, writer, control
  <2> QED BY <1>1, <2>1, <2>2, <2>3, <2>4 DEF MessageThread
<1>2. CASE Device \/ UNCHANGED vars
  BY <1>2 DEF Device, DeviceStops, DeviceCancelStore, vars, shared, audio, writer, control
<1>3. CASE CallbackBegins
  BY <1>3 DEF CallbackBegins, CallbackEnter, Capturing, shared, writer, control
<1>4. CASE CallbackActivate \/ CallbackReload \/ ScanQuiet \/ AcquireBlock \/ Overflow
           \/ CommitBlock \/ CallbackLeave \/ CallbackStopCheck
  BY <1>4 DEF CallbackActivate, CallbackReload, ScanQuiet, AcquireBlock, Overflow, CommitBlock,
     CallbackLeave, CallbackStopCheck, CaptureTypes, shared, writer, control
<1>5. ASSUME NEW k \in 0 .. MaxCallbackFrames - 1, ScanTriggers(k)
      PROVE  Phases'
  BY <1>5 DEF ScanTriggers, writer, control
<1>6. CASE WriterThread
  BY <1>6 DEF WriterThread, WriterOpens, WriterCannotOpen, WriterLoads, WriterPops,
     WriterFindsNothing, WriterWrites, WriterCannotWrite, WriterRemoves, WriterLooks,
     WriterFinalizes, WriterChecks, WriterPublishes, WriterCannotPublish, WriterRejects,
     WriterCompletes, shared, audio, control
<1> QED
  BY <1>1, <1>2, <1>3, <1>4, <1>5, <1>6 DEF Next, CallbackStep

\* Frames go through the callback in the order they were delivered.
LEMMA InputKept ==
  ASSUME CaptureTypes, Phases, Input, [Next]_vars
  PROVE  Input'
<1>0. /\ \A s \in Frames : Len(s) \in Nat
      /\ \A d \in Int : Ends(<<>>, d)
      /\ Len(<<>>) = 0 /\ <<>> \in Frames
  BY LenProperties DEF Frames, Ends
<1>1. CASE UNCHANGED audio /\ (state' # "waitingForThreshold" \/ UNCHANGED state)
  BY <1>1 DEF Input, Ends, audio
<1>2. CASE PrepareArmed
  BY <1>0, <1>2 DEF PrepareArmed, Phases, Input, CaptureTypes, Ends, audio
<1>3. ASSUME NEW n \in 1 .. MaxCallbackFrames, CallbackEnter(n)
      PROVE  Input'
  <2>1. n \in Nat /\ delivered \in Nat /\ cbLive = <<>> /\ cbPre = <<>>
    BY <1>3, CaptureConstants DEF CallbackEnter, Input, CaptureTypes
  <2>2. Len(cbLive') = n /\ Ends(cbLive', delivered')
    BY <1>3, <2>1, NewFramesEnd DEF CallbackEnter
  <2>3. delivered' - Len(cbLive') = delivered /\ delivered - Len(cbLive) = delivered
    BY <1>0, <1>3, <2>1, <2>2 DEF CallbackEnter
  <2>4. UNCHANGED <<state, preRoll, cbPre>> /\ cbPc' = "activate"
    BY <1>3 DEF CallbackEnter, shared
  <2> QED BY <1>0, <2>1, <2>2, <2>3, <2>4 DEF Input, Ends
<1>4. CASE CallbackActivate \/ CallbackLeave \/ CallbackStopCheck \/ AcquireBlock
  <2>1. /\ UNCHANGED <<cbPre, cbLive, delivered, preRoll>>
        /\ state' # "waitingForThreshold" \/ UNCHANGED state
        /\ cbPc' \notin {"acquire", "commit"} => cbPc \notin {"acquire", "commit"}
        /\ cbPc' \notin {"activate", "reload", "scan", "acquire", "commit"} =>
             cbPc \notin {"activate", "reload", "scan", "acquire", "commit"}
    BY <1>4 DEF CallbackActivate, CallbackLeave, CallbackStopCheck, AcquireBlock, shared
  <2> QED BY <2>1 DEF Input, Ends
<1>5. CASE CallbackReload
  <2>1. /\ cbPre = <<>> /\ cbPre' = <<>> /\ UNCHANGED <<state, delivered>>
        /\ cbLive' = cbLive \/ (cbLive' = <<>> /\ state # "waitingForThreshold")
        /\ state = "waitingForThreshold" => UNCHANGED preRoll
        /\ cbPc' \notin {"scan", "acquire"} => cbLive' = <<>>
    BY <1>5 DEF CallbackReload, Input, shared
  <2>2. delivered \in Int /\ delivered - Len(<<>>) \in Int
    BY <1>0 DEF CaptureTypes
  <2> QED BY <1>0, <2>1, <2>2 DEF Input
<1>6. CASE ScanQuiet
  <2>1. /\ cbPre = <<>> /\ cbPre' = <<>> /\ cbLive' = <<>> /\ UNCHANGED <<state, delivered>>
        /\ preRoll' = AppendPreRoll(cbLive)
    BY <1>6 DEF ScanQuiet, Input, shared
  <2>2. /\ delivered \in Int /\ Len(cbLive) \in Nat /\ delivered - Len(cbLive) \in Int
        /\ (delivered - Len(cbLive)) + Len(cbLive) = delivered /\ delivered - 0 = delivered
    BY <1>0 DEF CaptureTypes
  <2>3. state = "waitingForThreshold" => Ends(preRoll', delivered)
    BY <2>1, <2>2, PreRollAppended, CaptureConstants DEF Input, CaptureTypes
  <2> QED BY <1>0, <2>1, <2>2, <2>3 DEF Input
<1>7. ASSUME NEW k \in 0 .. MaxCallbackFrames - 1, ScanTriggers(k)
      PROVE  Input'
  <2> DEFINE front == SubSeq(cbLive, 1, k)
             back  == SubSeq(cbLive, k + 1, Len(cbLive))
  <2>1. k \in 0 .. Len(cbLive) /\ Len(cbLive) \in Nat /\ delivered \in Nat
    BY <1>0, <1>7, CaptureConstants DEF ScanTriggers, CaptureTypes
  <2>2. front \in Frames /\ back \in Frames /\ Len(front) = k /\ Len(back) = Len(cbLive) - k
    BY <2>1, CutInTwo DEF CaptureTypes
  <2>3. Ends(front, delivered - (Len(cbLive) - k)) /\ Ends(back, delivered)
    BY <2>1, CutFrames DEF Input, CaptureTypes
  <2>4. /\ delivered - (Len(cbLive) - k) = (delivered - Len(cbLive)) + Len(front)
        /\ delivered - Len(back) = (delivered - Len(cbLive)) + Len(front)
        /\ delivered - Len(cbLive) \in Int /\ delivered - Len(<<>>) \in Int
    <3> HIDE DEF front, back
    <3> QED BY <1>0, <2>1, <2>2
  <2>5. state = "waitingForThreshold" => Ends(AppendPreRoll(front), delivered - Len(back))
    <3> HIDE DEF front, back
    <3> QED BY <2>1, <2>2, <2>3, <2>4, PreRollAppended, CaptureConstants
            DEF Input, CaptureTypes
  <2>6. /\ preRoll' = AppendPreRoll(front) /\ UNCHANGED delivered
        /\ \/ /\ state = "waitingForThreshold" /\ state' = "recording"
              /\ cbPre' = preRoll' /\ cbLive' = back /\ cbPc' = "acquire"
           \/ /\ state # "waitingForThreshold" /\ UNCHANGED <<state, cbPre>>
              /\ cbLive' = <<>> /\ cbPc' = "leave" /\ cbPre = <<>>
    BY <1>7 DEF ScanTriggers, Input
  <2> HIDE DEF front, back
  <2>7. CASE state = "waitingForThreshold"
    BY <1>0, <2>3, <2>5, <2>6, <2>7 DEF Input
  <2>8. CASE state # "waitingForThreshold"
    <3>1. delivered \in Int
      BY <2>1
    <3> QED BY <1>0, <2>4, <2>6, <2>8, <3>1 DEF Input
  <2> QED BY <2>7, <2>8
<1>8. CASE Overflow
  <2>1. state # "waitingForThreshold" /\ UNCHANGED <<state, delivered>> /\ cbPre' = <<>>
    BY <1>8 DEF Overflow, Phases
  <2>2. cbLive' = <<>> \/ (cbPre # <<>> /\ cbLive' = cbLive /\ cbPc' = "acquire")
    BY <1>8 DEF Overflow
  <2> QED BY <1>0, <2>1, <2>2 DEF Input, CaptureTypes
<1>9. CASE CommitBlock
  <2>1. state # "waitingForThreshold" /\ UNCHANGED <<state, delivered>>
    BY <1>9 DEF CommitBlock, Phases, shared
  <2>2. /\ delivered \in Int /\ delivered - Len(cbLive) \in Int /\ FramesPerBlock \in Nat
        /\ cbPre \in Frames /\ cbLive \in Frames
    BY <1>0, CaptureConstants DEF CaptureTypes
  <2>3. Ends(Rest(cbLive), delivered) /\ Ends(Rest(cbPre), delivered - Len(cbLive))
    BY <2>2, ChunkedFrames DEF Input
  <2>4. Rest(<<>>) = <<>>
    <3>1. Rest(<<>>) \in Frames /\ Len(Rest(<<>>)) = 0
      <4>1. /\ Rest(<<>>) \in Frames /\ Chunk(<<>>) \in Frames
            /\ Len(Chunk(<<>>)) + Len(Rest(<<>>)) = 0
        BY <1>0, <2>2, ChunkedFrames
      <4>2. Len(Chunk(<<>>)) \in Nat /\ Len(Rest(<<>>)) \in Nat
        BY <1>0, <4>1
      <4> QED BY <4>1, <4>2
    <3> QED BY <3>1, EmptySeq DEF Frames
  <2>5. /\ cbPre' = Rest(cbPre)
        /\ cbLive' = IF cbPre = <<>> THEN Rest(cbLive) ELSE cbLive
        /\ cbPc' = IF cbPre' = <<>> /\ cbLive' = <<>> THEN "leave" ELSE "acquire"
    BY <1>9 DEF CommitBlock
  <2>6. CASE cbPre = <<>>
    <3>1. Len(cbLive') \in Nat /\ delivered - Len(cbLive') \in Int
      BY <1>0, <2>2, <2>5, <2>6, ChunkedFrames
    <3> QED BY <1>0, <2>1, <2>3, <2>4, <2>5, <2>6, <3>1 DEF Input
  <2>7. CASE cbPre # <<>>
    BY <1>0, <2>1, <2>3, <2>5, <2>7 DEF Input
  <2> QED BY <2>6, <2>7
<1>10. CASE WriterThread
  <2>1. UNCHANGED audio /\ (state' # "waitingForThreshold" \/ UNCHANGED state)
    BY <1>10 DEF WriterThread, WriterOpens, WriterCannotOpen, WriterLoads, WriterPops,
     WriterFindsNothing, WriterWrites, WriterCannotWrite, WriterRemoves, WriterLooks,
     WriterFinalizes, WriterChecks, WriterPublishes, WriterCannotPublish, WriterRejects,
     WriterCompletes, shared
  <2> QED BY <1>1, <2>1
<1>11. CASE (MessageThread /\ ~PrepareArmed) \/ Device \/ UNCHANGED vars
  <2>1. UNCHANGED audio /\ (state' # "waitingForThreshold" \/ UNCHANGED state)
    BY <1>11 DEF MessageThread, PrepareFailed, StartManual, StopRequest, StopLook,
     StopExchange, Cancel, Shutdown, CancelStore, Joined, Device, DeviceStops,
     DeviceCancelStore, vars, shared
  <2> QED BY <1>1, <2>1
<1> QED
  BY <1>2, <1>3, <1>4, <1>5, <1>6, <1>7, <1>8, <1>9, <1>10, <1>11
     DEF Next, CallbackBegins, CallbackStep

\* commitAudioWrite() moves the next part of the callback's frames into a ready block and
\* behind the accepted ones; a non-empty run of accepted frames keeps its first frame.
LEMMA Committed ==
  ASSUME CaptureTypes, Hands, Input, CommitBlock
  PROVE  \E chunk \in Frames :
           LET descriptor == [block |-> cbBlock, frames |-> chunk]
               held == delivered - Len(cbLive) - Len(cbPre)
           IN  /\ descriptor \in Descriptor /\ ready' = Append(ready, descriptor)
               /\ accepted' = accepted \o chunk
               /\ accepted' \in Frames /\ Len(accepted') = Len(accepted) + Len(chunk)
               /\ \A i \in 1 .. Len(accepted) : accepted'[i] = accepted[i]
               /\ \A i \in 1 .. Len(chunk) : accepted'[Len(accepted) + i] = chunk[i]
               /\ Ends(chunk, held + Len(chunk))
               /\ delivered' - Len(cbLive') - Len(cbPre') = held + Len(chunk)
<1> DEFINE run == IF cbPre = <<>> THEN cbLive ELSE cbPre
           chunk == Chunk(run)
           descriptor == [block |-> cbBlock, frames |-> chunk]
           held == delivered - Len(cbLive) - Len(cbPre)
<1>1. /\ ready' = Append(ready, descriptor) /\ accepted' = accepted \o chunk
      /\ cbPre' = Rest(cbPre) /\ delivered' = delivered
      /\ cbLive' = IF cbPre = <<>> THEN Rest(cbLive) ELSE cbLive
  BY DEF CommitBlock
<1>2. /\ run \in Frames /\ cbBlock \in Blocks /\ cbPre \in Frames /\ cbLive \in Frames
      /\ accepted \in Frames /\ delivered \in Int /\ <<>> \in Frames /\ Len(<<>>) = 0
      /\ Len(cbPre) \in Nat /\ Len(cbLive) \in Nat /\ Len(accepted) \in Nat
  BY LenProperties DEF CommitBlock, Hands, CaptureTypes, Frames
<1>3. /\ \A s \in Frames : /\ Chunk(s) \in Frames /\ Rest(s) \in Frames
                           /\ Len(Chunk(s)) \in Nat /\ Len(Rest(s)) \in Nat
                           /\ Len(Chunk(s)) + Len(Rest(s)) = Len(s)
                           /\ \A d \in Int : Ends(s, d) => Ends(Chunk(s), d - Len(Rest(s)))
  <2>1. \A s \in Frames : Len(s) \in Nat
    BY LenProperties DEF Frames
  <2> QED BY <2>1, ChunkedFrames, CaptureConstants
<1>4. chunk \in Frames /\ descriptor \in Descriptor /\ Len(chunk) \in Nat
  BY <1>2, <1>3 DEF Descriptor
<1>5. /\ accepted' \in Frames /\ Len(accepted') = Len(accepted) + Len(chunk)
      /\ \A i \in 1 .. Len(accepted) : accepted'[i] = accepted[i]
      /\ \A i \in 1 .. Len(chunk) : accepted'[Len(accepted) + i] = chunk[i]
  <2> HIDE DEF chunk
  <2>1. /\ accepted' \in Frames /\ Len(accepted') = Len(accepted) + Len(chunk)
        /\ \A i \in 1 .. Len(accepted) + Len(chunk) :
             accepted'[i] = IF i <= Len(accepted) THEN accepted[i] ELSE chunk[i - Len(accepted)]
    BY <1>1, <1>2, <1>4, ConcatProperties DEF Frames
  <2>2. \A i \in 1 .. Len(accepted) : i \in 1 .. Len(accepted) + Len(chunk) /\ i <= Len(accepted)
    BY <1>2, <1>4
  <2>3. \A i \in 1 .. Len(chunk) :
          /\ Len(accepted) + i \in 1 .. Len(accepted) + Len(chunk)
          /\ ~ (Len(accepted) + i <= Len(accepted)) /\ Len(accepted) + i - Len(accepted) = i
    BY <1>2, <1>4
  <2> QED BY <2>1, <2>2, <2>3
<1>6. /\ Ends(chunk, held + Len(chunk))
      /\ delivered' - Len(cbLive') - Len(cbPre') = held + Len(chunk)
  <2>1. CASE cbPre = <<>>
    <3>0. /\ Len(Rest(<<>>)) \in Nat /\ Len(Chunk(<<>>)) \in Nat
          /\ Len(Chunk(<<>>)) + Len(Rest(<<>>)) = 0
      BY <1>2, <1>3
    <3>1. /\ Len(cbPre') = 0 /\ Len(cbPre) = 0
          /\ Ends(Chunk(cbLive), delivered - Len(Rest(cbLive)))
      <4>1. Len(Rest(<<>>)) = 0
        BY <3>0
      <4>2. Ends(Chunk(cbLive), delivered - Len(Rest(cbLive)))
        BY <1>2, <1>3 DEF Input
      <4> QED BY <1>1, <1>2, <2>1, <4>1, <4>2
    <3>2. delivered - Len(Rest(cbLive)) = held + Len(Chunk(cbLive))
      BY <1>2, <1>3, <3>1
    <3>3. delivered' - Len(cbLive') - Len(cbPre') = delivered - Len(Rest(cbLive))
      BY <1>1, <1>2, <1>3, <2>1, <3>1
    <3>4. chunk = Chunk(cbLive)
      BY <2>1
    <3> HIDE DEF held, chunk
    <3> QED BY <3>1, <3>2, <3>3, <3>4
  <2>2. CASE cbPre # <<>>
    <3>1. /\ delivered - Len(cbLive) \in Int
          /\ Ends(Chunk(cbPre), (delivered - Len(cbLive)) - Len(Rest(cbPre)))
      BY <1>2, <1>3 DEF Input
    <3>2. (delivered - Len(cbLive)) - Len(Rest(cbPre)) = held + Len(Chunk(cbPre))
      BY <1>2, <1>3
    <3>3. delivered' - Len(cbLive') - Len(cbPre') = (delivered - Len(cbLive)) - Len(Rest(cbPre))
      BY <1>1, <2>2
    <3>4. chunk = Chunk(cbPre)
      BY <2>2
    <3> HIDE DEF held, chunk
    <3> QED BY <3>1, <3>2, <3>3, <3>4
  <2> QED BY <2>1, <2>2
<1> HIDE DEF chunk, run
<1> QED BY <1>1, <1>4, <1>5, <1>6

\* The accepted frames change where a block is committed and nowhere else; a stop undoes
\* recording, and only the start or the threshold begin it.
LEMMA TakeMoves ==
  ASSUME [Next]_vars
  PROVE  /\ UNCHANGED accepted \/ CommitBlock
         /\ \/ StartManual \/ CallbackBegins \/ CallbackStep
            \/ /\ UNCHANGED audio /\ UNCHANGED incomplete
               /\ state' = "recording" => state = "recording"
<1>1. CASE MessageThread
  <2>1. UNCHANGED audio
    BY <1>1 DEF MessageThread, PrepareArmed, PrepareFailed, StopRequest, StopLook,
       StopExchange, Cancel, Shutdown, CancelStore, Joined, StartManual
  <2>2. ~ StartManual => UNCHANGED incomplete /\ (state' = "recording" => state = "recording")
    BY <1>1 DEF MessageThread, PrepareArmed, PrepareFailed, StopRequest, StopLook,
       StopExchange, Cancel, Shutdown, CancelStore, Joined, shared
  <2> QED BY <2>1, <2>2 DEF audio
<1>2. CASE Device \/ UNCHANGED vars
  <2>1. UNCHANGED audio
    BY <1>2 DEF Device, DeviceStops, DeviceCancelStore, vars
  <2>2. UNCHANGED incomplete /\ (state' = "recording" => state = "recording")
    BY <1>2 DEF Device, DeviceStops, DeviceCancelStore, vars, shared
  <2> QED BY <2>1, <2>2 DEF audio
<1>3. CASE WriterThread
  <2>1. UNCHANGED audio
    BY <1>3 DEF WriterThread, WriterOpens, WriterCannotOpen, WriterLoads, WriterPops,
       WriterFindsNothing, WriterWrites, WriterCannotWrite, WriterRemoves, WriterLooks,
       WriterFinalizes, WriterChecks, WriterPublishes, WriterCannotPublish, WriterRejects,
       WriterCompletes
  <2>2. UNCHANGED incomplete /\ (state' = "recording" => state = "recording")
    BY <1>3 DEF WriterThread, WriterOpens, WriterCannotOpen, WriterLoads, WriterPops,
       WriterFindsNothing, WriterWrites, WriterCannotWrite, WriterRemoves, WriterLooks,
       WriterFinalizes, WriterChecks, WriterPublishes, WriterCannotPublish, WriterRejects,
       WriterCompletes, shared
  <2> QED BY <2>1, <2>2 DEF audio
<1>4. CASE CallbackBegins
  <2>1. UNCHANGED accepted
    BY <1>4 DEF CallbackBegins, CallbackEnter
  <2> QED BY <1>4, <2>1
<1>5. ASSUME NEW k \in 0 .. MaxCallbackFrames - 1, ScanTriggers(k)
      PROVE  UNCHANGED accepted
  BY <1>5 DEF ScanTriggers
<1>6. CASE CallbackActivate \/ CallbackReload \/ ScanQuiet \/ AcquireBlock \/ Overflow
           \/ CallbackLeave \/ CallbackStopCheck
  <2>1. UNCHANGED accepted
    BY <1>6 DEF CallbackActivate, CallbackReload, ScanQuiet, AcquireBlock, Overflow,
       CallbackLeave, CallbackStopCheck
  <2> QED BY <1>6, <2>1 DEF CallbackStep
<1> QED BY <1>1, <1>2, <1>3, <1>4, <1>5, <1>6 DEF Next, CallbackStep

\* Consecutive frames are a beginning of themselves.
LEMMA EndsIsRun ==
  ASSUME NEW s \in Frames, NEW d \in Int, Ends(s, d), NEW i \in 1 .. Len(s)
  PROVE  s[i] = s[1] + i - 1
<1>1. Len(s) \in Nat /\ 1 \in 1 .. Len(s)
  BY LenProperties DEF Frames
<1>2. s[1] = d - Len(s) + 1 /\ s[i] = d - Len(s) + i
  BY <1>1 DEF Ends
<1> QED BY <1>1, <1>2

\* Until an overflow marks the take it has no hole.
LEMMA GaplessKept ==
  ASSUME CaptureTypes, Hands, Phases, Input, Gapless, [Next]_vars
  PROVE  Gapless'
<1>0. /\ Len(<<>>) = 0 /\ delivered \in Int
      /\ Len(cbLive) \in Nat /\ Len(cbPre) \in Nat /\ Len(accepted) \in Nat
      /\ \A d \in Int : Ends(<<>>, d)
  BY LenProperties DEF CaptureTypes, Frames, Ends
<1>1. CASE /\ UNCHANGED <<accepted, incomplete>>
           /\ delivered' - Len(cbLive') - Len(cbPre') = delivered - Len(cbLive) - Len(cbPre)
           /\ state' = "recording" \/ cbPc' \in {"acquire", "commit"} =>
                state = "recording" \/ cbPc \in {"acquire", "commit"}
  <2>1. accepted' = accepted /\ incomplete' = incomplete
    BY <1>1
  <2> QED BY <1>1, <2>1 DEF Gapless, Run, Ends
<1>2. CASE UNCHANGED audio /\ UNCHANGED incomplete
           /\ (state' = "recording" => state = "recording")
  BY <1>1, <1>2 DEF audio
<1>3. CASE StartManual
  <2>1. accepted = <<>> /\ UNCHANGED audio
    BY <1>3 DEF StartManual, Phases
  <2> QED BY <1>0, <2>1 DEF Gapless, Run, Ends, audio
<1>4. ASSUME NEW n \in 1 .. MaxCallbackFrames, CallbackEnter(n)
      PROVE  Gapless'
  <2>1. n \in Nat /\ Len(cbLive') = n /\ cbLive = <<>> /\ UNCHANGED cbPre
    BY <1>4, NewFramesEnd, CaptureConstants DEF CallbackEnter, Input, CaptureTypes
  <2>2. /\ delivered' = delivered + n /\ UNCHANGED <<accepted, incomplete, state>>
        /\ cbPc' = "activate"
    BY <1>4 DEF CallbackEnter, shared
  <2>3. delivered' - Len(cbLive') - Len(cbPre') = delivered - Len(cbLive) - Len(cbPre)
    BY <1>0, <2>1, <2>2
  <2> QED BY <1>1, <2>2, <2>3
<1>5. CASE CallbackActivate \/ CallbackLeave \/ CallbackStopCheck \/ AcquireBlock
  <2>1. /\ UNCHANGED <<cbPre, cbLive, delivered, accepted, incomplete>>
        /\ state' = "recording" => state = "recording"
        /\ cbPc' \in {"acquire", "commit"} => cbPc \in {"acquire", "commit"}
    BY <1>5 DEF CallbackActivate, CallbackLeave, CallbackStopCheck, AcquireBlock, shared
  <2> QED BY <1>1, <2>1
<1>6. CASE CallbackReload
  <2>1. /\ UNCHANGED <<cbPre, state, delivered, accepted, incomplete>>
        /\ state = "recording" => UNCHANGED cbLive
        /\ state # "recording" => cbPc' \notin {"acquire", "commit"}
    BY <1>6 DEF CallbackReload, shared
  <2>2. CASE state = "recording"
    BY <1>1, <2>1, <2>2
  <2>3. CASE state # "recording"
    <3>1. accepted' = accepted /\ incomplete' = incomplete
      BY <2>1
    <3> QED BY <2>1, <2>3, <3>1 DEF Gapless, Run
  <2> QED BY <2>2, <2>3
<1>7. CASE ScanQuiet
  <2>1. /\ accepted' = accepted /\ incomplete' = incomplete /\ state' # "recording"
        /\ cbPc' = "leave"
    BY <1>7 DEF ScanQuiet, Phases, shared
  <2> QED BY <2>1 DEF Gapless, Run
<1>8. ASSUME NEW k \in 0 .. MaxCallbackFrames - 1, ScanTriggers(k)
      PROVE  Gapless'
  <2>1. accepted' = accepted /\ incomplete' = incomplete
    BY <1>8 DEF ScanTriggers
  <2>2. CASE state = "waitingForThreshold"
    <3>1. accepted' = <<>>
      BY <2>1, <2>2 DEF Phases
    <3> QED BY <1>0, <3>1 DEF Gapless, Run, Ends
  <2>3. CASE state # "waitingForThreshold"
    <3>1. state' # "recording" /\ cbPc' = "leave"
      BY <1>8, <2>3 DEF ScanTriggers, Phases
    <3> QED BY <2>1, <3>1 DEF Gapless, Run
  <2> QED BY <2>2, <2>3
<1>9. CASE Overflow
  BY <1>9 DEF Overflow, Gapless
<1>10. CASE CommitBlock
  <2>1. incomplete' = incomplete /\ cbPc = "commit"
    BY <1>10 DEF CommitBlock, shared
  <2>2. CASE incomplete
    BY <2>1, <2>2 DEF Gapless
  <2>3. CASE ~ incomplete
    <3> DEFINE held == delivered - Len(cbLive) - Len(cbPre)
    <3>1. held \in Int /\ Ends(accepted, held)
      BY <1>0, <2>1, <2>3 DEF Gapless
    <3>2. PICK chunk \in Frames :
            /\ accepted' = accepted \o chunk /\ accepted' \in Frames
            /\ Ends(chunk, held + Len(chunk))
            /\ delivered' - Len(cbLive') - Len(cbPre') = held + Len(chunk)
      BY <1>10, Committed
    <3>3. Len(chunk) \in Nat /\ accepted \in Frames
      BY LenProperties DEF Frames, CaptureTypes
    <3> HIDE DEF held
    <3>4. Ends(accepted', held + Len(chunk)) /\ held + Len(chunk) \in Int
      BY <3>1, <3>2, <3>3, JoinedFrames
    <3>5. \A i \in 1 .. Len(accepted') : accepted'[i] = accepted'[1] + i - 1
      BY <3>2, <3>4, EndsIsRun
    <3> QED BY <3>2, <3>4, <3>5 DEF Gapless, Run
  <2> QED BY <2>2, <2>3
<1> QED
  BY <1>2, <1>3, <1>4, <1>5, <1>6, <1>7, <1>8, <1>9, <1>10, TakeMoves
     DEF CallbackBegins, CallbackStep

\* What stands in the take stays in it while frames are accepted.
LEMMA TakeGrows ==
  ASSUME CaptureTypes, Hands, Input, [Next]_vars
  PROVE  /\ Len(accepted) \in Nat /\ Len(accepted') \in Nat /\ Len(accepted) <= Len(accepted')
         /\ \A i \in 1 .. Len(accepted) : accepted'[i] = accepted[i]
<1>1. Len(accepted) \in Nat
  BY LenProperties DEF CaptureTypes, Frames
<1>2. CASE UNCHANGED accepted
  BY <1>1, <1>2
<1>3. CASE CommitBlock
  <2>1. PICK chunk \in Frames :
          /\ Len(accepted') = Len(accepted) + Len(chunk)
          /\ \A i \in 1 .. Len(accepted) : accepted'[i] = accepted[i]
    BY <1>3, Committed
  <2>2. Len(chunk) \in Nat
    BY LenProperties DEF Frames
  <2> QED BY <1>1, <2>1, <2>2
<1> QED BY <1>2, <1>3, TakeMoves

\* A run that matches the take goes on matching it.
LEMMA MatchesKept ==
  ASSUME CaptureTypes, Hands, Input, [Next]_vars,
         NEW s \in Frames, NEW k \in Nat, Matches(s, k)
  PROVE  k + Len(s) <= Len(accepted') /\ \A j \in 1 .. Len(s) : s[j] = accepted'[k + j]
<1>1. Len(s) \in Nat
  BY LenProperties DEF Frames
<1>2. \A j \in 1 .. Len(s) : k + j \in 1 .. Len(accepted)
  BY <1>1, TakeGrows DEF Matches
<1> QED BY <1>1, <1>2, TakeGrows DEF Matches

\* The file, the block in hand and the ready blocks change at the writer's ends of the
\* queue and at the callback's, and nowhere else while the file is written.
LEMMA FileMoves ==
  ASSUME Hands, [Next]_vars, wPc' \in {"load", "pop", "write", "look", "finalize", "check"}
  PROVE  \/ WriterOpens \/ WriterPops \/ WriterWrites \/ CommitBlock
         \/ /\ UNCHANGED <<temp, framesWritten, ready, accepted>> /\ InHand' = InHand
            /\ wPc \in {"load", "pop", "write", "look", "finalize", "check"}
<1>1. CASE CommitBlock \/ WriterOpens \/ WriterPops \/ WriterWrites
  BY <1>1
<1>2. CASE MessageThread \/ Device \/ UNCHANGED vars
  <2>1. /\ UNCHANGED <<framesWritten, ready, accepted, wPc, wBlock>>
        /\ UNCHANGED temp \/ wPc = "done"
    BY <1>2 DEF MessageThread, PrepareArmed, PrepareFailed, StopRequest, StopLook,
       StopExchange, Cancel, Shutdown, CancelStore, Joined, StartManual, Device, DeviceStops,
       DeviceCancelStore, vars, audio, writer
  <2> QED BY <2>1 DEF InHand
<1>3. ASSUME CallbackBegins \/ CallbackStep, ~ CommitBlock
      PROVE  UNCHANGED <<temp, framesWritten, ready, accepted, wPc, wBlock>>
  <2>1. ASSUME NEW n \in 1 .. MaxCallbackFrames, CallbackEnter(n)
        PROVE  UNCHANGED <<temp, framesWritten, ready, accepted, wPc, wBlock>>
    BY <2>1 DEF CallbackEnter, writer
  <2>2. ASSUME NEW k \in 0 .. MaxCallbackFrames - 1, ScanTriggers(k)
        PROVE  UNCHANGED <<temp, framesWritten, ready, accepted, wPc, wBlock>>
    BY <2>2 DEF ScanTriggers, writer
  <2>3. CASE CallbackActivate \/ CallbackReload \/ ScanQuiet \/ AcquireBlock \/ Overflow
             \/ CallbackLeave \/ CallbackStopCheck
    BY <2>3 DEF CallbackActivate, CallbackReload, ScanQuiet, AcquireBlock, Overflow,
       CallbackLeave, CallbackStopCheck, writer
  <2> QED BY <1>3, <2>1, <2>2, <2>3 DEF CallbackBegins, CallbackStep
<1>4. CASE WriterLoads \/ WriterFindsNothing \/ WriterLooks \/ WriterFinalizes
  <2>1. /\ UNCHANGED <<temp, framesWritten, ready, accepted>>
        /\ wPc' # "write" /\ wPc \in {"load", "pop", "look", "finalize"}
    BY <1>4 DEF WriterLoads, WriterFindsNothing, WriterLooks, WriterFinalizes, audio
  <2> QED BY <2>1 DEF InHand
<1>5. CASE \/ WriterCannotOpen \/ WriterCannotWrite \/ WriterRemoves \/ WriterChecks
           \/ WriterPublishes \/ WriterCannotPublish \/ WriterRejects \/ WriterCompletes
  BY <1>5 DEF WriterCannotOpen, WriterCannotWrite, WriterRemoves, WriterChecks,
     WriterPublishes, WriterCannotPublish, WriterRejects, WriterCompletes
<1>6. CASE CallbackBegins \/ CallbackStep
  <2>1. CASE ~ CommitBlock
    <3>1. UNCHANGED <<temp, framesWritten, ready, accepted, wPc, wBlock>>
      BY <1>3, <1>6, <2>1
    <3> QED BY <3>1 DEF InHand
  <2> QED BY <2>1
<1> QED BY <1>1, <1>2, <1>4, <1>5, <1>6 DEF Next, WriterThread

\* The file, the block in hand and the ready blocks go on being the take, cut into parts.
LEMMA WrittenKept ==
  ASSUME CaptureTypes, CaptureTypes', Hands, Phases, Input, Written, [Next]_vars
  PROVE  Written'
<1> DEFINE writing == wPc \in {"load", "pop", "write", "look", "finalize", "check"}
<1>1. SUFFICES ASSUME writing' PROVE Written'
  BY DEF Written
<1>2. /\ Len(accepted) \in Nat /\ Len(accepted') \in Nat /\ Len(accepted) <= Len(accepted')
      /\ Len(ready) \in Nat /\ \A i \in 1 .. Len(ready) : ready[i] \in Descriptor
      /\ \A i \in 1 .. Len(ready) : ready[i].frames \in Frames
      /\ \A s \in Frames : Len(s) \in Nat
      /\ <<>> \in Frames /\ Len(<<>>) = 0
  <2>1. Len(ready) \in Nat /\ \A i \in 1 .. Len(ready) : ready[i] \in Descriptor
    BY LenProperties, ElementOfSeq DEF CaptureTypes
  <2>2. \A s \in Frames : Len(s) \in Nat
    BY LenProperties DEF Frames
  <2> QED BY <2>1, <2>2, TakeGrows DEF Descriptor, Frames
<1>3. CASE WriterOpens
  <2>1. /\ temp' = <<>> /\ ready' = <<>> /\ accepted' = <<>> /\ framesWritten' = 0
        /\ InHand' = <<>> /\ wPc = "open"
    BY <1>3 DEF WriterOpens, Phases, InHand, audio
  <2>2. temp' # Nothing
    BY <1>2, <2>1, CaptureConstants
  <2>3. Matches(temp, 0)' /\ Matches(InHand, Len(temp))'
    BY <1>2, <2>1 DEF Matches
  <2> DEFINE from == [i \in 1 .. 1 |-> 0]
  <2>4. /\ Len(ready') + 1 = 1 /\ from[1] = 0 /\ Len(temp') = 0 /\ Len(InHand') = 0
        /\ Len(accepted') = 0 /\ Len(ready') = 0
    BY <1>2, <2>1
  <2>5. from \in [1 .. Len(ready') + 1 -> 0 .. Len(accepted')]
    BY <2>4
  <2> HIDE DEF from
  <2>6. Offsets(from)'
    BY <2>4 DEF Offsets
  <2> QED BY <1>2, <2>1, <2>2, <2>3, <2>4, <2>5, <2>6 DEF Written
<1>4. CASE WriterPops
  <2>1. /\ writing /\ wPc = "pop" /\ ready # <<>> /\ ready' = Tail(ready)
        /\ wBlock' = Head(ready) /\ wPc' = "write"
        /\ UNCHANGED <<temp, framesWritten, accepted>>
    BY <1>4 DEF WriterPops, audio
  <2>2. PICK from \in [1 .. Len(ready) + 1 -> 0 .. Len(accepted)] : Offsets(from)
    BY <2>1 DEF Written
  <2>3. /\ InHand = <<>> /\ InHand' = Head(ready).frames
        /\ temp # Nothing /\ temp \in Frames /\ framesWritten = Len(temp) /\ Matches(temp, 0)
    BY <2>1 DEF InHand, Written, CaptureTypes
  <2>4. /\ Len(ready) \in Nat \ {0} /\ Len(ready') = Len(ready) - 1 /\ Head(ready) = ready[1]
        /\ \A i \in 1 .. Len(ready) - 1 : ready'[i] = ready[i + 1]
    BY <2>1, HeadTailProperties, EmptySeq DEF CaptureTypes
  <2>5. Len(temp) \in Nat /\ from[1] = Len(temp) /\ 1 \in 1 .. Len(ready) /\ 1 + 1 = 2
    BY <1>2, <2>2, <2>3, <2>4 DEF Offsets
  <2>6. Matches(ready[1].frames, from[1]) /\ from[1 + 1] = from[1] + Len(ready[1].frames)
    BY <2>2, <2>5 DEF Offsets
  <2>7. Matches(temp, 0)' /\ Matches(InHand, Len(temp))'
    BY <2>1, <2>3, <2>4, <2>5, <2>6 DEF Matches
  <2>8. PICK next \in [1 .. Len(ready') + 1 -> 0 .. Len(accepted')] :
          \A i \in 1 .. Len(ready) : next[i] = from[i + 1]
    <3> DEFINE shifted == [i \in 1 .. Len(ready) |-> from[i + 1]]
    <3>1. shifted \in [1 .. Len(ready') + 1 -> 0 .. Len(accepted')]
      BY <2>1, <2>2, <2>4
    <3>2. \A i \in 1 .. Len(ready) : shifted[i] = from[i + 1]
      OBVIOUS
    <3> HIDE DEF shifted
    <3> QED BY <3>1, <3>2
  <2>9. next[1] = from[2] /\ next[Len(ready') + 1] = Len(accepted')
    BY <2>1, <2>2, <2>4, <2>5, <2>8 DEF Offsets
  <2>10. ASSUME NEW i \in 1 .. Len(ready')
         PROVE  /\ next[i + 1] = next[i] + Len(ready'[i].frames)
                /\ Matches(ready[i].frames, next[i])'
    <3>1. i \in 1 .. Len(ready) /\ i + 1 \in 1 .. Len(ready) /\ i \in 1 .. Len(ready) - 1
      BY <2>4
    <3>2. next[i] = from[i + 1] /\ next[i + 1] = from[(i + 1) + 1] /\ ready'[i] = ready[i + 1]
      BY <2>4, <2>8, <3>1
    <3>3. /\ from[(i + 1) + 1] = from[i + 1] + Len(ready[i + 1].frames)
          /\ Matches(ready[i + 1].frames, from[i + 1])
      BY <2>2, <3>1 DEF Offsets
    <3> QED BY <2>1, <3>2, <3>3 DEF Matches
  <2>11. Offsets(next)'
    <3>1. next[1] = Len(temp') + Len(InHand')
      BY <2>1, <2>3, <2>4, <2>5, <2>6, <2>9
    <3> QED BY <2>9, <2>10, <3>1 DEF Offsets
  <2> QED BY <1>1, <2>1, <2>3, <2>7, <2>11 DEF Written
<1>5. CASE WriterWrites
  <2>1. /\ writing /\ wPc = "write" /\ wPc' = "load" /\ temp' = temp \o wBlock.frames
        /\ framesWritten' = framesWritten + Len(wBlock.frames)
        /\ UNCHANGED <<ready, accepted>>
    BY <1>5 DEF WriterWrites, audio
  <2>2. PICK from \in [1 .. Len(ready) + 1 -> 0 .. Len(accepted)] : Offsets(from)
    BY <2>1 DEF Written
  <2>3. /\ InHand = wBlock.frames /\ InHand' = <<>> /\ InHand \in Frames
        /\ temp # Nothing /\ temp \in Frames /\ framesWritten = Len(temp)
        /\ Matches(temp, 0) /\ Matches(InHand, Len(temp))
    BY <2>1 DEF InHand, Written, CaptureTypes, Hands, Descriptor
  <2>4. /\ temp' \in Frames /\ Len(temp') = Len(temp) + Len(InHand)
        /\ Len(temp) \in Nat /\ Len(InHand) \in Nat
        /\ \A i \in 1 .. Len(temp) + Len(InHand) :
             temp'[i] = IF i <= Len(temp) THEN temp[i] ELSE InHand[i - Len(temp)]
    BY <1>2, <2>1, <2>3, ConcatProperties DEF Frames
  <2>5. ASSUME NEW i \in 1 .. Len(temp')
        PROVE  temp'[i] = accepted[0 + i]
    <3>1. CASE i <= Len(temp)
      <4>1. i \in 1 .. Len(temp) /\ 0 + i = i
        BY <2>4, <3>1
      <4> QED BY <2>3, <2>4, <3>1, <4>1 DEF Matches
    <3>2. CASE ~ (i <= Len(temp))
      <4>1. i - Len(temp) \in 1 .. Len(InHand) /\ Len(temp) + (i - Len(temp)) = i /\ 0 + i = i
        BY <2>4, <3>2
      <4> QED BY <2>3, <2>4, <3>2, <4>1 DEF Matches
    <3> QED BY <3>1, <3>2
  <2>6. 0 + Len(temp') <= Len(accepted') /\ Len(temp') + 0 <= Len(accepted')
    BY <1>2, <2>1, <2>3, <2>4 DEF Matches
  <2>7. Matches(temp, 0)'
    BY <2>1, <2>5, <2>6 DEF Matches
  <2>8. Matches(InHand, Len(temp))'
    BY <1>2, <2>3, <2>6 DEF Matches
  <2>9. framesWritten' = Len(temp') /\ temp' # Nothing
    BY <2>1, <2>3, <2>4, CaptureConstants
  <2>10. Len(temp') + Len(InHand') = Len(temp) + Len(InHand)
    BY <1>2, <2>3, <2>4
  <2>11. Offsets(from)'
    BY <2>1, <2>2, <2>10 DEF Offsets, Matches
  <2> QED BY <2>1, <2>7, <2>8, <2>9, <2>11 DEF Written
<1>6. CASE CommitBlock
  <2>1. writing /\ UNCHANGED <<temp, framesWritten, wPc, wBlock>> /\ InHand' = InHand
    BY <1>1, <1>6 DEF CommitBlock, InHand, writer
  <2>2. PICK from \in [1 .. Len(ready) + 1 -> 0 .. Len(accepted)] : Offsets(from)
    BY <2>1 DEF Written
  <2>3. PICK chunk \in Frames :
          LET descriptor == [block |-> cbBlock, frames |-> chunk]
          IN  /\ descriptor \in Descriptor /\ ready' = Append(ready, descriptor)
              /\ Len(accepted') = Len(accepted) + Len(chunk)
              /\ \A i \in 1 .. Len(chunk) : accepted'[Len(accepted) + i] = chunk[i]
    BY <1>6, Committed
  <2> DEFINE descriptor == [block |-> cbBlock, frames |-> chunk]
  <2>n. PICK n \in Nat : n = Len(ready)
    BY <1>2
  <2>4. /\ descriptor \in Descriptor /\ descriptor.frames = chunk
        /\ ready' = Append(ready, descriptor)
    BY <2>3
  <2>5. /\ Len(ready') = n + 1 /\ ready'[n + 1].frames = chunk
        /\ \A i \in 1 .. n : ready'[i] = ready[i]
    <3> HIDE DEF descriptor
    <3> QED BY <2>n, <2>4, AppendProperties DEF CaptureTypes
  <2>6. /\ Len(ready') + 1 = n + 2 /\ n + 1 \in 1 .. n + 1 /\ (n + 1) + 1 = n + 2
        /\ 1 \in 1 .. n + 1 /\ \A i \in 1 .. n : i \in 1 .. n + 1 /\ i + 1 \in 1 .. n + 1
        /\ \A i \in 1 .. n + 1 : i \in 1 .. n + 2 /\ i # n + 2
        /\ n + 2 \in 1 .. n + 2
    BY <2>5
  <2>7. /\ temp # Nothing /\ temp \in Frames /\ framesWritten = Len(temp) /\ InHand \in Frames
        /\ Matches(temp, 0) /\ Matches(InHand, Len(temp)) /\ 0 \in Nat /\ Len(temp) \in Nat
    <3>1. InHand \in Frames
      BY <1>2 DEF InHand, CaptureTypes, Hands, Descriptor
    <3> QED BY <1>2, <2>1, <3>1 DEF Written, CaptureTypes
  <2>8. Matches(temp, 0)' /\ Matches(InHand, Len(temp))'
    <3>1. /\ 0 + Len(temp) <= Len(accepted') /\ \A j \in 1 .. Len(temp) : temp[j] = accepted'[0 + j]
      BY <2>7, MatchesKept
    <3>2. /\ Len(temp) + Len(InHand) <= Len(accepted')
          /\ \A j \in 1 .. Len(InHand) : InHand[j] = accepted'[Len(temp) + j]
      BY <2>7, MatchesKept
    <3> QED BY <2>1, <3>1, <3>2 DEF Matches
  <2>9. /\ \A i \in 1 .. n + 1 : from[i] \in 0 .. Len(accepted)
        /\ from[n + 1] = Len(accepted) /\ from[1] = Len(temp) + Len(InHand)
        /\ \A i \in 1 .. n : from[i + 1] = from[i] + Len(ready[i].frames)
        /\ \A i \in 1 .. n : Matches(ready[i].frames, from[i])
    BY <2>n, <2>2 DEF Offsets
  <2>10. PICK next \in [1 .. Len(ready') + 1 -> 0 .. Len(accepted')] :
           next[n + 2] = Len(accepted') /\ \A i \in 1 .. n + 1 : next[i] = from[i]
    <3> DEFINE longer == [i \in 1 .. n + 2 |-> IF i = n + 2 THEN Len(accepted') ELSE from[i]]
    <3>1. \A i \in 1 .. n + 2 : i = n + 2 \/ i \in 1 .. n + 1
      OBVIOUS
    <3>2. longer \in [1 .. Len(ready') + 1 -> 0 .. Len(accepted')]
      BY <1>2, <2>6, <2>9, <3>1
    <3>3. longer[n + 2] = Len(accepted') /\ \A i \in 1 .. n + 1 : longer[i] = from[i]
      BY <2>6
    <3> HIDE DEF longer
    <3> QED BY <3>2, <3>3
  <2> HIDE DEF descriptor
  <2>11. ASSUME NEW i \in 1 .. n
         PROVE  /\ next[i + 1] = next[i] + Len(ready'[i].frames)
                /\ Matches(ready[i].frames, next[i])'
    <3>1. ready[i].frames \in Frames /\ from[i] \in Nat /\ Matches(ready[i].frames, from[i])
      BY <1>2, <2>n, <2>6, <2>9
    <3>2. /\ from[i] + Len(ready[i].frames) <= Len(accepted')
          /\ \A j \in 1 .. Len(ready[i].frames) : ready[i].frames[j] = accepted'[from[i] + j]
      BY <3>1, MatchesKept
    <3>3. ready'[i] = ready[i] /\ next[i] = from[i] /\ next[i + 1] = from[i + 1]
      BY <2>5, <2>6, <2>10
    <3> QED BY <2>9, <3>2, <3>3 DEF Matches
  <2>12. /\ next[(n + 1) + 1] = next[n + 1] + Len(ready'[n + 1].frames)
         /\ Matches(ready[n + 1].frames, next[n + 1])'
    <3>1. next[n + 1] = Len(accepted) /\ next[(n + 1) + 1] = Len(accepted) + Len(chunk)
      BY <2>3, <2>6, <2>9, <2>10
    <3> QED BY <1>2, <2>3, <2>5, <3>1 DEF Matches
  <2>13. Offsets(next)'
    <3>1. \A i \in 1 .. Len(ready') : i \in 1 .. n \/ i = n + 1
      BY <2>5
    <3>2. next[1] = Len(temp') + Len(InHand') /\ next[Len(ready') + 1] = Len(accepted')
      BY <2>1, <2>6, <2>9, <2>10
    <3> QED BY <2>11, <2>12, <3>1, <3>2 DEF Offsets
  <2> QED BY <1>1, <2>1, <2>7, <2>8, <2>13 DEF Written
<1>7. CASE UNCHANGED <<temp, framesWritten, ready, accepted>> /\ InHand' = InHand /\ writing
  <2>1. /\ temp' = temp /\ framesWritten' = framesWritten /\ ready' = ready
        /\ accepted' = accepted /\ InHand' = InHand
    BY <1>7
  <2>2. PICK from \in [1 .. Len(ready) + 1 -> 0 .. Len(accepted)] : Offsets(from)
    BY <1>7 DEF Written
  <2>3. Offsets(from)'
    BY <2>1, <2>2 DEF Offsets, Matches
  <2>4. temp # Nothing /\ framesWritten = Len(temp) /\ Matches(temp, 0) /\ Matches(InHand, Len(temp))
    BY <1>7 DEF Written
  <2>5. Matches(temp, 0)' /\ Matches(InHand, Len(temp))'
    BY <2>1, <2>4 DEF Matches
  <2> QED BY <2>1, <2>2, <2>3, <2>4, <2>5 DEF Written
<1>8. \/ WriterOpens \/ WriterPops \/ WriterWrites \/ CommitBlock
      \/ /\ UNCHANGED <<temp, framesWritten, ready, accepted>> /\ InHand' = InHand
         /\ writing
  BY <1>1, FileMoves
<1> HIDE DEF writing
<1> QED BY <1>3, <1>4, <1>5, <1>6, <1>7, <1>8

\* A good file stays good while frames are accepted.
LEMMA GoodKept ==
  ASSUME CaptureTypes, Hands, Input, [Next]_vars, NEW file \in Frames, Good(file)
  PROVE  Len(file) <= Len(accepted') /\ \A i \in 1 .. Len(file) : file[i] = accepted'[1] + i - 1
<1>1. Len(file) \in Nat \ {0}
  BY LenProperties, EmptySeq DEF Good, Frames
<1>2. 1 \in 1 .. Len(accepted) /\ Len(file) <= Len(accepted')
  BY <1>1, TakeGrows DEF Good
<1>3. accepted'[1] = accepted[1]
  BY <1>2, TakeGrows
<1> QED BY <1>2, <1>3 DEF Good, Run

\* What the writer has written without an overflow is good.
LEMMA WrittenIsGood ==
  ASSUME CaptureTypes, Gapless, Written, wPc = "check", ~ incomplete, framesWritten # 0
  PROVE  temp # Nothing /\ Good(temp)
<1>1. /\ temp # Nothing /\ temp \in Frames /\ Len(temp) # 0 /\ Matches(temp, 0)
      /\ Run(accepted)
  BY DEF Written, Gapless, CaptureTypes
<1>2. temp # <<>> /\ Len(temp) \in Nat /\ Len(accepted) \in Nat
  BY <1>1, EmptySeq, LenProperties DEF Frames, CaptureTypes
<1>3. ASSUME NEW i \in 1 .. Len(temp)
      PROVE  temp[i] = accepted[1] + i - 1
  <2>1. 0 + i = i /\ i \in 1 .. Len(accepted)
    BY <1>1, <1>2 DEF Matches
  <2> QED BY <1>1, <2>1 DEF Matches, Run
<1> QED BY <1>1, <1>2, <1>3 DEF Good, Matches, Run

\* Files are published whole, and only a published one completes the session.
LEMMA FilesKept ==
  ASSUME CaptureTypes, Hands, Phases, Input, Gapless, Written, Files, [Next]_vars
  PROVE  Files'
<1> DEFINE GoodNext(file) ==
             /\ file # <<>> /\ Len(file) <= Len(accepted')
             /\ \A i \in 1 .. Len(file) : file[i] = accepted'[1] + i - 1
<1>1. /\ temp # Nothing => temp \in Frames
      /\ final # Nothing => final \in Frames
      /\ \A file \in Frames : Good(file) => GoodNext(file)
  BY GoodKept DEF CaptureTypes, Good
<1>2. /\ final # Nothing => GoodNext(final)
      /\ temp # Nothing /\ Good(temp) => GoodNext(temp)
  <2> HIDE DEF GoodNext
  <2> QED BY <1>1 DEF Files
<1>3. CASE /\ final' = final
           /\ wPc' \notin {"publish", "complete"} \/ (wPc' = wPc /\ temp' = temp)
           /\ wPc' \in {"open", "reject", "done"} => temp' = Nothing
           /\ state' = "completed" => state = "completed"
  <2>1. final' # Nothing => Good(final)'
    BY <1>2, <1>3 DEF Good, Run
  <2>2. wPc' = "publish" => temp' # Nothing /\ Good(temp)'
    BY <1>2, <1>3 DEF Files, Good, Run
  <2>3. /\ wPc' = "complete" => final' # Nothing /\ temp' = Nothing
        /\ state' = "completed" => final' # Nothing
    BY <1>3 DEF Files
  <2> QED BY <1>3, <2>1, <2>2, <2>3 DEF Files
<1>4. CASE MessageThread \/ Device \/ UNCHANGED vars
  <2>1. /\ final' = final /\ wPc' = wPc /\ (temp' = temp \/ (wPc = "done" /\ temp' = Nothing))
        /\ state' = "completed" => state = "completed"
    BY <1>4 DEF MessageThread, PrepareArmed, PrepareFailed, StopRequest, StopLook,
       StopExchange, Cancel, Shutdown, CancelStore, Joined, StartManual, Device, DeviceStops,
       DeviceCancelStore, vars, shared, writer
  <2>2. wPc \in {"open", "reject", "done"} => temp = Nothing
    BY DEF Files
  <2> HIDE DEF GoodNext
  <2> QED BY <1>3, <2>1, <2>2
<1>5. CASE CallbackBegins \/ CallbackStep
  <2>1. ASSUME NEW n \in 1 .. MaxCallbackFrames, CallbackEnter(n)
        PROVE  /\ final' = final /\ wPc' = wPc /\ temp' = temp
               /\ state' = "completed" => state = "completed"
    BY <2>1 DEF CallbackEnter, shared, writer
  <2>2. ASSUME NEW k \in 0 .. MaxCallbackFrames - 1, ScanTriggers(k)
        PROVE  /\ final' = final /\ wPc' = wPc /\ temp' = temp
               /\ state' = "completed" => state = "completed"
    BY <2>2 DEF ScanTriggers, writer
  <2>3. ASSUME CallbackActivate \/ CallbackReload \/ ScanQuiet \/ AcquireBlock \/ Overflow
               \/ CommitBlock \/ CallbackLeave \/ CallbackStopCheck
        PROVE  /\ final' = final /\ wPc' = wPc /\ temp' = temp
               /\ state' = "completed" => state = "completed"
    BY <2>3 DEF CallbackActivate, CallbackReload, ScanQuiet, AcquireBlock, Overflow,
       CommitBlock, CallbackLeave, CallbackStopCheck, shared, writer
  <2>4. /\ final' = final /\ wPc' = wPc /\ temp' = temp
        /\ state' = "completed" => state = "completed"
    BY <1>5, <2>1, <2>2, <2>3 DEF CallbackBegins, CallbackStep
  <2> QED BY <1>3, <2>4 DEF Files
<1>6. CASE \/ WriterOpens \/ WriterCannotOpen \/ WriterLoads \/ WriterPops
           \/ WriterFindsNothing \/ WriterWrites \/ WriterCannotWrite \/ WriterRemoves
           \/ WriterLooks \/ WriterFinalizes \/ WriterCannotPublish \/ WriterRejects
  <2>1. /\ final' = final /\ wPc' \notin {"publish", "complete"}
        /\ wPc' \in {"open", "reject", "done"} => temp' = Nothing
        /\ state' = "completed" => state = "completed"
    BY <1>6 DEF WriterOpens, WriterCannotOpen, WriterLoads, WriterPops, WriterFindsNothing,
       WriterWrites, WriterCannotWrite, WriterRemoves, WriterLooks, WriterFinalizes,
       WriterCannotPublish, WriterRejects, Files, shared
  <2> QED BY <1>3, <2>1
<1>7. CASE WriterChecks
  <2>1. /\ final' = final /\ accepted' = accepted /\ state' = state
        /\ \/ temp' = Nothing /\ wPc' = "reject"
           \/ temp' = temp /\ wPc' = "publish" /\ temp # Nothing /\ Good(temp)
    BY <1>7, WrittenIsGood DEF WriterChecks, shared, audio
  <2>2. final' # Nothing => Good(final)'
    BY <1>2, <2>1 DEF Good, Run
  <2>3. wPc' = "publish" => temp' # Nothing /\ Good(temp)'
    BY <1>2, <2>1 DEF Good, Run
  <2> QED BY <2>1, <2>2, <2>3 DEF Files
<1>8. CASE WriterPublishes
  <2>1. /\ final' = temp /\ temp' = Nothing /\ wPc' = "complete" /\ accepted' = accepted
        /\ temp # Nothing /\ Good(temp)
    BY <1>8 DEF WriterPublishes, Files, audio
  <2>2. Good(final)'
    BY <2>1 DEF Good, Run
  <2> QED BY <2>1, <2>2 DEF Files
<1>9. CASE WriterCompletes
  <2>1. /\ final' = final /\ temp' = temp /\ wPc' = "done" /\ final # Nothing /\ temp = Nothing
    BY <1>9 DEF WriterCompletes, Files
  <2>2. Good(final)'
    BY <1>2, <2>1 DEF Good, Run
  <2> QED BY <2>1, <2>2 DEF Files
<1> HIDE DEF GoodNext
<1> QED BY <1>4, <1>5, <1>6, <1>7, <1>8, <1>9 DEF Next, WriterThread

-----------------------------------------------------------------------------
(* The blocks.                                                             *)

\* The first block of the free queue leaves it, and no other place has it.
LEMMA FreeTaken ==
  ASSUME free \in Seq(Blocks), free # <<>>, free' = Tail(free),
         \A i, j \in DOMAIN free : free[i] = free[j] => i = j
  PROVE  /\ FreeBlocks = FreeBlocks' \union {Head(free)} /\ Head(free) \notin FreeBlocks'
         /\ \A i, j \in DOMAIN free' : free'[i] = free'[j] => i = j
<1>1. /\ Len(free) \in Nat \ {0} /\ DOMAIN free = 1 .. Len(free)
      /\ DOMAIN free' = 1 .. Len(free) - 1 /\ Head(free) = free[1]
      /\ \A i \in 1 .. Len(free) - 1 : free'[i] = free[i + 1]
  <2>1. Len(free) \in Nat \ {0} /\ DOMAIN free = 1 .. Len(free) /\ Head(free) = free[1]
    BY EmptySeq, LenProperties
  <2>2. /\ free' \in Seq(Blocks) /\ Len(free') = Len(free) - 1
        /\ \A i \in 1 .. Len(free') : free'[i] = free[i + 1]
    BY HeadTailProperties
  <2>3. DOMAIN free' = 1 .. Len(free')
    BY <2>2, LenProperties
  <2> QED BY <2>1, <2>2, <2>3
<1>2. /\ 1 \in DOMAIN free
      /\ \A i \in DOMAIN free' : i + 1 \in DOMAIN free /\ i + 1 # 1 /\ free'[i] = free[i + 1]
      /\ \A i \in DOMAIN free : i = 1 \/ (i - 1 \in DOMAIN free' /\ (i - 1) + 1 = i)
      /\ \A i, j \in DOMAIN free' : i + 1 = j + 1 => i = j
  BY <1>1
<1>3. FreeBlocks = FreeBlocks' \union {Head(free)}
  <2>1. ASSUME NEW i \in DOMAIN free
        PROVE  free[i] \in FreeBlocks' \union {Head(free)}
    <3>1. CASE i = 1
      BY <1>1, <3>1
    <3>2. CASE i # 1
      <4>1. i - 1 \in DOMAIN free' /\ free'[i - 1] = free[i]
        BY <1>2, <3>2
      <4> QED BY <4>1 DEF FreeBlocks
    <3> QED BY <3>1, <3>2
  <2>2. \A i \in DOMAIN free' : free'[i] \in FreeBlocks
    BY <1>2 DEF FreeBlocks
  <2>3. Head(free) \in FreeBlocks
    BY <1>1, <1>2 DEF FreeBlocks
  <2> QED BY <2>1, <2>2, <2>3 DEF FreeBlocks
<1>4. Head(free) \notin FreeBlocks'
  BY <1>1, <1>2 DEF FreeBlocks
<1>5. \A i, j \in DOMAIN free' : free'[i] = free'[j] => i = j
  BY <1>2
<1> QED BY <1>3, <1>4, <1>5

\* So does the first of the ready queue.
LEMMA ReadyTaken ==
  ASSUME ready \in Seq(Descriptor), ready # <<>>, ready' = Tail(ready),
         \A i, j \in DOMAIN ready : ready[i].block = ready[j].block => i = j
  PROVE  /\ ReadyBlocks = ReadyBlocks' \union {Head(ready).block}
         /\ Head(ready).block \notin ReadyBlocks'
         /\ \A i, j \in DOMAIN ready' : ready'[i].block = ready'[j].block => i = j
<1>1. /\ Len(ready) \in Nat \ {0} /\ DOMAIN ready = 1 .. Len(ready)
      /\ DOMAIN ready' = 1 .. Len(ready) - 1 /\ Head(ready) = ready[1]
      /\ \A i \in 1 .. Len(ready) - 1 : ready'[i] = ready[i + 1]
  <2>1. Len(ready) \in Nat \ {0} /\ DOMAIN ready = 1 .. Len(ready) /\ Head(ready) = ready[1]
    BY EmptySeq, LenProperties
  <2>2. /\ ready' \in Seq(Descriptor) /\ Len(ready') = Len(ready) - 1
        /\ \A i \in 1 .. Len(ready') : ready'[i] = ready[i + 1]
    BY HeadTailProperties
  <2>3. DOMAIN ready' = 1 .. Len(ready')
    BY <2>2, LenProperties
  <2> QED BY <2>1, <2>2, <2>3
<1>2. /\ 1 \in DOMAIN ready
      /\ \A i \in DOMAIN ready' : i + 1 \in DOMAIN ready /\ i + 1 # 1 /\ ready'[i] = ready[i + 1]
      /\ \A i \in DOMAIN ready : i = 1 \/ (i - 1 \in DOMAIN ready' /\ (i - 1) + 1 = i)
      /\ \A i, j \in DOMAIN ready' : i + 1 = j + 1 => i = j
  BY <1>1
<1>3. ReadyBlocks = ReadyBlocks' \union {Head(ready).block}
  <2>1. ASSUME NEW i \in DOMAIN ready
        PROVE  ready[i].block \in ReadyBlocks' \union {Head(ready).block}
    <3>1. CASE i = 1
      BY <1>1, <3>1
    <3>2. CASE i # 1
      <4>1. i - 1 \in DOMAIN ready' /\ ready'[i - 1] = ready[i]
        BY <1>2, <3>2
      <4> QED BY <4>1 DEF ReadyBlocks
    <3> QED BY <3>1, <3>2
  <2>2. \A i \in DOMAIN ready' : ready'[i].block \in ReadyBlocks
    BY <1>2 DEF ReadyBlocks
  <2>3. Head(ready).block \in ReadyBlocks
    BY <1>1, <1>2 DEF ReadyBlocks
  <2> QED BY <2>1, <2>2, <2>3 DEF ReadyBlocks
<1>4. Head(ready).block \notin ReadyBlocks'
  BY <1>1, <1>2 DEF ReadyBlocks
<1>5. \A i, j \in DOMAIN ready' : ready'[i].block = ready'[j].block => i = j
  BY <1>2
<1> QED BY <1>3, <1>4, <1>5

\* A block that is not in the free queue is put behind it.
LEMMA FreeAdded ==
  ASSUME free \in Seq(Blocks), NEW b \in Blocks, free' = Append(free, b), b \notin FreeBlocks,
         \A i, j \in DOMAIN free : free[i] = free[j] => i = j
  PROVE  /\ FreeBlocks' = FreeBlocks \union {b}
         /\ \A i, j \in DOMAIN free' : free'[i] = free'[j] => i = j
<1>1. /\ Len(free) \in Nat /\ DOMAIN free = 1 .. Len(free) /\ DOMAIN free' = 1 .. Len(free) + 1
      /\ \A i \in 1 .. Len(free) : free'[i] = free[i]
      /\ free'[Len(free) + 1] = b
  <2>1. /\ free' \in Seq(Blocks) /\ Len(free') = Len(free) + 1
        /\ \A i \in 1 .. Len(free) : free'[i] = free[i]
        /\ free'[Len(free) + 1] = b
    BY AppendProperties
  <2>2. DOMAIN free' = 1 .. Len(free')
    BY <2>1, LenProperties
  <2> QED BY <2>1, <2>2, LenProperties
<1>2. PICK last \in DOMAIN free' :
        /\ free'[last] = b /\ last \notin DOMAIN free
        /\ \A i \in DOMAIN free' : i = last \/ i \in DOMAIN free
        /\ \A i \in DOMAIN free : i \in DOMAIN free' /\ free'[i] = free[i]
  BY <1>1
<1>3. \A c : c \in FreeBlocks' <=> c \in FreeBlocks \/ c = b
  BY <1>2 DEF FreeBlocks
<1>4. \A i, j \in DOMAIN free' : free'[i] = free'[j] => i = j
  BY <1>2 DEF FreeBlocks
<1> QED BY <1>3, <1>4

\* The same of the ready queue.
LEMMA ReadyAdded ==
  ASSUME ready \in Seq(Descriptor), NEW d \in Descriptor, ready' = Append(ready, d),
         d.block \notin ReadyBlocks,
         \A i, j \in DOMAIN ready : ready[i].block = ready[j].block => i = j
  PROVE  /\ ReadyBlocks' = ReadyBlocks \union {d.block}
         /\ \A i, j \in DOMAIN ready' : ready'[i].block = ready'[j].block => i = j
<1>1. /\ Len(ready) \in Nat /\ DOMAIN ready = 1 .. Len(ready)
      /\ DOMAIN ready' = 1 .. Len(ready) + 1
      /\ \A i \in 1 .. Len(ready) : ready'[i] = ready[i]
      /\ ready'[Len(ready) + 1] = d
  <2>1. /\ ready' \in Seq(Descriptor) /\ Len(ready') = Len(ready) + 1
        /\ \A i \in 1 .. Len(ready) : ready'[i] = ready[i]
        /\ ready'[Len(ready) + 1] = d
    BY AppendProperties
  <2>2. DOMAIN ready' = 1 .. Len(ready')
    BY <2>1, LenProperties
  <2> QED BY <2>1, <2>2, LenProperties
<1>2. PICK last \in DOMAIN ready' :
        /\ ready'[last] = d /\ last \notin DOMAIN ready
        /\ \A i \in DOMAIN ready' : i = last \/ i \in DOMAIN ready
        /\ \A i \in DOMAIN ready : i \in DOMAIN ready' /\ ready'[i] = ready[i]
  BY <1>1
<1>3. \A c : c \in ReadyBlocks' <=> c \in ReadyBlocks \/ c = d.block
  BY <1>2 DEF ReadyBlocks
<1>4. \A i, j \in DOMAIN ready' : ready'[i].block = ready'[j].block => i = j
  BY <1>2 DEF ReadyBlocks
<1> QED BY <1>3, <1>4

\* A step that moves no block.
LEMMA NoBlockMoves ==
  ASSUME BlockConservation, UNCHANGED <<free, ready, cbBlock, wBlock>>
  PROVE  BlockConservation'
  BY DEF BlockConservation, FreeBlocks, ReadyBlocks, CallbackHold, WriterHold

\* The four places a block can be in stay apart, and hold every block.
LEMMA BlocksKept ==
  ASSUME CaptureTypes, Hands, Input, BlockConservation, [Next]_vars
  PROVE  BlockConservation'
<1>1. CASE MessageThread \/ Device \/ UNCHANGED vars
  <2>1. UNCHANGED <<free, ready, cbBlock, wBlock>>
    BY <1>1 DEF MessageThread, PrepareArmed, PrepareFailed, StopRequest, StopLook,
       StopExchange, Cancel, Shutdown, CancelStore, Joined, StartManual, Device, DeviceStops,
       DeviceCancelStore, vars, audio, writer
  <2> QED BY <2>1, NoBlockMoves
<1>2. ASSUME NEW n \in 1 .. MaxCallbackFrames, CallbackEnter(n)
      PROVE  BlockConservation'
  BY <1>2, NoBlockMoves DEF CallbackEnter, writer
<1>3. ASSUME NEW k \in 0 .. MaxCallbackFrames - 1, ScanTriggers(k)
      PROVE  BlockConservation'
  BY <1>3, NoBlockMoves DEF ScanTriggers, writer
<1>4. CASE CallbackActivate \/ CallbackReload \/ ScanQuiet \/ Overflow
           \/ CallbackLeave \/ CallbackStopCheck
  <2>1. UNCHANGED <<free, ready, cbBlock, wBlock>>
    BY <1>4 DEF CallbackActivate, CallbackReload, ScanQuiet, Overflow, CallbackLeave,
       CallbackStopCheck, writer
  <2> QED BY <2>1, NoBlockMoves
<1>5. CASE \/ WriterOpens \/ WriterCannotOpen \/ WriterLoads \/ WriterFindsNothing
           \/ WriterRemoves \/ WriterLooks \/ WriterFinalizes \/ WriterChecks
           \/ WriterPublishes \/ WriterCannotPublish \/ WriterRejects \/ WriterCompletes
  <2>1. UNCHANGED <<free, ready, cbBlock, wBlock>>
    BY <1>5 DEF WriterOpens, WriterCannotOpen, WriterLoads, WriterFindsNothing,
       WriterRemoves, WriterLooks, WriterFinalizes, WriterChecks, WriterPublishes,
       WriterCannotPublish, WriterRejects, WriterCompletes, audio
  <2> QED BY <2>1, NoBlockMoves
<1>6. CASE AcquireBlock
  <2>1. /\ free # <<>> /\ free' = Tail(free) /\ cbBlock = Nothing /\ cbBlock' = Head(free)
        /\ ready' = ready /\ wBlock' = wBlock
    BY <1>6 DEF AcquireBlock, Hands, writer
  <2>2. /\ FreeBlocks = FreeBlocks' \union {Head(free)} /\ Head(free) \notin FreeBlocks'
        /\ \A i, j \in DOMAIN free' : free'[i] = free'[j] => i = j
    BY <2>1, FreeTaken DEF CaptureTypes, BlockConservation
  <2>3. /\ CallbackHold = {} /\ CallbackHold' = {Head(free)} /\ WriterHold' = WriterHold
        /\ ReadyBlocks' = ReadyBlocks
    <3>1. Head(free) # Nothing
      BY <2>1, HeadTailProperties, CaptureConstants DEF CaptureTypes
    <3> QED BY <2>1, <3>1 DEF CallbackHold, WriterHold, ReadyBlocks
  <2> QED BY <2>1, <2>2, <2>3 DEF BlockConservation
<1>7. CASE CommitBlock
  <2>1. PICK chunk \in Frames :
          LET descriptor == [block |-> cbBlock, frames |-> chunk]
          IN  descriptor \in Descriptor /\ ready' = Append(ready, descriptor)
    BY <1>7, Committed
  <2> DEFINE descriptor == [block |-> cbBlock, frames |-> chunk]
  <2>2. /\ descriptor \in Descriptor /\ ready' = Append(ready, descriptor)
        /\ descriptor.block = cbBlock
    BY <2>1
  <2> HIDE DEF descriptor
  <2>3. /\ cbBlock # Nothing /\ cbBlock' = Nothing /\ free' = free /\ wBlock' = wBlock
    BY <1>7 DEF CommitBlock, Hands, writer
  <2>4. /\ CallbackHold = {cbBlock} /\ CallbackHold' = {} /\ WriterHold' = WriterHold
        /\ FreeBlocks' = FreeBlocks
    BY <2>3 DEF CallbackHold, WriterHold, FreeBlocks
  <2>5. /\ ReadyBlocks' = ReadyBlocks \union {cbBlock}
        /\ \A i, j \in DOMAIN ready' : ready'[i].block = ready'[j].block => i = j
    <3>1. descriptor.block \notin ReadyBlocks
      BY <2>2, <2>4 DEF BlockConservation
    <3> QED BY <2>2, <3>1, ReadyAdded DEF CaptureTypes, BlockConservation
  <2> QED BY <2>3, <2>4, <2>5 DEF BlockConservation
<1>8. CASE WriterPops
  <2>1. /\ ready # <<>> /\ ready' = Tail(ready) /\ wBlock = Nothing /\ wBlock' = Head(ready)
        /\ free' = free /\ cbBlock' = cbBlock
    BY <1>8 DEF WriterPops, Hands, audio
  <2>2. /\ ReadyBlocks = ReadyBlocks' \union {Head(ready).block}
        /\ Head(ready).block \notin ReadyBlocks'
        /\ \A i, j \in DOMAIN ready' : ready'[i].block = ready'[j].block => i = j
    BY <2>1, ReadyTaken DEF CaptureTypes, BlockConservation
  <2>3. /\ WriterHold = {} /\ WriterHold' = {Head(ready).block} /\ CallbackHold' = CallbackHold
        /\ FreeBlocks' = FreeBlocks
    <3>1. Head(ready) # Nothing
      BY <2>1, HeadTailProperties, CaptureConstants DEF CaptureTypes
    <3> QED BY <2>1, <3>1 DEF CallbackHold, WriterHold, FreeBlocks
  <2> QED BY <2>1, <2>2, <2>3 DEF BlockConservation
<1>9. CASE WriterWrites \/ WriterCannotWrite
  <2>1. /\ wBlock # Nothing /\ free' = Append(free, wBlock.block) /\ wBlock' = Nothing
        /\ ready' = ready /\ cbBlock' = cbBlock
    BY <1>9 DEF WriterWrites, WriterCannotWrite, Hands, audio
  <2>2. /\ WriterHold = {wBlock.block} /\ WriterHold' = {} /\ CallbackHold' = CallbackHold
        /\ ReadyBlocks' = ReadyBlocks
    BY <2>1 DEF CallbackHold, WriterHold, ReadyBlocks
  <2>3. /\ FreeBlocks' = FreeBlocks \union {wBlock.block}
        /\ \A i, j \in DOMAIN free' : free'[i] = free'[j] => i = j
    <3>1. wBlock.block \in Blocks /\ wBlock.block \notin FreeBlocks
      BY <2>1, <2>2 DEF CaptureTypes, Descriptor, BlockConservation
    <3> QED BY <2>1, <3>1, FreeAdded DEF CaptureTypes, BlockConservation
  <2> QED BY <2>1, <2>2, <2>3 DEF BlockConservation
<1> QED
  BY <1>1, <1>2, <1>3, <1>4, <1>5, <1>6, <1>7, <1>8, <1>9
     DEF Next, CallbackBegins, CallbackStep, WriterThread

-----------------------------------------------------------------------------
(* The theorems.                                                           *)

\* A session that has just been prepared.
LEMMA CaptureInitSafe == Init => CaptureInv
<1> SUFFICES ASSUME Init PROVE CaptureInv
  OBVIOUS
<1>1. /\ <<>> \in Frames /\ Len(<<>>) = 0 /\ <<>> \in Seq(Descriptor)
      /\ \A d \in Int : Ends(<<>>, d)
  BY DEF Frames, Ends
<1>2. /\ free = [i \in Blocks |-> i] /\ free \in Seq(Blocks) /\ DOMAIN free = Blocks
      /\ \A i \in Blocks : free[i] = i
  BY CaptureConstants DEF Init, Blocks
<1>3. CaptureTypes
  BY <1>1, <1>2 DEF Init, CaptureTypes
<1>4. Hands /\ Phases /\ Input /\ Gapless /\ Written /\ Files
  BY <1>1 DEF Init, Hands, Phases, Input, Gapless, Run, Written, Files
<1>5. BlockConservation
  BY <1>2 DEF Init, BlockConservation, FreeBlocks, ReadyBlocks, CallbackHold, WriterHold
<1> QED BY <1>3, <1>4, <1>5 DEF CaptureInv

\* Every step of every thread.
LEMMA CaptureStepSafe == CaptureInv /\ [Next]_vars => CaptureInv'
<1> SUFFICES ASSUME CaptureInv, [Next]_vars PROVE CaptureInv'
  OBVIOUS
<1>1. /\ CaptureTypes /\ Hands /\ Phases /\ Input /\ Gapless /\ Written /\ Files
      /\ BlockConservation
  BY DEF CaptureInv
<1>2. CaptureTypes'
  BY <1>1, CaptureTypesKept
<1>3. Hands' /\ Phases' /\ Input' /\ Gapless'
  BY <1>1, HandsKept, PhasesKept, InputKept, GaplessKept
<1>4. Written' /\ Files' /\ BlockConservation'
  BY <1>1, <1>2, WrittenKept, FilesKept, BlocksKept
<1> QED BY <1>2, <1>3, <1>4 DEF CaptureInv

\* No block of the FIFO is ever lost, duplicated or in two hands, whatever overflows and
\* whenever the session is stopped, cancelled or closed (CaptureFifo, CaptureWriter).
THEOREM BlocksConserved == Spec => []BlockConservation
<1>1. CaptureInv => BlockConservation
  BY DEF CaptureInv
<1> QED BY <1>1, CaptureInitSafe, CaptureStepSafe, PTL DEF Spec

\* A file that reaches its destination has no hole, for blocks and callbacks of every size,
\* every pre-roll and every interleaving of the three threads (CaptureWriter::writerLoop()).
THEOREM PublishedGapless == Spec => []PublishedIsGapless
<1>1. CaptureInv => PublishedIsGapless
  BY DEF CaptureInv, Files, Good, Run, PublishedIsGapless
<1> QED BY <1>1, CaptureInitSafe, CaptureStepSafe, PTL DEF Spec

\* A writer that has ended leaves no .part file, and a completed session has its file.
THEOREM EndedCleanly == Spec => []EndsCleanly
<1>1. CaptureInv => EndsCleanly
  BY DEF CaptureInv, Files, EndsCleanly
<1> QED BY <1>1, CaptureInitSafe, CaptureStepSafe, PTL DEF Spec

\* No late store or compare-exchange makes a stopped session capture again.
THEOREM StopsAreFinal == Spec => StoppedStaysStopped
<1>1. CaptureInv /\ [Next]_vars =>
        [state' \in Capturing => state \in Capturing \union {"idle"}]_vars
  <2> SUFFICES ASSUME CaptureInv, [Next]_vars, state' \in Capturing
               PROVE  state \in Capturing \union {"idle"}
    OBVIOUS
  <2>1. CASE PrepareArmed
    BY <2>1 DEF PrepareArmed, CaptureInv, Phases
  <2>2. CASE StartManual
    BY <2>2 DEF StartManual, Capturing
  <2>3. ASSUME NEW k \in 0 .. MaxCallbackFrames - 1, ScanTriggers(k)
        PROVE  state \in Capturing \union {"idle"}
    BY <2>3 DEF ScanTriggers, Capturing
  <2>4. CASE MessageThread /\ ~ PrepareArmed /\ ~ StartManual
    BY <2>4 DEF MessageThread, PrepareFailed, StopRequest, StopLook, StopExchange, Cancel,
       Shutdown, CancelStore, Joined, Capturing, shared
  <2>5. CASE Device \/ CallbackBegins \/ UNCHANGED vars
    BY <2>5 DEF Device, DeviceStops, DeviceCancelStore, CallbackBegins, CallbackEnter,
       Capturing, vars, shared
  <2>6. CASE CallbackActivate \/ CallbackReload \/ ScanQuiet \/ AcquireBlock \/ Overflow
             \/ CommitBlock \/ CallbackLeave \/ CallbackStopCheck
    BY <2>6 DEF CallbackActivate, CallbackReload, ScanQuiet, AcquireBlock, Overflow,
       CommitBlock, CallbackLeave, CallbackStopCheck, Capturing, shared
  <2>7. CASE WriterThread
    BY <2>7 DEF WriterThread, WriterOpens, WriterCannotOpen, WriterLoads, WriterPops,
       WriterFindsNothing, WriterWrites, WriterCannotWrite, WriterRemoves, WriterLooks,
       WriterFinalizes, WriterChecks, WriterPublishes, WriterCannotPublish, WriterRejects,
       WriterCompletes, Capturing, shared
  <2> QED BY <2>1, <2>2, <2>3, <2>4, <2>5, <2>6, <2>7 DEF Next, CallbackStep
<1> QED BY <1>1, CaptureInitSafe, CaptureStepSafe, PTL DEF Spec, StoppedStaysStopped
=============================================================================

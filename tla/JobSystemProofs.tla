--------------------------- MODULE JobSystemProofs ---------------------------
(***************************************************************************)
(* TLAPS proofs about JobSystem, for every number of workers and jobs,     *)
(* every capacity and all owners and priorities: the order and the count   *)
(* of jobs, cancellation at shutdown, and that every step is one that      *)
(* BoundedJobs allows.                                                     *)
(***************************************************************************)
EXTENDS JobSystem, SequenceTheorems, FiniteSetTheorems, WellFoundedInduction,
        NaturalsInduction, TLAPS

-----------------------------------------------------------------------------
(* Sequences.                                                              *)

\* What InsertAt() does to each place of a sequence.
LEMMA InsertedSequence ==
  ASSUME NEW S, NEW s \in Seq(S), NEW e \in S, NEW i \in 1 .. Len(s) + 1
  PROVE  /\ InsertAt(s, i, e) \in Seq(S)
         /\ Len(InsertAt(s, i, e)) = Len(s) + 1
         /\ \A k \in 1 .. Len(s) + 1 :
              InsertAt(s, i, e)[k] =
                IF k < i THEN s[k] ELSE IF k = i THEN e ELSE s[k - 1]
<1> DEFINE n == Len(s)
           front == SubSeq(s, 1, i - 1)
           back == SubSeq(s, i, n)
<1>1. n \in Nat /\ i \in 1 .. n + 1 /\ \A k \in 1 .. n : s[k] \in S
  BY LenProperties, ElementOfSeq
<1>2. /\ front \in Seq(S) /\ Len(front) = i - 1
      /\ \A k \in 1 .. i - 1 : front[k] = s[k]
  <2>1. 1 \in Int /\ i - 1 \in Int /\ \A k \in 1 .. i - 1 : s[k] \in S
    BY <1>1
  <2>2. /\ front \in Seq(S) /\ Len(front) = IF 1 <= i - 1 THEN i - 1 - 1 + 1 ELSE 0
        /\ \A k \in 1 .. i - 1 - 1 + 1 : front[k] = s[1 + k - 1]
    BY <2>1, SubSeqProperties, SMT
  <2> HIDE DEF n, front
  <2> QED BY <1>1, <2>2
<1>3. /\ back \in Seq(S) /\ Len(back) = n - i + 1
      /\ \A k \in 1 .. n - i + 1 : back[k] = s[i + k - 1]
  <2>1. i \in Int /\ n \in Int /\ \A k \in i .. n : s[k] \in S
    BY <1>1
  <2>2. /\ back \in Seq(S) /\ Len(back) = IF i <= n THEN n - i + 1 ELSE 0
        /\ \A k \in 1 .. n - i + 1 : back[k] = s[i + k - 1]
    <3> HIDE DEF n
    <3> QED BY <2>1, SubSeqProperties, SMT
  <2> HIDE DEF n, back
  <2> QED BY <1>1, <2>2
<1>4. <<e>> \in Seq(S) /\ Len(<<e>>) = 1 /\ <<e>>[1] = e
  OBVIOUS
<1> DEFINE head == front \o <<e>>
<1>5. /\ head \in Seq(S) /\ Len(head) = i
      /\ \A k \in 1 .. i : head[k] = IF k < i THEN s[k] ELSE e
  <2>1. /\ head \in Seq(S) /\ Len(head) = Len(front) + 1
        /\ \A k \in 1 .. Len(front) + 1 :
             head[k] = IF k <= Len(front) THEN front[k] ELSE <<e>>[k - Len(front)]
    <3> HIDE DEF front
    <3> QED BY <1>2, <1>4, ConcatProperties
  <2>2. /\ i - 1 + 1 = i
        /\ \A k \in 1 .. i : (k <= i - 1 <=> k < i) /\ (k < i \/ k - (i - 1) = 1)
                             /\ (k <= i - 1 => k \in 1 .. i - 1)
    BY <1>1
  <2> HIDE DEF front, head
  <2> QED BY <1>2, <1>4, <2>1, <2>2
<1>6. /\ head \o back \in Seq(S) /\ Len(head \o back) = Len(head) + Len(back)
      /\ \A k \in 1 .. Len(head) + Len(back) :
           (head \o back)[k] = IF k <= Len(head) THEN head[k] ELSE back[k - Len(head)]
  <2> HIDE DEF head, back
  <2> QED BY <1>3, <1>5, ConcatProperties
<1>7. InsertAt(s, i, e) = head \o back
  BY DEF InsertAt
<1>8. i + (n - i + 1) = n + 1
  BY <1>1
<1>9. ASSUME NEW k \in 1 .. n + 1
      PROVE  (head \o back)[k] = IF k < i THEN s[k] ELSE IF k = i THEN e ELSE s[k - 1]
  <2>1. (head \o back)[k] = IF k <= i THEN head[k] ELSE back[k - i]
    <3> HIDE DEF head, back, n
    <3> QED BY <1>1, <1>3, <1>5, <1>6, <1>8
  <2>2. CASE k <= i
    <3>1. k \in 1 .. i /\ (k < i \/ k = i)
      BY <1>1, <2>2
    <3> HIDE DEF head, back, n
    <3> QED BY <1>5, <2>1, <2>2, <3>1
  <2>3. CASE ~ (k <= i)
    <3>1. k - i \in 1 .. n - i + 1 /\ i + (k - i) - 1 = k - 1 /\ ~ (k < i) /\ k # i
      BY <1>1, <2>3
    <3> HIDE DEF head, back, n
    <3> QED BY <1>3, <2>1, <2>3, <3>1
  <2> QED BY <2>2, <2>3
<1> QED
  <2> HIDE DEF head, back
  <2> QED BY <1>3, <1>5, <1>6, <1>7, <1>8, <1>9

\* The members of a sequence after an insertion.
LEMMA InsertedMembers ==
  ASSUME NEW S, NEW s \in Seq(S), NEW e \in S, NEW i \in 1 .. Len(s) + 1
  PROVE  ToSet(InsertAt(s, i, e)) = ToSet(s) \union {e}
<1> DEFINE t == InsertAt(s, i, e)
           n == Len(s)
<1>1. /\ n \in Nat /\ i \in 1 .. n + 1 /\ DOMAIN s = 1 .. n /\ DOMAIN t = 1 .. n + 1
      /\ \A k \in 1 .. n + 1 :
           t[k] = IF k < i THEN s[k] ELSE IF k = i THEN e ELSE s[k - 1]
  <2>1. /\ t \in Seq(S) /\ Len(t) = n + 1
        /\ \A k \in 1 .. n + 1 :
             t[k] = IF k < i THEN s[k] ELSE IF k = i THEN e ELSE s[k - 1]
    BY InsertedSequence
  <2> HIDE DEF t
  <2> QED BY <2>1, LenProperties
<1> HIDE DEF t, n
<1>2. ASSUME NEW k \in 1 .. n + 1
      PROVE  t[k] \in ToSet(s) \union {e}
  <2>1. \/ k \in 1 .. n /\ t[k] = s[k]
        \/ t[k] = e
        \/ k - 1 \in 1 .. n /\ t[k] = s[k - 1]
    BY <1>1
  <2> QED BY <1>1, <2>1 DEF ToSet
<1>3. ASSUME NEW k \in 1 .. n
      PROVE  s[k] \in ToSet(t)
  <2>1. CASE k < i
    <3>1. k \in 1 .. n + 1 /\ t[k] = s[k]
      BY <1>1, <2>1
    <3> QED BY <1>1, <3>1 DEF ToSet
  <2>2. CASE ~ (k < i)
    <3>1. k + 1 \in 1 .. n + 1 /\ t[k + 1] = s[k]
      BY <1>1, <2>2
    <3> QED BY <1>1, <3>1 DEF ToSet
  <2> QED BY <2>1, <2>2
<1>4. e \in ToSet(t)
  BY <1>1 DEF ToSet
<1>5. ToSet(t) \subseteq ToSet(s) \union {e}
  BY <1>1, <1>2 DEF ToSet
<1>6. ToSet(s) \subseteq ToSet(t)
  BY <1>1, <1>3 DEF ToSet
<1>7. ToSet(t) = ToSet(s) \union {e}
  BY <1>4, <1>5, <1>6
<1> QED BY <1>7 DEF t

\* Taking the first element moves the others up.
LEMMA TakenHead ==
  ASSUME NEW S, NEW s \in Seq(S), s # <<>>
  PROVE  /\ Head(s) \in S /\ Tail(s) \in Seq(S) /\ Head(s) = s[1]
         /\ Len(s) \in Nat \ {0} /\ Len(Tail(s)) = Len(s) - 1
         /\ DOMAIN s = 1 .. Len(s) /\ DOMAIN Tail(s) = 1 .. Len(s) - 1
         /\ \A i \in 1 .. Len(s) - 1 : Tail(s)[i] = s[i + 1]
         /\ ToSet(s) = {Head(s)} \union ToSet(Tail(s))
<1>1. Head(s) \in S /\ Tail(s) \in Seq(S) /\ Len(Tail(s)) = Len(s) - 1
      /\ \A i \in 1 .. Len(s) - 1 : Tail(s)[i] = s[i + 1]
  BY HeadTailProperties
<1>2. Len(s) \in Nat \ {0} /\ DOMAIN s = 1 .. Len(s) /\ Head(s) = s[1]
  BY EmptySeq, LenProperties
<1>3. DOMAIN Tail(s) = 1 .. Len(s) - 1
  BY <1>1, LenProperties
<1> DEFINE t == Tail(s)
           h == Head(s)
           n == Len(s)
<1>4. ToSet(s) = {h} \union ToSet(t)
  <2>1. /\ n \in Nat \ {0} /\ DOMAIN s = 1 .. n /\ DOMAIN t = 1 .. n - 1 /\ h = s[1]
        /\ \A i \in 1 .. n - 1 : t[i] = s[i + 1]
    BY <1>1, <1>2, <1>3
  <2> HIDE DEF t, h, n
  <2>2. \A i \in 1 .. n : i = 1 \/ (i - 1 \in 1 .. n - 1 /\ t[i - 1] = s[i])
    BY <2>1
  <2>3. \A i \in 1 .. n - 1 : i + 1 \in 1 .. n
    BY <2>1
  <2>4. ToSet(s) \subseteq {h} \union ToSet(t)
    BY <2>1, <2>2 DEF ToSet
  <2>5. 1 \in DOMAIN s /\ {h} \union ToSet(t) \subseteq ToSet(s)
    BY <2>1, <2>3 DEF ToSet
  <2> QED BY <2>4, <2>5
<1> QED BY <1>1, <1>2, <1>3, <1>4

\* Appending an element.
LEMMA AppendedMembers ==
  ASSUME NEW S, NEW s \in Seq(S), NEW e \in S
  PROVE  /\ Append(s, e) \in Seq(S) /\ Len(s) \in Nat
         /\ Len(Append(s, e)) = Len(s) + 1
         /\ DOMAIN s = 1 .. Len(s) /\ DOMAIN Append(s, e) = 1 .. Len(s) + 1
         /\ \A i \in 1 .. Len(s) : Append(s, e)[i] = s[i]
         /\ Append(s, e)[Len(s) + 1] = e
         /\ ToSet(Append(s, e)) = ToSet(s) \union {e}
<1> DEFINE t == Append(s, e)
           n == Len(s)
<1>1. /\ t \in Seq(S) /\ n \in Nat /\ Len(t) = n + 1
      /\ DOMAIN s = 1 .. n /\ \A i \in 1 .. n : t[i] = s[i]
      /\ t[n + 1] = e
  BY AppendProperties, LenProperties
<1>2. DOMAIN t = 1 .. n + 1
  <2> HIDE DEF t, n
  <2> QED BY <1>1, LenProperties
<1>3. ToSet(t) = ToSet(s) \union {e}
  <2> HIDE DEF t, n
  <2>1. \A i \in 1 .. n + 1 : i = n + 1 \/ i \in 1 .. n
    BY <1>1
  <2>2. n + 1 \in 1 .. n + 1 /\ \A i \in 1 .. n : i \in 1 .. n + 1
    BY <1>1
  <2>3. ToSet(t) \subseteq ToSet(s) \union {e}
    BY <1>1, <1>2, <2>1 DEF ToSet
  <2>4. ToSet(s) \union {e} \subseteq ToSet(t)
    BY <1>1, <1>2, <2>2 DEF ToSet
  <2> QED BY <2>3, <2>4
<1> QED BY <1>1, <1>2, <1>3

\* The members of a sequence are elements of its set.
LEMMA MembersOfSequence ==
  ASSUME NEW S, NEW s \in Seq(S)
  PROVE  ToSet(s) \subseteq S /\ (s = <<>> => ToSet(s) = {})
  BY LenProperties, ElementOfSeq, EmptySeq DEF ToSet

-----------------------------------------------------------------------------
(* Where a job is queued.                                                  *)

Job == [id : Nat, owner : Owners, priority : Priorities]

\* There is a place behind every job of its priority or higher and in front of every other:
\* the first place whose job is lower, or the end.
LEMMA PositionExists ==
  ASSUME pending \in Seq(Job), NEW job \in Job
  PROVE  /\ Position(job) \in 1 .. Len(pending) + 1
         /\ \A k \in 1 .. Position(job) - 1 : pending[k].priority >= job.priority
         /\ Position(job) = Len(pending) + 1 \/ pending[Position(job)].priority < job.priority
<1> DEFINE n == Len(pending)
           Lower == {i \in 1 .. n + 1 : i = n + 1 \/ pending[i].priority < job.priority}
<1>1. n \in Nat /\ \A k \in 1 .. n : pending[k].priority \in Int
  <2>1. n \in Nat /\ \A k \in 1 .. n : pending[k] \in Job
    BY LenProperties, ElementOfSeq
  <2>2. \A other \in Job : other.priority \in Int
    BY JobAssumption DEF Job
  <2> QED BY <2>1, <2>2
<1>2. job.priority \in Int
  BY JobAssumption DEF Job
<1>3. Lower \subseteq Nat /\ n + 1 \in Lower
  BY <1>1
<1>4. PICK m \in Lower : \A y \in Lower : ~ (<<y, m>> \in OpToRel(<, Nat))
  <2> HIDE DEF Lower
  <2> QED BY <1>3, NatLessThanWellFounded, WFMin
<1>5. m \in 1 .. n + 1 /\ (m = n + 1 \/ pending[m].priority < job.priority)
  BY <1>4
<1>6. ASSUME NEW k \in 1 .. m - 1
      PROVE  pending[k].priority >= job.priority
  <2>1. k \in 1 .. n /\ k \in Nat /\ m \in Nat /\ k < m
    BY <1>1, <1>5
  <2>2. k \notin Lower
    <3> HIDE DEF Lower
    <3> QED BY <1>4, <2>1 DEF OpToRel
  <2>3. ~ (pending[k].priority < job.priority)
    BY <1>1, <2>1, <2>2
  <2> QED BY <1>1, <1>2, <2>1, <2>3
<1>7. \E i \in 1 .. n + 1 : /\ \A k \in 1 .. i - 1 : pending[k].priority >= job.priority
                            /\ i = n + 1 \/ pending[i].priority < job.priority
  BY <1>5, <1>6
<1> QED
  BY <1>7 DEF Position

-----------------------------------------------------------------------------
(* The inductive invariant.                                                *)

JobTypes ==
  /\ pending \in Seq(Job) /\ active \in [Workers -> SUBSET Job] /\ completed \in Seq(Nat)
  /\ nextId \in Nat \ {0} /\ nextId <= MaxJobs + 1 /\ outstanding \in Int
  /\ worker \in [Workers -> {"check", "asleep", "run", "ended"}]

\* A worker holds a job exactly while it runs it.
WorkersHoldOne ==
  \A w \in Workers :
    /\ worker[w] = "run" => \E job \in Job : active[w] = {job}
    /\ worker[w] # "run" => active[w] = {}

\* No two places hold jobs of one id ...
JobsAreDistinct ==
  /\ \A i, k \in DOMAIN pending : pending[i].id = pending[k].id => i = k
  /\ \A job \in ToSet(pending), other \in Running : job.id # other.id
  /\ \A v, w \in Workers : \A job \in active[v], other \in active[w] :
       job.id = other.id => v = w

\* ... nor two results, nor a result and a job; and every id was given out.
ResultsAreDistinct ==
  /\ \A i, k \in DOMAIN completed : completed[i] = completed[k] => i = k
  /\ Unfinished \intersect ToSet(completed) = {}
  /\ collected \intersect (Unfinished \union ToSet(completed)) = {}
  /\ Unfinished \union ToSet(completed) \union collected \subseteq 1 .. nextId - 1

\* outstanding_ is the number of jobs and results, counted by place and by id.
Counted ==
  /\ IsFiniteSet(Running) /\ OutstandingIsHeld
  /\ IsFiniteSet(Unfinished \union ToSet(completed))
  /\ outstanding = Cardinality(Unfinished \union ToSet(completed))

JobInv ==
  /\ JobTypes /\ WorkersHoldOne /\ JobsAreDistinct /\ ResultsAreDistinct /\ Counted
  /\ PendingInOrder /\ StoppingCancelsAll

-----------------------------------------------------------------------------
(* What a step does to the sets the invariant speaks of.                   *)

\* Submission adds one job, of a new id.
LEMMA SubmitAddsOne ==
  ASSUME JobTypes, NEW owner \in Owners, NEW priority \in Priorities, Submit(owner, priority)
  PROVE  LET job == [id |-> nextId, owner |-> owner, priority |-> priority]
             place == Position(job)
         IN  /\ job \in Job /\ place \in 1 .. Len(pending) + 1
             /\ pending' \in Seq(Job) /\ Len(pending) \in Nat
             /\ Len(pending') = Len(pending) + 1
             /\ DOMAIN pending = 1 .. Len(pending) /\ DOMAIN pending' = 1 .. Len(pending) + 1
             /\ \A k \in 1 .. Len(pending) + 1 :
                  pending'[k] = IF k < place THEN pending[k]
                                ELSE IF k = place THEN job ELSE pending[k - 1]
             /\ ToSet(pending') = ToSet(pending) \union {job}
             /\ Running' = Running
             /\ Unfinished' = Unfinished \union {nextId}
<1> DEFINE job == [id |-> nextId, owner |-> owner, priority |-> priority]
           place == Position(job)
<1>1. job \in Job /\ pending \in Seq(Job)
  BY DEF JobTypes, Job
<1>2. place \in 1 .. Len(pending) + 1
  <2> HIDE DEF job
  <2> QED BY <1>1, PositionExists
<1>3. pending' = InsertAt(pending, place, job) /\ Running' = Running
  BY DEF Submit, Running
<1>4. /\ pending' \in Seq(Job) /\ Len(pending') = Len(pending) + 1
      /\ \A k \in 1 .. Len(pending) + 1 :
           pending'[k] = IF k < place THEN pending[k]
                         ELSE IF k = place THEN job ELSE pending[k - 1]
      /\ ToSet(pending') = ToSet(pending) \union {job}
  <2> HIDE DEF job, place
  <2>1. place \in 1 .. Len(pending) + 1 /\ job \in Job
    BY <1>1, <1>2
  <2> DEFINE t == InsertAt(pending, place, job)
  <2>2. /\ t \in Seq(Job) /\ Len(t) = Len(pending) + 1
        /\ \A k \in 1 .. Len(pending) + 1 :
             t[k] = IF k < place THEN pending[k]
                    ELSE IF k = place THEN job ELSE pending[k - 1]
    BY <1>1, <2>1, InsertedSequence
  <2>3. ToSet(t) = ToSet(pending) \union {job}
    BY <1>1, <2>1, InsertedMembers
  <2>4. pending' = t
    BY <1>3
  <2> HIDE DEF t
  <2> QED BY <2>2, <2>3, <2>4
<1>5. /\ Len(pending) \in Nat /\ DOMAIN pending = 1 .. Len(pending)
      /\ DOMAIN pending' = 1 .. Len(pending) + 1
  BY <1>1, <1>4, LenProperties
<1>6. job.id = nextId
  OBVIOUS
<1>7. Unfinished' = Unfinished \union {nextId}
  <2> HIDE DEF job, place
  <2> QED BY <1>3, <1>4, <1>6 DEF Unfinished
<1> QED BY <1>1, <1>2, <1>3, <1>4, <1>5, <1>7

\* Taking a job moves it from the queue to a worker that held none.
LEMMA TakesMovesOne ==
  ASSUME JobTypes, WorkersHoldOne, NEW w \in Workers, Takes(w)
  PROVE  /\ Head(pending) \in Job /\ Head(pending) = pending[1]
         /\ pending' \in Seq(Job) /\ Len(pending) \in Nat \ {0}
         /\ Len(pending') = Len(pending) - 1
         /\ DOMAIN pending = 1 .. Len(pending) /\ DOMAIN pending' = 1 .. Len(pending) - 1
         /\ \A i \in 1 .. Len(pending) - 1 : pending'[i] = pending[i + 1]
         /\ ToSet(pending) = {Head(pending)} \union ToSet(pending')
         /\ active' \in [Workers -> SUBSET Job] /\ active'[w] = {Head(pending)}
         /\ \A v \in Workers : v # w => active'[v] = active[v]
         /\ Running' = Running \union {Head(pending)}
         /\ Unfinished' = Unfinished
<1>1. pending \in Seq(Job) /\ pending # <<>> /\ pending' = Tail(pending)
  BY DEF JobTypes, Takes
<1>2. /\ Head(pending) \in Job /\ Head(pending) = pending[1]
      /\ pending' \in Seq(Job) /\ Len(pending) \in Nat \ {0}
      /\ Len(pending') = Len(pending) - 1
      /\ DOMAIN pending = 1 .. Len(pending) /\ DOMAIN pending' = 1 .. Len(pending) - 1
      /\ \A i \in 1 .. Len(pending) - 1 : pending'[i] = pending[i + 1]
      /\ ToSet(pending) = {Head(pending)} \union ToSet(pending')
  BY <1>1, TakenHead
<1> DEFINE job == Head(pending)
<1>3. /\ active' \in [Workers -> SUBSET Job] /\ active'[w] = {job} /\ active[w] = {}
      /\ \A v \in Workers : v # w => active'[v] = active[v]
  <2>1. active' = [active EXCEPT ![w] = {job}] /\ worker[w] # "run" /\ job \in Job
    BY <1>2 DEF Takes
  <2> HIDE DEF job
  <2> QED BY <2>1 DEF JobTypes, WorkersHoldOne
<1> HIDE DEF job
<1>4. Running' = Running \union {job}
  BY <1>3 DEF Running
<1>5. Unfinished' = Unfinished
  BY <1>2, <1>4 DEF Unfinished, job
<1> QED BY <1>2, <1>3, <1>4, <1>5 DEF job

\* A job that finishes leaves its worker, and its id becomes a result.
LEMMA FinishesOne ==
  ASSUME JobTypes, WorkersHoldOne, JobsAreDistinct, NEW w \in Workers, Finishes(w)
  PROVE  \E job \in Job :
           /\ active[w] = {job} /\ job \in Running /\ job.id \in Unfinished
           /\ completed' = Append(completed, job.id)
           /\ active' \in [Workers -> SUBSET Job] /\ active'[w] = {}
           /\ \A v \in Workers : v # w => active'[v] = active[v]
           /\ Running' = Running \ {job}
           /\ Unfinished' = Unfinished \ {job.id}
<1>1. PICK job \in Job : active[w] = {job}
  BY DEF Finishes, WorkersHoldOne
<1>2. job \in Running /\ job.id \in Unfinished
  BY <1>1 DEF Running, Unfinished
<1>3. completed' = Append(completed, job.id) /\ pending' = pending
  BY <1>1 DEF Finishes
<1>4. /\ active' \in [Workers -> SUBSET Job] /\ active'[w] = {}
      /\ \A v \in Workers : v # w => active'[v] = active[v]
  BY DEF Finishes, Idle, JobTypes
<1>5. \A other \in Running : other.id = job.id => other = job
  <2>1. ASSUME NEW v \in Workers, NEW other \in active[v], other.id = job.id
        PROVE  other = job
    <3>1. v = w
      BY <1>1, <2>1 DEF JobsAreDistinct
    <3> QED BY <1>1, <2>1, <3>1
  <2> QED BY <2>1 DEF Running
<1>6. \A v \in Workers : v # w => job \notin active[v]
  BY <1>1 DEF JobsAreDistinct
<1>7. Running' = Running \ {job}
  BY <1>1, <1>4, <1>6 DEF Running
<1>8. \A other \in ToSet(pending) : other.id # job.id
  BY <1>2 DEF JobsAreDistinct
<1>9. Unfinished' = Unfinished \ {job.id}
  BY <1>3, <1>5, <1>7, <1>8 DEF Unfinished
<1> QED BY <1>1, <1>2, <1>3, <1>4, <1>7, <1>9

-----------------------------------------------------------------------------
(* The invariant holds at first, and every action keeps it.                *)

\* An empty system holds nothing.
LEMMA InitJobInv == Init => JobInv
<1> SUFFICES ASSUME Init PROVE JobInv
  OBVIOUS
<1>1. pending = <<>> /\ completed = <<>> /\ collected = {} /\ outstanding = 0 /\ nextId = 1
  BY DEF Init
<1>2. \A w \in Workers : active[w] = {} /\ worker[w] = "check"
  BY DEF Init, Idle
<1>3. Running = {} /\ ToSet(pending) = {} /\ ToSet(completed) = {} /\ Unfinished = {}
  BY <1>1, <1>2 DEF Running, Unfinished, ToSet
<1>4. JobTypes
  <2>1. pending \in Seq(Job) /\ completed \in Seq(Nat)
    BY <1>1, EmptySeq
  <2> QED BY <1>1, <2>1, JobAssumption DEF Init, Idle, JobTypes
<1>5. WorkersHoldOne
  BY <1>2 DEF WorkersHoldOne
<1>6. DOMAIN pending = {} /\ DOMAIN completed = {}
  BY <1>1
<1>7. JobsAreDistinct /\ ResultsAreDistinct /\ PendingInOrder /\ StoppingCancelsAll
  BY <1>1, <1>2, <1>3, <1>6
     DEF JobsAreDistinct, ResultsAreDistinct, PendingInOrder, StoppingCancelsAll
<1>8. Counted
  <2>1. Len(pending) = 0 /\ Len(completed) = 0
    BY <1>1
  <2> QED BY <1>1, <1>3, <2>1, FS_EmptySet DEF Counted, OutstandingIsHeld, Held
<1> QED BY <1>4, <1>5, <1>7, <1>8 DEF JobInv

\* What is pending is unfinished, and so is what runs.
LEMMA PendingIsUnfinished ==
  ASSUME JobTypes
  PROVE  /\ DOMAIN pending = 1 .. Len(pending) /\ Len(pending) \in Nat
         /\ \A i \in DOMAIN pending : /\ pending[i] \in Job /\ pending[i] \in ToSet(pending)
                                      /\ pending[i].id \in Unfinished
         /\ \A w \in Workers : \A job \in active[w] : /\ job \in Running /\ job \in Job
                                                      /\ job.id \in Unfinished
<1>1. pending \in Seq(Job)
  BY DEF JobTypes
<1>2. DOMAIN pending = 1 .. Len(pending) /\ Len(pending) \in Nat
  BY <1>1, LenProperties
<1>3. \A i \in DOMAIN pending : pending[i] \in Job
  BY <1>1, <1>2, ElementOfSeq
<1>4. \A i \in DOMAIN pending : pending[i] \in ToSet(pending)
  BY DEF ToSet
<1>5. \A w \in Workers : \A job \in active[w] : job \in Running /\ job \in Job
  BY DEF JobTypes, Running
<1>6. \A job \in ToSet(pending) \union Running : job.id \in Unfinished
  BY DEF Unfinished
<1> QED BY <1>2, <1>3, <1>4, <1>5, <1>6

\* Notifying one worker changes no more than a sleeper's place.
LEMMA NotifyKeepsWorkers ==
  ASSUME JobTypes, WorkersHoldOne, NotifyOne
  PROVE  /\ worker' \in [Workers -> {"check", "asleep", "run", "ended"}]
         /\ \A w \in Workers : \/ worker'[w] = worker[w]
                               \/ worker[w] = "asleep" /\ worker'[w] = "check"
<1>1. worker' = worker \/ \E v \in Asleep : worker' = [worker EXCEPT ![v] = "check"]
  BY DEF NotifyOne
<1>2. CASE worker' = worker
  BY <1>2 DEF JobTypes
<1>3. CASE \E v \in Asleep : worker' = [worker EXCEPT ![v] = "check"]
  BY <1>3 DEF JobTypes, Asleep
<1> QED BY <1>1, <1>2, <1>3

\* A submission gives out a new id and queues the job in its place.
LEMMA SubmitKeepsInv ==
  ASSUME JobInv, NEW owner \in Owners, NEW priority \in Priorities, Submit(owner, priority)
  PROVE  JobInv'
<1> DEFINE job == [id |-> nextId, owner |-> owner, priority |-> priority]
           place == Position(job)
           n == Len(pending)
<1>1. /\ job \in Job /\ place \in 1 .. n + 1
      /\ pending' \in Seq(Job) /\ n \in Nat /\ Len(pending') = n + 1
      /\ DOMAIN pending = 1 .. n /\ DOMAIN pending' = 1 .. n + 1
      /\ \A k \in 1 .. n + 1 : pending'[k] = IF k < place THEN pending[k]
                                             ELSE IF k = place THEN job ELSE pending[k - 1]
      /\ ToSet(pending') = ToSet(pending) \union {job}
      /\ Running' = Running /\ Unfinished' = Unfinished \union {nextId}
  BY SubmitAddsOne DEF JobInv
<1>2. /\ active' = active /\ completed' = completed /\ collected' = collected
      /\ cancelled' = cancelled /\ stopping' = stopping /\ ~ stopping
      /\ nextId <= MaxJobs /\ nextId' = nextId + 1 /\ outstanding' = outstanding + 1
      /\ NotifyOne
  BY DEF Submit
<1>3. job.id = nextId /\ job.priority = priority
  OBVIOUS
<1>4. /\ \A k \in 1 .. place - 1 : pending[k].priority >= priority
      /\ place = n + 1 \/ pending[place].priority < priority
  <2>1. pending \in Seq(Job)
    BY DEF JobInv, JobTypes
  <2> HIDE DEF job
  <2>2. /\ \A k \in 1 .. place - 1 : pending[k].priority >= job.priority
        /\ place = n + 1 \/ pending[place].priority < job.priority
    BY <1>1, <2>1, PositionExists
  <2> QED BY <1>3, <2>2
<1> HIDE DEF job, place, n
<1>5. nextId \in Nat \ {0} /\ outstanding \in Int
  BY DEF JobInv, JobTypes
<1>6. \A i \in 1 .. n : pending[i].id \in 1 .. nextId - 1 /\ pending[i].priority \in Int
  <2>1. \A i \in 1 .. n : pending[i] \in Job /\ pending[i].id \in Unfinished
    BY <1>1, PendingIsUnfinished DEF JobInv
  <2>2. Unfinished \subseteq 1 .. nextId - 1
    BY DEF JobInv, ResultsAreDistinct
  <2> QED BY <2>1, <2>2, JobAssumption DEF Job
<1>7. JobTypes'
  BY <1>1, <1>2, <1>5, NotifyKeepsWorkers, JobAssumption DEF JobInv, JobTypes
<1>8. WorkersHoldOne'
  BY <1>2, NotifyKeepsWorkers DEF JobInv, WorkersHoldOne
<1>9. JobsAreDistinct'
  <2>1. ASSUME NEW i \in 1 .. n + 1, NEW k \in 1 .. n + 1, pending'[i].id = pending'[k].id
        PROVE  i = k
    <3>1. \A j \in 1 .. n + 1 :
            \/ j < place /\ j \in 1 .. n /\ pending'[j] = pending[j]
            \/ j = place /\ pending'[j] = job
            \/ j > place /\ j - 1 \in 1 .. n /\ pending'[j] = pending[j - 1]
      BY <1>1
    <3>2. \A a \in 1 .. n, b \in 1 .. n : pending[a].id = pending[b].id => a = b
      BY <1>1 DEF JobInv, JobsAreDistinct
    <3>3. \A a \in 1 .. n : pending[a].id # job.id
      BY <1>3, <1>5, <1>6
    <3>4. place \in Int /\ i \in Int /\ k \in Int
      BY <1>1
    <3>5. CASE i < place
      BY <2>1, <3>1, <3>2, <3>3, <3>4, <3>5
    <3>6. CASE i = place
      BY <2>1, <3>1, <3>3, <3>4, <3>6
    <3>7. CASE i > place
      BY <2>1, <3>1, <3>2, <3>3, <3>4, <3>7
    <3> QED BY <3>4, <3>5, <3>6, <3>7
  <2>2. \A other \in Running : other.id # nextId
    <3>1. Unfinished \subseteq 1 .. nextId - 1
      BY DEF JobInv, ResultsAreDistinct
    <3>2. \A other \in Running : other.id \in Unfinished
      BY DEF Unfinished
    <3> QED BY <1>5, <3>1, <3>2
  <2> QED BY <1>1, <1>2, <1>3, <2>1, <2>2 DEF JobInv, JobsAreDistinct
<1>10. nextId \notin Unfinished \union ToSet(completed) \union collected
  BY <1>5 DEF JobInv, ResultsAreDistinct
<1>11. ResultsAreDistinct'
  <2>1. 1 .. nextId' - 1 = 1 .. nextId - 1 \union {nextId}
    BY <1>2, <1>5
  <2> QED BY <1>1, <1>2, <1>10, <2>1 DEF JobInv, ResultsAreDistinct
<1>12. Counted'
  <2>1. (Unfinished \union ToSet(completed))' = (Unfinished \union ToSet(completed)) \union {nextId}
    BY <1>1, <1>2
  <2>2. /\ IsFiniteSet((Unfinished \union ToSet(completed))')
        /\ Cardinality((Unfinished \union ToSet(completed))') = outstanding + 1
    BY <1>10, <2>1, FS_AddElement DEF JobInv, Counted
  <2>3. Len(completed) \in Nat /\ Cardinality(Running) \in Nat
    BY LenProperties, FS_CardinalityType DEF JobInv, JobTypes, Counted
  <2>4. Held' = Held + 1
    BY <1>1, <1>2, <2>3 DEF Held, n
  <2> QED BY <1>1, <1>2, <2>2, <2>4 DEF JobInv, Counted, OutstandingIsHeld
<1>13. PendingInOrder'
  <2>1. ASSUME NEW i \in 1 .. n + 1, NEW k \in 1 .. n + 1, i < k
        PROVE  \/ pending'[i].priority > pending'[k].priority
               \/ /\ pending'[i].priority = pending'[k].priority
                  /\ pending'[i].id < pending'[k].id
    <3>1. \A a \in 1 .. n, b \in 1 .. n : a < b =>
            \/ pending[a].priority > pending[b].priority
            \/ pending[a].priority = pending[b].priority /\ pending[a].id < pending[b].id
      BY <1>1 DEF JobInv, PendingInOrder
    <3>2. priority \in Int /\ place \in 1 .. n + 1 /\ n \in Nat
      BY <1>1, JobAssumption
    <3>3. CASE k < place
      <4>1. i \in 1 .. n /\ k \in 1 .. n /\ pending'[i] = pending[i] /\ pending'[k] = pending[k]
        BY <1>1, <2>1, <3>2, <3>3
      <4> QED BY <2>1, <3>1, <4>1
    <3>4. CASE k = place
      <4>1. /\ i \in 1 .. place - 1 /\ i \in 1 .. n
            /\ pending'[i] = pending[i] /\ pending'[k] = job
        BY <1>1, <2>1, <3>2, <3>4
      <4> QED BY <1>3, <1>4, <1>5, <1>6, <3>2, <4>1
    <3>5. CASE i < place /\ place < k
      <4>1. /\ i \in 1 .. n /\ k - 1 \in 1 .. n /\ i < k - 1
            /\ pending'[i] = pending[i] /\ pending'[k] = pending[k - 1]
        BY <1>1, <2>1, <3>2, <3>5
      <4> QED BY <3>1, <4>1
    <3>6. CASE i = place
      <4>1. /\ place \in 1 .. n /\ k - 1 \in 1 .. n /\ place <= k - 1
            /\ pending'[i] = job /\ pending'[k] = pending[k - 1]
        BY <1>1, <2>1, <3>2, <3>6
      <4>2. pending[place].priority < priority
        BY <1>4, <3>2, <4>1
      <4>3. pending[k - 1].priority <= pending[place].priority
        BY <1>6, <3>1, <3>2, <4>1
      <4> QED BY <1>3, <1>6, <3>2, <4>1, <4>2, <4>3
    <3>7. CASE place < i
      <4>1. /\ i - 1 \in 1 .. n /\ k - 1 \in 1 .. n /\ i - 1 < k - 1
            /\ pending'[i] = pending[i - 1] /\ pending'[k] = pending[k - 1]
        BY <1>1, <2>1, <3>2, <3>7
      <4> QED BY <3>1, <4>1
    <3> QED BY <2>1, <3>2, <3>3, <3>4, <3>5, <3>6, <3>7
  <2> QED BY <1>1, <2>1 DEF PendingInOrder
<1>14. StoppingCancelsAll'
  BY <1>2 DEF StoppingCancelsAll
<1> QED BY <1>7, <1>8, <1>9, <1>11, <1>12, <1>13, <1>14 DEF JobInv

\* A taken job leaves the head of the queue for a worker's hands, uncancelled or not.
LEMMA TakesKeepsInv ==
  ASSUME JobInv, NEW w \in Workers, Takes(w)
  PROVE  JobInv'
<1> DEFINE job == Head(pending)
           n == Len(pending)
<1>1. /\ job \in Job /\ job = pending[1]
      /\ pending' \in Seq(Job) /\ n \in Nat \ {0} /\ Len(pending') = n - 1
      /\ DOMAIN pending = 1 .. n /\ DOMAIN pending' = 1 .. n - 1
      /\ \A i \in 1 .. n - 1 : pending'[i] = pending[i + 1]
      /\ ToSet(pending) = {job} \union ToSet(pending')
      /\ active' \in [Workers -> SUBSET Job] /\ active'[w] = {job}
      /\ \A v \in Workers : v # w => active'[v] = active[v]
      /\ Running' = Running \union {job} /\ Unfinished' = Unfinished
  BY TakesMovesOne DEF JobInv
<1>2. /\ completed' = completed /\ collected' = collected /\ cancelled' = cancelled
      /\ outstanding' = outstanding /\ nextId' = nextId /\ stopping' = stopping
      /\ worker[w] = "check" /\ worker' = [worker EXCEPT ![w] = "run"]
  BY DEF Takes
<1> HIDE DEF job, n
<1>3. JobTypes'
  BY <1>1, <1>2 DEF JobInv, JobTypes
<1>4. WorkersHoldOne'
  <2>1. worker'[w] = "run" /\ active'[w] = {job} /\ job \in Job
    BY <1>1, <1>2 DEF JobInv, JobTypes
  <2>2. \A v \in Workers : v # w => worker'[v] = worker[v] /\ active'[v] = active[v]
    BY <1>1, <1>2 DEF JobInv, JobTypes
  <2> QED BY <2>1, <2>2 DEF JobInv, WorkersHoldOne
<1>5. job \in ToSet(pending) /\ \A i \in 1 .. n : pending[i] \in ToSet(pending)
  BY <1>1 DEF ToSet
<1>6. job \notin Running
  BY <1>5 DEF JobInv, JobsAreDistinct
<1>7. JobsAreDistinct'
  <2>1. ASSUME NEW i \in 1 .. n - 1, NEW k \in 1 .. n - 1, pending'[i].id = pending'[k].id
        PROVE  i = k
    <3>1. i + 1 \in 1 .. n /\ k + 1 \in 1 .. n /\ pending[i + 1].id = pending[k + 1].id
      BY <1>1, <2>1
    <3>2. i + 1 = k + 1
      BY <1>1, <3>1 DEF JobInv, JobsAreDistinct
    <3> QED BY <3>2
  <2>2. \A i \in 1 .. n - 1 : pending'[i].id # job.id
    <3> SUFFICES ASSUME NEW i \in 1 .. n - 1, pending[i + 1].id = pending[1].id
                 PROVE  FALSE
      BY <1>1
    <3>1. i + 1 \in 1 .. n /\ 1 \in 1 .. n /\ i + 1 # 1
      BY <1>1
    <3> QED BY <1>1, <3>1 DEF JobInv, JobsAreDistinct
  <2>3. \A queued \in ToSet(pending') : queued.id # job.id
    BY <1>1, <2>2 DEF ToSet
  <2>4. \A queued \in ToSet(pending'), other \in Running' : queued.id # other.id
    BY <1>1, <2>3 DEF JobInv, JobsAreDistinct
  <2>5. \A v \in Workers : \A other \in active[v] : other.id # job.id
    BY <1>5, PendingIsUnfinished DEF JobInv, JobsAreDistinct
  <2>6. ASSUME NEW u \in Workers, NEW v \in Workers, NEW one \in active'[u],
               NEW other \in active'[v], one.id = other.id
        PROVE  u = v
    <3>1. CASE u = w \/ v = w
      BY <1>1, <2>5, <2>6, <3>1
    <3>2. CASE u # w /\ v # w
      BY <1>1, <2>6, <3>2 DEF JobInv, JobsAreDistinct
    <3> QED BY <3>1, <3>2
  <2> QED BY <1>1, <2>1, <2>4, <2>6 DEF JobsAreDistinct
<1>8. ResultsAreDistinct'
  BY <1>1, <1>2 DEF JobInv, ResultsAreDistinct
<1>9. Counted'
  <2>1. IsFiniteSet(Running') /\ Cardinality(Running') = Cardinality(Running) + 1
    BY <1>1, <1>6, FS_AddElement DEF JobInv, Counted
  <2>2. Len(completed) \in Nat /\ Cardinality(Running) \in Nat
    BY LenProperties, FS_CardinalityType DEF JobInv, JobTypes, Counted
  <2>3. Held' = Held
    BY <1>1, <1>2, <2>1, <2>2 DEF Held, n
  <2> QED BY <1>1, <1>2, <2>1, <2>3 DEF JobInv, Counted, OutstandingIsHeld
<1>10. PendingInOrder'
  <2>1. ASSUME NEW i \in 1 .. n - 1, NEW k \in 1 .. n - 1, i < k
        PROVE  \/ pending'[i].priority > pending'[k].priority
               \/ /\ pending'[i].priority = pending'[k].priority
                  /\ pending'[i].id < pending'[k].id
    <3>1. i + 1 \in 1 .. n /\ k + 1 \in 1 .. n /\ i + 1 < k + 1
          /\ pending'[i] = pending[i + 1] /\ pending'[k] = pending[k + 1]
      BY <1>1, <2>1
    <3>2. \/ pending[i + 1].priority > pending[k + 1].priority
          \/ /\ pending[i + 1].priority = pending[k + 1].priority
             /\ pending[i + 1].id < pending[k + 1].id
      BY <1>1, <3>1 DEF JobInv, PendingInOrder
    <3> QED BY <3>1, <3>2
  <2> QED BY <1>1, <2>1 DEF PendingInOrder
<1>11. StoppingCancelsAll'
  BY <1>1, <1>2 DEF JobInv, StoppingCancelsAll
<1> QED BY <1>3, <1>4, <1>7, <1>8, <1>9, <1>10, <1>11 DEF JobInv

\* A finished job becomes a result: its id changes places.
LEMMA FinishesKeepsInv ==
  ASSUME JobInv, NEW w \in Workers, Finishes(w)
  PROVE  JobInv'
<1>1. PICK job \in Job :
        /\ active[w] = {job} /\ job \in Running /\ job.id \in Unfinished
        /\ completed' = Append(completed, job.id)
        /\ active' \in [Workers -> SUBSET Job] /\ active'[w] = {}
        /\ \A v \in Workers : v # w => active'[v] = active[v]
        /\ Running' = Running \ {job} /\ Unfinished' = Unfinished \ {job.id}
  BY FinishesOne DEF JobInv
<1>2. /\ pending' = pending /\ collected' = collected /\ cancelled' = cancelled
      /\ outstanding' = outstanding /\ nextId' = nextId /\ stopping' = stopping
      /\ worker' = [worker EXCEPT ![w] = "check"]
  BY DEF Finishes
<1> DEFINE n == Len(completed)
<1>3. /\ completed' \in Seq(Nat) /\ n \in Nat /\ Len(completed') = n + 1
      /\ DOMAIN completed = 1 .. n /\ DOMAIN completed' = 1 .. n + 1
      /\ \A i \in 1 .. n : completed'[i] = completed[i]
      /\ completed'[n + 1] = job.id
      /\ ToSet(completed') = ToSet(completed) \union {job.id}
  <2>1. completed \in Seq(Nat) /\ job.id \in Nat
    BY <1>1 DEF JobInv, JobTypes, Job
  <2> QED BY <1>1, <2>1, AppendedMembers
<1> HIDE DEF n
<1>4. JobTypes'
  BY <1>1, <1>2, <1>3 DEF JobInv, JobTypes
<1>5. WorkersHoldOne'
  BY <1>1, <1>2 DEF JobInv, JobTypes, WorkersHoldOne
<1>6. JobsAreDistinct'
  <2>1. \A v \in Workers : active'[v] \subseteq active[v]
    BY <1>1
  <2> QED BY <1>1, <1>2, <2>1 DEF JobInv, JobsAreDistinct
<1>7. job.id \notin ToSet(completed) \union collected
  BY <1>1 DEF JobInv, ResultsAreDistinct
<1>8. ResultsAreDistinct'
  <2>1. ASSUME NEW i \in 1 .. n + 1, NEW k \in 1 .. n + 1, completed'[i] = completed'[k]
        PROVE  i = k
    <3>1. \A a \in 1 .. n : completed[a] # job.id
      BY <1>3, <1>7 DEF ToSet
    <3>2. \A a \in 1 .. n, b \in 1 .. n : completed[a] = completed[b] => a = b
      BY <1>3 DEF JobInv, ResultsAreDistinct
    <3>3. (i \in 1 .. n \/ i = n + 1) /\ (k \in 1 .. n \/ k = n + 1)
      BY <1>3
    <3> QED BY <1>3, <2>1, <3>1, <3>2, <3>3
  <2> QED BY <1>1, <1>2, <1>3, <1>7, <2>1 DEF JobInv, ResultsAreDistinct
<1>9. Counted'
  <2>1. (Unfinished \union ToSet(completed))' = Unfinished \union ToSet(completed)
    BY <1>1, <1>3
  <2>2. IsFiniteSet(Running') /\ Cardinality(Running') = Cardinality(Running) - 1
    BY <1>1, FS_RemoveElement DEF JobInv, Counted
  <2>3. Len(pending) \in Nat /\ Cardinality(Running) \in Nat
    BY LenProperties, FS_CardinalityType DEF JobInv, JobTypes, Counted
  <2>4. Held' = Held
    <3>1. Held' = Len(pending) + (Cardinality(Running) - 1) + (n + 1)
      BY <1>2, <1>3, <2>2 DEF Held
    <3>2. Held = Len(pending) + Cardinality(Running) + n
      BY DEF Held, n
    <3> QED BY <1>3, <2>3, <3>1, <3>2
  <2> QED BY <1>2, <2>1, <2>2, <2>4 DEF JobInv, Counted, OutstandingIsHeld
<1>10. PendingInOrder' /\ StoppingCancelsAll'
  BY <1>1, <1>2 DEF JobInv, PendingInOrder, StoppingCancelsAll
<1> QED BY <1>4, <1>5, <1>6, <1>8, <1>9, <1>10 DEF JobInv

\* A collected result stops counting.
LEMMA CollectKeepsInv ==
  ASSUME JobInv, TryPopCompleted
  PROVE  JobInv' /\ Head(completed) \in ToSet(completed)
         /\ ToSet(completed') = ToSet(completed) \ {Head(completed)}
         /\ Unfinished' = Unfinished
<1> DEFINE id == Head(completed)
           n == Len(completed)
<1>1. /\ id = completed[1] /\ completed' \in Seq(Nat)
      /\ n \in Nat \ {0} /\ Len(completed') = n - 1
      /\ DOMAIN completed = 1 .. n /\ DOMAIN completed' = 1 .. n - 1
      /\ \A i \in 1 .. n - 1 : completed'[i] = completed[i + 1]
      /\ ToSet(completed) = {id} \union ToSet(completed')
  <2>1. completed \in Seq(Nat) /\ completed # <<>> /\ completed' = Tail(completed)
    BY DEF JobInv, JobTypes, TryPopCompleted
  <2> QED BY <2>1, TakenHead
<1>2. /\ pending' = pending /\ active' = active /\ cancelled' = cancelled
      /\ outstanding' = outstanding - 1 /\ nextId' = nextId /\ stopping' = stopping
      /\ worker' = worker /\ collected' = collected \union {id}
  BY DEF TryPopCompleted
<1> HIDE DEF id, n
<1>3. Running' = Running /\ Unfinished' = Unfinished
  BY <1>2 DEF Running, Unfinished
<1>4. id \notin ToSet(completed')
  <2> SUFFICES ASSUME NEW i \in 1 .. n - 1, completed[i + 1] = completed[1]
               PROVE  FALSE
    BY <1>1 DEF ToSet
  <2>1. i + 1 \in 1 .. n /\ 1 \in 1 .. n /\ i + 1 # 1
    BY <1>1
  <2> QED BY <1>1, <2>1 DEF JobInv, ResultsAreDistinct
<1>5. JobTypes' /\ WorkersHoldOne' /\ JobsAreDistinct'
  BY <1>1, <1>2, <1>3 DEF JobInv, JobTypes, WorkersHoldOne, JobsAreDistinct
<1>6. ResultsAreDistinct'
  <2>1. ASSUME NEW i \in 1 .. n - 1, NEW k \in 1 .. n - 1, completed'[i] = completed'[k]
        PROVE  i = k
    <3>1. i + 1 \in 1 .. n /\ k + 1 \in 1 .. n /\ completed[i + 1] = completed[k + 1]
      BY <1>1, <2>1
    <3>2. i + 1 = k + 1
      BY <1>1, <3>1 DEF JobInv, ResultsAreDistinct
    <3> QED BY <3>2
  <2> QED BY <1>1, <1>2, <1>3, <1>4, <2>1 DEF JobInv, ResultsAreDistinct
<1>7. Counted'
  <2>1. id \in Unfinished \union ToSet(completed) /\ id \notin Unfinished
    BY <1>1 DEF JobInv, ResultsAreDistinct
  <2>2. (Unfinished \union ToSet(completed))' = (Unfinished \union ToSet(completed)) \ {id}
    BY <1>1, <1>3, <1>4, <2>1
  <2>3. /\ IsFiniteSet((Unfinished \union ToSet(completed))')
        /\ Cardinality((Unfinished \union ToSet(completed))') = outstanding - 1
    BY <2>1, <2>2, FS_RemoveElement DEF JobInv, Counted
  <2>4. Len(pending) \in Nat /\ Cardinality(Running) \in Nat
    BY LenProperties, FS_CardinalityType DEF JobInv, JobTypes, Counted
  <2>5. Held' = Held - 1
    BY <1>1, <1>2, <1>3, <2>4 DEF Held, n
  <2> QED BY <1>2, <1>3, <2>3, <2>5 DEF JobInv, Counted, OutstandingIsHeld
<1>8. PendingInOrder' /\ StoppingCancelsAll'
  BY <1>2, <1>3 DEF JobInv, PendingInOrder, StoppingCancelsAll
<1> QED BY <1>1, <1>3, <1>4, <1>5, <1>6, <1>7, <1>8 DEF JobInv, id

\* Steps that move no job: cancellation, the phases of a shutdown, and workers that sleep,
\* wake or end.
MovesNoJob ==
  /\ UNCHANGED <<pending, active, completed, collected, outstanding, nextId>>
  /\ worker' \in [Workers -> {"check", "asleep", "run", "ended"}]
  /\ \A w \in Workers : worker'[w] = "run" <=> worker[w] = "run"
  /\ cancelled \subseteq cancelled'
  /\ \/ stopping' = stopping
     \/ /\ stopping' = TRUE
        /\ {job.id : job \in ToSet(pending) \union Running} \subseteq cancelled'

\* These are those steps.
LEMMA QuietStepsMoveNoJob ==
  ASSUME JobTypes,
         \/ \E owner \in Owners : CancelOwner(owner)
         \/ Shutdown \/ NotifyAll \/ Join
         \/ \E w \in Workers : Sleeps(w) \/ Ends(w) \/ WakesSpuriously(w)
         \/ UNCHANGED vars
  PROVE  MovesNoJob
<1>1. worker \in [Workers -> {"check", "asleep", "run", "ended"}]
  BY DEF JobTypes
<1>2. ASSUME NEW owner \in Owners, CancelOwner(owner)
      PROVE  MovesNoJob
  BY <1>1, <1>2 DEF CancelOwner, MovesNoJob
<1>3. CASE Shutdown
  BY <1>1, <1>3 DEF Shutdown, MovesNoJob
<1>4. CASE NotifyAll
  BY <1>1, <1>4 DEF NotifyAll, MovesNoJob
<1>5. CASE Join
  BY <1>1, <1>5 DEF Join, MovesNoJob
<1>6. ASSUME NEW w \in Workers, Sleeps(w)
      PROVE  MovesNoJob
  BY <1>1, <1>6 DEF Sleeps, MovesNoJob
<1>7. ASSUME NEW w \in Workers, Ends(w)
      PROVE  MovesNoJob
  BY <1>1, <1>7 DEF Ends, MovesNoJob
<1>8. ASSUME NEW w \in Workers, WakesSpuriously(w)
      PROVE  MovesNoJob
  BY <1>1, <1>8 DEF WakesSpuriously, MovesNoJob
<1>9. CASE UNCHANGED vars
  BY <1>1, <1>9 DEF vars, MovesNoJob
<1> QED BY <1>2, <1>3, <1>4, <1>5, <1>6, <1>7, <1>8, <1>9

\* Such a step keeps the invariant; only Shutdown starts stopping, and it cancels every job.
LEMMA QuietStepsKeepInv ==
  ASSUME JobInv, MovesNoJob
  PROVE  JobInv' /\ Unfinished' = Unfinished
<1>1. /\ pending' = pending /\ active' = active /\ completed' = completed
      /\ collected' = collected /\ outstanding' = outstanding /\ nextId' = nextId
  BY DEF MovesNoJob
<1>2. Running' = Running /\ Unfinished' = Unfinished /\ Held' = Held
  BY <1>1 DEF Running, Unfinished, Held
<1>3. JobTypes' /\ WorkersHoldOne' /\ JobsAreDistinct'
  BY <1>1, <1>2 DEF JobInv, JobTypes, WorkersHoldOne, JobsAreDistinct, MovesNoJob
<1>4. ResultsAreDistinct' /\ Counted' /\ PendingInOrder'
  BY <1>1, <1>2
     DEF JobInv, ResultsAreDistinct, Counted, OutstandingIsHeld, PendingInOrder
<1>5. StoppingCancelsAll'
  BY <1>1, <1>2 DEF JobInv, StoppingCancelsAll, MovesNoJob
<1> QED BY <1>2, <1>3, <1>4, <1>5 DEF JobInv

\* Every step is one of these.
LEMMA StepIsOneOf ==
  ASSUME JobTypes, [Next]_vars
  PROVE  \/ \E owner \in Owners, priority \in Priorities : Submit(owner, priority)
         \/ TryPopCompleted
         \/ \E w \in Workers : Takes(w)
         \/ \E w \in Workers : Finishes(w)
         \/ MovesNoJob
  BY QuietStepsMoveNoJob DEF Next, MessageThread, WorkerStep

\* So every step keeps the invariant.
LEMMA StepKeepsInv ==
  ASSUME JobInv, [Next]_vars
  PROVE  JobInv'
<1>1. JobTypes
  BY DEF JobInv
<1>2. CASE \E owner \in Owners, priority \in Priorities : Submit(owner, priority)
  BY <1>2, SubmitKeepsInv
<1>3. CASE TryPopCompleted
  BY <1>3, CollectKeepsInv
<1>4. CASE \E w \in Workers : Takes(w)
  BY <1>4, TakesKeepsInv
<1>5. CASE \E w \in Workers : Finishes(w)
  BY <1>5, FinishesKeepsInv
<1>6. CASE MovesNoJob
  BY <1>6, QuietStepsKeepInv
<1> QED BY <1>1, <1>2, <1>3, <1>4, <1>5, <1>6, StepIsOneOf

-----------------------------------------------------------------------------
(* The theorems.                                                           *)

\* The invariant holds in every reachable state, with any number of workers.
THEOREM JobInvHolds == Spec => []JobInv
<1>1. JobInv /\ [Next]_vars => JobInv'
  BY StepKeepsInv
<1> QED BY InitJobInv, <1>1, PTL DEF Spec

\* submit() keeps the queue by priority and, within one, by age, however workers take from
\* its front in between.
THEOREM QueueStaysInOrder == Spec => []PendingInOrder
<1>1. JobInv => PendingInOrder
  BY DEF JobInv
<1> QED BY JobInvHolds, <1>1, PTL

\* outstanding_, which submit() compares with the capacity, is the number of jobs and results
\* held by the queue, the workers and the completed list together.
THEOREM CountIsExact == Spec => []OutstandingIsHeld
<1>1. JobInv => OutstandingIsHeld
  BY DEF JobInv, Counted
<1> QED BY JobInvHolds, <1>1, PTL

\* After shutdown() no job runs or waits with a live token: a worker takes a job and registers
\* its token in one critical section, so shutdown() finds it in one place or the other.
THEOREM ShutdownCancelsAll == Spec => []StoppingCancelsAll
<1>1. JobInv => StoppingCancelsAll
  BY DEF JobInv
<1> QED BY JobInvHolds, <1>1, PTL

\* The safety of BoundedJobs: its initial state and its steps.
ContractSafety == Contract!AbsInit /\ [][Contract!AbsNext]_(Contract!abstract)

\* Every step of the job system is one the contract allows: jobs are accepted within the
\* capacity while it is open, each runs once, and each result is handed out once.
THEOREM StepsKeepContract == Spec => ContractSafety
<1> USE DEF Contract!AbsInit, Contract!AbsNext, Contract!abstract, Contract!Accept,
            Contract!Finish, Contract!Collect, Contract!CloseJobs
<1>1. Init => Contract!AbsInit
  <2> SUFFICES ASSUME Init PROVE Contract!AbsInit
    OBVIOUS
  <2>1. pending = <<>> /\ completed = <<>> /\ Running = {}
    BY DEF Init, Running, Idle
  <2>2. ToSet(pending) = {} /\ ToSet(completed) = {}
    BY <2>1 DEF ToSet
  <2> QED BY <2>1, <2>2 DEF Init, Unfinished
<1>2. ASSUME JobInv, [Next]_vars
      PROVE  [Contract!AbsNext]_(Contract!abstract)
  <2>1. ASSUME NEW owner \in Owners, NEW priority \in Priorities, Submit(owner, priority)
        PROVE  Contract!Accept(nextId) /\ nextId \in 1 .. MaxJobs
    <3>1. /\ ~ stopping /\ outstanding < QueueCapacity /\ nextId <= MaxJobs
          /\ completed' = completed /\ collected' = collected /\ stopping' = stopping
      BY <2>1 DEF Submit
    <3>2. Unfinished' = Unfinished \union {nextId}
      BY <1>2, <2>1, SubmitAddsOne DEF JobInv
    <3>3. nextId \in 1 .. MaxJobs
      BY <1>2, <3>1, JobAssumption DEF JobInv, JobTypes
    <3>4. nextId \notin Unfinished \union ToSet(completed) \union collected
      BY <1>2 DEF JobInv, JobTypes, ResultsAreDistinct
    <3>5. Cardinality(Unfinished \union ToSet(completed)) < QueueCapacity
      BY <1>2, <3>1 DEF JobInv, Counted
    <3>6. ToSet(completed)' = ToSet(completed)
      BY <3>1
    <3>7. \A S : Contract!Cardinality(S) = Cardinality(S)
      BY DEF Contract!Cardinality, Cardinality
    <3> QED BY <3>1, <3>2, <3>3, <3>4, <3>5, <3>6, <3>7
  <2>2. Unfinished \union ToSet(completed) \subseteq 1 .. MaxJobs
    <3>1. 1 .. nextId - 1 \subseteq 1 .. MaxJobs
      BY <1>2, JobAssumption DEF JobInv, JobTypes
    <3> QED BY <1>2, <3>1 DEF JobInv, ResultsAreDistinct
  <2>3. ASSUME TryPopCompleted
        PROVE  Contract!Collect(Head(completed)) /\ Head(completed) \in 1 .. MaxJobs
    <3>1. /\ Head(completed) \in ToSet(completed) /\ Unfinished' = Unfinished
          /\ ToSet(completed') = ToSet(completed) \ {Head(completed)}
      BY <1>2, <2>3, CollectKeepsInv
    <3>2. collected' = collected \union {Head(completed)} /\ stopping' = stopping
      BY <2>3 DEF TryPopCompleted
    <3> QED BY <2>2, <3>1, <3>2
  <2>4. ASSUME NEW w \in Workers, Takes(w)
        PROVE  UNCHANGED Contract!abstract
    <3>1. Unfinished' = Unfinished
      BY <1>2, <2>4, TakesMovesOne DEF JobInv
    <3> QED BY <2>4, <3>1 DEF Takes
  <2>5. ASSUME NEW w \in Workers, Finishes(w)
        PROVE  \E id \in 1 .. MaxJobs : Contract!Finish(id)
    <3>1. PICK job \in Job : /\ job.id \in Unfinished
                             /\ completed' = Append(completed, job.id)
                             /\ Unfinished' = Unfinished \ {job.id}
      BY <1>2, <2>5, FinishesOne DEF JobInv
    <3>2. completed \in Seq(Nat) /\ job.id \in Nat
      BY <1>2 DEF JobInv, JobTypes, Job
    <3>3. ToSet(completed') = ToSet(completed) \union {job.id}
      BY <3>1, <3>2, AppendedMembers
    <3>4. collected' = collected /\ stopping' = stopping
      BY <2>5 DEF Finishes
    <3>5. Contract!Finish(job.id)
      BY <3>1, <3>3, <3>4
    <3> QED BY <2>2, <3>1, <3>5
  <2>6. ASSUME MovesNoJob
        PROVE  UNCHANGED Contract!abstract \/ Contract!CloseJobs
    <3>1. Unfinished' = Unfinished /\ completed' = completed /\ collected' = collected
      BY <1>2, <2>6, QuietStepsKeepInv DEF MovesNoJob
    <3>2. stopping' = stopping \/ stopping' = TRUE
      BY <2>6 DEF MovesNoJob
    <3> QED BY <3>1, <3>2
  <2>7. Contract!AbsNext \/ UNCHANGED Contract!abstract
    <3>1. JobTypes
      BY <1>2 DEF JobInv
    <3>2. CASE \E owner \in Owners, priority \in Priorities : Submit(owner, priority)
      BY <2>1, <3>2
    <3>3. CASE TryPopCompleted
      BY <2>3, <3>3
    <3>4. CASE \E w \in Workers : Takes(w)
      BY <2>4, <3>4
    <3>5. CASE \E w \in Workers : Finishes(w)
      BY <2>5, <3>5
    <3>6. CASE MovesNoJob
      BY <2>6, <3>6
    <3> QED BY <1>2, <3>1, <3>2, <3>3, <3>4, <3>5, <3>6, StepIsOneOf
  <2> QED BY <2>7
<1> QED BY JobInvHolds, <1>1, <1>2, PTL DEF Spec, ContractSafety
=============================================================================

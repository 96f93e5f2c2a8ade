------------------------------ MODULE JobSystem ------------------------------
(***************************************************************************)
(* Utilities/BackgroundJobSystem: the message thread submits jobs, cancels *)
(* them by owner, collects their results and shuts the system down; worker *)
(* threads take the first pending job, run it outside the lock and append  *)
(* its result.  A step is one critical section of mutex_, with the waits   *)
(* of condition_ modelled: a worker that finds nothing to do sleeps until  *)
(* it is notified.                                                         *)
(*                                                                         *)
(* A job's function runs to its end whether or not it looks at its token,  *)
(* and a job is known by its id: jobs are numbered in order of submission. *)
(***************************************************************************)
EXTENDS Integers, Sequences, FiniteSets, SequencesExt

CONSTANTS
  Workers,        \* worker threads
  QueueCapacity,  \* queueCapacity_
  Owners,         \* values of JobSpec::ownerUuid
  Priorities,     \* values of JobSpec::priority
  MaxJobs         \* bound: jobs accepted

ASSUME JobAssumption ==
  /\ Workers # {} /\ QueueCapacity \in Nat \ {0}
  /\ Priorities \subseteq Int /\ MaxJobs \in Nat

VARIABLES
  pending,      \* pending_
  active,       \* active_, and the job each running worker holds
  completed,    \* completed_: ids of the jobs whose results wait
  collected,    \* ids of the jobs whose results were handed out
  cancelled,    \* ids of the jobs whose token is cancelled
  outstanding,  \* outstanding_
  nextId,       \* nextId_
  stopping,     \* stopping_
  worker,       \* where each worker thread is
  control       \* where the message thread is in shutdown()

vars == <<pending, active, completed, collected, cancelled, outstanding, nextId, stopping,
          worker, control>>

-----------------------------------------------------------------------------

Idle == {}

Init ==
  /\ pending = <<>> /\ active = [w \in Workers |-> Idle] /\ completed = <<>>
  /\ collected = {} /\ cancelled = {} /\ outstanding = 0 /\ nextId = 1
  /\ stopping = FALSE /\ worker = [w \in Workers |-> "check"] /\ control = "open"

Asleep == {w \in Workers : worker[w] = "asleep"}

\* notify_one(): one sleeping worker, if there is any, looks again.
NotifyOne ==
  IF Asleep = {} THEN UNCHANGED worker
  ELSE \E w \in Asleep : worker' = [worker EXCEPT ![w] = "check"]

\* Where a new job goes: behind every job of its priority or higher.
Position(job) ==
  CHOOSE i \in 1 .. Len(pending) + 1 :
    /\ \A k \in 1 .. i - 1 : pending[k].priority >= job.priority
    /\ i = Len(pending) + 1 \/ pending[i].priority < job.priority

\* Faulty variants of Submit: it forgets to count, or to notify.
SubmitUncounted(owner, priority) ==
  LET job == [id |-> nextId, owner |-> owner, priority |-> priority]
  IN  /\ control = "open" /\ nextId <= MaxJobs
      /\ ~ stopping /\ outstanding < QueueCapacity
      /\ pending' = InsertAt(pending, Position(job), job)
      /\ nextId' = nextId + 1 /\ NotifyOne
      /\ UNCHANGED <<active, completed, collected, cancelled, outstanding, stopping, control>>

SubmitSilently(owner, priority) ==
  LET job == [id |-> nextId, owner |-> owner, priority |-> priority]
  IN  /\ control = "open" /\ nextId <= MaxJobs
      /\ ~ stopping /\ outstanding < QueueCapacity
      /\ pending' = InsertAt(pending, Position(job), job)
      /\ outstanding' = outstanding + 1 /\ nextId' = nextId + 1
      /\ UNCHANGED <<active, completed, collected, cancelled, stopping, worker, control>>

\* submit(): refused when stopping or full.
Submit(owner, priority) ==
  LET job == [id |-> nextId, owner |-> owner, priority |-> priority]
  IN  /\ control = "open" /\ nextId <= MaxJobs
      /\ ~ stopping /\ outstanding < QueueCapacity
      /\ pending' = InsertAt(pending, Position(job), job)
      /\ outstanding' = outstanding + 1 /\ nextId' = nextId + 1
      /\ NotifyOne
      /\ UNCHANGED <<active, completed, collected, cancelled, stopping, control>>

\* tryPopCompleted(): only here does a job stop counting.
TryPopCompleted ==
  /\ control \in {"open", "closed"} /\ completed # <<>>
  /\ completed' = Tail(completed) /\ collected' = collected \union {Head(completed)}
  /\ outstanding' = outstanding - 1
  /\ UNCHANGED <<pending, active, cancelled, nextId, stopping, worker, control>>

Running == UNION {active[w] : w \in Workers}

OfOwner(owner) == {job.id : job \in {j \in ToSet(pending) \union Running : j.owner = owner}}

CancelOwner(owner) ==
  /\ control = "open"
  /\ cancelled' = cancelled \union OfOwner(owner)
  /\ UNCHANGED <<pending, active, completed, collected, outstanding, nextId, stopping,
                 worker, control>>

\* Faulty variant of Shutdown: jobs that are running keep their tokens.
ShutdownSparesActive ==
  /\ control = "open"
  /\ stopping' = TRUE /\ control' = "notify"
  /\ cancelled' = cancelled \union {job.id : job \in ToSet(pending)}
  /\ UNCHANGED <<pending, active, completed, collected, outstanding, nextId, worker>>

\* shutdown(): under the lock, every pending and active job is cancelled; the workers are
\* notified after the lock is released, and then joined.
Shutdown ==
  /\ control = "open"
  /\ stopping' = TRUE /\ control' = "notify"
  /\ cancelled' = cancelled \union {job.id : job \in ToSet(pending) \union Running}
  /\ UNCHANGED <<pending, active, completed, collected, outstanding, nextId, worker>>

\* Faulty variant of NotifyAll: one worker is notified.
NotifyAllButWakeOne ==
  /\ control = "notify"
  /\ NotifyOne
  /\ control' = "joining"
  /\ UNCHANGED <<pending, active, completed, collected, cancelled, outstanding, nextId,
                 stopping>>

NotifyAll ==
  /\ control = "notify"
  /\ worker' = [w \in Workers |-> IF worker[w] = "asleep" THEN "check" ELSE worker[w]]
  /\ control' = "joining"
  /\ UNCHANGED <<pending, active, completed, collected, cancelled, outstanding, nextId,
                 stopping>>

Join ==
  /\ control = "joining" /\ \A w \in Workers : worker[w] = "ended"
  /\ control' = "closed"
  /\ UNCHANGED <<pending, active, completed, collected, cancelled, outstanding, nextId,
                 stopping, worker>>

-----------------------------------------------------------------------------
(* workerLoop().                                                           *)

\* The predicate is false: the worker sleeps, in the same critical section.
Sleeps(w) ==
  /\ worker[w] = "check" /\ ~ stopping /\ pending = <<>>
  /\ worker' = [worker EXCEPT ![w] = "asleep"]
  /\ UNCHANGED <<pending, active, completed, collected, cancelled, outstanding, nextId,
                 stopping, control>>

\* A wait may also end without a notification.
WakesSpuriously(w) ==
  /\ worker[w] = "asleep"
  /\ worker' = [worker EXCEPT ![w] = "check"]
  /\ UNCHANGED <<pending, active, completed, collected, cancelled, outstanding, nextId,
                 stopping, control>>

Ends(w) ==
  /\ worker[w] = "check" /\ stopping /\ pending = <<>>
  /\ worker' = [worker EXCEPT ![w] = "ended"]
  /\ UNCHANGED <<pending, active, completed, collected, cancelled, outstanding, nextId,
                 stopping, control>>

\* The first pending job becomes active, with its token where cancelOwner() finds it.
Takes(w) ==
  /\ worker[w] = "check" /\ pending # <<>>
  /\ active' = [active EXCEPT ![w] = {Head(pending)}] /\ pending' = Tail(pending)
  /\ worker' = [worker EXCEPT ![w] = "run"]
  /\ UNCHANGED <<completed, collected, cancelled, outstanding, nextId, stopping, control>>

\* The function has returned.
Finishes(w) ==
  /\ worker[w] = "run"
  /\ \E job \in active[w] : completed' = Append(completed, job.id)
  /\ active' = [active EXCEPT ![w] = Idle]
  /\ worker' = [worker EXCEPT ![w] = "check"]
  /\ UNCHANGED <<pending, collected, cancelled, outstanding, nextId, stopping, control>>

-----------------------------------------------------------------------------

WorkerStep(w) == Sleeps(w) \/ Ends(w) \/ Takes(w) \/ Finishes(w)

MessageThread ==
  \/ \E owner \in Owners, priority \in Priorities : Submit(owner, priority)
  \/ TryPopCompleted
  \/ \E owner \in Owners : CancelOwner(owner)
  \/ Shutdown \/ NotifyAll \/ Join

Next == MessageThread \/ \E w \in Workers : WorkerStep(w) \/ WakesSpuriously(w)

Spec == Init /\ [][Next]_vars

\* Each worker is scheduled and each job's function returns; a shutdown that has begun goes
\* on.  Nobody has to collect results, and no wait has to end by itself.
FairSpec ==
  /\ Spec /\ \A w \in Workers : WF_vars(WorkerStep(w))
  /\ WF_vars(NotifyAll) /\ WF_vars(Join)

-----------------------------------------------------------------------------
(* Properties.                                                             *)

Held == Len(pending) + Cardinality(Running) + Len(completed)

\* Pending jobs run by priority, and in the order of their submission within a priority.
PendingInOrder ==
  \A i, k \in DOMAIN pending : i < k =>
    \/ pending[i].priority > pending[k].priority
    \/ pending[i].priority = pending[k].priority /\ pending[i].id < pending[k].id

\* The count that bounds the queue is the number of jobs and results held, wherever they are.
OutstandingIsHeld == outstanding = Held

\* Once the system is stopping no unfinished job keeps a live token: neither one that was being
\* taken at the time, nor one submitted around it.
StoppingCancelsAll ==
  stopping => \A job \in ToSet(pending) \union Running : job.id \in cancelled

\* What BoundedJobs promises: jobs run once and their results wait, within the capacity; and
\* every accepted job finishes, whichever workers sleep and whenever the system is stopped.
Unfinished == {job.id : job \in ToSet(pending) \union Running}

Contract == INSTANCE BoundedJobs WITH
  Jobs <- 1 .. MaxJobs, Capacity <- QueueCapacity,
  unfinished <- Unfinished, finished <- ToSet(completed), collected <- collected,
  closed <- stopping

KeepsContract == Contract!AbsSpec

\* shutdown() joins every worker.
ShutdownEnds == stopping ~> control = "closed"
=============================================================================

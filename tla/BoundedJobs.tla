----------------------------- MODULE BoundedJobs -----------------------------
(***************************************************************************)
(* What the application relies on the job system for: a job it accepts     *)
(* runs once, its result waits until it is collected once, never more than *)
(* Capacity jobs and results are held, and a closed system accepts nothing *)
(* but still finishes what it has accepted.                                *)
(***************************************************************************)
EXTENDS Naturals, FiniteSets

CONSTANTS Jobs, Capacity

VARIABLES unfinished, finished, collected, closed

abstract == <<unfinished, finished, collected, closed>>

AbsInit == unfinished = {} /\ finished = {} /\ collected = {} /\ closed = FALSE

Accept(j) ==
  /\ ~ closed /\ j \notin unfinished \union finished \union collected
  /\ Cardinality(unfinished \union finished) < Capacity
  /\ unfinished' = unfinished \union {j}
  /\ UNCHANGED <<finished, collected, closed>>

Finish(j) ==
  /\ j \in unfinished
  /\ unfinished' = unfinished \ {j} /\ finished' = finished \union {j}
  /\ UNCHANGED <<collected, closed>>

Collect(j) ==
  /\ j \in finished
  /\ finished' = finished \ {j} /\ collected' = collected \union {j}
  /\ UNCHANGED <<unfinished, closed>>

CloseJobs ==
  /\ closed' = TRUE
  /\ UNCHANGED <<unfinished, finished, collected>>

AbsNext == (\E j \in Jobs : Accept(j) \/ Finish(j) \/ Collect(j)) \/ CloseJobs

AbsSpec ==
  /\ AbsInit /\ [][AbsNext]_abstract
  /\ \A j \in Jobs : WF_abstract(Finish(j))
=============================================================================

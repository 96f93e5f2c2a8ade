----------------------------- MODULE BoundedQueue -----------------------------
(***************************************************************************)
(* What users of SpscQueue rely on: a first-in first-out queue of at most  *)
(* Capacity values that loses, repeats and reorders nothing, and whose     *)
(* values all come out as long as somebody takes them.                     *)
(***************************************************************************)
EXTENDS Naturals, Sequences

CONSTANTS Values, Capacity, None

VARIABLES
  contents,  \* what was put and not yet taken, oldest first
  received   \* the value taken last, or None

abstract == <<contents, received>>

AbsInit == contents = <<>> /\ received = None

Put(v) == Len(contents) < Capacity /\ contents' = Append(contents, v) /\ UNCHANGED received

Take == contents # <<>> /\ received' = Head(contents) /\ contents' = Tail(contents)

Empty == contents' = <<>> /\ UNCHANGED received

AbsNext == (\E v \in Values : Put(v)) \/ Take \/ Empty

AbsSpec == AbsInit /\ [][AbsNext]_abstract /\ WF_abstract(Take)
=============================================================================

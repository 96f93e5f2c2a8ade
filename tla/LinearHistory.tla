---------------------------- MODULE LinearHistory ----------------------------
(***************************************************************************)
(* What undo and redo promise: the contents a project has had form one     *)
(* line.  past are those undo goes back to, oldest first, future those redo *)
(* goes on to, nearest last.  An edit drops the future; starting on another *)
(* project drops both.                                                     *)
(***************************************************************************)
EXTENDS Integers, Sequences

VARIABLES past, present, future
vars == <<past, present, future>>

FrontOf(s) == [i \in 1 .. Len(s) - 1 |-> s[i]]

Init == past = <<>> /\ future = <<>>

\* One edit, however much of the project it changes, is one step of the line.
Edit == past' = Append(past, present) /\ future' = <<>>

\* Several edits made at once.
Edits ==
  /\ Len(past') > Len(past)
  /\ SubSeq(past', 1, Len(past) + 1) = Append(past, present)
  /\ future' = <<>>

Undo ==
  /\ past # <<>>
  /\ present' = past[Len(past)]
  /\ past' = FrontOf(past)
  /\ future' = Append(future, present)

Redo ==
  /\ future # <<>>
  /\ present' = future[Len(future)]
  /\ future' = FrontOf(future)
  /\ past' = Append(past, present)

\* Another project is created or opened.
Start == past' = <<>> /\ future' = <<>>

Next == Edit \/ Undo \/ Redo \/ Start
Spec == Init /\ [][Next]_vars
=============================================================================

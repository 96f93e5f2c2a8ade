----------------------------- MODULE DeskProject -----------------------------
(***************************************************************************)
(* What the chopping workspace and the input router read of the project:   *)
(* its identity and revision, the trim of the layer being chopped, the      *)
(* slice sets assigned, the bank shown, what notes and keys its pads answer *)
(* to and the MIDI channel filter.  ProjectEdits models the whole project;  *)
(* here its edits appear as the changes of these parts they make.           *)
(***************************************************************************)
EXTENDS Integers, Sequences, FiniteSets

CONSTANTS Banks,        \* padBankCount banks
          Notes, Keys,  \* MIDI notes and computer keys
          Mappings,     \* settings of the pads' notes and keys: [Banks -> SUBSET (Notes \cup Keys)]
          Trims,        \* trims of the layer: [start, end]
          MaxRevision,  \* bound: how far the revision is followed
          MaxGestures   \* bound: how much the user and the MIDI device do

ASSUME DeskAssumption ==
  /\ Mappings \subseteq [Banks -> SUBSET (Notes \cup Keys)]
  /\ Trims \subseteq [start : Nat, end : Nat]
  /\ \A t \in Trims : t.start < t.end
  /\ MaxRevision \in Nat /\ MaxGestures \in Nat

VARIABLES project,   \* [life, revision, bank, mapping, open, trim, sets]
          gestures   \* ghost: gestures made so far

Gesture == gestures < MaxGestures /\ gestures' = gestures + 1

\* An edit of the project takes a revision, or several.
Revised(p, steps) == [p EXCEPT !.revision = @ + steps]
MayRevise(steps) == project.revision + steps <= MaxRevision

\* The notes whose messages find a pad: those of the bank shown, unless the
\* channel filter keeps them out.
Answering(p) == IF p.open THEN p.mapping[p.bank] \cap Notes ELSE {}

FirstBank == CHOOSE bank \in Banks : \A other \in Banks : bank <= other

DeskInit ==
  /\ \E trim \in Trims, mapping \in Mappings :
       project = [life |-> 0, revision |-> 0, bank |-> FirstBank, mapping |-> mapping,
                  open |-> TRUE, trim |-> trim, sets |-> {}]
  /\ gestures = 0
=============================================================================

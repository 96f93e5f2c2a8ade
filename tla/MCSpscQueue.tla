----------------------------- MODULE MCSpscQueue -----------------------------
(* An instance of SpscQueue for TLC; see SpscQueue.cfg. *)
EXTENDS SpscQueue

CONSTANTS a, b, c, producer

ThreeValues == {a, b, c}
OneProducer == {producer}
=============================================================================

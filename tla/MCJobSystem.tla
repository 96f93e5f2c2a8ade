----------------------------- MODULE MCJobSystem -----------------------------
(***************************************************************************)
(* A small instance of JobSystem.  The workers are interchangeable, but    *)
(* the run checks liveness, so no symmetry is declared.                    *)
(***************************************************************************)
EXTENDS JobSystem

CONSTANTS w1, w2, project, preview

TwoWorkers == {w1, w2}
TwoOwners  == {project, preview}
=============================================================================

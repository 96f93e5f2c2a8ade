----------------------------- MODULE MCLazyMarkers -----------------------------
(* An instance of LazyMarkers for TLC; see LazyMarkers.cfg. *)
EXTENDS LazyMarkers

BothThreads == {"midi", "message"}
=============================================================================

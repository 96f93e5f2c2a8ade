-------------------------- MODULE MCPlaybackEngine --------------------------
(***************************************************************************)
(* A small instance of PlaybackEngine: two pads and two projects.  The     *)
(* first has a polyphonic two-layer pad and a mono gate pad in one choke   *)
(* group; the second makes the first pad a one-voice toggle pad and takes  *)
(* it out of the group.                                                    *)
(***************************************************************************)
EXTENDS PlaybackEngine

Pad(mode, mono, choke, limit, layers) ==
  [mode |-> mode, mono |-> mono, choke |-> choke, limit |-> limit, layers |-> layers]

TwoPads == {0, 1}

Before == [p \in TwoPads |-> IF p = 0 THEN Pad("oneShot", FALSE, 1, 2, 2)
                                      ELSE Pad("gate", TRUE, 1, 1, 1)]

After == [p \in TwoPads |-> IF p = 0 THEN Pad("toggle", FALSE, 0, 1, 1)
                                     ELSE Pad("gate", TRUE, 1, 1, 1)]

TwoProjects == {Before, After}
=============================================================================

------------------------- MODULE MCCheckpointManager -------------------------
(* Model values of CheckpointManager for TLC.                              *)
EXTENDS CheckpointManager

CONSTANTS c1, c2, c3, s1, s2, p1, p2
=============================================================================

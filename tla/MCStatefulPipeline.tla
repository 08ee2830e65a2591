------------------------- MODULE MCStatefulPipeline -------------------------
(* Model values of StatefulPipeline for TLC.                               *)
EXTENDS StatefulPipeline

CONSTANTS s1, n1, p1
=============================================================================

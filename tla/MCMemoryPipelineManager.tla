------------------------ MODULE MCMemoryPipelineManager ------------------------
(* Values of the function constant of MemoryPipelineManager for TLC.       *)
EXTENDS MemoryPipelineManager

CONSTANTS s1, s2, p1

\* One agent owns every session.
OneAgent == [s \in Sessions |-> p1]
=============================================================================

------------------------- MODULE MCSkillConversation -------------------------
(* Model values of SkillConversation for TLC.                              *)
EXTENDS SkillConversation

CONSTANTS s1, s2, n1, n2, a1

OneAgent == [s \in Sessions |-> a1]
=============================================================================

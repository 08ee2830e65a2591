----------------------------- MODULE Subsequences -----------------------------
(***************************************************************************)
(* Array.prototype.filter, as the task queue and the tasks file use it.    *)
(* A recursive function rather than SelectSeq, of which the prover knows   *)
(* nothing (LocalStateBackendProofs, SkillConversationProofs).             *)
(***************************************************************************)
EXTENDS Integers, Sequences

\* What is left of s without its elements outside X, in the same order.
Keeping(s, X) ==
  LET kept[i \in 0..Len(s)] ==
        IF i = 0 THEN <<>>
        ELSE IF s[i] \in X THEN Append(kept[i - 1], s[i]) ELSE kept[i - 1]
  IN  kept[Len(s)]
=============================================================================

-------------------------- MODULE MCLocalStateBackend --------------------------
(* Values of the function constants of LocalStateBackend for TLC.          *)
EXTENDS LocalStateBackend

CONSTANTS t1, t2, i1, i2

TwoPriorities == (t1 :> 0) @@ (t2 :> 1)
TwoInstances == (t1 :> i1) @@ (t2 :> i2)
WorkerSymmetry == Permutations(Workers)
=============================================================================

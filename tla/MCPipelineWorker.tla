--------------------------- MODULE MCPipelineWorker ---------------------------
(* Values of the function constants of PipelineWorker for TLC.             *)
EXTENDS PipelineWorker

CONSTANTS t1, t2, s1

OneTask == t1 :> s1
OneNoFollow == t1 :> NoTask
OneScope == (t1 :> s1) @@ (t2 :> s1)
OneLockFree == (t1 :> s1) @@ (t2 :> LockFree)
NoFollow == (t1 :> NoTask) @@ (t2 :> NoTask)
Chain == (t1 :> t2) @@ (t2 :> NoTask)

TaskSymmetry == Permutations({t1, t2})
WorkerSymmetry == Permutations(Workers)
=============================================================================

--------------------------- MODULE MCBatchWorker ---------------------------
(* Values of BatchWorker's constants for TLC.                              *)
EXTENDS BatchWorker

CONSTANTS w1, w2, e1, e2

RunBacklog == <<e1, e2>>

\* One worker with two hooks, one without.
RunHooks == (w1 :> 2) @@ (w2 :> 0)

\* A rolling deployment: w2 does not know the schema of e2.
RunForeign == {<<w2, e2>>}

\* One worker alone with many faults, and two that race for the buffer while
\* one of them is stopped or has a hook that raises.
RunScenarios ==
    {[crew |-> {w1}, troubled |-> {w1}, faults |-> 2, mishaps |-> 1],
     [crew |-> {w1, w2}, troubled |-> {w1}, faults |-> 0, mishaps |-> 1]}
=============================================================================

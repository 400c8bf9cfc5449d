----------------------------- MODULE MCJobQueue -----------------------------
(* JobQueue with two runners, one of which may stall, and two jobs of        *)
(* different priority.                                                       *)
EXTENDS JobQueue, TLC

CONSTANTS j1, j2, w1, w2

MCJob        == {j1, j2}
MCWorker     == {w1, w2}
MCPriority   == (j1 :> 1) @@ (j2 :> 0)
MCStartDelay == (j1 :> 1) @@ (j2 :> 0)
MCStalling   == {w1}
=============================================================================

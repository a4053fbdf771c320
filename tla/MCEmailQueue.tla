--------------------------- MODULE MCEmailQueue ---------------------------
(* Small instances of EmailQueue for TLC.                                  *)
EXTENDS EmailQueue, TLC

CONSTANTS j1, j2, j3, w1, w2

ThreeJobs == {j1, j2, j3}
TwoWorkers == {w1, w2}
BadOnes == {j2, j3}
Priorities == (j1 :> 2) @@ (j2 :> 1) @@ (j3 :> 2)
=============================================================================

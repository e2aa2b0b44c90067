----------------------------- MODULE MCJobQueue -----------------------------
(* Instances of JobQueue for TLC.                                            *)
EXTENDS JobQueue, TLC

CONSTANTS j1, j2, q1

OneAttempt == [j \in Jobs |-> 1]
OneOrTwo == (j1 :> 2) @@ [j \in Jobs |-> 1]
=============================================================================

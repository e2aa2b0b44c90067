------------------------- MODULE MCReleaseScheduler -------------------------
(* Instances of ReleaseScheduler for TLC.                                    *)
EXTENDS ReleaseScheduler

CONSTANTS s1, r1, r2, o1, q1

AllJobs == Submissions \X (1..MaxVersion)
TwoAttempts == [j \in Jobs |-> 2]
=============================================================================

-------------------------- MODULE MCSubmissionWorkflow --------------------------
(***************************************************************************)
(* Instances of SubmissionWorkflow for TLC.  The event loop (http) serves  *)
(* creators and reviewers, the job executor (worker) reports the outcome   *)
(* of a delivery as the system, as in jobs/services/integrations.py.       *)
(***************************************************************************)
EXTENDS SubmissionWorkflowInv, TLC

CONSTANTS s1, r1, r2, r3, ann, bob, http, worker, c1, c2

MCOwner == [s \in Submissions |-> ann]

Own == (http :> c1) @@ (worker :> c2)
Shared == (http :> c1) @@ (worker :> c1)

CallOf(req, to, actor, role, reason, expected) ==
    [sub |-> s1, req |-> req, expected |-> expected, month |-> FALSE,
     claim |-> [to |-> to, actor |-> actor, role |-> role, reason |-> reason]]

(* The creator starts an upload that the system takes back or completes, under *)
(* one request id with two claims.                                             *)
UploadCalls ==
    { CallOf(r1, "uploading", ann, "creator", FALSE, -1),
      CallOf(r2, "draft", bob, "system", TRUE, -1),
      CallOf(r2, "under_review", bob, "system", FALSE, 1),
      CallOf(r3, "uploading", bob, "admin", FALSE, 2) }

(* An upload that is taken back or completed, two requests for one version,   *)
(* and then approved; the approval has the request id of the taking back.      *)
LifecycleCalls ==
    { CallOf(r1, "uploading", ann, "creator", FALSE, -1),
      CallOf(r2, "draft", bob, "system", TRUE, -1),
      CallOf(r3, "under_review", bob, "system", FALSE, 1),
      CallOf(r2, "approved", bob, "reviewer", FALSE, -1) }

(* What the dispatch route is handed: the event of the approval above, again  *)
(* or before it happens, with a release month the submission need not have.   *)
HandedOver == {[event |-> Announce(s1, 3, "approved"), month |-> TRUE]}

NothingHandedOver == {}
================================================================================

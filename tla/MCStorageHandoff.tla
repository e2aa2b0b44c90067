-------------------------- MODULE MCStorageHandoff --------------------------
(* Instances of StorageHandoff for TLC.                                      *)
EXTENDS StorageHandoff

CONSTANTS k1, k2, h, a1, q1

AllJobs == Keys \union {HandoffId} \union Approvals
OneAttempt == [j \in Jobs |-> 1]
OneRetry == [j \in Jobs |-> IF j = a1 THEN 2 ELSE 1]
UploadEdges == {<<"draft", "uploading">>, <<"uploading", "draft">>}
AmendEdges ==
  {<<"draft", "uploading">>, <<"under_review", "approved">>, <<"under_review", "rejected">>,
   <<"rejected", "draft">>}
=============================================================================

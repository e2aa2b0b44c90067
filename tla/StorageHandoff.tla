--------------------------- MODULE StorageHandoff ---------------------------
(* IntakeStorageService (features/submissions/storage) and the delivery job  *)
(* of jobs/services/integrations.py, on top of the job queue: one submission *)
(* and its intake session.                                                   *)
(*                                                                           *)
(* The event loop (`route`) and the executor (`work`) share the service and  *)
(* its connection without a lock.  Both keep the session's metadata JSON as  *)
(* a copy read earlier and write the whole copy back; a step is one read or  *)
(* one write; the other thread sees what is not committed yet, a manifest    *)
(* half written among it.  transition_submission is one step.                *)
EXTENDS JobQueue

(* The edges of the lifecycle that are requested around a hand-off.          *)
ClientEdges ==
  {<<"draft", "uploading">>, <<"draft", "under_review">>, <<"uploading", "draft">>,
   <<"uploading", "under_review">>, <<"under_review", "approved">>,
   <<"under_review", "rejected">>, <<"rejected", "draft">>}

CONSTANTS
  Keys,       \* request keys of handoffs: the idempotency keys of their jobs
  HandoffId,  \* the key of a job that is resumed when the session names none
  Approvals,  \* the key of the delivery job an approval queues, if modelled
  Controls,   \* control actions the client uses
  Edges,      \* transitions the client requests
  Replayed,   \* jobs whose dead letters are replayed
  MaxPacks,   \* bound: manifests indexed
  Files,      \* files of a manifest, each no longer than a chunk
  NoKey       \* no last_handoff_request_key

ASSUME HandoffAssumption ==
  /\ Jobs = Keys \union {HandoffId} \union Approvals /\ Handled = Jobs /\ Reported = {}
  /\ Controls \subseteq {"pause", "resume", "cancel"} /\ Edges \subseteq ClientEdges
  /\ Replayed \subseteq Jobs /\ MaxCrashes = 0 /\ MaxTimeouts = 0
  /\ Files \in Nat \ {0} /\ MaxPacks \in Nat /\ NoKey \notin Jobs

VARIABLES
  session,   \* upload_sessions: status, the metadata read here, locked_at
  assets,    \* asset_manifest: its pack (0: none), rows inserted, locked
  state,     \* submissions.current_state
  moves,     \* the worker's transition under a job's request id
  route,     \* the event loop's call: where it is, its key, its metadata copy
  work,      \* the delivery: where it is, its copies, pack, files left, and
             \*   whether it read all of the pack's rows
  packs,     \* packs indexed so far
  handed,    \* history: packs that a handoff was queued for
  sent,      \* history: packs a delivery sent whole
  delivered, \* history: jobs whose delivery sent a pack whole
  torn,      \* history: jobs whose delivery sent what it read of a manifest
             \*   that was being written
  crossed    \* history: the session was reset or unlocked during a delivery,
             \*   or a delivery began while the manifest was being written

storage == <<session, assets, state, moves, route, work, packs>>
ghosts == <<handed, sent, delivered, torn, crossed>>
queue == <<tables, burying, threads, history>>
allVars == <<queue, storage, ghosts>>

Handoffs == {"queued", "in_progress", "paused", "completed", "canceled", "failed"}
NoMeta == [handoff |-> "none", upload |-> "none", key |-> NoKey, jobbed |-> FALSE]
NoRoute == [at |-> "out", key |-> NoKey, snap |-> NoMeta, lock |-> FALSE]
NoWork == [at |-> "out", then |-> "out", snap |-> NoMeta, prog |-> NoMeta,
           pack |-> 0, left |-> 0, whole |-> FALSE, ok |-> FALSE, fatal |-> FALSE]

meta == session.meta
Exists == session.status # "absent"

(* metadata.update(copy): the copy's fields win, absent ones are kept.       *)
Updated(copy) ==
  [handoff |-> IF copy.handoff = "none" THEN meta.handoff ELSE copy.handoff,
   upload  |-> IF copy.upload = "none" THEN meta.upload ELSE copy.upload,
   key     |-> IF copy.key = NoKey THEN meta.key ELSE copy.key,
   jobbed  |-> copy.jobbed \/ meta.jobbed]

(* handoff_status and upload_status are set together, but not unset.         *)
Marked(copy, status) == [copy EXCEPT !.handoff = status, !.upload = status]

(* _handoff_status_from_session.                                             *)
StatusOf ==
  IF meta.handoff # "none" THEN meta.handoff
  ELSE CASE session.status = "transfer_completed" -> "completed"
         [] session.status = "manifest_ready" -> "queued"
         [] OTHER -> "in_progress"

(* _update_handoff_metadata without new timestamps.                          *)
Write(copy) ==
  session' = [session EXCEPT !.status = "manifest_ready", !.meta = Updated(copy)]

HandoffInit ==
  /\ Init
  /\ session = [status |-> "absent", meta |-> NoMeta, locked |-> FALSE]
  /\ assets = [pack |-> 0, rows |-> 0, locked |-> FALSE]
  /\ state = "draft"
  /\ moves = [j \in Jobs |-> "none"]
  /\ route = NoRoute /\ work = NoWork /\ packs = 0
  /\ handed = {} /\ sent = {} /\ delivered = {} /\ torn = {} /\ crossed = FALSE

----------------------------------------------------------------------------
(* The event loop's routes, one at a time.                                   *)

RouteAt(step) == route.at = step
Begin(step, key, copy) == route' = [NoRoute EXCEPT !.at = step, !.key = key, !.snap = copy]
Proceed(step) == route' = [route EXCEPT !.at = step]
Answered == route' = NoRoute
Delivering == work.at # "out"

(* handoff_status or upload_status, the first of them there is.              *)
Attempted == IF meta.handoff # "none" THEN meta.handoff ELSE meta.upload

(* start_intake_session: the first one, or a new attempt after a canceled or *)
(* failed handoff; any other call is answered with the session there is.     *)
StartSession ==
  /\ RouteAt("out")
  /\ \/ /\ ~Exists
        /\ session' = [session EXCEPT !.status = "initiated"]
        /\ UNCHANGED route
     \/ /\ Exists /\ Attempted \in {"canceled", "failed"}
        /\ Begin("resetting", NoKey, meta)
        /\ UNCHANGED session
  /\ UNCHANGED <<queue, assets, state, moves, work, packs, ghosts>>

Unlock(copy) ==
  /\ assets' = [assets EXCEPT !.locked = FALSE]
  /\ session' = [status |-> "initiated", meta |-> copy, locked |-> FALSE]
  /\ crossed' = (crossed \/ Delivering)
  /\ Answered
  /\ UNCHANGED <<queue, state, moves, work, packs, handed, sent, delivered, torn>>

ResetSession == RouteAt("resetting") /\ Unlock(NoMeta)

(* unlock_submission_assets, for the amendment of a rejected submission.     *)
UnlockFiles ==
  /\ RouteAt("out") /\ Exists /\ state = "rejected"
  /\ Begin("unlocking", NoKey, meta)
  /\ UNCHANGED <<queue, session, assets, state, moves, work, packs, ghosts>>

UnlockSession ==
  RouteAt("unlocking") /\ Unlock([route.snap EXCEPT !.handoff = "none", !.key = NoKey])

LockFiles ==
  /\ RouteAt("out") /\ Exists
  /\ assets' = [assets EXCEPT !.locked = @ \/ assets.pack # 0]
  /\ session' = [session EXCEPT !.locked = TRUE]
  /\ UNCHANGED <<queue, state, moves, route, work, packs, ghosts>>

(* Mutant: a locked manifest is replaced too.                                *)
EraseLocked(lock) ==
  /\ RouteAt("out") /\ Exists /\ packs < MaxPacks
  /\ assets' = [assets EXCEPT !.pack = 0, !.rows = 0]
  /\ route' = [NoRoute EXCEPT !.at = "indexing", !.snap = meta, !.lock = lock]
  /\ UNCHANGED <<queue, session, state, moves, work, packs, ghosts>>

(* upsert_manifest of a new pack: the old rows are deleted...                *)
EraseManifest(lock) ==
  /\ RouteAt("out") /\ Exists /\ ~assets.locked /\ packs < MaxPacks
  /\ assets' = [assets EXCEPT !.pack = 0, !.rows = 0]
  /\ route' = [NoRoute EXCEPT !.at = "indexing", !.snap = meta, !.lock = lock]
  /\ UNCHANGED <<queue, session, state, moves, work, packs, ghosts>>

(* ... the new ones inserted, each with an execute of its own...             *)
InsertRow ==
  /\ RouteAt("indexing") /\ assets.rows < Files
  /\ assets' = [pack |-> packs + 1, rows |-> assets.rows + 1, locked |-> route.lock]
  /\ UNCHANGED <<queue, session, state, moves, route, work, packs, ghosts>>

(* ... and the session is written.                                           *)
IndexManifest ==
  /\ RouteAt("indexing") /\ assets.rows = Files
  /\ packs' = packs + 1
  /\ session' = [status |-> IF route.lock THEN "manifest_ready" ELSE "initiated",
                 meta |-> route.snap, locked |-> route.lock]
  /\ Answered
  /\ UNCHANGED <<queue, assets, state, moves, work, ghosts>>

HasHandoff ==
  /\ meta.handoff # "none" \/ meta.jobbed
  /\ StatusOf # "failed"

(* create_storage_handoff: an existing handoff only takes the request's key. *)
CreateHandoff(k) ==
  /\ RouteAt("out") /\ Exists /\ assets.pack # 0 /\ assets.locked /\ meta.key # k
  /\ IF HasHandoff
     THEN Begin("touching", k, [meta EXCEPT !.key = k])
     ELSE Begin("queueing", k, Marked([meta EXCEPT !.key = k], "queued"))
  /\ UNCHANGED <<queue, session, assets, state, moves, work, packs, ghosts>>

TouchHandoff ==
  /\ RouteAt("touching")
  /\ Write(route.snap)
  /\ Answered
  /\ UNCHANGED <<queue, assets, state, moves, work, packs, ghosts>>

QueueHandoff ==
  /\ RouteAt("queueing")
  /\ session' = [session EXCEPT !.status = "manifest_ready", !.meta = route.snap]
  /\ handed' = handed \union {assets.pack}
  /\ Proceed("enqueueing")
  /\ UNCHANGED <<queue, assets, state, moves, work, packs, sent, delivered, torn, crossed>>

(* enqueue returns the row there is for the key, or queues one due now.      *)
EnqueueDelivery(key) ==
  \/ job[key].status # "ABSENT" /\ UNCHANGED queue
  \/ Enqueue(key) /\ job'[key].due

QueueDelivery ==
  /\ RouteAt("enqueueing")
  /\ EnqueueDelivery(route.key)
  /\ Proceed("saving")
  /\ UNCHANGED <<session, assets, state, moves, work, packs, ghosts>>

SaveHandoff ==
  /\ RouteAt("saving")
  /\ Write([route.snap EXCEPT !.jobbed = TRUE])
  /\ Answered
  /\ UNCHANGED <<queue, assets, state, moves, work, packs, ghosts>>

(* control_storage_handoff, of a handoff whose id a create call returned.    *)
ControlOf == [pause |-> "paused", resume |-> "queued", cancel |-> "canceled"]
ControlledFrom ==
  [pause |-> {"queued", "in_progress"}, resume |-> {"paused", "failed"},
   cancel |-> {"queued", "in_progress", "paused"}]

Control(action) ==
  /\ RouteAt("out") /\ assets.pack # 0 /\ handed # {}
  /\ StatusOf \in ControlledFrom[action]
  /\ Begin(action, IF meta.key = NoKey THEN HandoffId ELSE meta.key,
           Marked(meta, ControlOf[action]))
  /\ UNCHANGED <<queue, session, assets, state, moves, work, packs, ghosts>>

SetControlStatus ==
  /\ route.at \in {"pause", "cancel"}
  /\ Write(route.snap)
  /\ Answered
  /\ UNCHANGED <<queue, assets, state, moves, work, packs, ghosts>>

ResumeHandoff ==
  /\ RouteAt("resume")
  /\ Write(route.snap)
  /\ route' = [route EXCEPT !.at = "reenqueueing", !.snap = Marked(Updated(route.snap), "queued")]
  /\ UNCHANGED <<queue, assets, state, moves, work, packs, ghosts>>

RequeueDelivery ==
  /\ RouteAt("reenqueueing")
  /\ EnqueueDelivery(route.key)
  /\ Proceed("resaving")
  /\ UNCHANGED <<session, assets, state, moves, work, packs, ghosts>>

SaveResumed ==
  /\ RouteAt("resaving")
  /\ Write([route.snap EXCEPT !.jobbed = TRUE])
  /\ Answered
  /\ UNCHANGED <<queue, assets, state, moves, work, packs, ghosts>>

----------------------------------------------------------------------------
(* The transitions clients request, and the delivery an approval queues.     *)

RequestTransition(to) ==
  /\ RouteAt("out") /\ <<state, to>> \in Edges /\ to # "approved"
  /\ state' = to
  /\ UNCHANGED <<queue, session, assets, moves, route, work, packs, ghosts>>

Approve ==
  /\ RouteAt("out") /\ <<state, "approved">> \in Edges
  /\ state' = "approved"
  /\ IF Approvals = {} THEN UNCHANGED queue
     ELSE \E j \in Approvals : EnqueueDelivery(j)
  /\ UNCHANGED <<session, assets, moves, route, work, packs, ghosts>>

ReplayDelivery(j, r) ==
  RouteAt("out") /\ Replay(j, r) /\ UNCHANGED <<storage, ghosts>>

----------------------------------------------------------------------------
(* The executor: _execute_dropbox_delivery and process_storage_handoff.      *)

WorkAt(step) == work.at = step
Goon(step) == work' = [work EXCEPT !.at = step]
ReportThen(step) == work' = [work EXCEPT !.at = "copying", !.then = step]

(* Its copies are dropped where they are read no more.                       *)
EndAt(step, success, terminal) ==
  work' = [NoWork EXCEPT !.at = step, !.ok = success, !.fatal = terminal]

StartDelivery ==
  /\ pc.executor = "handling" /\ WorkAt("out")
  /\ \/ ~session.locked /\ EndAt("raising", FALSE, TRUE)
     \/ session.locked /\ assets.pack = 0 /\ EndAt("failing", FALSE, TRUE)
     \/ /\ session.locked /\ assets.pack # 0
        /\ work' = [NoWork EXCEPT !.at = "marking",
             !.snap = Marked([meta EXCEPT !.key = IF @ = NoKey THEN cur.executor ELSE @],
                             "in_progress")]
  /\ crossed' = (crossed \/ RouteAt("indexing"))
  /\ UNCHANGED <<queue, session, assets, state, moves, route, packs>>
  /\ UNCHANGED <<handed, sent, delivered, torn>>

MarkInProgress ==
  /\ WorkAt("marking")
  /\ Write(work.snap)
  /\ Goon("reading")
  /\ UNCHANGED <<queue, assets, state, moves, route, packs, ghosts>>

(* _upload_manifest_files_to_dropbox reads the manifest a second time, what  *)
(* rows of it there are...                                                   *)
ReadRows ==
  work' = [work EXCEPT !.at = "checking", !.pack = assets.pack, !.left = assets.rows,
                       !.whole = (assets.rows = Files)]

(* ... or there is no client, no folder or, by now, no row.                  *)
ReadManifest ==
  /\ WorkAt("reading")
  /\ (assets.pack # 0 /\ ReadRows) \/ Goon("breaking")
  /\ UNCHANGED <<queue, session, assets, state, moves, route, packs, ghosts>>

(* Mutant: a resumed handoff is waited for like a paused one.                *)
AwaitBoth ==
  /\ work.at \in {"checking", "sentChecking"} /\ meta.handoff \notin {"paused", "queued"}
  /\ IF meta.handoff = "canceled" THEN Goon("stopping")
     ELSE IF WorkAt("checking") THEN Goon("sending") ELSE ReportThen("nextFile")
  /\ UNCHANGED <<queue, session, assets, state, moves, route, packs, ghosts>>

(* _await_handoff_resume_or_cancel: asked before a file and after a chunk.   *)
AwaitResumeOrCancel ==
  /\ work.at \in {"checking", "sentChecking"} /\ meta.handoff # "paused"
  /\ IF meta.handoff = "canceled" THEN Goon("stopping")
     ELSE IF WorkAt("checking") THEN Goon("sending") ELSE ReportThen("nextFile")
  /\ UNCHANGED <<queue, session, assets, state, moves, route, packs, ghosts>>

(* Mutant: the client's exception is swallowed.                              *)
SendFileAnyhow ==
  /\ WorkAt("sending")
  /\ ReportThen("sentChecking")
  /\ UNCHANGED <<queue, session, assets, state, moves, route, packs, ghosts>>

(* The call to Dropbox, of any length: the file arrives, or it raises.       *)
SendFile ==
  /\ WorkAt("sending")
  /\ \/ /\ ReportThen("sentChecking")
        /\ sent' = IF work.left = 1 /\ work.whole THEN sent \union {work.pack} ELSE sent
        /\ delivered' = IF work.left = 1 /\ work.whole
                        THEN delivered \union {cur.executor} ELSE delivered
        /\ torn' = IF work.left = 1 /\ ~work.whole THEN torn \union {cur.executor} ELSE torn
     \/ Goon("breaking") /\ UNCHANGED <<sent, delivered, torn>>
  /\ UNCHANGED <<queue, session, assets, state, moves, route, packs, handed, crossed>>

(* _persist_handoff_progress copies the metadata, and writes the copy back   *)
(* with handoff_status in_progress whatever it said.                         *)
CopyProgress ==
  /\ WorkAt("copying")
  /\ work' = [work EXCEPT !.at = "persisting", !.prog = Marked(meta, "in_progress")]
  /\ UNCHANGED <<queue, session, assets, state, moves, route, packs, ghosts>>

ProgressWritten == [work EXCEPT !.prog = NoMeta, !.then = "out"]

PersistProgress ==
  /\ WorkAt("persisting")
  /\ Write(work.prog)
  /\ \/ work.then = "sentChecking" /\ work' = [ProgressWritten EXCEPT !.at = "sentChecking"]
     \/ /\ work.then = "nextFile"
        /\ work' = [ProgressWritten EXCEPT !.left = @ - 1,
                      !.at = IF work.left = 1 THEN "completing" ELSE "checking"]
  /\ UNCHANGED <<queue, assets, state, moves, route, packs, ghosts>>

CompleteHandoff ==
  /\ WorkAt("completing")
  /\ session' = [status |-> "transfer_completed", locked |-> TRUE,
                 meta |-> Updated(Marked(work.snap, "completed"))]
  /\ EndAt("confirming", FALSE, FALSE)
  /\ UNCHANGED <<queue, assets, state, moves, route, packs, ghosts>>

(* A cancel, or anything that went wrong, is written and raised again.       *)
StopHandoff ==
  /\ WorkAt("stopping")
  /\ Write(Marked(work.snap, "canceled"))
  /\ EndAt("failing", FALSE, TRUE)
  /\ UNCHANGED <<queue, assets, state, moves, route, packs, ghosts>>

BreakHandoff ==
  /\ WorkAt("breaking")
  /\ session' = [session EXCEPT !.status = "manifest_ready", !.locked = TRUE,
                   !.meta = Updated(Marked(work.snap, "failed"))]
  /\ EndAt("failing", FALSE, TRUE)
  /\ UNCHANGED <<queue, assets, state, moves, route, packs, ghosts>>

(* The handoff is read again: anything but COMPLETED is a failure to retry.  *)
ConfirmHandoff ==
  /\ WorkAt("confirming")
  /\ IF assets.pack # 0 /\ StatusOf = "completed"
     THEN EndAt("succeeding", TRUE, FALSE)
     ELSE EndAt("failing", FALSE, assets.pack = 0)
  /\ UNCHANGED <<queue, session, assets, state, moves, route, packs, ghosts>>

(* _apply_submission_state_after_handoff looks whether to move...            *)
ApplyState ==
  /\ \/ WorkAt("succeeding")
        /\ Goon(IF state \in {"uploading", "draft"} THEN "moving" ELSE "returning")
     \/ WorkAt("failing") /\ Goon(IF state = "uploading" THEN "moving" ELSE "raising")
  /\ UNCHANGED <<queue, session, assets, state, moves, route, packs, ghosts>>

(* Mutant: the outcome is not looked at.                                     *)
AlwaysReview == "under_review"

Target == IF work.ok THEN "under_review" ELSE "draft"
Ended == IF work.ok THEN "returning" ELSE "raising"

(* ... and requests the transition, with the job's key as its request id.    *)
MoveSubmission ==
  /\ WorkAt("moving") /\ moves[cur.executor] = "none"
  /\ state = "uploading" \/ (work.ok /\ state = "draft")
  /\ state' = Target
  /\ moves' = [moves EXCEPT ![cur.executor] = Target]
  /\ Goon(Ended)
  /\ UNCHANGED <<queue, session, assets, route, packs, ghosts>>

(* TRANSITION_NOT_ALLOWED is terminal.                                       *)
MoveRefused ==
  /\ WorkAt("moving") /\ moves[cur.executor] = "none"
  /\ state # "uploading" /\ (work.ok => state # "draft")
  /\ EndAt("raising", FALSE, TRUE)
  /\ UNCHANGED <<queue, session, assets, state, moves, route, packs, ghosts>>

(* The request id was used before: with the same target and reason that is   *)
(* an answer, otherwise VERSION_CONFLICT, which is to be retried.            *)
MoveReplayed ==
  /\ WorkAt("moving") /\ moves[cur.executor] # "none"
  /\ \/ moves[cur.executor] = Target /\ Goon(Ended)
     \/ /\ moves[cur.executor] # "under_review" \/ ~work.ok
        /\ EndAt("raising", FALSE, FALSE)
  /\ UNCHANGED <<queue, session, assets, state, moves, route, packs, ghosts>>

DeliveryEnds ==
  /\ \/ WorkAt("returning") /\ HandlerReturns
     \/ WorkAt("raising") /\ HandlerRaises /\ fatal' = work.fatal
  /\ work' = NoWork
  /\ UNCHANGED <<session, assets, state, moves, route, packs, ghosts>>

----------------------------------------------------------------------------
QueueStep ==
  /\ Poll \/ Pick \/ RoundOver \/ Start \/ Settle \/ Succeed \/ Catch \/ Fail \/ FailBury
  /\ UNCHANGED <<storage, ghosts>>

JobDue(j) == BecomeDue(j) /\ UNCHANGED <<storage, ghosts>>

ExecutorStep ==
  \/ QueueStep
  \/ StartDelivery \/ MarkInProgress \/ ReadManifest \/ AwaitResumeOrCancel \/ SendFile
  \/ CopyProgress \/ PersistProgress \/ CompleteHandoff \/ StopHandoff \/ BreakHandoff
  \/ ConfirmHandoff \/ ApplyState \/ MoveSubmission \/ MoveRefused \/ MoveReplayed
  \/ DeliveryEnds

LoopStep ==
  \/ ResetSession \/ UnlockSession \/ InsertRow \/ IndexManifest
  \/ TouchHandoff \/ QueueHandoff \/ QueueDelivery \/ SaveHandoff
  \/ SetControlStatus \/ ResumeHandoff \/ RequeueDelivery \/ SaveResumed

ClientStep ==
  \/ StartSession \/ UnlockFiles \/ LockFiles \/ Approve
  \/ \E lock \in BOOLEAN : EraseManifest(lock)
  \/ \E k \in Keys : CreateHandoff(k)
  \/ \E action \in Controls : Control(action)
  \/ \E to \in {"draft", "uploading", "under_review", "rejected"} : RequestTransition(to)
  \/ \E j \in Replayed, r \in Requests : ReplayDelivery(j, r)

HandoffNext == ExecutorStep \/ LoopStep \/ ClientStep \/ \E j \in Jobs : JobDue(j)

HandoffSpec == HandoffInit /\ [][HandoffNext]_allVars

(* Both threads go on with what they have begun, and back-offs end.          *)
FairHandoffSpec ==
  /\ HandoffSpec /\ WF_allVars(ExecutorStep) /\ WF_allVars(LoopStep)
  /\ \A j \in Jobs : WF_allVars(JobDue(j))
----------------------------------------------------------------------------
(* Properties.                                                               *)

(* A handoff that says COMPLETED was sent: the rows of the manifest as they  *)
(* are now, file by file, unless the session was reset or unlocked while a   *)
(* delivery was under way, or a delivery began while the manifest was being  *)
(* written; no stale copy of the metadata can fake it.                       *)
CompletedWasSent ==
  meta.handoff = "completed" => assets.pack \in sent \/ crossed

(* The worker hands a submission to review only on behalf of a job that has  *)
(* sent its pack whole, through retries, replays and control actions, unless *)
(* a delivery was crossed and the job sent what it found of a manifest that  *)
(* was being written.                                                        *)
ReviewFollowsDelivery ==
  \A j \in Jobs : moves[j] = "under_review" => j \in delivered \/ (crossed /\ j \in torn)

(* A delivery comes to an end, however it is controlled and whatever is done *)
(* to its session meanwhile, unless the handoff is paused again and again or *)
(* for ever: a resume or a cancel always reaches it.                         *)
DeliveriesEnd == []<>(work.at = "out") \/ []<>(meta.handoff = "paused")
=============================================================================

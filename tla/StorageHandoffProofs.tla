------------------------ MODULE StorageHandoffProofs ------------------------
(* Proofs about StorageHandoff, for any keys, packs, files and jobs.         *)
EXTENDS StorageHandoff, JobQueueProofs

MaybeKeys == Jobs \union {NoKey}
HandoffMarks == Handoffs \union {"none"}
Copies == [handoff : HandoffMarks, upload : HandoffMarks, key : MaybeKeys, jobbed : BOOLEAN]
SessionStatuses == {"absent", "initiated", "manifest_ready", "transfer_completed"}
SubmissionStates == {"draft", "uploading", "under_review", "approved", "rejected"}
RouteSteps ==
  {"out", "resetting", "unlocking", "indexing", "touching", "queueing", "enqueueing", "saving",
   "pause", "resume", "cancel", "reenqueueing", "resaving"}
WorkSteps ==
  {"out", "marking", "reading", "checking", "sending", "copying", "persisting", "sentChecking",
   "completing", "stopping", "breaking", "confirming", "succeeding", "failing", "moving",
   "returning", "raising"}

SessionRow == [status : SessionStatuses, meta : Copies, locked : BOOLEAN]
RouteRow == [at : RouteSteps, key : MaybeKeys, snap : Copies, lock : BOOLEAN]
WorkRow == [at : WorkSteps, then : {"out", "sentChecking", "nextFile"}, snap : Copies,
            prog : Copies, pack : Nat, left : Nat, whole : BOOLEAN, ok : BOOLEAN,
            fatal : BOOLEAN]

(* The service's and the worker's variables keep their types.                *)
HandoffTypes ==
  /\ session \in SessionRow
  /\ assets \in [pack : Nat, rows : Nat, locked : BOOLEAN]
  /\ state \in SubmissionStates
  /\ moves \in [Jobs -> {"none", "draft", "under_review"}]
  /\ route \in RouteRow
  /\ work \in WorkRow
  /\ packs \in Nat
  /\ handed \in SUBSET Nat /\ sent \in SUBSET Nat /\ delivered \in SUBSET Jobs
  /\ torn \in SUBSET Jobs
  /\ crossed \in BOOLEAN

(* What a call and a delivery under way are about: the key a route enqueues  *)
(* is one of a job, and the executor delivers while it runs a job's handler. *)
(* A manifest that no route is writing has all its rows.                     *)
Enqueueing == {"queueing", "enqueueing", "saving", "resume", "reenqueueing", "resaving"}
UnderWay ==
  /\ route.at \in Enqueueing => route.key \in Jobs
  /\ work.at # "out" => pc.executor = "handling"
  /\ work.at \in {"copying", "persisting"} <=> work.then # "out"
  /\ work.at \in {"checking", "sending", "copying", "persisting", "sentChecking"} => work.left > 0
  /\ work.ok => work.at \in {"succeeding", "moving", "returning"}
  /\ assets.pack # 0 => assets.rows > 0
  /\ assets.pack # 0 /\ route.at # "indexing" => assets.rows = Files

(* The delivery is between the first look at the manifest and its outcome;   *)
(* it has read which pack to send; it has sent the last file of it.          *)
OnPack == {"checking", "sending", "copying", "persisting", "sentChecking", "completing"}
Uploads == OnPack \union {"marking", "reading", "stopping", "breaking"}
LastSent ==
  \/ work.at = "completing"
  \/ work.at \in {"copying", "persisting", "sentChecking"} /\ work.left = 1

(* A delivery that is over and well has sent all it read for its own job.    *)
DeliveredInv ==
  /\ LastSent \/ work.at \in {"confirming", "succeeding"} \/ work.ok =>
       cur.executor \in delivered \union torn
  /\ \A j \in Jobs : moves[j] = "under_review" => j \in delivered \union torn

(* The rows of the manifest as they are now were sent, and they are locked.  *)
PackSent == assets.locked /\ assets.pack \in sent

(* The calls that hold a copy with a status of their own.                    *)
Waiting == {"queueing", "enqueueing", "saving", "pause", "resume", "cancel", "reenqueueing",
            "resaving"}

(* While no delivery has been crossed: the locks of the session and of its   *)
(* assets go together, but for the rows being written; a delivery finds all  *)
(* of the pack it has read; no copy of the metadata says COMPLETED of        *)
(* another one.                                                              *)
PackInv ==
  /\ route.at # "indexing" /\ session.locked /\ assets.pack # 0 => assets.locked
  /\ route.at = "indexing" =>
       /\ assets.rows # 0 => assets.locked = route.lock
       /\ work.at \notin Uploads
       /\ meta.handoff # "completed" /\ route.snap.handoff # "completed"
  /\ work.at \in Uploads => assets.locked /\ assets.pack # 0
  /\ work.at \in OnPack => work.pack = assets.pack /\ work.whole
  /\ LastSent => work.pack \in sent
  /\ work.snap.handoff # "completed" /\ work.prog.handoff # "completed"
  /\ meta.handoff = "completed" => PackSent
  /\ route.at \in Waiting => route.snap.handoff # "completed"
  /\ route.at = "touching" /\ route.snap.handoff = "completed" => PackSent
  /\ torn = {}

HandoffInv == TypeOK /\ HandoffTypes /\ UnderWay /\ DeliveredInv /\ (~crossed => PackInv)
----------------------------------------------------------------------------
(* Types.                                                                    *)

LEMMA HandoffInit1 == HandoffInit => HandoffTypes
<1> SUFFICES ASSUME HandoffInit PROVE HandoffTypes
  OBVIOUS
<1>1. NoMeta \in Copies
  BY DEF NoMeta, Copies, MaybeKeys, HandoffMarks
<1>2. session \in SessionRow
  BY <1>1 DEF HandoffInit, SessionRow, SessionStatuses
<1>3. route \in RouteRow
  BY <1>1 DEF HandoffInit, RouteRow, NoRoute, RouteSteps, MaybeKeys
<1>4. work \in WorkRow
  BY <1>1 DEF HandoffInit, WorkRow, NoWork, WorkSteps
<1> QED
  BY <1>2, <1>3, <1>4 DEF HandoffInit, HandoffTypes, SubmissionStates

LEMMA UpdatedTyped ==
    ASSUME HandoffTypes, NEW copy \in Copies
    PROVE  Updated(copy) \in Copies
BY DEF HandoffTypes, SessionRow, Updated, Copies, MaybeKeys, meta

LEMMA MarkedTyped ==
    ASSUME NEW copy \in Copies, NEW status \in HandoffMarks
    PROVE  Marked(copy, status) \in Copies
BY DEF Marked, Copies

LEMMA WriteTyped ==
    ASSUME HandoffTypes, NEW copy \in Copies, Write(copy)
    PROVE  session' \in SessionRow
BY UpdatedTyped DEF HandoffTypes, SessionRow, Write, SessionStatuses

LEMMA RouteTypes ==
    ASSUME HandoffTypes, UnderWay, LoopStep \/ ClientStep
    PROVE  HandoffTypes'
<1> USE DEF HandoffTypes, SessionRow, RouteRow, WorkRow
<1>a. NoMeta \in Copies /\ meta \in Copies /\ route.snap \in Copies
  BY DEF NoMeta, Copies, MaybeKeys, HandoffMarks, meta
<1>b. ASSUME NEW st \in RouteSteps, NEW k \in MaybeKeys, NEW copy \in Copies, Begin(st, k, copy)
      PROVE  route' \in RouteRow
  BY <1>a, <1>b DEF Begin, NoRoute
<1>1. ASSUME StartSession PROVE HandoffTypes'
  BY <1>1, <1>a, <1>b DEF StartSession, ghosts, SessionStatuses, RouteSteps, MaybeKeys
<1>2. ASSUME ResetSession PROVE HandoffTypes'
  BY <1>2, <1>a DEF ResetSession, Unlock, Answered, NoRoute, SessionStatuses, RouteSteps,
     MaybeKeys
<1>3. ASSUME UnlockFiles PROVE HandoffTypes'
  BY <1>3, <1>a, <1>b DEF UnlockFiles, ghosts, RouteSteps, MaybeKeys
<1>4. ASSUME UnlockSession PROVE HandoffTypes'
  <2>1. [route.snap EXCEPT !.handoff = "none", !.key = NoKey] \in Copies
    BY <1>a DEF Copies, HandoffMarks, MaybeKeys
  <2> QED
    BY <1>4, <1>a, <2>1 DEF UnlockSession, Unlock, Answered, NoRoute, SessionStatuses, RouteSteps,
       MaybeKeys
<1>5. ASSUME LockFiles PROVE HandoffTypes'
  BY <1>5 DEF LockFiles, ghosts
<1>6. ASSUME NEW lock \in BOOLEAN, EraseManifest(lock) PROVE HandoffTypes'
  BY <1>6, <1>a DEF EraseManifest, ghosts, NoRoute, RouteSteps, MaybeKeys
<1>20. ASSUME InsertRow PROVE HandoffTypes'
  BY <1>20 DEF InsertRow, ghosts
<1>7. ASSUME IndexManifest PROVE HandoffTypes'
  BY <1>7, <1>a DEF IndexManifest, ghosts, Answered, NoRoute, RouteSteps, MaybeKeys,
     SessionStatuses
<1>8. ASSUME NEW k \in Keys, CreateHandoff(k) PROVE HandoffTypes'
  <2>1. k \in MaybeKeys /\ [meta EXCEPT !.key = k] \in Copies
    BY <1>a, HandoffAssumption DEF MaybeKeys, Copies
  <2>2. Marked([meta EXCEPT !.key = k], "queued") \in Copies
    BY <2>1, MarkedTyped DEF HandoffMarks, Handoffs
  <2> QED
    BY <1>8, <1>b, <2>1, <2>2 DEF CreateHandoff, ghosts, RouteSteps
<1>9. ASSUME TouchHandoff PROVE HandoffTypes'
  BY <1>9, <1>a, WriteTyped DEF TouchHandoff, ghosts, Answered, NoRoute, RouteSteps, MaybeKeys
<1>10. ASSUME QueueHandoff PROVE HandoffTypes'
  BY <1>10, <1>a DEF QueueHandoff, Proceed, RouteSteps, SessionStatuses
<1>11. ASSUME QueueDelivery PROVE HandoffTypes'
  BY <1>11 DEF QueueDelivery, Proceed, RouteSteps, ghosts
<1>12. ASSUME SaveHandoff \/ SaveResumed PROVE HandoffTypes'
  <2>1. [route.snap EXCEPT !.jobbed = TRUE] \in Copies
    BY <1>a DEF Copies
  <2>2. Write([route.snap EXCEPT !.jobbed = TRUE]) /\ Answered
        /\ UNCHANGED <<assets, state, moves, work, packs, ghosts>>
    BY <1>12 DEF SaveHandoff, SaveResumed
  <2>3. session' \in SessionRow
    BY <2>1, <2>2, WriteTyped
  <2>4. route' \in RouteRow
    BY <2>2, <1>a DEF Answered, NoRoute, RouteSteps, MaybeKeys
  <2> QED
    BY <2>2, <2>3, <2>4 DEF ghosts
<1>13. ASSUME NEW action \in Controls, Control(action) PROVE HandoffTypes'
  <2>1. action \in {"pause", "resume", "cancel"}
    BY HandoffAssumption
  <2>2. ControlOf[action] \in HandoffMarks
    BY <2>1 DEF ControlOf, HandoffMarks, Handoffs
  <2>3. Marked(meta, ControlOf[action]) \in Copies
    BY <1>a, <2>2, MarkedTyped
  <2>4. (IF meta.key = NoKey THEN HandoffId ELSE meta.key) \in MaybeKeys
    BY <1>a, HandoffAssumption DEF MaybeKeys, Copies
  <2> QED
    BY <1>13, <1>b, <2>1, <2>3, <2>4 DEF Control, ghosts, RouteSteps
<1>14. ASSUME SetControlStatus PROVE HandoffTypes'
  BY <1>14, <1>a, WriteTyped DEF SetControlStatus, ghosts, Answered, NoRoute, RouteSteps,
     MaybeKeys
<1>15. ASSUME ResumeHandoff PROVE HandoffTypes'
  <2>1. Marked(Updated(route.snap), "queued") \in Copies
    BY <1>a, UpdatedTyped, MarkedTyped DEF HandoffMarks, Handoffs
  <2> QED
    BY <1>15, <1>a, <2>1, WriteTyped DEF ResumeHandoff, ghosts, RouteSteps
<1>16. ASSUME RequeueDelivery PROVE HandoffTypes'
  BY <1>16 DEF RequeueDelivery, Proceed, RouteSteps, ghosts
<1>17. ASSUME NEW to \in {"draft", "uploading", "under_review", "rejected"}, RequestTransition(to)
       PROVE  HandoffTypes'
  BY <1>17 DEF RequestTransition, ghosts, SubmissionStates
<1>18. ASSUME Approve PROVE HandoffTypes'
  BY <1>18 DEF Approve, ghosts, SubmissionStates
<1>19. ASSUME NEW j \in Replayed, NEW r \in Requests, ReplayDelivery(j, r) PROVE HandoffTypes'
  BY <1>19 DEF ReplayDelivery, storage, ghosts
<1> HIDE DEF HandoffTypes, SessionRow, RouteRow, WorkRow
<1> QED
  BY <1>1, <1>2, <1>3, <1>4, <1>5, <1>6, <1>7, <1>8, <1>9, <1>10, <1>11, <1>12, <1>13, <1>14,
     <1>15, <1>16, <1>17, <1>18, <1>19, <1>20 DEF LoopStep, ClientStep

(* What the steps of a delivery do to its record. *)
LEMMA GoonMoves ==
    ASSUME HandoffTypes, NEW step, Goon(step)
    PROVE  /\ work'.at = step /\ work'.then = work.then /\ work'.pack = work.pack
           /\ work'.left = work.left /\ work'.ok = work.ok
           /\ work'.whole = work.whole /\ work'.snap = work.snap /\ work'.prog = work.prog
BY DEF HandoffTypes, WorkRow, Goon

LEMMA ReportMoves ==
    ASSUME HandoffTypes, NEW step, ReportThen(step)
    PROVE  /\ work'.at = "copying" /\ work'.then = step /\ work'.pack = work.pack
           /\ work'.left = work.left /\ work'.ok = work.ok
           /\ work'.whole = work.whole /\ work'.snap = work.snap /\ work'.prog = work.prog
BY DEF HandoffTypes, WorkRow, ReportThen

LEMMA EndMoves ==
    ASSUME NEW step, NEW success, NEW terminal, EndAt(step, success, terminal)
    PROVE  /\ work'.at = step /\ work'.then = "out" /\ work'.ok = success
           /\ work'.snap = NoMeta /\ work'.prog = NoMeta
BY DEF EndAt, NoWork

LEMMA PersistMoves ==
    ASSUME HandoffTypes, PersistProgress
    PROVE  /\ work'.then = "out" /\ work'.pack = work.pack /\ work'.ok = work.ok
           /\ work'.whole = work.whole
           /\ work'.snap = work.snap /\ work'.prog = NoMeta
           /\ \/ work.then = "sentChecking" /\ work'.at = "sentChecking" /\ work'.left = work.left
              \/ work.then = "nextFile" /\ work.left = 1 /\ work'.at = "completing"
              \/ /\ work.then = "nextFile" /\ work.left # 1 /\ work'.at = "checking"
                 /\ work'.left = work.left - 1
<1> DEFINE row == ProgressWritten
<1>1. /\ row \in WorkRow /\ row.left = work.left /\ row.then = "out" /\ row.pack = work.pack
      /\ row.ok = work.ok /\ row.whole = work.whole /\ row.snap = work.snap /\ row.prog = NoMeta
  <2>1. NoMeta \in Copies
    BY DEF NoMeta, Copies, MaybeKeys, HandoffMarks
  <2> QED
    BY <2>1 DEF ProgressWritten, HandoffTypes, WorkRow
<1>2. \/ work.then = "sentChecking" /\ work' = [row EXCEPT !.at = "sentChecking"]
      \/ /\ work.then = "nextFile"
         /\ work' = [row EXCEPT !.left = @ - 1,
                     !.at = IF work.left = 1 THEN "completing" ELSE "checking"]
  BY DEF PersistProgress
<1> HIDE DEF row
<1>3. CASE work.then = "sentChecking" /\ work' = [row EXCEPT !.at = "sentChecking"]
  BY <1>1, <1>3 DEF WorkRow
<1>4. CASE /\ work.then = "nextFile"
           /\ work' = [row EXCEPT !.left = @ - 1,
                       !.at = IF work.left = 1 THEN "completing" ELSE "checking"]
  BY <1>1, <1>4 DEF WorkRow
<1> QED
  BY <1>2, <1>3, <1>4

LEMMA ReadMoves ==
    ASSUME HandoffTypes, ReadRows
    PROVE  /\ work'.at = "checking" /\ work'.then = work.then /\ work'.pack = assets.pack
           /\ work'.left = assets.rows /\ work'.ok = work.ok
           /\ work'.whole = (assets.rows = Files)
           /\ work'.snap = work.snap /\ work'.prog = work.prog
BY DEF HandoffTypes, WorkRow, ReadRows

LEMMA BeginMoves ==
    ASSUME NEW step, NEW key, NEW copy, Begin(step, key, copy)
    PROVE  route'.at = step /\ route'.key = key /\ route'.snap = copy
BY DEF Begin, NoRoute

LEMMA ProceedMoves ==
    ASSUME HandoffTypes, NEW step, Proceed(step)
    PROVE  route'.at = step /\ route'.key = route.key /\ route'.snap = route.snap
BY DEF Proceed, HandoffTypes, RouteRow

LEMMA WorkTypes ==
    ASSUME HandoffTypes, UnderWay, TypeOK, ExecutorStep
    PROVE  HandoffTypes'
<1> USE DEF HandoffTypes, SessionRow, RouteRow, WorkRow
<1>a. NoMeta \in Copies /\ meta \in Copies /\ work.snap \in Copies /\ work.prog \in Copies
  BY DEF NoMeta, Copies, MaybeKeys, HandoffMarks, meta
<1>b. \A status \in HandoffMarks : Marked(work.snap, status) \in Copies
  BY <1>a, MarkedTyped
<1>c. ASSUME NEW st \in WorkSteps, NEW ok \in BOOLEAN, NEW terminal \in BOOLEAN,
   EndAt(st, ok, terminal)
      PROVE  work' \in WorkRow
  BY <1>a, <1>c DEF EndAt, NoWork
<1>1. ASSUME QueueStep PROVE HandoffTypes'
  BY <1>1 DEF QueueStep, storage, ghosts
<1>2. ASSUME StartDelivery PROVE HandoffTypes'
  <2>1. CASE UNCHANGED work
    BY <1>2, <2>1 DEF StartDelivery, ghosts
  <2> DEFINE copy == Marked([meta EXCEPT !.key = IF @ = NoKey THEN cur.executor ELSE @],
                            "in_progress")
  <2>2. copy \in Copies
    <3>1. cur.executor \in Jobs
      BY <1>2 DEF StartDelivery, TypeOK
    <3>2. [meta EXCEPT !.key = IF @ = NoKey THEN cur.executor ELSE @] \in Copies
      BY <1>a, <3>1 DEF Copies, MaybeKeys
    <3> QED
      BY <3>2, MarkedTyped DEF HandoffMarks, Handoffs
  <2> HIDE DEF copy
  <2>3. [NoWork EXCEPT !.at = "marking", !.snap = copy]
          \in WorkRow
    BY <1>a, <2>2 DEF NoWork, WorkSteps
  <2> QED
    BY <1>2, <1>c, <2>3 DEF StartDelivery, ghosts, WorkSteps, copy
<1>3. ASSUME MarkInProgress PROVE HandoffTypes'
  BY <1>3, <1>a, WriteTyped DEF MarkInProgress, ghosts, Goon, WorkSteps
<1>4. ASSUME ReadManifest PROVE HandoffTypes'
  <2>1. work' \in WorkRow
    <3>1. CASE Goon("breaking")
      BY <3>1 DEF Goon, WorkSteps
    <3>2. CASE ReadRows
      BY <3>2 DEF WorkSteps, ReadRows
    <3> QED
      BY <1>4, <3>1, <3>2 DEF ReadManifest
  <2> QED
    BY <1>4, <2>1 DEF ReadManifest, ghosts
<1>d. ASSUME NEW st \in WorkSteps, Goon(st) PROVE work' \in WorkRow
  BY <1>d DEF Goon
<1>e. ASSUME NEW st \in {"sentChecking", "nextFile"}, ReportThen(st) PROVE work' \in WorkRow
  BY <1>e DEF ReportThen, WorkSteps
<1>5. ASSUME AwaitResumeOrCancel PROVE HandoffTypes'
  <2>1. work' \in WorkRow
    BY <1>5, <1>d, <1>e DEF AwaitResumeOrCancel, WorkSteps
  <2> QED
    BY <1>5, <2>1 DEF AwaitResumeOrCancel, ghosts
<1>6. ASSUME SendFile PROVE HandoffTypes'
  <2>1. pc.executor = "handling" => cur.executor \in Jobs
    BY DEF TypeOK
  <2>2. work' \in WorkRow
    BY <1>6, <1>d, <1>e DEF SendFile, WorkSteps
  <2>3. cur.executor \in Jobs
    BY <1>6, <2>1 DEF SendFile, WorkAt, UnderWay
  <2>4. sent' \in SUBSET Nat /\ delivered' \in SUBSET Jobs /\ torn' \in SUBSET Jobs
    <3>1. /\ sent' \in {sent, sent \union {work.pack}}
          /\ delivered' \in {delivered, delivered \union {cur.executor}}
          /\ torn' \in {torn, torn \union {cur.executor}}
      BY <1>6 DEF SendFile
    <3> QED
      BY <2>3, <3>1
  <2> QED
    BY <1>6, <2>2, <2>4 DEF SendFile, ghosts
<1>7. ASSUME CopyProgress PROVE HandoffTypes'
  <2>1. Marked(meta, "in_progress") \in Copies
    BY <1>a, MarkedTyped DEF HandoffMarks, Handoffs
  <2> QED
    BY <1>7, <2>1 DEF CopyProgress, ghosts, WorkSteps
<1>8. ASSUME PersistProgress PROVE HandoffTypes'
  <2>1. ProgressWritten \in WorkRow
    BY <1>a DEF ProgressWritten
  <2>2. work.left - 1 \in Nat /\ work.then \in {"sentChecking", "nextFile"}
    BY <1>8 DEF PersistProgress, WorkAt, UnderWay
  <2>3. work' \in WorkRow
    <3> DEFINE row == ProgressWritten
    <3>1. row \in WorkRow /\ row.left = work.left
      BY <2>1 DEF ProgressWritten
    <3>2. \/ work' = [row EXCEPT !.at = "sentChecking"]
          \/ work' = [row EXCEPT !.left = @ - 1,
                      !.at = IF work.left = 1 THEN "completing" ELSE "checking"]
      BY <1>8 DEF PersistProgress
    <3> HIDE DEF row
    <3>3. CASE work' = [row EXCEPT !.at = "sentChecking"]
      BY <3>1, <3>3 DEF WorkSteps
    <3>4. ASSUME work' = [row EXCEPT !.left = @ - 1,
                          !.at = IF work.left = 1 THEN "completing" ELSE "checking"]
          PROVE  work' \in WorkRow
      <4>1. row.left - 1 \in Nat
        BY <2>2, <3>1
      <4> QED
        BY <3>1, <3>4, <4>1 DEF WorkSteps
    <3> QED
      BY <3>2, <3>3, <3>4
  <2> QED
    BY <1>8, <1>a, <2>3, WriteTyped DEF PersistProgress, ghosts
<1>9. ASSUME CompleteHandoff PROVE HandoffTypes'
  <2>1. Updated(Marked(work.snap, "completed")) \in Copies
    BY <1>b, UpdatedTyped DEF HandoffMarks, Handoffs
  <2> QED
    BY <1>9, <1>c, <2>1 DEF CompleteHandoff, ghosts, WorkSteps, SessionStatuses
<1>10. ASSUME StopHandoff PROVE HandoffTypes'
  BY <1>10, <1>b, <1>c, WriteTyped DEF StopHandoff, ghosts, WorkSteps, HandoffMarks, Handoffs
<1>11. ASSUME BreakHandoff PROVE HandoffTypes'
  <2>1. Updated(Marked(work.snap, "failed")) \in Copies
    BY <1>b, UpdatedTyped DEF HandoffMarks, Handoffs
  <2> QED
    BY <1>11, <1>c, <2>1 DEF BreakHandoff, ghosts, WorkSteps, SessionStatuses
<1>12. ASSUME ConfirmHandoff PROVE HandoffTypes'
  BY <1>12, <1>c DEF ConfirmHandoff, ghosts, WorkSteps
<1>13. ASSUME ApplyState PROVE HandoffTypes'
  BY <1>13 DEF ApplyState, ghosts, Goon, WorkSteps
<1>14. ASSUME MoveSubmission PROVE HandoffTypes'
  BY <1>14 DEF MoveSubmission, ghosts, Goon, WorkSteps, Target, Ended, SubmissionStates
<1>15. ASSUME MoveRefused \/ MoveReplayed PROVE HandoffTypes'
  BY <1>15, <1>c DEF MoveRefused, MoveReplayed, ghosts, Goon, Ended, WorkSteps
<1>16. ASSUME DeliveryEnds PROVE HandoffTypes'
  BY <1>16, <1>a DEF DeliveryEnds, ghosts, NoWork, WorkSteps
<1> HIDE DEF HandoffTypes, SessionRow, RouteRow, WorkRow
<1> QED
  BY <1>1, <1>2, <1>3, <1>4, <1>5, <1>6, <1>7, <1>8, <1>9, <1>10, <1>11, <1>12, <1>13, <1>14,
     <1>15, <1>16 DEF ExecutorStep

----------------------------------------------------------------------------
(* The hand-off runs on the queue: each of its steps is one of the queue's.  *)

LEMMA EnqueueDeliveryQueues ==
    ASSUME NEW key \in Jobs, EnqueueDelivery(key)
    PROVE  [Next]_vars
BY DEF EnqueueDelivery, queue, vars, Next

LEMMA HandoffStepQueues ==
    ASSUME UnderWay, [HandoffNext]_allVars
    PROVE  [Next]_vars
<1>1. CASE QueueStep
  BY <1>1 DEF QueueStep, Next, Executor
<1>2. CASE DeliveryEnds
  BY <1>2 DEF DeliveryEnds, Next, Executor
<1>3. CASE QueueDelivery \/ RequeueDelivery
  BY <1>3, EnqueueDeliveryQueues DEF QueueDelivery, RequeueDelivery, RouteAt, UnderWay, Enqueueing
<1>4. CASE Approve
  <2>1. ASSUME NEW j \in Approvals, EnqueueDelivery(j) PROVE [Next]_vars
    BY <2>1, HandoffAssumption, EnqueueDeliveryQueues
  <2> QED
    BY <1>4, <2>1 DEF Approve, queue, vars
<1>5. ASSUME NEW j \in Replayed, NEW r \in Requests, ReplayDelivery(j, r) PROVE [Next]_vars
  BY <1>5, HandoffAssumption DEF ReplayDelivery, Next
<1>6. ASSUME NEW j \in Jobs, JobDue(j) PROVE [Next]_vars
  BY <1>6 DEF JobDue, Next
<1>7. CASE UNCHANGED queue
  BY <1>7 DEF queue, vars
<1>8. ASSUME ExecutorStep PROVE QueueStep \/ DeliveryEnds \/ UNCHANGED queue
  BY <1>8 DEF ExecutorStep, StartDelivery, MarkInProgress, ReadManifest, AwaitResumeOrCancel,
     SendFile, CopyProgress, PersistProgress, CompleteHandoff, StopHandoff, BreakHandoff,
     ConfirmHandoff, ApplyState, MoveSubmission, MoveRefused, MoveReplayed
<1>9. ASSUME LoopStep PROVE QueueDelivery \/ RequeueDelivery \/ UNCHANGED queue
  BY <1>9 DEF LoopStep, ResetSession, UnlockSession, Unlock, InsertRow, IndexManifest,
     TouchHandoff, QueueHandoff, SaveHandoff, SetControlStatus, ResumeHandoff, SaveResumed
<1>10. ASSUME ClientStep
       PROVE  \/ Approve \/ UNCHANGED queue
              \/ \E j \in Replayed, r \in Requests : ReplayDelivery(j, r)
  BY <1>10 DEF ClientStep, StartSession, UnlockFiles, LockFiles, EraseManifest, CreateHandoff,
     Control, RequestTransition
<1> QED
  BY <1>1, <1>2, <1>3, <1>4, <1>5, <1>6, <1>7, <1>8, <1>9, <1>10 DEF HandoffNext, allVars

(* A delivery under way leaves the executor where it is. *)
LEMMA UnderWayNext ==
    ASSUME HandoffTypes, UnderWay, [HandoffNext]_allVars
    PROVE  UnderWay'
<1> USE DEF UnderWay
<1>q. pc.executor = "handling" => ~QueueStep
  BY DEF QueueStep, Poll, Pick, RoundOver, Start, Settle, Succeed, Catch, Fail, FailBury
<1>1. ASSUME ExecutorStep PROVE UnderWay'
  <2>1. ASSUME QueueStep PROVE UnderWay'
    BY <2>1, <1>q DEF QueueStep, storage
  <2>2. ASSUME StartDelivery PROVE UnderWay'
    BY <2>2 DEF StartDelivery, EndAt, NoWork, queue, threads
  <2>3. ASSUME MarkInProgress PROVE UnderWay'
    BY <2>3, GoonMoves DEF MarkInProgress, WorkAt, queue, threads
  <2>4. ASSUME ReadManifest PROVE UnderWay'
    <3>1. CASE Goon("breaking")
      BY <3>1, <2>4, GoonMoves DEF ReadManifest, WorkAt, queue, threads
    <3>2. CASE assets.pack # 0 /\ ReadRows
      BY <3>2, <2>4, ReadMoves DEF ReadManifest, WorkAt, queue, threads
    <3> QED
      BY <2>4, <3>1, <3>2 DEF ReadManifest
  <2>5. ASSUME AwaitResumeOrCancel \/ SendFile PROVE UnderWay'
    BY <2>5, GoonMoves, ReportMoves DEF AwaitResumeOrCancel, SendFile, WorkAt, queue, threads
  <2>6. ASSUME CopyProgress PROVE UnderWay'
    BY <2>6 DEF CopyProgress, WorkAt, queue, threads, HandoffTypes, WorkRow
  <2>7. ASSUME PersistProgress PROVE UnderWay'
    <3>1. work.left \in Nat
      BY DEF HandoffTypes, WorkRow
    <3> QED
      BY <2>7, <3>1, PersistMoves DEF PersistProgress, WorkAt, queue, threads
  <2>9. ASSUME CompleteHandoff \/ StopHandoff \/ BreakHandoff \/ ConfirmHandoff PROVE UnderWay'
    BY <2>9, EndMoves DEF CompleteHandoff, StopHandoff, BreakHandoff, ConfirmHandoff, WorkAt,
       queue, threads
  <2>10. ASSUME ApplyState \/ MoveSubmission PROVE UnderWay'
    BY <2>10, GoonMoves DEF ApplyState, MoveSubmission, Ended, WorkAt, queue, threads
  <2>11. ASSUME MoveRefused \/ MoveReplayed PROVE UnderWay'
    <3>1. EndAt("raising", FALSE, TRUE) \/ EndAt("raising", FALSE, FALSE) \/ Goon(Ended)
      BY <2>11 DEF MoveRefused, MoveReplayed
    <3>2. /\ work'.at \in {"returning", "raising"} /\ work'.then = work.then
          /\ work'.ok => work'.at = "returning"
      BY <3>1, <2>11, GoonMoves, EndMoves DEF Ended, MoveRefused, MoveReplayed, WorkAt
    <3> QED
      BY <2>11, <3>2 DEF MoveRefused, MoveReplayed, WorkAt, queue, threads
  <2>8. ASSUME DeliveryEnds PROVE UnderWay'
    BY <2>8 DEF DeliveryEnds, NoWork
  <2> QED
    BY <1>1, <2>1, <2>2, <2>3, <2>4, <2>5, <2>6, <2>7, <2>8, <2>9, <2>10, <2>11 DEF ExecutorStep
<1>2. ASSUME UNCHANGED work, pc'.executor = pc.executor,
             assets'.pack # 0 => assets'.rows > 0
             /\ (route'.at # "indexing" => assets'.rows = Files),
             UNCHANGED route \/ route'.at \notin Enqueueing \/ route'.key \in Jobs
      PROVE  UnderWay'
  BY <1>2
<1>3. ASSUME NEW k \in Jobs, EnqueueDelivery(k) PROVE pc' = pc
  BY <1>3 DEF EnqueueDelivery, Enqueue, queue, threads
<1>8. ASSUME route.at # "indexing", UNCHANGED work, pc'.executor = pc.executor,
             assets'.pack = assets.pack, assets'.rows = assets.rows,
             UNCHANGED route \/ route'.at \notin Enqueueing \/ route'.key \in Jobs
      PROVE  UnderWay'
  BY <1>8, <1>2
<1>4. ASSUME LoopStep PROVE UnderWay'
  <2>1. CASE ResetSession \/ UnlockSession \/ TouchHandoff \/ SaveHandoff \/ SetControlStatus
             \/ SaveResumed
    <3>1. route' = NoRoute /\ UNCHANGED <<work, pc>> /\ route.at # "indexing"
      BY <2>1 DEF ResetSession, UnlockSession, Unlock, TouchHandoff, SaveHandoff, RouteAt,
         SetControlStatus, SaveResumed, Answered, queue, threads
    <3>2. assets'.pack = assets.pack /\ assets'.rows = assets.rows
      BY <2>1 DEF ResetSession, UnlockSession, Unlock, TouchHandoff, SaveHandoff,
         SetControlStatus, SaveResumed, HandoffTypes
    <3> QED
      BY <3>1, <3>2, <1>8 DEF NoRoute, Enqueueing
  <2>2. CASE QueueHandoff
    BY <2>2, <1>8, ProceedMoves DEF QueueHandoff, RouteAt, Enqueueing, queue, threads
  <2>3. CASE QueueDelivery \/ RequeueDelivery
    BY <2>3, <1>8, <1>3, ProceedMoves DEF QueueDelivery, RequeueDelivery, RouteAt, Enqueueing
  <2>4. CASE ResumeHandoff
    BY <2>4, <1>8 DEF ResumeHandoff, RouteAt, Enqueueing, queue, threads, HandoffTypes, RouteRow
  <2>5. CASE InsertRow
    BY <2>5, <1>2 DEF InsertRow, RouteAt, queue, threads, HandoffTypes
  <2>6. CASE IndexManifest
    BY <2>6, <1>2, HandoffAssumption DEF IndexManifest, RouteAt, Answered, NoRoute, Enqueueing,
       queue, threads
  <2> HIDE DEF UnderWay
  <2> QED
    BY <1>4, <2>1, <2>2, <2>3, <2>4, <2>5, <2>6 DEF LoopStep
<1>7. ASSUME ClientStep PROVE UnderWay'
  <2>1. CASE StartSession \/ UnlockFiles \/ LockFiles
    <3>1. /\ route.at # "indexing" /\ assets'.pack = assets.pack /\ assets'.rows = assets.rows
          /\ route' = route \/ route'.at \in {"resetting", "unlocking"}
      BY <2>1, BeginMoves DEF StartSession, UnlockFiles, LockFiles, RouteAt, HandoffTypes
    <3>2. UNCHANGED <<work, pc>>
      BY <2>1 DEF StartSession, UnlockFiles, LockFiles, queue, threads
    <3> QED
      BY <3>1, <3>2, <1>8 DEF Enqueueing
  <2>7. ASSUME NEW lock \in BOOLEAN, EraseManifest(lock) PROVE UnderWay'
    <3>1. assets'.pack = 0 /\ route'.at = "indexing" /\ UNCHANGED <<work, pc>>
      BY <2>7 DEF EraseManifest, NoRoute, HandoffTypes, queue, threads
    <3> QED
      BY <3>1, <1>2 DEF Enqueueing
  <2>2. ASSUME NEW k \in Keys, CreateHandoff(k) PROVE UnderWay'
    BY <2>2, <1>8, BeginMoves, HandoffAssumption DEF CreateHandoff, RouteAt, queue, threads
  <2>3. ASSUME NEW action \in Controls, Control(action) PROVE UnderWay'
    <3>1. (IF meta.key = NoKey THEN HandoffId ELSE meta.key) \in Jobs
      BY HandoffAssumption DEF HandoffTypes, SessionRow, Copies, MaybeKeys, meta
    <3> QED
      BY <2>3, <3>1, <1>8, BeginMoves DEF Control, RouteAt, queue, threads
  <2>4. ASSUME NEW to \in {"draft", "uploading", "under_review", "rejected"},
               RequestTransition(to)
        PROVE  UnderWay'
    BY <2>4, <1>8 DEF RequestTransition, RouteAt, queue, threads
  <2>5. CASE Approve
    BY <2>5, <1>8, <1>3, HandoffAssumption DEF Approve, RouteAt, queue, threads
  <2>6. ASSUME NEW j \in Replayed, NEW r \in Requests, ReplayDelivery(j, r) PROVE UnderWay'
    BY <2>6, <1>8 DEF ReplayDelivery, Replay, RouteAt, storage, threads
  <2> HIDE DEF UnderWay
  <2> QED
    BY <1>7, <2>1, <2>2, <2>3, <2>4, <2>5, <2>6, <2>7 DEF ClientStep
<1>5. ASSUME NEW j \in Jobs, JobDue(j) PROVE UnderWay'
  BY <1>5 DEF JobDue, BecomeDue, storage, threads
<1>6. CASE UNCHANGED allVars
  BY <1>6 DEF allVars, queue, threads, storage
<1> HIDE DEF UnderWay
<1> QED
  BY <1>1, <1>4, <1>5, <1>6, <1>7 DEF HandoffNext

----------------------------------------------------------------------------
(* The safety properties.                                                    *)

(* The steps of a delivery touch the executor's job at its end only. *)
LEMMA DeliveryHoldsJob ==
    ASSUME UnderWay, ExecutorStep, work.at # "out"
    PROVE  cur' = cur /\ ~QueueStep
<1>1. ~QueueStep
  BY DEF UnderWay, QueueStep, Poll, Pick, RoundOver, Start, Settle, Succeed, Catch, Fail, FailBury
<1> QED
  BY <1>1 DEF ExecutorStep, StartDelivery, MarkInProgress, ReadManifest, AwaitResumeOrCancel,
     SendFile, CopyProgress, PersistProgress, CompleteHandoff, StopHandoff, BreakHandoff,
     ConfirmHandoff, ApplyState, MoveSubmission, MoveRefused, MoveReplayed, DeliveryEnds,
     HandlerReturns, HandlerRaises, queue, threads

LEMMA LoopKeepsWork ==
    ASSUME LoopStep \/ ClientStep
    PROVE  UNCHANGED <<work, moves, delivered, torn, sent, cur>>
<1>1. ASSUME NEW k, EnqueueDelivery(k) PROVE cur' = cur
  BY <1>1 DEF EnqueueDelivery, Enqueue, queue, threads
<1>2. ASSUME LoopStep PROVE UNCHANGED <<work, moves, delivered, torn, sent, cur>>
  BY <1>1, <1>2 DEF LoopStep, ResetSession, UnlockSession, Unlock, InsertRow, IndexManifest,
     TouchHandoff, QueueHandoff, QueueDelivery, SaveHandoff, SetControlStatus, ResumeHandoff,
     RequeueDelivery, SaveResumed, queue, threads, ghosts
<1>3. ASSUME ClientStep PROVE UNCHANGED <<work, moves, delivered, torn, sent, cur>>
  BY <1>1, <1>3 DEF ClientStep, StartSession, UnlockFiles, LockFiles, Approve, EraseManifest,
     CreateHandoff, Control, RequestTransition, ReplayDelivery, Replay, queue, threads, ghosts,
     storage
<1> QED
  BY <1>2, <1>3

LEMMA DeliveredNext ==
    ASSUME TypeOK, HandoffTypes, UnderWay, DeliveredInv, [HandoffNext]_allVars
    PROVE  DeliveredInv'
<1>1. ASSUME UNCHANGED <<work, moves, delivered, torn>>,
             work.at = "out" \/ cur'.executor = cur.executor
      PROVE  DeliveredInv'
  BY <1>1 DEF DeliveredInv, LastSent, UnderWay
<1>2. ASSUME UNCHANGED <<moves, delivered, torn, cur>>,
             (LastSent \/ work.at \in {"confirming", "succeeding"} \/ work.ok)'
               => LastSent \/ work.at \in {"confirming", "succeeding"} \/ work.ok
      PROVE  DeliveredInv'
  BY <1>2 DEF DeliveredInv
<1>3. ASSUME ExecutorStep PROVE DeliveredInv'
  <2>1. CASE QueueStep
    <3>1. work.at = "out"
      BY <1>3, <2>1, DeliveryHoldsJob
    <3> QED
      BY <1>1, <2>1, <3>1 DEF QueueStep, storage, ghosts
  <2>2. CASE StartDelivery
    <3>1. work'.at \in {"marking", "raising", "failing"} /\ ~work'.ok
      BY <2>2, EndMoves DEF StartDelivery, NoWork
    <3> QED
      BY <2>2, <3>1, <1>2 DEF StartDelivery, LastSent, ghosts, queue, threads
  <2>a. CASE work.at # "out"
    <3>a. cur' = cur /\ cur.executor \in Jobs
      BY <1>3, <2>a, DeliveryHoldsJob DEF UnderWay, TypeOK
    <3>1. CASE MarkInProgress
      BY <3>1, <3>a, <1>2, GoonMoves DEF MarkInProgress, LastSent, ghosts, WorkAt
    <3>2. CASE ReadManifest
      <4>1. work'.at \in {"checking", "breaking"} /\ work'.ok = work.ok
        <5>1. CASE Goon("breaking")
          BY <5>1, GoonMoves
        <5>2. CASE ReadRows
          BY <5>2, ReadMoves
        <5> QED
          BY <3>2, <5>1, <5>2 DEF ReadManifest
      <4> QED
        BY <3>2, <4>1, <3>a, <1>2 DEF ReadManifest, LastSent, ghosts
    <3>3. CASE AwaitResumeOrCancel
      BY <3>3, <3>a, <1>2, GoonMoves, ReportMoves DEF AwaitResumeOrCancel, LastSent, ghosts,
         WorkAt
    <3>4. CASE SendFile
      <4>1. CASE Goon("breaking")
        <5>1. UNCHANGED <<delivered, torn, moves>>
          BY <3>4, <4>1, GoonMoves, ReportMoves DEF SendFile
        <5> QED
          BY <4>1, <5>1, <3>a, <1>2, GoonMoves DEF LastSent
      <4>2. CASE ReportThen("sentChecking")
        <5>1. /\ delivered \subseteq delivered' /\ torn \subseteq torn' /\ moves' = moves
              /\ work.left = 1 => cur.executor \in delivered' \union torn'
          BY <3>4, <4>2, GoonMoves, ReportMoves DEF SendFile
        <5>2. work'.at = "copying" /\ work'.left = work.left /\ work'.ok = work.ok
          BY <4>2, ReportMoves
        <5> QED
          BY <5>1, <5>2, <3>a DEF DeliveredInv, LastSent
      <4> QED
        BY <3>4, <4>1, <4>2 DEF SendFile
    <3>5. CASE CopyProgress
      <4>1. work.at = "copying" /\ work'.at = "persisting" /\ work'.left = work.left
            /\ work'.ok = work.ok
        BY <3>5 DEF CopyProgress, WorkAt, HandoffTypes, WorkRow
      <4> QED
        BY <3>5, <4>1, <3>a, <1>2 DEF CopyProgress, LastSent, ghosts
    <3>6. CASE PersistProgress
      BY <3>6, <3>a, <1>2, PersistMoves DEF PersistProgress, LastSent, ghosts, WorkAt
    <3>7. CASE CompleteHandoff \/ StopHandoff \/ BreakHandoff \/ ConfirmHandoff
      BY <3>7, <3>a, <1>2, EndMoves DEF CompleteHandoff, StopHandoff, BreakHandoff,
         ConfirmHandoff, LastSent, ghosts, WorkAt
    <3>8. CASE ApplyState
      BY <3>8, <3>a, <1>2, GoonMoves DEF ApplyState, LastSent, ghosts, WorkAt
    <3>9. CASE MoveSubmission
      <4>1. work'.at \in {"returning", "raising"} /\ work'.ok = work.ok
        BY <3>9, GoonMoves DEF MoveSubmission, Ended
      <4>2. delivered' = delivered /\ torn' = torn
            /\ moves' = [moves EXCEPT ![cur.executor] = Target]
        BY <3>9 DEF MoveSubmission, ghosts
      <4> QED
        BY <4>1, <4>2, <3>a DEF DeliveredInv, LastSent, Target, HandoffTypes
    <3>10. CASE MoveRefused
      BY <3>10, <3>a, <1>2, EndMoves DEF MoveRefused, LastSent, ghosts, WorkAt
    <3>11. CASE MoveReplayed
      <4>1. EndAt("raising", FALSE, FALSE) \/ Goon(Ended)
        BY <3>11 DEF MoveReplayed
      <4>2. work'.at \in {"returning", "raising"} /\ (work'.ok => work.ok)
        BY <4>1, GoonMoves, EndMoves DEF Ended
      <4> QED
        BY <3>11, <4>2, <3>a, <1>2 DEF MoveReplayed, LastSent, ghosts
    <3>12. CASE DeliveryEnds
      <4>1. work'.at = "out" /\ ~work'.ok
        BY <3>12 DEF DeliveryEnds, NoWork
      <4> QED
        BY <3>12, <4>1, <3>a, <1>2 DEF DeliveryEnds, LastSent, ghosts
    <3> QED
      BY <1>3, <2>1, <2>2, <3>1, <3>2, <3>3, <3>4, <3>5, <3>6, <3>7, <3>8, <3>9, <3>10, <3>11,
         <3>12 DEF ExecutorStep
  <2>3. work.at = "out" => QueueStep \/ StartDelivery
    BY <1>3 DEF ExecutorStep, MarkInProgress, ReadManifest, AwaitResumeOrCancel, SendFile,
       CopyProgress, PersistProgress, CompleteHandoff, StopHandoff, BreakHandoff, ConfirmHandoff,
       ApplyState, MoveSubmission, MoveRefused, MoveReplayed, DeliveryEnds, WorkAt
  <2> QED
    BY <2>1, <2>2, <2>a, <2>3
<1>4. ASSUME LoopStep \/ ClientStep PROVE UNCHANGED <<work, moves, delivered, torn, cur>>
  BY <1>4, LoopKeepsWork
<1>5. ASSUME NEW j \in Jobs, JobDue(j) PROVE UNCHANGED <<work, moves, delivered, torn, cur>>
  BY <1>5 DEF JobDue, BecomeDue, storage, ghosts, threads
<1>6. CASE UNCHANGED allVars
  BY <1>6, <1>1 DEF allVars, queue, threads, storage, ghosts
<1> QED
  BY <1>1, <1>3, <1>4, <1>5, <1>6 DEF HandoffNext

(* A write of a copy of the metadata changes nothing else of the session,    *)
(* and says COMPLETED only if the copy or the metadata did.                  *)
LEMMA WriteKeeps ==
    ASSUME HandoffTypes, NEW copy \in Copies, Write(copy)
    PROVE  /\ session'.locked = session.locked
           /\ session'.meta.handoff = IF copy.handoff = "none" THEN meta.handoff ELSE copy.handoff
BY DEF HandoffTypes, SessionRow, Write, Updated

LEMMA MarkedSays ==
    ASSUME NEW copy \in Copies, NEW status \in HandoffMarks \ {"none"}
    PROVE  Marked(copy, status).handoff = status
BY DEF Marked, Copies

LEMMA PackExecutor ==
    ASSUME TypeOK, HandoffTypes, HandoffTypes', UnderWay, PackInv, ExecutorStep, ~crossed'
    PROVE  PackInv'
<1> USE DEF PackInv, PackSent, LastSent
<1>a. /\ NoMeta \in Copies /\ meta \in Copies /\ work.snap \in Copies /\ work.prog \in Copies
      /\ session.meta = meta /\ session'.meta = meta'
  BY DEF HandoffTypes, SessionRow, WorkRow, NoMeta, Copies, MaybeKeys, HandoffMarks, meta
<1>b. {"completed", "in_progress", "canceled", "failed"} \subseteq HandoffMarks \ {"none"}
  BY DEF HandoffMarks, Handoffs
<1>c. NoMeta.handoff # "completed"
  BY DEF NoMeta
<1>d. ASSUME NEW step, NEW success, NEW terminal, EndAt(step, success, terminal)
      PROVE  /\ work'.at = step /\ work'.then = "out" /\ ~(work'.snap.handoff = "completed")
             /\ ~(work'.prog.handoff = "completed")
  BY <1>c, <1>d, EndMoves
<1>1. ASSUME UNCHANGED <<session, assets, route, sent, torn>>, work'.at \notin Uploads,
             work'.snap.handoff # "completed" /\ work'.prog.handoff # "completed"
      PROVE  PackInv'
  BY <1>1 DEF OnPack, Uploads, meta
<1>2. CASE QueueStep
  BY <1>2 DEF QueueStep, storage, ghosts, meta
<1>3. CASE StartDelivery
  <2> DEFINE copy == [meta EXCEPT !.key = IF @ = NoKey THEN cur.executor ELSE @]
  <2>0. NoMeta.handoff # "completed"
    BY DEF NoMeta
  <2>1. CASE EndAt("raising", FALSE, TRUE) \/ EndAt("failing", FALSE, TRUE)
    <3>1. work'.at \in {"raising", "failing"} /\ work'.snap.handoff # "completed"
          /\ work'.prog.handoff # "completed"
      BY <2>1, <1>d
    <3> QED
      BY <1>3, <3>1, <1>1 DEF StartDelivery, ghosts, Uploads, OnPack
  <2>2. CASE /\ session.locked /\ assets.pack # 0
             /\ work' = [NoWork EXCEPT !.at = "marking", !.snap = Marked(copy, "in_progress")]
    <3>1. copy \in Copies
      <4>1. cur.executor \in Jobs
        BY <1>3 DEF StartDelivery, TypeOK
      <4> QED
        BY <1>a, <4>1 DEF Copies, MaybeKeys
    <3>2. Marked(copy, "in_progress").handoff = "in_progress"
      BY <3>1, <1>b, MarkedSays
    <3> HIDE DEF copy
    <3>3. work'.at = "marking" /\ work'.snap = Marked(copy, "in_progress") /\ work'.prog = NoMeta
      BY <2>2 DEF NoWork
    <3>4. route.at # "indexing" /\ assets.locked
      BY <1>3, <2>2 DEF StartDelivery, RouteAt
    <3> QED
      BY <1>3, <2>0, <2>2, <3>2, <3>3, <3>4 DEF StartDelivery, ghosts, Uploads, OnPack, meta
  <2> QED
    BY <1>3, <2>1, <2>2 DEF StartDelivery
<1>4. CASE MarkInProgress
  BY <1>4, <1>a, GoonMoves, WriteKeeps DEF MarkInProgress, ghosts, WorkAt, Uploads, OnPack
<1>5. CASE ReadManifest
  <2>1. CASE Goon("breaking")
    BY <1>5, <2>1, GoonMoves DEF ReadManifest, ghosts, WorkAt, Uploads, OnPack, meta
  <2>2. CASE ReadRows
    <3>1. /\ work'.at = "checking" /\ work'.pack = assets.pack
          /\ work'.snap = work.snap /\ work'.prog = work.prog
          /\ work'.whole = (assets.rows = Files) /\ work'.left = assets.rows
             /\ work'.then = work.then
      BY <2>2, ReadMoves
    <3>2. assets.rows = Files /\ work.then = "out"
      BY <1>5 DEF ReadManifest, WorkAt, Uploads, UnderWay
    <3> QED
      BY <1>5, <3>1, <3>2 DEF ReadManifest, ghosts, WorkAt, Uploads, OnPack, meta
  <2> QED
    BY <1>5, <2>1, <2>2 DEF ReadManifest
<1>6. CASE AwaitResumeOrCancel
  BY <1>6, GoonMoves, ReportMoves DEF AwaitResumeOrCancel, ghosts, WorkAt, Uploads, OnPack, meta
<1>7. CASE SendFile
  <2>1. CASE Goon("breaking")
    BY <1>7, <2>1, GoonMoves, ReportMoves DEF SendFile, WorkAt, Uploads, OnPack, meta
  <2>2. CASE ReportThen("sentChecking")
    <3>1. sent' = (IF work.left = 1 THEN sent \union {work.pack} ELSE sent) /\ torn' = torn
      <4>1. work.whole
        BY <1>7 DEF SendFile, WorkAt, OnPack
      <4>2. ~Goon("breaking")
        BY <2>2, GoonMoves, ReportMoves
      <4> QED
        BY <1>7, <4>1, <4>2 DEF SendFile
    <3>2. work.at = "sending" /\ UNCHANGED <<session, assets, route>>
      BY <1>7 DEF SendFile, WorkAt
    <3> QED
      BY <3>1, <3>2, <2>2, ReportMoves DEF Uploads, OnPack, meta
  <2> QED
    BY <1>7, <2>1, <2>2 DEF SendFile
<1>8. CASE CopyProgress
  <2>1. /\ work.at = "copying" /\ work'.at = "persisting" /\ work'.left = work.left
        /\ work'.pack = work.pack /\ work'.snap = work.snap
           /\ work'.prog = Marked(meta, "in_progress")
    BY <1>8 DEF CopyProgress, WorkAt, HandoffTypes, WorkRow
  <2>2. Marked(meta, "in_progress").handoff = "in_progress"
    BY <1>a, <1>b, MarkedSays
  <2> QED
    BY <1>8, <2>1, <2>2 DEF CopyProgress, ghosts, Uploads, OnPack, meta
<1>9. CASE PersistProgress
  <2>1. session'.locked = session.locked
        /\ (meta'.handoff = "completed" => meta.handoff = "completed")
    BY <1>9, <1>a, WriteKeeps DEF PersistProgress
  <2>2. UNCHANGED <<assets, route, sent, torn>> /\ work.at = "persisting"
    BY <1>9 DEF PersistProgress, ghosts, WorkAt
  <2>3. NoMeta.handoff # "completed"
    BY DEF NoMeta
  <2> QED
    BY <1>9, <2>1, <2>2, <2>3, PersistMoves DEF Uploads, OnPack
<1>10. CASE CompleteHandoff
  <2>1. work.at = "completing" /\ UNCHANGED <<assets, route, sent, torn>>
    BY <1>10 DEF CompleteHandoff, WorkAt, ghosts
  <2>2. work'.at = "confirming" /\ work'.snap.handoff # "completed"
        /\ work'.prog.handoff # "completed"
    BY <1>10, <1>d DEF CompleteHandoff
  <2> QED
    BY <2>1, <2>2 DEF Uploads, OnPack
<1>11. CASE StopHandoff
  <2>1. work.at = "stopping" /\ UNCHANGED <<assets, route, sent, torn>>
    BY <1>11 DEF StopHandoff, WorkAt, ghosts
  <2>2. work'.at = "failing" /\ work'.snap.handoff # "completed"
        /\ work'.prog.handoff # "completed"
    BY <1>11, <1>d DEF StopHandoff
  <2>3. session'.locked = session.locked /\ session'.meta.handoff = "canceled"
    <3>1. Marked(work.snap, "canceled") \in Copies
          /\ Marked(work.snap, "canceled").handoff = "canceled"
      BY <1>a, <1>b, MarkedSays, MarkedTyped
    <3> QED
      BY <1>11, <3>1, WriteKeeps DEF StopHandoff
  <2> QED
    BY <2>1, <2>2, <2>3, <1>a DEF Uploads, OnPack
<1>12. CASE BreakHandoff
  <2>1. work.at = "breaking" /\ UNCHANGED <<assets, route, sent, torn>>
    BY <1>12 DEF BreakHandoff, WorkAt, ghosts
  <2>2. work'.at = "failing" /\ work'.snap.handoff # "completed"
        /\ work'.prog.handoff # "completed"
    BY <1>12, <1>d DEF BreakHandoff
  <2>3. Marked(work.snap, "failed").handoff = "failed"
    BY <1>a, <1>b, MarkedSays
  <2>4. session'.meta = Updated(Marked(work.snap, "failed"))
    BY <1>12 DEF BreakHandoff, HandoffTypes, SessionRow
  <2>5. session'.meta.handoff = "failed"
    BY <2>3, <2>4 DEF Updated
  <2> QED
    BY <2>1, <2>2, <2>5, <1>a DEF Uploads, OnPack
<1>13. CASE ConfirmHandoff \/ MoveRefused
  <2>1. /\ work'.at \in {"succeeding", "failing", "raising"}
        /\ work'.snap.handoff # "completed" /\ work'.prog.handoff # "completed"
    BY <1>13, <1>d DEF ConfirmHandoff, MoveRefused
  <2> QED
    BY <1>13, <2>1, <1>1 DEF ConfirmHandoff, MoveRefused, ghosts, Uploads, OnPack
<1>14. CASE ApplyState \/ MoveSubmission
  <2>1. work'.at \notin Uploads /\ work'.snap = work.snap /\ work'.prog = work.prog
    BY <1>14, GoonMoves DEF ApplyState, MoveSubmission, Uploads, OnPack, Ended
  <2> QED
    BY <1>14, <2>1, <1>1 DEF ApplyState, MoveSubmission, ghosts
<1>15. CASE MoveReplayed
  <2>1. EndAt("raising", FALSE, FALSE) \/ Goon(Ended)
    BY <1>15 DEF MoveReplayed
  <2>2. Ended \in {"returning", "raising"}
    BY DEF Ended
  <2>3. /\ work'.at \in {"returning", "raising"}
        /\ work'.snap.handoff # "completed" /\ work'.prog.handoff # "completed"
    <3>1. CASE EndAt("raising", FALSE, FALSE)
      BY <3>1, <1>d
    <3>2. CASE Goon(Ended)
      BY <3>2, <2>2, GoonMoves
    <3> QED
      BY <2>1, <3>1, <3>2
  <2> QED
    BY <1>15, <2>3, <1>1 DEF MoveReplayed, ghosts, Uploads, OnPack
<1>16. CASE DeliveryEnds
  <2>1. work'.at \notin Uploads /\ work'.snap = NoMeta /\ work'.prog = NoMeta
    BY <1>16 DEF DeliveryEnds, NoWork, Uploads, OnPack
  <2> QED
    BY <1>16, <2>1, <1>1 DEF DeliveryEnds, ghosts, NoMeta
<1> HIDE DEF PackInv
<1> QED
  BY <1>2, <1>3, <1>4, <1>5, <1>6, <1>7, <1>8, <1>9, <1>10, <1>11, <1>12, <1>13, <1>14, <1>15,
     <1>16 DEF ExecutorStep

LEMMA PackLoop ==
    ASSUME HandoffTypes, HandoffTypes', PackInv, LoopStep \/ ClientStep, ~crossed'
    PROVE  PackInv'
<1> USE DEF PackInv, PackSent, LastSent, Waiting
<1>a. /\ NoMeta \in Copies /\ meta \in Copies /\ route.snap \in Copies
      /\ session.meta = meta /\ session'.meta = meta'
  BY DEF HandoffTypes, SessionRow, RouteRow, NoMeta, Copies, MaybeKeys, HandoffMarks, meta
<1>b. UNCHANGED <<work, sent, torn>>
  BY LoopKeepsWork
<1>1. ASSUME route.at # "indexing", UNCHANGED <<session, assets>>,
             route'.at \notin {"indexing", "touching"},
             route'.at \in Waiting => route'.snap.handoff # "completed"
      PROVE  PackInv'
  BY <1>1, <1>b DEF meta
<1>2. ASSUME route.at # "indexing", UNCHANGED assets, route'.at \notin {"indexing", "touching"},
             route'.at \in Waiting => route'.snap.handoff # "completed",
             session'.locked = session.locked, meta'.handoff = "completed" =>
             meta.handoff = "completed"
      PROVE  PackInv'
  BY <1>2, <1>b
<1>3. CASE StartSession
  <2>1. route.at = "out" /\ route'.at \in {"out", "resetting"}
    BY <1>3, BeginMoves DEF StartSession, RouteAt
  <2>2. UNCHANGED assets /\ session'.locked = session.locked /\ meta'.handoff = meta.handoff
    BY <1>3 DEF StartSession, HandoffTypes, SessionRow, meta
  <2> QED
    BY <2>1, <2>2, <1>2
<1>4. CASE ResetSession \/ UnlockSession
  <2>1. PICK copy \in Copies : copy.handoff = "none" /\ Unlock(copy)
    <3>1. [route.snap EXCEPT !.handoff = "none", !.key = NoKey] \in Copies
      BY <1>a DEF Copies, MaybeKeys, HandoffMarks
    <3>2. [route.snap EXCEPT !.handoff = "none", !.key = NoKey].handoff = "none"
          /\ NoMeta.handoff = "none"
      BY <1>a DEF Copies, NoMeta
    <3> QED
      BY <1>4, <1>a, <3>1, <3>2 DEF ResetSession, UnlockSession
  <2>2. work.at = "out" /\ route' = NoRoute /\ route.at # "indexing"
    BY <1>4, <2>1 DEF Unlock, Delivering, Answered, HandoffTypes, ResetSession, UnlockSession,
       RouteAt
  <2>3. assets'.pack = assets.pack /\ session'.locked = FALSE /\ meta'.handoff = "none"
    BY <2>1 DEF Unlock, HandoffTypes, meta
  <2> QED
    BY <1>b, <2>2, <2>3 DEF NoRoute, Uploads, OnPack
<1>5. CASE UnlockFiles
  BY <1>5, <1>1, BeginMoves DEF UnlockFiles, RouteAt
<1>6. CASE LockFiles
  <2>1. /\ assets'.pack = assets.pack /\ assets'.locked = (assets.locked \/ assets.pack # 0)
        /\ session'.meta = session.meta /\ session'.locked = TRUE /\ route' = route
        /\ route.at = "out"
    BY <1>6 DEF LockFiles, HandoffTypes, SessionRow, RouteAt
  <2> QED
    BY <2>1, <1>a, <1>b
<1>7. ASSUME NEW lock \in BOOLEAN, EraseManifest(lock) PROVE PackInv'
  <2>1. /\ ~assets.locked /\ assets'.pack = 0 /\ assets'.rows = 0
        /\ assets'.locked = assets.locked
        /\ session' = session /\ route'.at = "indexing" /\ route'.snap = meta
    BY <1>7 DEF EraseManifest, HandoffTypes, NoRoute
  <2> QED
    BY <2>1, <1>a, <1>b DEF Uploads, OnPack
<1>21. CASE InsertRow
  <2>1. /\ route.at = "indexing" /\ UNCHANGED <<session, route>>
        /\ assets'.locked = route.lock
    BY <1>21 DEF InsertRow, RouteAt
  <2> QED
    BY <2>1, <1>a, <1>b DEF Uploads, OnPack
<1>8. CASE IndexManifest
  <2>1. /\ route.at = "indexing" /\ assets.rows # 0 /\ UNCHANGED assets
        /\ session'.locked = route.lock /\ session'.meta = route.snap /\ route'.at = "out"
    BY <1>8, HandoffAssumption DEF IndexManifest, RouteAt, Answered, NoRoute
  <2> QED
    BY <2>1, <1>a, <1>b DEF Uploads, OnPack
<1>9. ASSUME NEW k \in Keys, CreateHandoff(k) PROVE PackInv'
  <2>0. Marked([meta EXCEPT !.key = k], "queued").handoff = "queued"
    <3>1. k \in MaybeKeys /\ "queued" \in HandoffMarks \ {"none"}
      BY HandoffAssumption DEF MaybeKeys, HandoffMarks, Handoffs
    <3>2. [meta EXCEPT !.key = k] \in Copies
      BY <1>a, <3>1 DEF Copies
    <3> QED
      BY <3>1, <3>2, MarkedSays
  <2>1. route'.at \in {"touching", "queueing"}
        /\ (route'.at = "touching" => route'.snap = [meta EXCEPT !.key = k])
        /\ (route'.at = "queueing" => route'.snap = Marked([meta EXCEPT !.key = k], "queued"))
    BY <1>9, BeginMoves DEF CreateHandoff
  <2>2. [meta EXCEPT !.key = k].handoff = meta.handoff
    BY <1>a DEF Copies
  <2>3. UNCHANGED <<session, assets>> /\ route.at = "out"
    BY <1>9 DEF CreateHandoff, RouteAt
  <2> QED
    BY <2>0, <2>1, <2>2, <2>3, <1>a, <1>b
<1>10. CASE TouchHandoff
  <2>1. /\ route.at = "touching" /\ route'.at = "out" /\ UNCHANGED assets
        /\ session'.locked = session.locked
        /\ session'.meta.handoff = "completed" =>
           "completed" \in {route.snap.handoff, meta.handoff}
    BY <1>10, <1>a, WriteKeeps DEF TouchHandoff, RouteAt, Answered, NoRoute
  <2> QED
    BY <2>1, <1>a, <1>b
<1>11. CASE QueueHandoff
  <2>1. /\ route.at = "queueing" /\ route'.at = "enqueueing" /\ UNCHANGED assets
        /\ session'.locked = session.locked /\ session'.meta = route.snap
           /\ route'.snap = route.snap
    BY <1>11, ProceedMoves DEF QueueHandoff, RouteAt, HandoffTypes, SessionRow
  <2> QED
    BY <2>1, <1>a, <1>b
<1>12. CASE QueueDelivery \/ RequeueDelivery
  BY <1>12, <1>1, ProceedMoves DEF QueueDelivery, RequeueDelivery, RouteAt
<1>13. ASSUME NEW copy \in Copies, route.at # "indexing", copy.handoff # "completed", Write(copy),
              UNCHANGED assets,
              route'.at \notin {"indexing", "touching"},
              route'.at \in Waiting => route'.snap.handoff # "completed"
       PROVE  PackInv'
  <2>1. session'.locked = session.locked
        /\ (session'.meta.handoff = "completed" => meta.handoff = "completed")
    BY <1>13, <1>a, WriteKeeps
  <2> QED
    BY <2>1, <1>13, <1>2, <1>a
<1>14. CASE SaveHandoff \/ SaveResumed
  <2>1. [route.snap EXCEPT !.jobbed = TRUE] \in Copies
        /\ [route.snap EXCEPT !.jobbed = TRUE].handoff = route.snap.handoff
    BY <1>a DEF Copies
  <2>2. Write([route.snap EXCEPT !.jobbed = TRUE]) /\ UNCHANGED assets /\ route' = NoRoute
    BY <1>14 DEF SaveHandoff, SaveResumed, Answered
  <2>3. route.at \in Waiting
    BY <1>14 DEF SaveHandoff, SaveResumed, RouteAt
  <2> QED
    BY <2>1, <2>2, <2>3, <1>13 DEF NoRoute
<1>15. ASSUME NEW action \in Controls, Control(action) PROVE PackInv'
  <2>1. action \in {"pause", "resume", "cancel"}
    BY HandoffAssumption
  <2>2. ControlOf[action] \in HandoffMarks \ {"none"} /\ ControlOf[action] # "completed"
    BY <2>1 DEF ControlOf, HandoffMarks, Handoffs
  <2>3. Marked(meta, ControlOf[action]).handoff # "completed"
    BY <2>2, <1>a, MarkedSays
  <2>4. route'.at = action /\ route'.snap = Marked(meta, ControlOf[action])
    BY <1>15, BeginMoves DEF Control
  <2> QED
    BY <1>15, <2>1, <2>3, <2>4, <1>1 DEF Control, RouteAt
<1>16. CASE SetControlStatus
  BY <1>16, <1>a, <1>13 DEF SetControlStatus, Answered, NoRoute
<1>17. CASE ResumeHandoff
  <2>1. /\ route.at = "resume" /\ Write(route.snap) /\ UNCHANGED assets
        /\ route'.at = "reenqueueing" /\ route'.snap = Marked(Updated(route.snap), "queued")
    BY <1>17 DEF ResumeHandoff, RouteAt, HandoffTypes, RouteRow
  <2>2. Marked(Updated(route.snap), "queued").handoff = "queued"
    BY <1>a, UpdatedTyped, MarkedSays DEF HandoffMarks, Handoffs
  <2> QED
    BY <2>1, <2>2, <1>a, <1>13
<1>18. ASSUME NEW to, RequestTransition(to) PROVE PackInv'
  BY <1>18, <1>1 DEF RequestTransition, RouteAt
<1>19. CASE Approve
  BY <1>19, <1>1 DEF Approve, RouteAt
<1>20. ASSUME NEW j, NEW r, ReplayDelivery(j, r) PROVE PackInv'
  BY <1>20, <1>1 DEF ReplayDelivery, RouteAt, storage
<1> HIDE DEF PackInv, Waiting
<1> QED
  BY <1>3, <1>4, <1>5, <1>6, <1>7, <1>8, <1>9, <1>10, <1>11, <1>12, <1>14, <1>15, <1>16, <1>17,
     <1>18, <1>19, <1>20, <1>21 DEF LoopStep, ClientStep

----------------------------------------------------------------------------
(* The invariant and the theorems.                                           *)

LEMMA HandoffInvInit == HandoffInit => HandoffInv
<1> SUFFICES ASSUME HandoffInit PROVE HandoffInv
  OBVIOUS
<1>1. TypeOK /\ HandoffTypes
  BY TypeInit, HandoffInit1 DEF HandoffInit
<1>2. UnderWay
  BY DEF HandoffInit, UnderWay, NoRoute, NoWork, Enqueueing
<1>3. DeliveredInv
  BY DEF HandoffInit, DeliveredInv, LastSent, ReviewFollowsDelivery, NoWork
<1>4. PackInv
  BY DEF HandoffInit, PackInv, PackSent, LastSent, Uploads, OnPack, Waiting, NoRoute, NoWork,
     NoMeta, meta
<1> QED
  BY <1>1, <1>2, <1>3, <1>4 DEF HandoffInv

LEMMA HandoffInvNext == HandoffInv /\ [HandoffNext]_allVars => HandoffInv'
<1> SUFFICES ASSUME HandoffInv, [HandoffNext]_allVars PROVE HandoffInv'
  OBVIOUS
<1> USE DEF HandoffInv
<1>1. TypeOK'
  BY HandoffStepQueues, TypeNext
<1>2. HandoffTypes'
  <2>1. ASSUME NEW j \in Jobs, JobDue(j) PROVE HandoffTypes'
    BY <2>1 DEF JobDue, storage, ghosts, HandoffTypes
  <2>2. CASE UNCHANGED allVars
    BY <2>2 DEF allVars, storage, ghosts, HandoffTypes
  <2> QED
    BY <2>1, <2>2, RouteTypes, WorkTypes DEF HandoffNext
<1>3. UnderWay'
  BY UnderWayNext
<1>4. DeliveredInv'
  BY DeliveredNext
<1>5. ASSUME ~crossed' PROVE PackInv'
  <2>1. PackInv
    <3>1. crossed \in BOOLEAN /\ (crossed => crossed')
      <4>1. ASSUME ExecutorStep PROVE crossed => crossed'
        BY <4>1 DEF ExecutorStep, QueueStep, StartDelivery, MarkInProgress, ReadManifest,
           AwaitResumeOrCancel, SendFile, CopyProgress, PersistProgress, CompleteHandoff,
           StopHandoff, BreakHandoff, ConfirmHandoff, ApplyState, MoveSubmission, MoveRefused,
           MoveReplayed, DeliveryEnds, ghosts
      <4>2. ASSUME LoopStep PROVE crossed => crossed'
        BY <4>2 DEF LoopStep, ResetSession, UnlockSession, Unlock, InsertRow, IndexManifest,
           TouchHandoff, QueueHandoff, QueueDelivery, SaveHandoff, SetControlStatus,
           ResumeHandoff, RequeueDelivery, SaveResumed, ghosts
      <4>3. ASSUME ClientStep PROVE crossed' = crossed
        BY <4>3 DEF ClientStep, StartSession, UnlockFiles, LockFiles, Approve, EraseManifest,
           CreateHandoff, Control, RequestTransition, ReplayDelivery, ghosts
      <4> QED
        BY <4>1, <4>2, <4>3 DEF HandoffNext, JobDue, allVars, ghosts, HandoffTypes
    <3> QED
      BY <3>1, <1>5
  <2>2. ASSUME NEW j \in Jobs, JobDue(j) PROVE PackInv'
    BY <2>1, <2>2 DEF JobDue, storage, ghosts, PackInv, PackSent, LastSent, meta
  <2>3. CASE UNCHANGED allVars
    BY <2>1, <2>3 DEF allVars, storage, ghosts, PackInv, PackSent, LastSent, meta
  <2> HIDE DEF HandoffInv
  <2>4. TypeOK /\ HandoffTypes /\ UnderWay
    BY DEF HandoffInv
  <2> QED
    BY <1>2, <1>5, <2>1, <2>2, <2>3, <2>4, PackExecutor, PackLoop DEF HandoffNext
<1> QED
  BY <1>1, <1>2, <1>3, <1>4, <1>5

LEMMA HandoffInvHolds == HandoffSpec => []HandoffInv
BY HandoffInvInit, HandoffInvNext, PTL DEF HandoffSpec

(* A handoff that says COMPLETED was sent, of the manifest there is now:     *)
(* whatever the pauses, resumes, cancels, retries, replays, amendments and   *)
(* stale copies of the metadata, for any number of packs, files and keys,    *)
(* although the rows of a manifest appear one by one.                        *)
THEOREM CompletedWasSentHolds == HandoffSpec => []CompletedWasSent
<1>1. HandoffInv => CompletedWasSent
  BY DEF HandoffInv, PackInv, PackSent, CompletedWasSent
<1> QED
  BY <1>1, HandoffInvHolds, PTL

(* The worker moves a submission to review for a job that has sent its pack  *)
(* whole: a job sends what it found of a manifest half written only where a  *)
(* session was reset or unlocked under a delivery, or a delivery began while *)
(* the rows were inserted.                                                   *)
THEOREM ReviewFollowsDeliveryHolds == HandoffSpec => []ReviewFollowsDelivery
<1>1. HandoffInv => ReviewFollowsDelivery
  BY DEF HandoffInv, HandoffTypes, DeliveredInv, PackInv, ReviewFollowsDelivery
<1> QED
  BY <1>1, HandoffInvHolds, PTL

(* The hand-off implements the job queue: what the worker, the routes and    *)
(* the approvals do to the queue is what JobQueue allows its own steps.      *)
THEOREM HandoffImplementsQueue == HandoffSpec => Spec
<1>1. HandoffInit => Init
  BY DEF HandoffInit
<1>2. HandoffInv /\ [HandoffNext]_allVars => [Next]_vars
  BY HandoffStepQueues DEF HandoffInv
<1> QED
  BY <1>1, <1>2, HandoffInvHolds, PTL DEF HandoffSpec, Spec

(* So the deliveries keep to the queue's promises: the budget of runs, the   *)
(* dead letters, the replays and the settled jobs.                           *)
THEOREM DeliveriesKeepQueue ==
  HandoffSpec =>
    /\ []RunsWithinBudget /\ []DeadLettersReplayable /\ []ReplaysOnce
    /\ []RunningIsWorkedOn /\ []OpenLettersAreOfTheDead /\ SettledForGood
BY HandoffImplementsQueue, RunsWithinBudgetHolds, DeadLettersReplayableHolds, ReplaysOnceHolds,
   RunningIsWorkedOnHolds, OpenLettersAreOfTheDeadHolds, SettledForGoodHolds, PTL

=============================================================================

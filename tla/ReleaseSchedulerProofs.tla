----------------------- MODULE ReleaseSchedulerProofs -----------------------
(* Proofs about ReleaseScheduler, for any submissions, requests and bounds.  *)
EXTENDS ReleaseScheduler, JobQueueProofs

Steps == {"out", "planning", "overriding", "enqueueing", "auditing", "entering", "checking",
          "marking", "releasing", "recording", "failing", "burying", "answering", "repeating",
          "returning", "raising", "refused", "stale"}
Asked == TriggerIds \union OverrideIds \union Jobs \union {NoJob}
ScheduleRow == [version : Nat, due : BOOLEAN, manual : BOOLEAN, triggered : BOOLEAN]
CallRow == [at : Steps, sub : Submissions \union {NoJob}, req : Asked,
            job : Jobs \union {NoJob}, forced : BOOLEAN, fresh : BOOLEAN]

(* The scheduler's variables keep their types, and a call its arguments'.    *)
ReleaseTypes ==
  /\ state \in [Submissions -> {"approved", "scheduled", "released"}]
  /\ schedule \in [Submissions -> ScheduleRow]
  /\ released \in [Submissions -> SUBSET Asked]
  /\ overrides \in [Submissions -> SUBSET OverrideIds]
  /\ answers \in [Submissions -> SUBSET (Asked \X {"performed", "refused"})]
  /\ resolved \in SUBSET Submissions
  /\ mutex \in Threads \union {Nobody}
  /\ call \in [Threads -> CallRow]
  /\ cut \in SUBSET Submissions

(* What a thread's call is about, and that the executor makes its calls      *)
(* while it runs a job's handler.                                            *)
CallsInv ==
  /\ \A t \in Threads :
       /\ call[t].at # "out" => call[t].sub \in Submissions
       /\ call[t].at = "overriding" => call[t].req \in OverrideIds
       /\ call[t].at \in {"marking", "failing", "burying"} => call[t].job \in Jobs
       /\ call[t].job \in Jobs => call[t].job[1] = call[t].sub
  /\ call["executor"].at # "out" =>
       pc.executor = "handling" /\ call["executor"].job = cur.executor

(* The steps a thread is at only inside a section of the scheduler's lock.   *)
InSection == {"planning", "overriding", "enqueueing", "recording", "failing", "burying"}
LockInv == \A t \in Threads : call[t].at \in InSection => mutex = t

(* What the schedule and the submission are while a call is at a step.       *)
OnSchedule == {"overriding", "enqueueing", "entering", "checking", "marking", "releasing",
               "recording", "failing", "burying", "answering", "repeating"}
StageInv ==
  \A t \in Threads :
    /\ call[t].at = "planning" =>
         schedule[call[t].sub].version = 0 /\ call[t].sub \in resolved
    /\ call[t].at \in OnSchedule => schedule[call[t].sub].version > 0
    /\ call[t].at = "recording" => released[call[t].sub] # {}

(* What the three tables say of one submission.                              *)
Performed(s) == {a \in answers[s] : a[2] = "performed"}
OneOf(S) == \A x, y \in S : x = y
RowInv ==
  \A s \in Submissions :
    /\ s \in resolved => state[s] # "approved"
    /\ schedule[s].version > 0 => s \in resolved
    /\ released[s] # {} => state[s] = "released" /\ schedule[s].version > 0
    /\ OneOf(released[s])
    /\ OneOf(Performed(s))
    /\ Performed(s) # {} => schedule[s].triggered

----------------------------------------------------------------------------
(* A job in anyone's hands was enqueued, and for a version there was.        *)
KnownInv ==
  /\ \A s \in Submissions, v \in 1..MaxVersion :
       job[<<s, v>>].status # "ABSENT" => v <= schedule[s].version
  /\ \A j \in batch : job[j].status # "ABSENT"
  /\ cur.executor \in Jobs => job[cur.executor].status # "ABSENT"
  /\ \A t \in Threads : call[t].job \in Jobs => job[call[t].job].status # "ABSENT"

(* The bound on the versions is out of reach: a version is the plan's, an    *)
(* override's, one an interrupted override left unrecorded, or the release's.*)
Overridden(s) ==
  IF call["loop"].at = "overriding" /\ call["loop"].sub = s
  THEN overrides[s] \union {call["loop"].req} ELSE overrides[s]
VersionInv ==
  \A s \in Submissions :
    /\ crashes <= MaxCrashes
    /\ schedule[s].version <=
         Cardinality(Overridden(s)) + crashes + 1 + (IF schedule[s].triggered THEN 1 ELSE 0)

(* Who sees to a schedule that is still to be released.                      *)
ToRelease(s) ==
  /\ schedule[s].version > 0 /\ ~schedule[s].triggered /\ s \notin cut
  /\ state[s] = "scheduled" \/ released[s] # {}
Enqueueing(s) == call["loop"].at \in {"overriding", "enqueueing"} /\ call["loop"].sub = s
LoopReleases(j) == call["loop"].at \in {"releasing", "recording"} /\ call["loop"].job = j
HasJob(j) ==
  \/ job[j].status \in Pending
  \/ job[j].status = "RUNNING" /\ (cur.executor = j \/ LoopReleases(j))
Trying == {"out", "entering", "checking", "marking", "releasing", "recording"}
Ready(j) ==
  \/ job[j].status \in Pending /\ job[j].due
  \/ j \in batch
  \/ cur.executor = j
Closing == {"answering", "repeating", "failing", "burying"}
SeenTo(s) ==
  /\ Enqueueing(s) \/ HasJob(JobFor(s))
  /\ Ready(JobFor(s)) => schedule[s].due
  /\ cur.executor = JobFor(s) =>
       pc.executor \in {"starting", "handling"} /\ call["executor"].at \in Trying
  /\ \A t \in Threads : call[t].sub = s => call[t].at \notin Closing
JobInv == \A s \in Submissions : ToRelease(s) => SeenTo(s)

----------------------------------------------------------------------------
(* Lemmas about the updates the actions are built from.                      *)

Moves(t, step) ==
  /\ call' \in [Threads -> CallRow]
  /\ call'[t].at = step /\ call'[t].sub = call[t].sub
  /\ call'[t].req = call[t].req /\ call'[t].job = call[t].job
  /\ \A u \in Threads : u # t => call'[u] = call[u]

(* A call moves to a step and keeps its arguments. *)
LEMMA ToMoves ==
    ASSUME ReleaseTypes, NEW t \in Threads, NEW step \in Steps, To(t, step)
    PROVE  Moves(t, step)
BY DEF ReleaseTypes, To, Moves, CallRow

Ends(t) ==
  /\ call' \in [Threads -> CallRow]
  /\ call'[t].at = "out" /\ call'[t].sub = NoJob
  /\ call'[t].req = NoJob /\ call'[t].job = NoJob
  /\ \A u \in Threads : u # t => call'[u] = call[u]

(* A call that is done leaves its thread without one. *)
LEMMA DoneEnds ==
    ASSUME ReleaseTypes, NEW t \in Threads, Done(t)
    PROVE  Ends(t)
BY DEF ReleaseTypes, Done, Ends, CallRow, Absent, Steps, Asked

Writes(s, row) ==
  /\ schedule' \in [Submissions -> ScheduleRow]
  /\ schedule'[s].version = schedule[s].version + 1
  /\ schedule'[s].due = row.due /\ schedule'[s].triggered = row.triggered
  /\ \A u \in Submissions : u # s => schedule'[u] = schedule[u]

(* Writing a schedule's row takes its next version. *)
LEMMA UpsertWrites ==
    ASSUME ReleaseTypes, NEW s \in Submissions, NEW row \in ScheduleRow,
           row.version = schedule[s].version, Upsert(s, row)
    PROVE  Writes(s, row)
BY DEF ReleaseTypes, Upsert, Writes, ScheduleRow

----------------------------------------------------------------------------
(* The queue's own types: a step of the scheduler is one of the queue, or    *)
(* marks a job, or fails one, or leaves the queue alone.                     *)

Marked(j) ==
  (MarkRunning(j) \/ MarkSucceeded(j)) /\ QueueRest /\ UNCHANGED <<letters, burying>>
Failed(j) ==
  (FailIsNoOp(j) \/ Retry(j, FALSE) \/ WriteLetter(j, FALSE) \/ Bury(j, FALSE)) /\ QueueRest

LEMMA TriggerQueueEffect ==
    ASSUME ReleaseTypes, CallsInv, NEW t \in Threads, TriggerStep(t)
    PROVE  UNCHANGED vars \/ \E j \in Jobs : Marked(j) \/ Failed(j)
<1>j. call[t].job \in Jobs \union {NoJob}
  BY DEF ReleaseTypes, CallRow
<1>1. CASE MarkPending(t)
  <2>1. call[t].job \in Jobs
    BY <1>1 DEF MarkPending, At, CallsInv
  <2> QED
    BY <1>1, <2>1 DEF MarkPending, Marked
<1>2. CASE FailReported(t)
  <2>1. call[t].job \in Jobs
    BY <1>2 DEF FailReported, At, CallsInv
  <2> QED
    BY <1>2, <2>1 DEF FailReported, Failed
<1>3. CASE BuryReported(t)
  <2>1. call[t].job \in Jobs
    BY <1>3 DEF BuryReported, At, CallsInv
  <2> QED
    BY <1>3, <2>1 DEF BuryReported, Failed
<1>4. CASE AnswerTrigger(t)
  BY <1>j, <1>4 DEF AnswerTrigger, Marked, QueueRest, tables, vars
<1>5. CASE EnterReplay(t) \/ EnterNotDue(t) \/ EnterDue(t) \/ CheckPending(t)
           \/ Release(t) \/ ReleaseRefused(t) \/ RecordRelease(t)
  BY <1>5 DEF EnterReplay, EnterNotDue, EnterDue, CheckPending, Release, ReleaseRefused,
              RecordRelease, queue, vars
<1> QED
  BY <1>1, <1>2, <1>3, <1>4, <1>5 DEF TriggerStep

LEMMA QueueEffect ==
    ASSUME TypeOK, ReleaseTypes, CallsInv, [ReleaseNext]_allVars
    PROVE  [Next]_vars \/ \E j \in Jobs : Marked(j) \/ Failed(j)
<1>1. CASE QueueStep
  BY <1>1 DEF QueueStep, Next, Executor
<1>2. CASE ExecuteReleaseJob
  BY <1>2 DEF ExecuteReleaseJob, queue, vars
<1>3. CASE FinishStale
  <2>1. cur.executor \in Jobs
    BY <1>3, JobsAssumption DEF FinishStale, At, CallsInv, TypeOK
  <2> QED
    BY <1>3, <2>1 DEF FinishStale, Marked
<1>4. CASE HandlerEnds
  BY <1>4 DEF HandlerEnds, Next, Executor
<1>5. ASSUME NEW t \in Threads, TriggerStep(t)
      PROVE  UNCHANGED vars \/ \E j \in Jobs : Marked(j) \/ Failed(j)
  BY <1>5, TriggerQueueEffect
<1>6. CASE EnqueueRelease
  <2>1. PICK j : j = JobFor(call["loop"].sub)
    OBVIOUS
  <2>2. Enqueue(j) /\ job[j].status = "ABSENT"
    BY <1>6, <2>1 DEF EnqueueRelease, Submission, Enqueue
  <2>3. CASE j \in Jobs
    BY <2>2, <2>3 DEF Next
  <2>4. CASE j \notin Jobs
    <3>1. UNCHANGED <<letters, answered, burying, threads, history>>
      BY <2>2 DEF Enqueue
    <3>2. job' = job
      BY <2>2, <2>4 DEF Enqueue, TypeOK
    <3> QED
      BY <3>1, <3>2 DEF vars, tables
  <2> QED
    BY <2>3, <2>4
<1>7. CASE Plan \/ RecordOverride \/ AuditResolve \/ RouteEnds
  BY <1>7 DEF Plan, RecordOverride, AuditResolve, RouteEnds, queue, vars
<1>8. ASSUME NEW s \in Submissions,
             Resolve(s) \/ DirectTransition(s) \/ ScheduleDue(s)
             \/ (\E o \in OverrideIds : Override(s, o))
             \/ \E r \in TriggerIds, j \in Jobs \union {NoJob}, force \in BOOLEAN :
                  TriggerRoute(s, r, j, force)
      PROVE  UNCHANGED vars
  BY <1>8 DEF Resolve, DirectTransition, ScheduleDue, Override, TriggerRoute, queue, vars
<1>9. ASSUME NEW j \in Jobs, JobDue(j) \/ \E r \in Requests : ReplayJob(j, r)
      PROVE  Next
  BY <1>9 DEF JobDue, ReplayJob, Next
<1>10. CASE ProcessCrash
  BY <1>10 DEF ProcessCrash, Next
<1>11. CASE UNCHANGED allVars
  BY <1>11 DEF allVars, queue, vars
<1> QED
  BY <1>1, <1>2, <1>3, <1>4, <1>5, <1>6, <1>7, <1>8, <1>9, <1>10, <1>11
     DEF ReleaseNext, ExecutorStep, LoopStep, Threads

(* The queue keeps its types under the scheduler's steps too. *)
LEMMA QueueTyped ==
    ASSUME TypeOK, ReleaseTypes, CallsInv, [ReleaseNext]_allVars
    PROVE  TypeOK'
<1>1. CASE [Next]_vars
  BY <1>1, TypeNext
<1>2. ASSUME NEW j \in Jobs, Marked(j) PROVE TypeOK'
  <2>1. job' \in [Jobs -> JobRow]
    BY <1>2, MarkTyped DEF Marked
  <2> QED
    BY <1>2, <2>1 DEF Marked, QueueRest, threads, history, TypeOK, JobRow
<1>3. ASSUME NEW j \in Jobs, Failed(j) PROVE TypeOK'
  <2>1. TablesTyped'
    BY <1>3, FailTyped DEF Failed
  <2> QED
    BY <1>3, <2>1 DEF Failed, QueueRest, threads, history, TypeOK, JobRow, TablesTyped
<1> QED
  BY <1>1, <1>2, <1>3, QueueEffect

----------------------------------------------------------------------------
(* The scheduler's invariant, action by action.                              *)

SchedInv == ReleaseTypes /\ CallsInv /\ LockInv /\ StageInv /\ RowInv /\ ReleaseRecorded

(* What an action that only moves a call on must see to. *)
MovesOn(t, step) ==
  /\ Moves(t, step)
  /\ call[t].at \notin {"out", "recording"}
  /\ step \notin {"out", "planning", "overriding", "recording"}
  /\ step \in OnSchedule => call[t].at \in OnSchedule
  /\ step \in {"marking", "failing", "burying"} => call[t].job \in Jobs
  /\ step \in InSection => mutex' = t
  /\ mutex' \in Threads \union {Nobody}
  /\ \A u \in Threads : u # t /\ call[u].at \in InSection => mutex' = mutex
  /\ UNCHANGED <<state, schedule, released, overrides, resolved, cut, pc, cur>>
  /\ answers' \in [Submissions -> SUBSET (Asked \X {"performed", "refused"})]
  /\ \A s \in Submissions : Performed(s)' = Performed(s)

LEMMA MovesOnKeeps ==
    ASSUME SchedInv, NEW t \in Threads, NEW step \in Steps, MovesOn(t, step)
    PROVE  SchedInv'
<1> USE DEF SchedInv, MovesOn, Moves
<1>1. ReleaseTypes'
  BY DEF ReleaseTypes
<1>2. CallsInv'
  <2>1. call[t].sub \in Submissions
    BY DEF CallsInv
  <2>2. \A u \in Threads \ {t} : call'[u] = call[u]
    OBVIOUS
  <2>3. /\ call'[t].at = step /\ call'[t].sub = call[t].sub
        /\ call'[t].req = call[t].req /\ call'[t].job = call[t].job
        /\ call[t].at # "out" /\ step \notin {"out", "overriding"}
        /\ step \in {"marking", "failing", "burying"} => call[t].job \in Jobs
        /\ UNCHANGED <<pc, cur>>
    OBVIOUS
  <2> HIDE DEF MovesOn, Moves
  <2> QED
    BY <2>1, <2>2, <2>3 DEF CallsInv, Threads
<1>3. LockInv'
  BY DEF LockInv
<1>4. StageInv'
  BY DEF StageInv, CallsInv, ReleaseTypes, OnSchedule
<1>5. RowInv'
  <2>1. ASSUME NEW s \in Submissions PROVE Performed(s)' = Performed(s)
    OBVIOUS
  <2> HIDE DEF MovesOn
  <2>2. UNCHANGED <<state, schedule, released, resolved>>
    BY DEF MovesOn
  <2> QED
    BY <2>1, <2>2 DEF RowInv, OneOf
<1>6. ReleaseRecorded'
  BY DEF ReleaseRecorded, At, Submission, ReleaseTypes
<1> QED
  BY <1>1, <1>2, <1>3, <1>4, <1>5, <1>6

(* What an action must see to that only ends a call. *)
MovesOut(t) ==
  /\ Ends(t)
  /\ call[t].at # "recording"
  /\ mutex' \in Threads \union {Nobody}
  /\ \A u \in Threads : u # t /\ call[u].at \in InSection => mutex' = mutex
  /\ UNCHANGED <<state, schedule, released, overrides, resolved, cut, answers>>
  /\ t = "executor" \/ UNCHANGED <<pc, cur>>

LEMMA MovesOutKeeps ==
    ASSUME SchedInv, NEW t \in Threads, MovesOut(t)
    PROVE  SchedInv'
<1> USE DEF SchedInv, MovesOut, Ends
<1>1. ReleaseTypes'
  BY DEF ReleaseTypes
<1>2. CallsInv'
  BY JobsAssumption DEF CallsInv, ReleaseTypes, CallRow, Threads
<1>3. LockInv'
  BY DEF LockInv, InSection
<1>4. StageInv'
  BY DEF StageInv, CallsInv, ReleaseTypes, OnSchedule
<1>5. RowInv'
  BY DEF RowInv, OneOf, Performed
<1>6. ReleaseRecorded'
  BY DEF ReleaseRecorded, At, Submission, ReleaseTypes
<1> QED
  BY <1>1, <1>2, <1>3, <1>4, <1>5, <1>6

(* The steps of a trigger call that write none of the scheduler's tables. *)
LEMMA TriggerMovesKeep ==
    ASSUME SchedInv, NEW t \in Threads,
           EnterNotDue(t) \/ EnterDue(t) \/ CheckPending(t) \/ MarkPending(t)
           \/ FailReported(t) \/ BuryReported(t) \/ AnswerTrigger(t)
    PROVE  SchedInv'
<1> USE DEF SchedInv
<1>a. /\ answers' = answers => answers' \in [Submissions -> SUBSET (Asked \X {"performed", "refused"})]
      /\ answers' = answers => \A s \in Submissions : Performed(s)' = Performed(s)
      /\ mutex \in Threads \union {Nobody}
  BY DEF ReleaseTypes, Performed
<1>l. \A u \in Threads : call[u].at \in InSection => mutex = u
  BY DEF LockInv
<1>j. call[t].job \in Jobs \union {NoJob}
  BY DEF ReleaseTypes, CallRow
<1>1. ASSUME NEW step \in {"checking", "raising"},
             At(t, "entering"), To(t, step),
             UNCHANGED <<queue, state, schedule, released, overrides, resolved, audited, mutex, cut, answers>>
      PROVE  SchedInv'
  <2>1. step \in Steps /\ Moves(t, step)
    BY <1>1, ToMoves DEF Steps
  <2>2. MovesOn(t, step)
    BY <1>1, <1>a, <2>1 DEF MovesOn, At, OnSchedule, InSection, queue, threads
  <2> QED
    BY <2>1, <2>2, MovesOnKeeps
<1>2. CASE EnterNotDue(t) \/ EnterDue(t)
  BY <1>1, <1>2 DEF EnterNotDue, EnterDue
<1>3. CASE CheckPending(t)
  <2>1. PICK step \in {"marking", "releasing"} :
          To(t, step) /\ (step = "marking" => call[t].job # NoJob)
    BY <1>3 DEF CheckPending
  <2>2. step \in Steps /\ Moves(t, step)
    BY <2>1, ToMoves DEF Steps
  <2>3. MovesOn(t, step)
    BY <1>3, <1>a, <1>j, <2>1, <2>2 DEF CheckPending, MovesOn, At, OnSchedule, InSection, queue, threads
  <2> QED
    BY <2>2, <2>3, MovesOnKeeps
<1>4. CASE MarkPending(t)
  <2>1. "releasing" \in Steps /\ Moves(t, "releasing")
    BY <1>4, ToMoves DEF MarkPending, Steps
  <2>2. MovesOn(t, "releasing")
    BY <1>4, <1>a, <2>1 DEF MarkPending, MovesOn, At, OnSchedule, InSection, QueueRest, threads
  <2> QED
    BY <2>1, <2>2, MovesOnKeeps
<1>5. CASE FailReported(t) /\ To(t, "refused") /\ Leave
  <2>1. "refused" \in Steps /\ Moves(t, "refused")
    BY <1>5, ToMoves DEF Steps
  <2>2. MovesOn(t, "refused")
    BY <1>5, <1>a, <1>l, <2>1 DEF FailReported, MovesOn, At, OnSchedule, InSection, QueueRest, threads, Leave
  <2> QED
    BY <2>1, <2>2, MovesOnKeeps
<1>6. CASE FailReported(t) /\ To(t, "burying") /\ UNCHANGED mutex
  <2>1. "burying" \in Steps /\ Moves(t, "burying")
    BY <1>6, ToMoves DEF Steps
  <2>2. call[t].job \in Jobs
    BY <1>6 DEF FailReported, At, CallsInv
  <2>3. MovesOn(t, "burying")
    BY <1>6, <1>a, <1>l, <2>1, <2>2 DEF FailReported, MovesOn, At, OnSchedule, InSection, QueueRest, threads
  <2> QED
    BY <2>1, <2>3, MovesOnKeeps
<1>7. CASE BuryReported(t)
  <2>1. "refused" \in Steps /\ Moves(t, "refused")
    BY <1>7, ToMoves DEF BuryReported, Steps
  <2>2. MovesOn(t, "refused")
    BY <1>7, <1>a, <1>l, <2>1 DEF BuryReported, MovesOn, At, OnSchedule, InSection, QueueRest, threads, Leave
  <2> QED
    BY <2>1, <2>2, MovesOnKeeps
<1>8. CASE AnswerTrigger(t)
  <2>1. "returning" \in Steps /\ Moves(t, "returning")
    BY <1>8, ToMoves DEF AnswerTrigger, Steps
  <2>2. mutex' \in Threads \union {Nobody}
        /\ \A u \in Threads : u # t /\ call[u].at \in InSection => mutex' = mutex
    BY <1>8, <1>a, <1>l DEF AnswerTrigger, Locked
  <2>3. MovesOn(t, "returning")
    BY <1>8, <1>a, <2>1, <2>2 DEF AnswerTrigger, MovesOn, At, OnSchedule, InSection, QueueRest, threads
  <2> QED
    BY <2>1, <2>3, MovesOnKeeps
<1>9. FailReported(t) => \/ FailReported(t) /\ To(t, "refused") /\ Leave
                         \/ FailReported(t) /\ To(t, "burying") /\ UNCHANGED mutex
  BY DEF FailReported
<1> QED
  BY <1>2, <1>3, <1>4, <1>5, <1>6, <1>7, <1>8, <1>9

(* A refused call leaves the trigger that performed the release alone. *)
LEMMA ReleaseRefusedKeeps ==
    ASSUME SchedInv, NEW t \in Threads, ReleaseRefused(t)
    PROVE  SchedInv'
<1> USE DEF SchedInv
<1>1. PICK step \in {"refused", "failing"} :
        /\ To(t, step)
        /\ step = "refused" => UNCHANGED mutex
        /\ step = "failing" => mutex' = t /\ call[t].job # NoJob
  BY DEF ReleaseRefused
<1>2. step \in Steps /\ Moves(t, step)
  BY <1>1, ToMoves DEF Steps
<1>3. call[t].sub \in Submissions /\ call[t].req \in Asked /\ call[t].job \in Jobs \union {NoJob}
  BY DEF ReleaseRefused, At, CallsInv, ReleaseTypes, CallRow
<1>4. /\ answers' = [answers EXCEPT ![call[t].sub] = @ \union {<<call[t].req, "refused">>}]
      /\ answers \in [Submissions -> SUBSET (Asked \X {"performed", "refused"})]
  BY DEF ReleaseRefused, Answer, ReleaseTypes
<1>5. answers' \in [Submissions -> SUBSET (Asked \X {"performed", "refused"})]
  <2>1. <<call[t].req, "refused">> \in Asked \X {"performed", "refused"}
    BY <1>3
  <2> QED
    BY <1>3, <1>4, <2>1
<1>6. ASSUME NEW s \in Submissions PROVE Performed(s)' = Performed(s)
  <2>1. answers'[s] = answers[s] \/ answers'[s] = answers[s] \union {<<call[t].req, "refused">>}
    BY <1>4
  <2>2. <<call[t].req, "refused">>[2] = "refused"
    OBVIOUS
  <2> QED
    BY <2>1, <2>2 DEF Performed
<1>7. /\ mutex = Nobody /\ call[t].at = "releasing"
      /\ UNCHANGED <<queue, state, schedule, released, overrides, resolved, cut>>
  BY DEF ReleaseRefused, Free, At
<1>8. \A u \in Threads : call[u].at \notin InSection
  BY <1>7, SchedulerAssumption DEF LockInv, Threads
<1>9. MovesOn(t, step)
  BY <1>1, <1>2, <1>3, <1>5, <1>6, <1>7, <1>8 DEF MovesOn, OnSchedule, InSection, queue, threads
<1> QED
  BY <1>2, <1>9, MovesOnKeeps

(* Calls that end, and the job's enqueueing that lets go of the lock. *)
LEMMA EndsKeep ==
    ASSUME SchedInv, RouteEnds \/ HandlerEnds \/ AuditResolve \/ EnqueueRelease \/ FinishStale
    PROVE  SchedInv'
<1> USE DEF SchedInv
<1>a. /\ answers' = answers => answers' \in [Submissions -> SUBSET (Asked \X {"performed", "refused"})]
      /\ answers' = answers => \A s \in Submissions : Performed(s)' = Performed(s)
      /\ mutex \in Threads \union {Nobody}
      /\ "loop" \in Threads /\ "executor" \in Threads
  BY DEF ReleaseTypes, Performed, Threads
<1>l. \A u \in Threads : call[u].at \in InSection => mutex = u
  BY DEF LockInv
<1>1. CASE RouteEnds
  <2>1. Ends("loop")
    BY <1>1, <1>a, DoneEnds DEF RouteEnds
  <2>2. MovesOut("loop")
    BY <1>1, <1>a, <2>1 DEF RouteEnds, MovesOut, At, queue, threads
  <2> QED
    BY <1>a, <2>2, MovesOutKeeps
<1>2. CASE HandlerEnds
  <2>1. Ends("executor")
    BY <1>2, <1>a, DoneEnds DEF HandlerEnds
  <2>2. MovesOut("executor")
    BY <1>2, <1>a, <2>1 DEF HandlerEnds, MovesOut, At
  <2> QED
    BY <1>a, <2>2, MovesOutKeeps
<1>3. CASE AuditResolve
  <2>1. Ends("loop")
    BY <1>3, <1>a, DoneEnds DEF AuditResolve
  <2>2. MovesOut("loop")
    BY <1>3, <1>a, <2>1 DEF AuditResolve, MovesOut, At, queue, threads
  <2> QED
    BY <1>a, <2>2, MovesOutKeeps
<1>4. CASE EnqueueRelease /\ To("loop", "auditing")
  <2>1. "auditing" \in Steps /\ Moves("loop", "auditing")
    BY <1>4, <1>a, ToMoves DEF Steps
  <2>2. MovesOn("loop", "auditing")
    BY <1>4, <1>a, <1>l, <2>1
       DEF EnqueueRelease, Enqueue, MovesOn, At, OnSchedule, InSection, threads, Leave
  <2> QED
    BY <1>a, <2>1, <2>2, MovesOnKeeps
<1>5. CASE EnqueueRelease /\ Done("loop")
  <2>1. Ends("loop")
    BY <1>5, <1>a, DoneEnds
  <2>2. MovesOut("loop")
    BY <1>5, <1>a, <1>l, <2>1 DEF EnqueueRelease, Enqueue, MovesOut, At, InSection, threads, Leave
  <2> QED
    BY <1>a, <2>2, MovesOutKeeps
<1>6. CASE FinishStale
  <2>1. "returning" \in Steps /\ Moves("executor", "returning")
    BY <1>6, <1>a, ToMoves DEF FinishStale, Steps
  <2>2. MovesOn("executor", "returning")
    BY <1>6, <1>a, <2>1 DEF FinishStale, MovesOn, At, OnSchedule, InSection, QueueRest, threads
  <2> QED
    BY <1>a, <2>1, <2>2, MovesOnKeeps
<1>7. EnqueueRelease => EnqueueRelease /\ (To("loop", "auditing") \/ Done("loop"))
  BY DEF EnqueueRelease
<1> QED
  BY <1>1, <1>2, <1>3, <1>4, <1>5, <1>6, <1>7

(* The queue's own steps are not among those of a running handler. *)
LEMMA QueueKeeps ==
    ASSUME SchedInv,
           \/ QueueStep \/ UNCHANGED allVars
           \/ \E j \in Jobs : JobDue(j) \/ \E r \in Requests : ReplayJob(j, r)
    PROVE  SchedInv'
<1> USE DEF SchedInv
<1>1. UNCHANGED scheduler
  BY DEF QueueStep, JobDue, ReplayJob, allVars
<1>2. ReleaseTypes' /\ LockInv' /\ StageInv' /\ RowInv' /\ ReleaseRecorded'
  <2>1. UNCHANGED <<state, schedule, released, overrides, resolved, mutex, call, cut, answers>>
    BY <1>1 DEF scheduler
  <2>2. ASSUME NEW s \in Submissions PROVE Performed(s)' = Performed(s)
    BY <2>1 DEF Performed
  <2> QED
    BY <2>1, <2>2 DEF ReleaseTypes, LockInv, StageInv, RowInv, ReleaseRecorded, OneOf, At, Submission
<1>3. pc.executor = "handling" => UNCHANGED <<pc, cur>>
  BY DEF QueueStep, Poll, Pick, RoundOver, Start, Settle, Succeed, Catch, Fail, FailBury,
         JobDue, ReplayJob, BecomeDue, Replay, threads, allVars, queue
<1>4. call' = call
  BY <1>1 DEF scheduler
<1>5. CallsInv'
  BY <1>3, <1>4 DEF CallsInv
<1> QED
  BY <1>2, <1>5

(* What a call that begins says of itself. *)
Begins(t) ==
  /\ call[t].at = "out"
  /\ call' \in [Threads -> CallRow]
  /\ \A u \in Threads : u # t => call'[u] = call[u]
  /\ call'[t].sub \in Submissions
  /\ call'[t].at = "overriding" => call'[t].req \in OverrideIds
  /\ call'[t].at \notin {"out", "marking", "failing", "burying", "recording"}
  /\ call'[t].job \in Jobs => call'[t].job[1] = call'[t].sub
  /\ t = "executor" => pc.executor = "handling" /\ call'[t].job = cur.executor
  /\ UNCHANGED <<pc, cur>>
  /\ call'[t].at \in InSection => mutex' = t
  /\ \A u \in Threads : u # t /\ call[u].at \in InSection => mutex' = mutex

LEMMA BeginsKeeps ==
    ASSUME SchedInv, NEW t \in Threads, Begins(t)
    PROVE  CallsInv' /\ LockInv'
BY DEF SchedInv, Begins, CallsInv, LockInv, Threads, ReleaseTypes, CallRow

(* A resolve call: the transition, or what an earlier call left undone. *)
LEMMA ResolveKeeps ==
    ASSUME SchedInv, NEW s \in Submissions, Resolve(s)
    PROVE  SchedInv'
<1> USE DEF SchedInv
<1>1. PICK step \in {"planning", "enqueueing"}, fresh \in BOOLEAN :
        /\ StartResolve(s, step, fresh)
        /\ \/ /\ step = "planning" /\ state[s] = "approved"
              /\ state' = [state EXCEPT ![s] = "scheduled"] /\ resolved' = resolved \union {s}
           \/ /\ step = "planning" /\ s \in resolved /\ schedule[s].version = 0
              /\ UNCHANGED <<state, resolved>>
           \/ step = "enqueueing" /\ schedule[s].version > 0 /\ UNCHANGED <<state, resolved>>
  BY DEF Resolve
<1>2. /\ call["loop"].at = "out" /\ mutex = Nobody /\ mutex' = "loop"
      /\ UNCHANGED <<queue, schedule, released, overrides, cut, answers>>
  BY DEF Resolve, At, Free
<1>3. \A u \in Threads : call[u].at \notin InSection
  BY <1>2, SchedulerAssumption DEF LockInv, Threads
<1>4. PICK row \in CallRow : /\ row.at = step /\ row.sub = s /\ row.job = NoJob
                            /\ call' = [call EXCEPT !["loop"] = row]
  <2> DEFINE row == [Absent EXCEPT !.at = step, !.sub = s, !.fresh = fresh]
  <2>1. row \in CallRow /\ row.at = step /\ row.sub = s /\ row.job = NoJob
    BY DEF Absent, CallRow, Steps, Asked
  <2>2. call' = [call EXCEPT !["loop"] = row]
    BY <1>1 DEF StartResolve
  <2> QED
    BY <2>1, <2>2
<1>5. Begins("loop") /\ call'["loop"].at = step /\ call'["loop"].sub = s
  BY <1>1, <1>2, <1>3, <1>4, JobsAssumption DEF Begins, ReleaseTypes, Threads, queue, threads
<1>6. CallsInv' /\ LockInv'
  BY <1>5, BeginsKeeps DEF Threads
<1>7. ReleaseTypes'
  BY <1>1, <1>2, <1>5 DEF ReleaseTypes, Begins, Threads
<1>8. /\ state'[s] # "approved" /\ s \in resolved'
      /\ step = "planning" => schedule[s].version = 0
  <2>1. /\ s \in resolved => state[s] # "approved"
        /\ schedule[s].version > 0 => s \in resolved
        /\ schedule[s].version \in Nat
        /\ state \in [Submissions -> {"approved", "scheduled", "released"}]
    BY DEF RowInv, ReleaseTypes, ScheduleRow
  <2>2. CASE /\ step = "planning" /\ state[s] = "approved"
             /\ state' = [state EXCEPT ![s] = "scheduled"] /\ resolved' = resolved \union {s}
    <3>1. schedule[s].version = 0
      BY <2>1, <2>2
    <3> QED
      BY <2>1, <2>2, <3>1
  <2>3. CASE UNCHANGED <<state, resolved>> /\ (step = "planning" => schedule[s].version = 0)
             /\ s \in resolved
    BY <2>1, <2>3
  <2> QED
    BY <1>1, <2>1, <2>2, <2>3
<1>9. \A u \in Submissions : u # s => state'[u] = state[u] /\ (u \in resolved' <=> u \in resolved)
  BY <1>1 DEF ReleaseTypes
<1>10. state'[s] = "released" <=> state[s] = "released"
  BY <1>1 DEF RowInv, ReleaseTypes
<1>11. StageInv'
  BY <1>1, <1>2, <1>3, <1>5, <1>8, <1>9
     DEF StageInv, CallsInv, ReleaseTypes, Begins, Threads, OnSchedule, InSection
<1>12. RowInv'
  <2>1. ASSUME NEW u \in Submissions PROVE Performed(u)' = Performed(u)
    BY <1>2 DEF Performed
  <2> QED
    BY <2>1, <1>2, <1>8, <1>9, <1>10 DEF RowInv, OneOf
<1>13. ReleaseRecorded'
  BY <1>2, <1>3, <1>5, <1>9, <1>10 DEF ReleaseRecorded, At, Submission, InSection, Begins, Threads
<1> QED
  BY <1>6, <1>7, <1>11, <1>12, <1>13

(* An override keeps what the row says of the release. *)
LEMMA OverrideKeeps ==
    ASSUME SchedInv, NEW s \in Submissions, NEW o \in OverrideIds, Override(s, o)
    PROVE  SchedInv'
<1> USE DEF SchedInv
<1>1. /\ call["loop"].at = "out" /\ mutex = Nobody /\ mutex' = "loop" /\ schedule[s].version > 0
      /\ UNCHANGED <<queue, state, released, overrides, resolved, cut, answers>>
  BY DEF Override, At, Free
<1>2. \A u \in Threads : call[u].at \notin InSection
  BY <1>1, SchedulerAssumption DEF LockInv, Threads
<1>3. PICK row \in CallRow :
        /\ row.at \in {"overriding", "enqueueing"} /\ row.sub = s /\ row.job = NoJob
        /\ row.at = "overriding" => row.req = o
        /\ call' = [call EXCEPT !["loop"] = row]
  <2> DEFINE first == [Absent EXCEPT !.at = "overriding", !.sub = s, !.req = o]
             again == [Absent EXCEPT !.at = "enqueueing", !.sub = s]
  <2>1. first \in CallRow /\ first.at = "overriding" /\ first.sub = s /\ first.job = NoJob /\ first.req = o
    BY DEF Absent, CallRow, Steps, Asked
  <2>2. again \in CallRow /\ again.at = "enqueueing" /\ again.sub = s /\ again.job = NoJob
    BY DEF Absent, CallRow, Steps, Asked
  <2>3. call' = [call EXCEPT !["loop"] = first] \/ call' = [call EXCEPT !["loop"] = again]
    BY DEF Override
  <2> HIDE DEF first, again
  <2> QED
    BY <2>1, <2>2, <2>3
<1>4. Begins("loop") /\ call'["loop"].at \in {"overriding", "enqueueing"} /\ call'["loop"].sub = s
  BY <1>1, <1>2, <1>3, JobsAssumption DEF Begins, ReleaseTypes, Threads, queue, threads
<1>5. CallsInv' /\ LockInv'
  BY <1>4, BeginsKeeps DEF Threads
<1>6. /\ schedule' \in [Submissions -> ScheduleRow]
      /\ \A u \in Submissions : u # s => schedule'[u] = schedule[u]
      /\ schedule'[s].triggered = schedule[s].triggered
      /\ schedule'[s].version > 0
  <2>1. ASSUME NEW due \in BOOLEAN, Upsert(s, [schedule[s] EXCEPT !.due = due, !.manual = TRUE])
        PROVE  Writes(s, [schedule[s] EXCEPT !.due = due, !.manual = TRUE])
               /\ schedule'[s].triggered = schedule[s].triggered
    <3>1. [schedule[s] EXCEPT !.due = due, !.manual = TRUE] \in ScheduleRow
          /\ [schedule[s] EXCEPT !.due = due, !.manual = TRUE].version = schedule[s].version
          /\ [schedule[s] EXCEPT !.due = due, !.manual = TRUE].triggered = schedule[s].triggered
      BY DEF ReleaseTypes, ScheduleRow
    <3> QED
      BY <2>1, <3>1, UpsertWrites DEF Writes
  <2>2. schedule[s].version \in Nat
    BY DEF ReleaseTypes, ScheduleRow
  <2>3. \/ UNCHANGED schedule
        \/ \E due \in BOOLEAN : Upsert(s, [schedule[s] EXCEPT !.due = due, !.manual = TRUE])
    BY DEF Override
  <2>4. CASE UNCHANGED schedule
    BY <1>1, <2>4 DEF ReleaseTypes
  <2>5. ASSUME NEW due \in BOOLEAN, Upsert(s, [schedule[s] EXCEPT !.due = due, !.manual = TRUE])
        PROVE  /\ schedule' \in [Submissions -> ScheduleRow]
               /\ \A u \in Submissions : u # s => schedule'[u] = schedule[u]
               /\ schedule'[s].triggered = schedule[s].triggered
               /\ schedule'[s].version > 0
    <3> DEFINE changed == [schedule[s] EXCEPT !.due = due, !.manual = TRUE]
    <3>1. Writes(s, changed) /\ schedule'[s].triggered = schedule[s].triggered
      BY <2>1, <2>5
    <3> HIDE DEF changed
    <3> QED
      BY <1>1, <2>2, <3>1 DEF Writes
  <2> QED
    BY <2>3, <2>4, <2>5
<1>7. ReleaseTypes'
  BY <1>1, <1>4, <1>6 DEF ReleaseTypes, Begins, Threads
<1>8. StageInv'
  BY <1>1, <1>2, <1>3, <1>4, <1>6
     DEF StageInv, CallsInv, ReleaseTypes, Begins, Threads, OnSchedule, InSection
<1>9. RowInv'
  <2>1. ASSUME NEW u \in Submissions PROVE Performed(u)' = Performed(u)
    BY <1>1 DEF Performed
  <2>2. s \in resolved
    BY <1>1 DEF RowInv
  <2> QED
    BY <2>1, <2>2, <1>1, <1>6 DEF RowInv, OneOf
<1>10. ReleaseRecorded'
  BY <1>1, <1>2, <1>6 DEF ReleaseRecorded, At, Submission, InSection
<1> QED
  BY <1>5, <1>7, <1>8, <1>9, <1>10

(* A call of trigger_release begins: none of the tables changes. *)
LEMMA TriggerBeginsKeeps ==
    ASSUME SchedInv, NEW t \in Threads, Begins(t),
           call'[t].at \in {"entering", "stale"},
           call'[t].at = "entering" => schedule[call'[t].sub].version > 0,
           UNCHANGED <<state, schedule, released, overrides, resolved, mutex, cut, answers>>
    PROVE  SchedInv'
<1> USE DEF SchedInv
<1>1. CallsInv' /\ LockInv'
  BY BeginsKeeps
<1>2. ReleaseTypes'
  BY DEF ReleaseTypes, Begins
<1>3. StageInv'
  BY DEF StageInv, Begins, OnSchedule
<1>4. RowInv'
  <2>1. ASSUME NEW s \in Submissions PROVE Performed(s)' = Performed(s)
    BY DEF Performed
  <2> QED
    BY <2>1 DEF RowInv, OneOf
<1>5. ReleaseRecorded'
  BY DEF ReleaseRecorded, At, Submission, Begins
<1> QED
  BY <1>1, <1>2, <1>3, <1>4, <1>5

LEMMA TriggerRouteKeeps ==
    ASSUME SchedInv, NEW s \in Submissions, NEW r \in TriggerIds, NEW j \in Jobs \union {NoJob},
           NEW force \in BOOLEAN, TriggerRoute(s, r, j, force)
    PROVE  SchedInv'
<1> DEFINE row == [at |-> "entering", sub |-> s, req |-> r, job |-> j, forced |-> force, fresh |-> FALSE]
<1>1. row \in CallRow
  BY DEF CallRow, Steps, Asked
<1>2. call' = [call EXCEPT !["loop"] = row] /\ call["loop"].at = "out" /\ schedule[s].version > 0
      /\ UNCHANGED <<queue, state, schedule, released, overrides, resolved, mutex, cut, answers>>
  BY DEF TriggerRoute, At
<1>3. j # NoJob => j[1] = s
  BY DEF TriggerRoute
<1>4. call \in [Threads -> CallRow] /\ "loop" \in Threads
  BY DEF SchedInv, ReleaseTypes, Threads
<1>5. call'["loop"] = row
  BY <1>2, <1>4
<1>6. Begins("loop")
  BY <1>1, <1>2, <1>3, <1>4, <1>5, JobsAssumption DEF Begins, Threads, InSection, queue, threads
<1> QED
  BY <1>2, <1>4, <1>5, <1>6, TriggerBeginsKeeps

LEMMA ExecuteReleaseJobKeeps ==
    ASSUME TypeOK, SchedInv, ExecuteReleaseJob
    PROVE  SchedInv'
<1> DEFINE j == cur.executor
           step == IF schedule[j[1]].version = j[2] THEN "entering" ELSE "stale"
           row == [at |-> step, sub |-> j[1], req |-> j, job |-> j, forced |-> FALSE, fresh |-> FALSE]
<1>1. j \in Jobs
  BY JobsAssumption DEF ExecuteReleaseJob, TypeOK
<1>2. j[1] \in Submissions /\ j[2] \in 1..MaxVersion
  BY <1>1, SchedulerAssumption
<1>3. row \in CallRow
  BY <1>1, <1>2 DEF CallRow, Steps, Asked
<1>4. call' = [call EXCEPT !["executor"] = row] /\ call["executor"].at = "out" /\ pc.executor = "handling"
      /\ UNCHANGED <<queue, state, schedule, released, overrides, resolved, mutex, cut, answers>>
  BY DEF ExecuteReleaseJob, At
<1>5. call \in [Threads -> CallRow] /\ "executor" \in Threads
  BY DEF SchedInv, ReleaseTypes, Threads
<1>6. call'["executor"] = row
  BY <1>4, <1>5
<1>7. Begins("executor")
  BY <1>2, <1>3, <1>4, <1>5, <1>6 DEF Begins, Threads, InSection, queue, threads
<1>8. step = "entering" => schedule[j[1]].version > 0
  BY <1>2
<1> QED
  BY <1>4, <1>5, <1>6, <1>7, <1>8, TriggerBeginsKeeps

(* The plan's write is the first version. *)
LEMMA PlanKeeps ==
    ASSUME SchedInv, Plan
    PROVE  SchedInv'
<1> USE DEF SchedInv
<1> DEFINE s == call["loop"].sub
<1>1. /\ call["loop"].at = "planning"
      /\ UNCHANGED <<queue, state, released, overrides, resolved, mutex, cut, answers>>
  BY DEF Plan, At
<1>2. /\ s \in Submissions /\ schedule[s].version = 0 /\ s \in resolved /\ "loop" \in Threads
      /\ released[s] = {}
  BY <1>1 DEF CallsInv, StageInv, Threads, RowInv
<1>3. Moves("loop", "enqueueing")
  BY ToMoves DEF Plan, Steps, Threads
<1>4. /\ schedule' \in [Submissions -> ScheduleRow]
      /\ \A u \in Submissions : u # s => schedule'[u] = schedule[u]
      /\ ~schedule'[s].triggered /\ schedule'[s].version = 1
  <2>1. PICK due \in BOOLEAN :
          Upsert(s, [schedule[s] EXCEPT !.due = due, !.manual = FALSE, !.triggered = FALSE])
    BY DEF Plan, Submission
  <2> DEFINE row == [schedule[s] EXCEPT !.due = due, !.manual = FALSE, !.triggered = FALSE]
  <2>0. schedule[s] \in ScheduleRow
    BY <1>2 DEF ReleaseTypes
  <2>2. row \in ScheduleRow /\ row.version = schedule[s].version /\ row.triggered = FALSE
    BY <2>0 DEF ScheduleRow
  <2>3. Writes(s, row)
    BY <1>2, <2>1, <2>2, UpsertWrites
  <2> HIDE DEF row
  <2> QED
    BY <1>2, <2>2, <2>3 DEF Writes
<1>5. \A u \in Threads : u # "loop" => call[u].at \notin InSection
  BY <1>1, <1>2 DEF LockInv, InSection
<1> HIDE DEF s
<1>6. ReleaseTypes'
  BY <1>1, <1>3, <1>4 DEF ReleaseTypes, Moves
<1>7. CallsInv' /\ LockInv'
  BY <1>1, <1>2, <1>3 DEF CallsInv, LockInv, Moves, Threads, InSection, queue, threads
<1>8. StageInv'
  BY <1>1, <1>2, <1>3, <1>4, <1>5 DEF StageInv, CallsInv, Moves, OnSchedule, InSection, s, ReleaseTypes
<1>9. RowInv'
  <2>1. ASSUME NEW u \in Submissions PROVE Performed(u)' = Performed(u)
    BY <1>1 DEF Performed
  <2>2. Performed(s) = {}
    BY <1>2 DEF RowInv, ReleaseRecorded
  <2> QED
    BY <2>1, <2>2, <1>1, <1>2, <1>4 DEF RowInv, OneOf
<1>10. ReleaseRecorded'
  BY <1>1, <1>2, <1>4, <1>5 DEF ReleaseRecorded, At, Submission, InSection
<1> QED
  BY <1>6, <1>7, <1>8, <1>9, <1>10

LEMMA RecordOverrideKeeps ==
    ASSUME SchedInv, RecordOverride
    PROVE  SchedInv'
<1> USE DEF SchedInv
<1>1. /\ call["loop"].at = "overriding" /\ "loop" \in Threads
      /\ overrides' = [overrides EXCEPT ![call["loop"].sub] = @ \union {call["loop"].req}]
      /\ UNCHANGED <<queue, state, schedule, released, resolved, mutex, cut, answers>>
  BY DEF RecordOverride, At, Submission, Threads
<1>2. Moves("loop", "enqueueing")
  BY ToMoves DEF RecordOverride, Steps, Threads
<1>3. ReleaseTypes'
  BY <1>1, <1>2 DEF ReleaseTypes, Moves, CallsInv
<1>4. CallsInv' /\ LockInv'
  BY <1>1, <1>2 DEF CallsInv, LockInv, Moves, Threads, InSection, queue, threads
<1>5. StageInv'
  BY <1>1, <1>2 DEF StageInv, Moves, OnSchedule
<1>6. RowInv'
  <2>1. ASSUME NEW u \in Submissions PROVE Performed(u)' = Performed(u)
    BY <1>1 DEF Performed
  <2> QED
    BY <2>1, <1>1 DEF RowInv, OneOf
<1>7. ReleaseRecorded'
  BY <1>1, <1>2 DEF ReleaseRecorded, At, Submission, Moves
<1> QED
  BY <1>3, <1>4, <1>5, <1>6, <1>7

(* The first section of a replayed trigger repairs the schedule, or finds it right. *)
LEMMA EnterReplayKeeps ==
    ASSUME SchedInv, NEW t \in Threads, EnterReplay(t)
    PROVE  SchedInv'
<1> USE DEF SchedInv
<1>s. PICK s : s = call[t].sub
  OBVIOUS
<1>1. /\ call[t].at = "entering" /\ mutex = Nobody /\ mutex' = t
      /\ UNCHANGED <<queue, state, released, overrides, resolved, cut, answers>>
  BY DEF EnterReplay, At, Free
<1>2. s \in Submissions /\ schedule[s].version > 0
  BY <1>s, <1>1 DEF CallsInv, StageInv, OnSchedule
<1>3. Moves(t, "repeating")
  BY ToMoves DEF EnterReplay, Steps
<1>4. \A u \in Threads : call[u].at \notin InSection
  BY <1>1, SchedulerAssumption DEF LockInv, Threads
<1>5. schedule[s] \in ScheduleRow
  BY <1>2 DEF ReleaseTypes
<1>6. /\ schedule' \in [Submissions -> ScheduleRow]
      /\ \A u \in Submissions : u # s => schedule'[u] = schedule[u]
      /\ schedule'[s].triggered /\ schedule'[s].version > 0
      /\ state[s] = "released" /\ released[s] # {}
  <2>1. CASE schedule[s].triggered /\ UNCHANGED schedule
    BY <1>2, <2>1 DEF ReleaseTypes, ReleaseRecorded
  <2>2. CASE call[t].req \in released[s] /\ Upsert(s, [schedule[s] EXCEPT !.triggered = TRUE])
    <3> DEFINE row == [schedule[s] EXCEPT !.triggered = TRUE]
    <3>1. row \in ScheduleRow /\ row.version = schedule[s].version /\ row.triggered = TRUE
      BY <1>5 DEF ScheduleRow
    <3>2. Writes(s, row)
      BY <1>2, <2>2, <3>1, UpsertWrites
    <3>3. state[s] = "released" /\ released[s] # {}
      BY <1>2, <2>2 DEF RowInv
    <3>4. schedule[s].version \in Nat
      BY <1>5 DEF ScheduleRow
    <3> HIDE DEF row
    <3> QED
      BY <3>1, <3>2, <3>3, <3>4 DEF Writes
  <2> QED
    BY <1>s, <2>1, <2>2 DEF EnterReplay, Submission
<1>7. ReleaseTypes'
  BY <1>1, <1>3, <1>6 DEF ReleaseTypes, Moves
<1>8. CallsInv' /\ LockInv'
  BY <1>1, <1>3, <1>4 DEF CallsInv, LockInv, Moves, Threads, InSection, queue, threads
<1>9. StageInv'
  BY <1>1, <1>2, <1>3, <1>4, <1>6, <1>s DEF StageInv, CallsInv, Moves, OnSchedule, InSection
<1>10. RowInv'
  <2>1. ASSUME NEW u \in Submissions PROVE Performed(u)' = Performed(u)
    BY <1>1 DEF Performed
  <2> QED
    BY <2>1, <1>1, <1>2, <1>6 DEF RowInv, OneOf
<1>11. ReleaseRecorded'
  BY <1>1, <1>2, <1>3, <1>4, <1>6 DEF ReleaseRecorded, At, Submission, InSection, Moves
<1> QED
  BY <1>7, <1>8, <1>9, <1>10, <1>11

(* The transition: only a scheduled submission has it, and once. *)
LEMMA ReleaseKeeps ==
    ASSUME SchedInv, NEW t \in Threads, Release(t)
    PROVE  SchedInv'
<1> USE DEF SchedInv
<1>s. PICK s : s = call[t].sub
  OBVIOUS
<1>1. /\ call[t].at = "releasing" /\ mutex = Nobody /\ mutex' = t
      /\ state[s] = "scheduled"
      /\ state' = [state EXCEPT ![s] = "released"]
      /\ released' = [released EXCEPT ![s] = @ \union {call[t].req}]
      /\ UNCHANGED <<queue, schedule, overrides, resolved, cut, answers>>
  BY <1>s DEF Release, At, Free, Submission
<1>2. s \in Submissions /\ schedule[s].version > 0 /\ call[t].req \in Asked
  BY <1>s, <1>1 DEF CallsInv, StageInv, OnSchedule, ReleaseTypes, CallRow
<1>3. Moves(t, "recording")
  BY ToMoves DEF Release, Steps
<1>4. \A u \in Threads : call[u].at \notin InSection
  BY <1>1, SchedulerAssumption DEF LockInv, Threads
<1>5. /\ state' \in [Submissions -> {"approved", "scheduled", "released"}] /\ state'[s] = "released"
      /\ released' \in [Submissions -> SUBSET Asked]
      /\ \A u \in Submissions : u # s => state'[u] = state[u] /\ released'[u] = released[u]
  BY <1>1, <1>2 DEF ReleaseTypes
<1>6. released'[s] = {call[t].req}
  <2>1. released[s] = {}
    BY <1>1, <1>2 DEF RowInv
  <2> QED
    BY <1>1, <1>2, <2>1 DEF ReleaseTypes
<1>7. ReleaseTypes'
  BY <1>1, <1>3, <1>5 DEF ReleaseTypes, Moves
<1>8. CallsInv' /\ LockInv'
  BY <1>1, <1>3, <1>4 DEF CallsInv, LockInv, Moves, Threads, InSection, queue, threads
<1>9. StageInv'
  BY <1>1, <1>2, <1>3, <1>4, <1>5, <1>6, <1>s
     DEF StageInv, CallsInv, Moves, OnSchedule, InSection
<1>10. RowInv'
  <2>1. ASSUME NEW u \in Submissions PROVE Performed(u)' = Performed(u)
    BY <1>1 DEF Performed
  <2> QED
    BY <2>1, <1>1, <1>2, <1>5, <1>6 DEF RowInv, OneOf
<1>11. ReleaseRecorded'
  BY <1>1, <1>2, <1>3, <1>4, <1>5, <1>s DEF ReleaseRecorded, At, Submission, InSection, Moves
<1> QED
  BY <1>7, <1>8, <1>9, <1>10, <1>11

(* Its record: the one "performed" answer comes with the mark on the row. *)
LEMMA RecordReleaseKeeps ==
    ASSUME SchedInv, NEW t \in Threads, RecordRelease(t)
    PROVE  SchedInv'
<1> USE DEF SchedInv
<1>s. PICK s : s = call[t].sub
  OBVIOUS
<1>1. /\ call[t].at = "recording" /\ mutex = t
      /\ UNCHANGED <<queue, state, released, overrides, resolved, cut>>
  BY DEF RecordRelease, At, LockInv, InSection
<1>2. /\ s \in Submissions /\ schedule[s].version > 0 /\ state[s] = "released"
      /\ released[s] # {} /\ call[t].req \in Asked
  BY <1>s, <1>1 DEF CallsInv, StageInv, OnSchedule, ReleaseTypes, CallRow, RowInv
<1>3. Moves(t, "answering")
  BY ToMoves DEF RecordRelease, Steps
<1>4. \A u \in Threads : u # t => call[u].at \notin InSection
  BY <1>1 DEF LockInv
<1>5. schedule[s] \in ScheduleRow
  BY <1>2 DEF ReleaseTypes
<1>6. \/ schedule[s].triggered /\ UNCHANGED <<schedule, mutex, answers>>
      \/ /\ ~schedule[s].triggered /\ mutex' = Nobody
         /\ Upsert(s, [schedule[s] EXCEPT !.triggered = TRUE])
         /\ answers' = [answers EXCEPT ![s] = @ \union {<<call[t].req, "performed">>}]
  BY <1>s DEF RecordRelease, Submission, Leave, Answer
<1>7. /\ schedule' \in [Submissions -> ScheduleRow]
      /\ \A u \in Submissions : u # s => schedule'[u] = schedule[u]
      /\ schedule'[s].triggered /\ schedule'[s].version > 0
  <2>1. CASE schedule[s].triggered /\ UNCHANGED schedule
    BY <1>2, <2>1 DEF ReleaseTypes
  <2>2. CASE Upsert(s, [schedule[s] EXCEPT !.triggered = TRUE])
    <3> DEFINE row == [schedule[s] EXCEPT !.triggered = TRUE]
    <3>1. row \in ScheduleRow /\ row.version = schedule[s].version /\ row.triggered = TRUE
      BY <1>5 DEF ScheduleRow
    <3>2. Writes(s, row)
      BY <1>2, <2>2, <3>1, UpsertWrites
    <3>3. schedule[s].version \in Nat
      BY <1>5 DEF ScheduleRow
    <3> HIDE DEF row
    <3> QED
      BY <3>1, <3>2, <3>3 DEF Writes
  <2> QED
    BY <1>6, <2>1, <2>2
<1>8. /\ answers' \in [Submissions -> SUBSET (Asked \X {"performed", "refused"})]
      /\ \A u \in Submissions : u # s => answers'[u] = answers[u]
      /\ OneOf(Performed(s)')
  <2>1. CASE UNCHANGED answers
    BY <1>2, <2>1 DEF ReleaseTypes, RowInv, Performed
  <2>2. CASE ~schedule[s].triggered
             /\ answers' = [answers EXCEPT ![s] = @ \union {<<call[t].req, "performed">>}]
    <3>1. <<call[t].req, "performed">> \in Asked \X {"performed", "refused"}
      BY <1>2
    <3>2. answers'[s] = answers[s] \union {<<call[t].req, "performed">>}
          /\ \A u \in Submissions : u # s => answers'[u] = answers[u]
      BY <1>2, <2>2 DEF ReleaseTypes
    <3>3. Performed(s) = {}
      BY <1>2, <2>2 DEF RowInv
    <3>4. ASSUME NEW a \in Performed(s)' PROVE a = <<call[t].req, "performed">>
      BY <3>2, <3>3 DEF Performed
    <3> HIDE DEF Performed
    <3>5. OneOf(Performed(s)')
      BY <3>4 DEF OneOf
    <3>6. answers' \in [Submissions -> SUBSET (Asked \X {"performed", "refused"})]
      BY <1>2, <2>2, <3>1 DEF ReleaseTypes
    <3> QED
      BY <3>2, <3>5, <3>6
  <2> QED
    BY <1>6, <2>1, <2>2
<1>9. ReleaseTypes'
  BY <1>1, <1>3, <1>6, <1>7, <1>8 DEF ReleaseTypes, Moves
<1>10. CallsInv' /\ LockInv'
  BY <1>1, <1>3, <1>4 DEF CallsInv, LockInv, Moves, Threads, InSection, queue, threads
<1>11. StageInv'
  BY <1>1, <1>2, <1>3, <1>4, <1>7, <1>s DEF StageInv, CallsInv, Moves, OnSchedule, InSection
<1>12. RowInv'
  <2>1. ASSUME NEW u \in Submissions, u # s PROVE Performed(u)' = Performed(u)
    BY <1>8, <2>1 DEF Performed
  <2>2. OneOf(Performed(s)')
    BY <1>8
  <2>3. UNCHANGED <<state, released, resolved>>
    BY <1>1
  <2> HIDE DEF Performed
  <2> QED
    BY <2>1, <2>2, <2>3, <1>2, <1>7 DEF RowInv, OneOf
<1>13. ReleaseRecorded'
  BY <1>1, <1>2, <1>3, <1>7, <1>s DEF ReleaseRecorded, At, Submission, Moves
<1> QED
  BY <1>9, <1>10, <1>11, <1>12, <1>13

(* The transition route moves a submission whose schedule it does not know. *)
LEMMA DirectTransitionKeeps ==
    ASSUME SchedInv, NEW s \in Submissions, DirectTransition(s)
    PROVE  SchedInv'
<1> USE DEF SchedInv
<1>1. UNCHANGED <<queue, schedule, released, overrides, resolved, mutex, call, cut, answers>>
  BY DEF DirectTransition
<1>2. /\ state' \in [Submissions -> {"approved", "scheduled", "released"}]
      /\ state'[s] # "approved" /\ state[s] # "released"
      /\ \A u \in Submissions : u # s => state'[u] = state[u]
  BY DEF DirectTransition, ReleaseTypes
<1>3. released[s] = {}
  BY <1>2 DEF RowInv
<1>4. ReleaseTypes' /\ CallsInv' /\ LockInv' /\ StageInv'
  BY <1>1, <1>2 DEF ReleaseTypes, CallsInv, LockInv, StageInv, queue, threads
<1>5. RowInv'
  <2>1. ASSUME NEW u \in Submissions PROVE Performed(u)' = Performed(u)
    BY <1>1 DEF Performed
  <2> QED
    BY <2>1, <1>1, <1>2, <1>3 DEF RowInv, OneOf
<1>6. ReleaseRecorded'
  BY <1>1, <1>2, <1>3 DEF ReleaseRecorded, At, Submission
<1> QED
  BY <1>4, <1>5, <1>6

LEMMA ScheduleDueKeeps ==
    ASSUME SchedInv, NEW s \in Submissions, ScheduleDue(s)
    PROVE  SchedInv'
<1> USE DEF SchedInv
<1>1. UNCHANGED <<queue, state, released, overrides, resolved, mutex, call, cut, answers>>
  BY DEF ScheduleDue
<1>2. schedule[s] \in ScheduleRow /\ schedule' = [schedule EXCEPT ![s].due = TRUE]
  BY DEF ScheduleDue, ReleaseTypes
<1>3. schedule' \in [Submissions -> ScheduleRow]
      /\ \A u \in Submissions : schedule'[u].version = schedule[u].version
                                /\ schedule'[u].triggered = schedule[u].triggered
  BY <1>2 DEF ReleaseTypes, ScheduleRow
<1>4. ReleaseTypes' /\ CallsInv' /\ LockInv'
  BY <1>1, <1>3 DEF ReleaseTypes, CallsInv, LockInv, queue, threads
<1>5. StageInv'
  BY <1>1, <1>3 DEF StageInv, CallsInv, OnSchedule
<1>6. RowInv'
  <2>1. ASSUME NEW u \in Submissions PROVE Performed(u)' = Performed(u)
    BY <1>1 DEF Performed
  <2> QED
    BY <2>1, <1>1, <1>3 DEF RowInv, OneOf
<1>7. ReleaseRecorded'
  BY <1>1, <1>3 DEF ReleaseRecorded, At, Submission
<1> QED
  BY <1>4, <1>5, <1>6, <1>7

(* A crash leaves the tables, and remembers whom it interrupted. *)
LEMMA ProcessCrashKeeps ==
    ASSUME SchedInv, ProcessCrash
    PROVE  SchedInv'
<1> USE DEF SchedInv
<1>1. /\ mutex' = Nobody /\ call' = [t \in Threads |-> Absent]
      /\ \A s \in Submissions : (\E t \in Threads : call[t].sub = s) \/ s \in cut => s \in cut'
      /\ cut' \in SUBSET Submissions
      /\ UNCHANGED <<state, schedule, released, overrides, resolved, answers>>
  BY DEF ProcessCrash, Submission, ReleaseTypes
<1>2. \A t \in Threads : call'[t].at = "out" /\ call'[t].job = NoJob
  BY <1>1 DEF Absent
<1>3. Absent \in CallRow /\ "executor" \in Threads
  BY DEF Absent, CallRow, Steps, Asked, Threads
<1>4. ReleaseTypes'
  BY <1>1, <1>3 DEF ReleaseTypes
<1>5. CallsInv' /\ LockInv' /\ StageInv'
  BY <1>2, <1>3, JobsAssumption DEF CallsInv, LockInv, StageInv, InSection, OnSchedule
<1>6. RowInv'
  <2>1. ASSUME NEW u \in Submissions PROVE Performed(u)' = Performed(u)
    BY <1>1 DEF Performed
  <2> QED
    BY <2>1, <1>1 DEF RowInv, OneOf
<1>7. ReleaseRecorded'
  BY <1>1 DEF ReleaseRecorded, Submission
<1> QED
  BY <1>4, <1>5, <1>6, <1>7

LEMMA ReleaseInit1 == ReleaseInit => TypeOK /\ SchedInv
<1> SUFFICES ASSUME ReleaseInit PROVE TypeOK /\ SchedInv
  OBVIOUS
<1>1. TypeOK
  BY TypeInit DEF ReleaseInit
<1>2. Absent \in CallRow /\ Absent.at = "out" /\ Absent.job = NoJob
  BY DEF Absent, CallRow, Steps, Asked
<1>3. ReleaseTypes
  BY <1>2 DEF ReleaseInit, ReleaseTypes, ScheduleRow
<1>4. \A t \in Threads : call[t].at = "out" /\ call[t].job = NoJob
  BY <1>2 DEF ReleaseInit
<1>5. CallsInv /\ LockInv /\ StageInv
  BY <1>4, JobsAssumption DEF CallsInv, LockInv, StageInv, InSection, OnSchedule, Threads
<1>6. \A s \in Submissions : Performed(s) = {}
  BY DEF ReleaseInit, Performed
<1>7. RowInv /\ ReleaseRecorded
  BY <1>6 DEF ReleaseInit, RowInv, ReleaseRecorded, OneOf
<1> QED
  BY <1>1, <1>3, <1>5, <1>7 DEF SchedInv

LEMMA SchedNext == TypeOK /\ SchedInv /\ [ReleaseNext]_allVars => TypeOK' /\ SchedInv'
<1> SUFFICES ASSUME TypeOK, SchedInv, [ReleaseNext]_allVars PROVE TypeOK' /\ SchedInv'
  OBVIOUS
<1>1. TypeOK'
  BY QueueTyped DEF SchedInv
<1>2. CASE QueueStep \/ UNCHANGED allVars
  BY <1>1, <1>2, QueueKeeps
<1>3. CASE ExecuteReleaseJob
  BY <1>1, <1>3, ExecuteReleaseJobKeeps
<1>4. CASE FinishStale \/ HandlerEnds \/ EnqueueRelease \/ AuditResolve \/ RouteEnds
  BY <1>1, <1>4, EndsKeep
<1>5. ASSUME NEW t \in Threads, TriggerStep(t) PROVE SchedInv'
  BY <1>5, TriggerMovesKeep, ReleaseRefusedKeeps, EnterReplayKeeps, ReleaseKeeps, RecordReleaseKeeps
     DEF TriggerStep
<1>6. CASE Plan
  BY <1>1, <1>6, PlanKeeps
<1>7. CASE RecordOverride
  BY <1>1, <1>7, RecordOverrideKeeps
<1>8. ASSUME NEW s \in Submissions, Resolve(s) PROVE SchedInv'
  BY <1>8, ResolveKeeps
<1>9. ASSUME NEW s \in Submissions, ScheduleDue(s) PROVE SchedInv'
  BY <1>9, ScheduleDueKeeps
<1>10. ASSUME NEW s \in Submissions, NEW o \in OverrideIds, Override(s, o) PROVE SchedInv'
  BY <1>10, OverrideKeeps
<1>11. ASSUME NEW s \in Submissions, NEW r \in TriggerIds, NEW j \in Jobs \union {NoJob},
              NEW force \in BOOLEAN, TriggerRoute(s, r, j, force)
       PROVE  SchedInv'
  BY <1>11, TriggerRouteKeeps
<1>12. ASSUME NEW j \in Jobs, JobDue(j) \/ \E r \in Requests : ReplayJob(j, r) PROVE SchedInv'
  BY <1>12, QueueKeeps
<1>13. CASE ProcessCrash
  BY <1>1, <1>13, ProcessCrashKeeps
<1>14. ASSUME NEW s \in Submissions, DirectTransition(s) PROVE SchedInv'
  BY <1>14, DirectTransitionKeeps
<1> QED
  BY <1>1, <1>2, <1>3, <1>4, <1>5, <1>6, <1>7, <1>8, <1>9, <1>10, <1>11, <1>12, <1>13, <1>14
     DEF ReleaseNext, ExecutorStep, LoopStep, Threads

(* The queue's rows and threads keep their types when the scheduler's calls  *)
(* report on the jobs the executor runs.                                     *)
THEOREM SchedulerKeepsQueueTypes == ReleaseSpec => []TypeOK
BY ReleaseInit1, SchedNext, PTL DEF ReleaseSpec

(* Schedule and submission agree about the releases of the triggers, though  *)
(* the transition route may release as well.                                 *)
THEOREM ReleaseRecordedHolds == ReleaseSpec => []ReleaseRecorded
<1>1. SchedInv => ReleaseRecorded
  BY DEF SchedInv
<1> QED
  BY <1>1, ReleaseInit1, SchedNext, PTL DEF ReleaseSpec

LEMMA OneOfCardinality ==
    ASSUME NEW S, OneOf(S)
    PROVE  Cardinality(S) <= 1
<1>1. CASE S = {}
  BY <1>1, FS_EmptySet
<1>2. ASSUME NEW x \in S PROVE Cardinality(S) = 1
  <2>1. S = {x}
    BY <1>2 DEF OneOf
  <2> QED
    BY <2>1, FS_Singleton
<1> QED
  BY <1>1, <1>2

(* Of all the triggers of a submission one releases it and one says so. *)
THEOREM ReleasedOnceHolds == ReleaseSpec => []ReleasedOnce
<1>1. RowInv => ReleasedOnce
  BY OneOfCardinality DEF RowInv, ReleasedOnce, Performed
<1>2. SchedInv => RowInv
  BY DEF SchedInv
<1> QED
  BY <1>1, <1>2, ReleaseInit1, SchedNext, PTL DEF ReleaseSpec

----------------------------------------------------------------------------
(* What a step does to the rows of the jobs.                                 *)

Present(j) == job[j].status # "ABSENT"
Touches(j) ==
  /\ job'[j].status # "ABSENT"
  /\ \A k \in Jobs : k # j => job'[k] = job[k]

LEMMA MarkTouches ==
    ASSUME TypeOK, NEW j \in Jobs, MarkRunning(j) \/ MarkSucceeded(j)
    PROVE  Touches(j)
<1>1. job \in [Jobs -> JobRow]
  BY DEF TypeOK, JobRow
<1> QED
  BY <1>1 DEF MarkRunning, MarkSucceeded, Touches, JobRow

LEMMA FailTouches ==
    ASSUME TypeOK, NEW j \in Jobs, NEW terminal \in BOOLEAN,
           FailIsNoOp(j) \/ Retry(j, terminal) \/ WriteLetter(j, terminal) \/ Bury(j, terminal)
    PROVE  Touches(j) \/ job' = job
<1>1. job \in [Jobs -> JobRow]
  BY DEF TypeOK, JobRow
<1> QED
  BY <1>1 DEF FailIsNoOp, Retry, WriteLetter, Bury, Touches, JobRow

(* The queue's steps touch the job the executor has in hand and no other. *)
LEMMA QueueStepEffect ==
    ASSUME TypeOK, QueueStep
    PROVE  \/ Poll
           \/ Pick
           \/ Start /\ cur.executor \in Jobs /\ Touches(cur.executor)
           \/ /\ pc.executor \notin {"polling", "starting", "handling"}
              /\ batch' = batch
              /\ cur'.executor \in {cur.executor, NoJob}
              /\ job' = job \/ (cur.executor \in Jobs /\ Touches(cur.executor))
<1>t. /\ cur.executor = NoJob <=> pc.executor \in {"polling", "picking", "dead"}
      /\ cur.executor \in Jobs \union {NoJob} /\ fatal \in BOOLEAN
      /\ cur \in [executor : Jobs \union {NoJob}, loop : Jobs \union {NoJob}]
  BY DEF TypeOK
<1>1. CASE Start
  <2>1. cur.executor \in Jobs
    BY <1>t, <1>1 DEF Start
  <2> QED
    BY <1>1, <2>1, MarkTouches DEF Start
<1>2. CASE RoundOver
  BY <1>2 DEF RoundOver, tables
<1>3. CASE Settle \/ Catch
  BY <1>t, <1>3 DEF Settle, Catch, tables, Drop
<1>4. CASE Succeed
  <2>1. cur.executor \in Jobs
    BY <1>t, <1>4 DEF Succeed
  <2> QED
    BY <1>t, <1>4, <2>1, MarkTouches DEF Succeed, Drop
<1>5. CASE Fail
  <2>1. cur.executor \in Jobs
    BY <1>t, <1>5 DEF Fail
  <2>2. job' = job \/ Touches(cur.executor)
    BY <1>t, <1>5, <2>1, FailTouches DEF Fail
  <2> QED
    BY <1>t, <1>5, <2>1, <2>2 DEF Fail, Drop
<1>6. CASE FailBury
  <2>1. cur.executor \in Jobs
    BY <1>t, <1>6 DEF FailBury
  <2>2. job' = job \/ Touches(cur.executor)
    <3>1. FALSE \in BOOLEAN
      OBVIOUS
    <3> QED
      BY <1>t, <1>6, <2>1, <3>1, FailTouches DEF FailBury
  <2> QED
    BY <1>t, <1>6, <2>1, <2>2 DEF FailBury, Drop
<1> QED
  BY <1>1, <1>2, <1>3, <1>4, <1>5, <1>6 DEF QueueStep

----------------------------------------------------------------------------
(* What a step does to a schedule: nothing but that its time comes, or the   *)
(* plan's, an override's or the release's write.                             *)

Kept(s) ==
  /\ schedule'[s].version = schedule[s].version
  /\ schedule'[s].triggered = schedule[s].triggered
  /\ schedule[s].due => schedule'[s].due
Planned(s) ==
  /\ Plan /\ call["loop"].sub = s
  /\ schedule[s].version = 0 /\ schedule'[s].version = 1
  /\ ~schedule[s].triggered /\ ~schedule'[s].triggered
Overrode(s) ==
  \E o \in OverrideIds :
    /\ Override(s, o) /\ o \notin overrides[s] /\ schedule[s].version > 0
    /\ call["loop"].at = "out" /\ call'["loop"].at = "overriding"
    /\ call'["loop"].sub = s /\ call'["loop"].req = o
    /\ schedule'[s].version = schedule[s].version + 1
    /\ schedule'[s].triggered = schedule[s].triggered
MarkedTriggered(s) ==
  /\ schedule[s].version > 0 /\ schedule'[s].version = schedule[s].version + 1
  /\ ~schedule[s].triggered /\ schedule'[s].triggered

LEMMA MarkWrites ==
    ASSUME SchedInv, NEW s \in Submissions, ~schedule[s].triggered, schedule[s].version > 0,
           Upsert(s, [schedule[s] EXCEPT !.triggered = TRUE])
    PROVE  MarkedTriggered(s) /\ \A u \in Submissions : u # s => schedule'[u] = schedule[u]
<1> DEFINE row == [schedule[s] EXCEPT !.triggered = TRUE]
<1>1. schedule[s] \in ScheduleRow
  BY DEF SchedInv, ReleaseTypes
<1>2. row \in ScheduleRow /\ row.version = schedule[s].version /\ row.triggered = TRUE
  BY <1>1 DEF ScheduleRow
<1>3. Writes(s, row)
  BY <1>2, UpsertWrites DEF SchedInv
<1> HIDE DEF row
<1> QED
  BY <1>2, <1>3 DEF Writes, MarkedTriggered

LEMMA ScheduleStep ==
    ASSUME SchedInv, [ReleaseNext]_allVars, NEW s \in Submissions
    PROVE  Kept(s) \/ Planned(s) \/ Overrode(s) \/ MarkedTriggered(s)
<1>1. ASSUME schedule' = schedule PROVE Kept(s)
  BY <1>1 DEF Kept
<1>2. CASE QueueStep \/ UNCHANGED allVars \/ ExecuteReleaseJob \/ FinishStale \/ HandlerEnds
           \/ EnqueueRelease \/ AuditResolve \/ RouteEnds \/ RecordOverride \/ ProcessCrash
  BY <1>1, <1>2 DEF QueueStep, allVars, scheduler, ExecuteReleaseJob, FinishStale, HandlerEnds,
       EnqueueRelease, AuditResolve, RouteEnds, RecordOverride, ProcessCrash
<1>3. CASE Plan
  <2> DEFINE u == call["loop"].sub
  <2>1. u \in Submissions /\ schedule[u].version = 0 /\ released[u] = {}
    BY <1>3 DEF Plan, At, SchedInv, CallsInv, StageInv, RowInv, Threads
  <2>2. PICK due \in BOOLEAN :
          Upsert(u, [schedule[u] EXCEPT !.due = due, !.manual = FALSE, !.triggered = FALSE])
    BY <1>3 DEF Plan, Submission
  <2> DEFINE row == [schedule[u] EXCEPT !.due = due, !.manual = FALSE, !.triggered = FALSE]
  <2>3. schedule[u] \in ScheduleRow /\ ~schedule[u].triggered
    BY <2>1 DEF SchedInv, ReleaseTypes, ReleaseRecorded
  <2>4. row \in ScheduleRow /\ row.version = schedule[u].version /\ row.triggered = FALSE
    BY <2>3 DEF ScheduleRow
  <2>5. Writes(u, row)
    BY <2>1, <2>2, <2>4, UpsertWrites DEF SchedInv
  <2> HIDE DEF row
  <2> QED
    BY <1>3, <2>1, <2>3, <2>4, <2>5 DEF Writes, Kept, Planned
<1>4. ASSUME NEW u \in Submissions, NEW o \in OverrideIds, Override(u, o)
      PROVE  Kept(s) \/ Overrode(s)
  <2>1. CASE UNCHANGED schedule
    BY <1>1, <2>1
  <2>2. ASSUME NEW due \in BOOLEAN, o \notin overrides[u],
               Upsert(u, [schedule[u] EXCEPT !.due = due, !.manual = TRUE]),
               call' = [call EXCEPT !["loop"] =
                          [Absent EXCEPT !.at = "overriding", !.sub = u, !.req = o]]
        PROVE  Kept(s) \/ Overrode(s)
    <3> DEFINE row == [schedule[u] EXCEPT !.due = due, !.manual = TRUE]
               begun == [Absent EXCEPT !.at = "overriding", !.sub = u, !.req = o]
    <3>1. schedule[u] \in ScheduleRow /\ call \in [Threads -> CallRow] /\ "loop" \in Threads
      BY DEF SchedInv, ReleaseTypes, Threads
    <3>2. row \in ScheduleRow /\ row.version = schedule[u].version /\ row.triggered = schedule[u].triggered
      BY <3>1 DEF ScheduleRow
    <3>3. Writes(u, row)
      BY <2>2, <3>2, UpsertWrites DEF SchedInv
    <3>4. begun.at = "overriding" /\ begun.sub = u /\ begun.req = o
      BY DEF Absent
    <3>5. call'["loop"] = begun
      BY <2>2, <3>1
    <3>6. call["loop"].at = "out" /\ schedule[u].version > 0
      BY <1>4 DEF Override, At
    <3> HIDE DEF row, begun
    <3> QED
      BY <1>4, <2>2, <3>2, <3>3, <3>4, <3>5, <3>6 DEF Writes, Kept, Overrode
  <2> QED
    BY <1>4, <2>1, <2>2 DEF Override
<1>5. ASSUME NEW t \in Threads, TriggerStep(t)
      PROVE  Kept(s) \/ MarkedTriggered(s)
  <2> DEFINE u == call[t].sub
  <2>1. ASSUME At(t, "entering") \/ At(t, "recording"), ~schedule[u].triggered,
               Upsert(u, [schedule[u] EXCEPT !.triggered = TRUE])
        PROVE  Kept(s) \/ MarkedTriggered(s)
    <3>1. u \in Submissions /\ schedule[u].version > 0
      BY <2>1 DEF At, SchedInv, CallsInv, StageInv, OnSchedule
    <3>2. MarkedTriggered(u) /\ \A w \in Submissions : w # u => schedule'[w] = schedule[w]
      BY <2>1, <3>1, MarkWrites
    <3> QED
      BY <3>2 DEF Kept
  <2>2. CASE EnterReplay(t)
    BY <1>1, <2>1, <2>2 DEF EnterReplay, Submission
  <2>3. CASE RecordRelease(t)
    BY <1>1, <2>1, <2>3 DEF RecordRelease, Submission
  <2>4. CASE EnterNotDue(t) \/ EnterDue(t) \/ CheckPending(t) \/ MarkPending(t) \/ Release(t)
             \/ ReleaseRefused(t) \/ FailReported(t) \/ BuryReported(t) \/ AnswerTrigger(t)
    BY <1>1, <2>4 DEF EnterNotDue, EnterDue, CheckPending, MarkPending, Release,
       ReleaseRefused, FailReported, BuryReported, AnswerTrigger
  <2> QED
    BY <1>5, <2>2, <2>3, <2>4 DEF TriggerStep
<1>6. ASSUME NEW u \in Submissions,
             Resolve(u) \/ DirectTransition(u)
             \/ \E r \in TriggerIds, j \in Jobs \union {NoJob}, force \in BOOLEAN :
                  TriggerRoute(u, r, j, force)
      PROVE  Kept(s)
  BY <1>1, <1>6 DEF Resolve, DirectTransition, TriggerRoute
<1>7. ASSUME NEW u \in Submissions, ScheduleDue(u) PROVE Kept(s)
  <2>1. schedule \in [Submissions -> ScheduleRow] /\ schedule' = [schedule EXCEPT ![u].due = TRUE]
    BY <1>7 DEF ScheduleDue, SchedInv, ReleaseTypes
  <2> QED
    BY <2>1 DEF Kept, ScheduleRow
<1>8. ASSUME NEW j \in Jobs, JobDue(j) \/ \E r \in Requests : ReplayJob(j, r) PROVE Kept(s)
  BY <1>1, <1>8 DEF JobDue, ReplayJob, scheduler
<1> QED
  BY <1>2, <1>3, <1>4, <1>5, <1>6, <1>7, <1>8 DEF ReleaseNext, ExecutorStep, LoopStep, Threads

----------------------------------------------------------------------------
(* Every version is accounted for, so the bound on them cuts nothing off.    *)

LEMMA OverriddenFinite ==
    ASSUME ReleaseTypes, CallsInv, NEW s \in Submissions
    PROVE  /\ overrides[s] \subseteq OverrideIds /\ Overridden(s) \subseteq OverrideIds
           /\ IsFiniteSet(overrides[s]) /\ IsFiniteSet(Overridden(s))
           /\ Cardinality(overrides[s]) \in Nat /\ Cardinality(Overridden(s)) \in Nat
           /\ Cardinality(Overridden(s)) <= Cardinality(OverrideIds)
           /\ Cardinality(Overridden(s)) <= Cardinality(overrides[s]) + 1
           /\ Cardinality(overrides[s]) <= Cardinality(Overridden(s))
<1>1. overrides[s] \subseteq OverrideIds
  BY DEF ReleaseTypes
<1>2. Overridden(s) \subseteq OverrideIds
  BY <1>1 DEF Overridden, CallsInv, Threads
<1>3. IsFiniteSet(OverrideIds)
  BY SchedulerAssumption
<1>4. /\ IsFiniteSet(overrides[s]) /\ IsFiniteSet(Overridden(s))
      /\ Cardinality(Overridden(s)) <= Cardinality(OverrideIds)
  BY <1>1, <1>2, <1>3, FS_Subset
<1>5. Cardinality(overrides[s]) \in Nat /\ Cardinality(Overridden(s)) \in Nat
  BY <1>4, FS_CardinalityType
<1>6. CASE Overridden(s) = overrides[s]
  BY <1>1, <1>2, <1>4, <1>5, <1>6
<1>7. CASE Overridden(s) = overrides[s] \union {call["loop"].req}
  <2>1. Cardinality(Overridden(s)) \in {Cardinality(overrides[s]), Cardinality(overrides[s]) + 1}
    BY <1>4, <1>7, FS_AddElement
  <2> QED
    BY <1>1, <1>2, <1>4, <1>5, <2>1
<1>8. Overridden(s) = overrides[s] \/ Overridden(s) = overrides[s] \union {call["loop"].req}
  BY DEF Overridden
<1> QED
  BY <1>6, <1>7, <1>8

(* Only an override adds to the accounted ones, and only a crash forgets one. *)
LEMMA OverriddenStep ==
    ASSUME TypeOK, SchedInv, [ReleaseNext]_allVars, NEW s \in Submissions
    PROVE  \/ Overridden(s)' = Overridden(s) /\ crashes' = crashes
           \/ Overrode(s) /\ crashes' = crashes
           \/ ProcessCrash
<1> DEFINE Goal == \/ Overridden(s)' = Overridden(s) /\ crashes' = crashes
                   \/ Overrode(s) /\ crashes' = crashes
                   \/ ProcessCrash
<1> USE DEF SchedInv
<1>o. ASSUME crashes' = crashes, overrides' = overrides,
             call'["loop"] = call["loop"] \/ (call["loop"].at # "overriding" /\ call'["loop"].at # "overriding")
      PROVE  Goal
  BY <1>o DEF Overridden
<1>c. ASSUME UNCHANGED queue \/ QueueRest PROVE crashes' = crashes
  BY <1>c DEF queue, QueueRest, history
<1>1. CASE QueueStep \/ UNCHANGED allVars \/ \E j \in Jobs : JobDue(j) \/ \E r \in Requests : ReplayJob(j, r)
  BY <1>o, <1>1 DEF QueueStep, Poll, Pick, RoundOver, Start, Settle, Succeed, Catch, Fail, FailBury,
     JobDue, BecomeDue, ReplayJob, Replay, allVars, queue, history, scheduler
<1>2. CASE ExecuteReleaseJob \/ FinishStale \/ HandlerEnds \/ TriggerStep("executor")
  <2>1. call'["loop"] = call["loop"]
    BY <1>2 DEF ExecuteReleaseJob, FinishStale, HandlerEnds, TriggerStep, EnterReplay, EnterNotDue,
      EnterDue, CheckPending, MarkPending, Release, ReleaseRefused, FailReported, BuryReported,
      RecordRelease, AnswerTrigger, To, Done, ReleaseTypes, Threads
  <2>2. overrides' = overrides
    BY <1>2 DEF ExecuteReleaseJob, FinishStale, HandlerEnds, TriggerStep, EnterReplay, EnterNotDue,
      EnterDue, CheckPending, MarkPending, Release, ReleaseRefused, FailReported, BuryReported,
      RecordRelease, AnswerTrigger
  <2>3. crashes' = crashes
    BY <1>2, <1>c DEF ExecuteReleaseJob, FinishStale, HandlerEnds, HandlerReturns, HandlerRaises,
      TriggerStep, EnterReplay, EnterNotDue, EnterDue, CheckPending, MarkPending, Release,
      ReleaseRefused, FailReported, BuryReported, RecordRelease, AnswerTrigger, history
  <2> QED
    BY <1>o, <2>1, <2>2, <2>3
<1>3. ASSUME NEW step \in Steps, step # "overriding", call["loop"].at # "overriding", To("loop", step),
             crashes' = crashes, overrides' = overrides
      PROVE  Goal
  <2>1. Moves("loop", step)
    BY <1>3, ToMoves DEF Threads
  <2> QED
    BY <1>o, <1>3, <2>1 DEF Moves
<1>4. ASSUME Done("loop"), call["loop"].at # "overriding", crashes' = crashes, overrides' = overrides
      PROVE  Goal
  <2>1. Ends("loop")
    BY <1>4, DoneEnds DEF Threads
  <2> QED
    BY <1>o, <1>4, <2>1 DEF Ends
<1>5. CASE TriggerStep("loop")
  BY <1>3, <1>5, <1>c DEF TriggerStep, EnterReplay, EnterNotDue, EnterDue, CheckPending, MarkPending,
     Release, ReleaseRefused, FailReported, BuryReported, RecordRelease, AnswerTrigger, At, Steps
<1>6. CASE Plan \/ EnqueueRelease \/ AuditResolve \/ RouteEnds
  BY <1>3, <1>4, <1>6, <1>c DEF Plan, EnqueueRelease, Enqueue, AuditResolve, RouteEnds, At, Steps, history
<1>7. CASE RecordOverride
  <2>1. Moves("loop", "enqueueing")
    BY <1>7, ToMoves DEF RecordOverride, Steps, Threads
  <2>2. call["loop"].at = "overriding" /\ call'["loop"].at = "enqueueing" /\ crashes' = crashes
    BY <1>7, <1>c, <2>1 DEF RecordOverride, At, Moves
  <2>3. overrides'[s] = IF s = call["loop"].sub THEN overrides[s] \union {call["loop"].req} ELSE overrides[s]
    BY <1>7 DEF RecordOverride, Submission, ReleaseTypes
  <2> QED
    BY <2>2, <2>3 DEF Overridden
<1>8. ASSUME NEW u \in Submissions, NEW row \in CallRow,
             row.at # "overriding", call["loop"].at # "overriding",
             call' = [call EXCEPT !["loop"] = row], crashes' = crashes, overrides' = overrides
      PROVE  Goal
  <2>1. call'["loop"] = row
    BY <1>8 DEF ReleaseTypes, Threads
  <2> QED
    BY <1>o, <1>8, <2>1
<1>9. ASSUME NEW u \in Submissions,
             DirectTransition(u) \/ ScheduleDue(u)
             \/ \E r \in TriggerIds, j \in Jobs \union {NoJob}, force \in BOOLEAN :
                  TriggerRoute(u, r, j, force)
      PROVE  Goal
  <2>1. CASE DirectTransition(u) \/ ScheduleDue(u)
    BY <1>o, <1>c, <2>1 DEF DirectTransition, ScheduleDue
  <2>2. ASSUME NEW r \in TriggerIds, NEW j \in Jobs \union {NoJob}, NEW force \in BOOLEAN,
               TriggerRoute(u, r, j, force)
        PROVE  Goal
    <3> DEFINE row == [at |-> "entering", sub |-> u, req |-> r, job |-> j, forced |-> force, fresh |-> FALSE]
    <3>1. row \in CallRow /\ row.at # "overriding"
      BY DEF CallRow, Steps, Asked
    <3>2. call["loop"].at # "overriding" /\ call' = [call EXCEPT !["loop"] = row]
          /\ UNCHANGED <<queue, overrides>>
      BY <2>2 DEF TriggerRoute, At
    <3> HIDE DEF row
    <3> QED
      BY <1>8, <1>c, <3>1, <3>2
  <2> QED
    BY <1>9, <2>1, <2>2
<1>10. ASSUME NEW u \in Submissions, Resolve(u) PROVE Goal
  <2>1. PICK step \in {"planning", "enqueueing"}, fresh \in BOOLEAN : StartResolve(u, step, fresh)
    BY <1>10 DEF Resolve
  <2> DEFINE row == [Absent EXCEPT !.at = step, !.sub = u, !.fresh = fresh]
  <2>2. row \in CallRow /\ row.at # "overriding"
    BY DEF Absent, CallRow, Steps, Asked
  <2>3. call' = [call EXCEPT !["loop"] = row]
    BY <2>1 DEF StartResolve
  <2>4. call["loop"].at # "overriding" /\ UNCHANGED <<queue, overrides>>
    BY <1>10 DEF Resolve, At
  <2> HIDE DEF row
  <2> QED
    BY <1>8, <1>c, <2>2, <2>3, <2>4
<1>11. ASSUME NEW u \in Submissions, NEW o \in OverrideIds, Override(u, o) PROVE Goal
  <2>0. call["loop"].at = "out" /\ UNCHANGED <<queue, overrides>>
    BY <1>11 DEF Override, At
  <2>1. CASE call' = [call EXCEPT !["loop"] = [Absent EXCEPT !.at = "enqueueing", !.sub = u]]
    <3> DEFINE row == [Absent EXCEPT !.at = "enqueueing", !.sub = u]
    <3>1. row \in CallRow /\ row.at # "overriding"
      BY DEF Absent, CallRow, Steps, Asked
    <3> HIDE DEF row
    <3>2. call' = [call EXCEPT !["loop"] = row]
      BY <2>1 DEF row
    <3> QED
      BY <1>8, <1>c, <2>0, <3>1, <3>2
  <2>2. CASE /\ o \notin overrides[u]
             /\ \E due \in BOOLEAN : Upsert(u, [schedule[u] EXCEPT !.due = due, !.manual = TRUE])
             /\ call' = [call EXCEPT !["loop"] =
                           [Absent EXCEPT !.at = "overriding", !.sub = u, !.req = o]]
    <3> DEFINE begun == [Absent EXCEPT !.at = "overriding", !.sub = u, !.req = o]
    <3>1. begun.at = "overriding" /\ begun.sub = u /\ begun.req = o
      BY DEF Absent
    <3>2. call'["loop"] = begun
      BY <2>2 DEF ReleaseTypes, Threads
    <3> HIDE DEF begun
    <3>3. CASE u # s
      BY <1>c, <2>0, <3>1, <3>2, <3>3 DEF Overridden
    <3>4. CASE u = s
      <4>1. PICK due \in BOOLEAN : Upsert(s, [schedule[s] EXCEPT !.due = due, !.manual = TRUE])
        BY <2>2, <3>4
      <4> DEFINE row == [schedule[s] EXCEPT !.due = due, !.manual = TRUE]
      <4>2. schedule[s] \in ScheduleRow
        BY DEF ReleaseTypes
      <4>3. row \in ScheduleRow /\ row.version = schedule[s].version /\ row.triggered = schedule[s].triggered
        BY <4>2 DEF ScheduleRow
      <4>4. Writes(s, row)
        BY <4>1, <4>3, UpsertWrites
      <4>5. schedule[s].version > 0
        BY <1>11, <3>4 DEF Override
      <4> HIDE DEF row
      <4> QED
        BY <1>11, <1>c, <2>0, <2>2, <3>1, <3>2, <3>4, <4>3, <4>4, <4>5 DEF Overrode, Writes
    <3> QED
      BY <3>3, <3>4
  <2> QED
    BY <1>11, <2>1, <2>2 DEF Override
<1> QED
  BY <1>1, <1>2, <1>5, <1>6, <1>7, <1>9, <1>10, <1>11 DEF ReleaseNext, ExecutorStep, LoopStep

LEMMA VersionNext ==
    ASSUME TypeOK, SchedInv, SchedInv', VersionInv, [ReleaseNext]_allVars
    PROVE  VersionInv'
<1> SUFFICES ASSUME NEW s \in Submissions
             PROVE  /\ crashes' <= MaxCrashes
                    /\ schedule'[s].version <= Cardinality(Overridden(s)') + crashes' + 1
                                               + (IF schedule'[s].triggered THEN 1 ELSE 0)
  BY DEF VersionInv
<1>1. /\ crashes \in Nat /\ MaxCrashes \in Nat /\ crashes <= MaxCrashes
      /\ schedule[s].version \in Nat /\ schedule'[s].version \in Nat
      /\ schedule[s].triggered \in BOOLEAN /\ schedule'[s].triggered \in BOOLEAN
      /\ schedule[s].version <= Cardinality(Overridden(s)) + crashes + 1
                                + (IF schedule[s].triggered THEN 1 ELSE 0)
  BY JobsAssumption DEF TypeOK, VersionInv, SchedInv, ReleaseTypes, ScheduleRow
<1>2. /\ Cardinality(overrides[s]) \in Nat /\ Cardinality(Overridden(s)) \in Nat
      /\ Cardinality(Overridden(s)) <= Cardinality(overrides[s]) + 1
      /\ IsFiniteSet(overrides[s])
  BY OverriddenFinite DEF SchedInv
<1>3. CASE Overrode(s) /\ crashes' = crashes
  <2>1. PICK o \in OverrideIds :
          /\ Override(s, o) /\ o \notin overrides[s]
          /\ call["loop"].at = "out" /\ call'["loop"].at = "overriding"
          /\ call'["loop"].sub = s /\ call'["loop"].req = o
          /\ schedule'[s].version = schedule[s].version + 1
          /\ schedule'[s].triggered = schedule[s].triggered
    BY <1>3 DEF Overrode
  <2>2. overrides' = overrides
    BY <2>1 DEF Override
  <2>3. Overridden(s)' = overrides[s] \union {o} /\ Overridden(s) = overrides[s]
    BY <2>1, <2>2 DEF Overridden
  <2>4. Cardinality(Overridden(s)') = Cardinality(Overridden(s)) + 1
    BY <1>2, <2>1, <2>3, FS_AddElement
  <2> QED
    BY <1>1, <1>2, <1>3, <2>1, <2>4
<1>4. CASE Overridden(s)' = Overridden(s) /\ crashes' = crashes /\ ~Overrode(s)
  <2>1. Cardinality(Overridden(s)') = Cardinality(Overridden(s))
    BY <1>4
  <2>2. CASE Kept(s)
    BY <1>1, <1>2, <1>4, <2>1, <2>2 DEF Kept
  <2>3. CASE Planned(s)
    BY <1>1, <1>2, <1>4, <2>1, <2>3 DEF Planned
  <2>4. CASE MarkedTriggered(s)
    BY <1>1, <1>2, <1>4, <2>1, <2>4 DEF MarkedTriggered
  <2> QED
    BY <1>4, <2>2, <2>3, <2>4, ScheduleStep
<1>5. CASE ProcessCrash
  <2>1. /\ crashes < MaxCrashes /\ crashes' = crashes + 1
        /\ UNCHANGED <<schedule, overrides>>
        /\ call'["loop"] = Absent
    BY <1>5 DEF ProcessCrash, Crash, Threads
  <2>2. Overridden(s)' = overrides[s]
    BY <2>1 DEF Overridden, Absent
  <2>3. Cardinality(Overridden(s)') = Cardinality(overrides[s])
    BY <2>2
  <2> QED
    BY <1>1, <1>2, <2>1, <2>3
<1> QED
  BY <1>3, <1>4, <1>5, OverriddenStep

(* The job of a schedule's version is one of Jobs. *)
LEMMA JobForIsJob ==
    ASSUME TypeOK, SchedInv, VersionInv, NEW s \in Submissions, schedule[s].version > 0
    PROVE  JobFor(s) \in Jobs
<1>1. /\ crashes \in Nat /\ MaxCrashes \in Nat /\ crashes <= MaxCrashes
      /\ schedule[s].version \in Nat /\ MaxVersion \in Nat
      /\ MaxVersion >= Cardinality(OverrideIds) + MaxCrashes + 2
      /\ schedule[s].version <= Cardinality(Overridden(s)) + crashes + 1
                                + (IF schedule[s].triggered THEN 1 ELSE 0)
  BY JobsAssumption, SchedulerAssumption DEF TypeOK, VersionInv, SchedInv, ReleaseTypes, ScheduleRow
<1>2. /\ Cardinality(Overridden(s)) \in Nat
      /\ Cardinality(Overridden(s)) <= Cardinality(OverrideIds)
  BY OverriddenFinite DEF SchedInv
<1>3. Cardinality(OverrideIds) \in Nat
  BY SchedulerAssumption, FS_CardinalityType
<1>4. schedule[s].version <= MaxVersion
  BY <1>1, <1>2, <1>3
<1> QED
  BY <1>1, <1>4, SchedulerAssumption DEF JobFor

----------------------------------------------------------------------------
(* The jobs in anyone's hands stay known ones.                               *)

(* The rows there are: enqueueing adds one. *)
LEMMA RowsStep ==
    ASSUME TypeOK, SchedInv, KnownInv, [ReleaseNext]_allVars, NEW j \in Jobs
    PROVE  \/ Present(j)' <=> Present(j)
           \/ EnqueueRelease /\ j = JobFor(call["loop"].sub) /\ Present(j)'
<1>k. job \in [Jobs -> JobRow]
  BY DEF TypeOK, JobRow
<1>1. ASSUME NEW k \in Jobs, Present(k), Touches(k) \/ job' = job
      PROVE  Present(j)' <=> Present(j)
  BY <1>1 DEF Present, Touches
<1>2. ASSUME job' = job PROVE Present(j)' <=> Present(j)
  BY <1>2 DEF Present
<1>3. CASE QueueStep
  <2>1. job' = job \/ (cur.executor \in Jobs /\ Touches(cur.executor))
    BY <1>3, QueueStepEffect DEF Poll, Pick, tables
  <2>2. cur.executor \in Jobs => Present(cur.executor)
    BY DEF KnownInv, Present
  <2> QED
    BY <1>1, <1>2, <2>1, <2>2
<1>4. ASSUME NEW t \in Threads, TriggerStep(t) PROVE Present(j)' <=> Present(j)
  <2>1. CASE UNCHANGED vars
    BY <1>2, <2>1 DEF vars, tables
  <2>2. CASE MarkPending(t)
    <3>1. call[t].job \in Jobs /\ Present(call[t].job)
      BY <2>2 DEF MarkPending, At, SchedInv, CallsInv, KnownInv, Present
    <3>2. Touches(call[t].job)
      BY <2>2, <3>1, MarkTouches DEF MarkPending
    <3> QED
      BY <1>1, <3>1, <3>2
  <2>3. CASE FailReported(t) \/ BuryReported(t)
    <3>1. call[t].job \in Jobs /\ Present(call[t].job)
      BY <2>3 DEF FailReported, BuryReported, At, SchedInv, CallsInv, KnownInv, Present
    <3>2. FALSE \in BOOLEAN
      OBVIOUS
    <3>3. Touches(call[t].job) \/ job' = job
      BY <2>3, <3>1, <3>2, FailTouches DEF FailReported, BuryReported
    <3> QED
      BY <1>1, <3>1, <3>3
  <2>4. CASE AnswerTrigger(t) /\ call[t].job # NoJob
    <3>1. call[t].job \in Jobs /\ Present(call[t].job)
      BY <2>4 DEF SchedInv, ReleaseTypes, CallRow, KnownInv, Present
    <3>2. Touches(call[t].job)
      BY <2>4, <3>1, MarkTouches DEF AnswerTrigger
    <3> QED
      BY <1>1, <3>1, <3>2
  <2>5. CASE AnswerTrigger(t) /\ call[t].job = NoJob
    BY <1>2, <2>5 DEF AnswerTrigger
  <2>6. CASE EnterReplay(t) \/ EnterNotDue(t) \/ EnterDue(t) \/ CheckPending(t)
             \/ Release(t) \/ ReleaseRefused(t) \/ RecordRelease(t)
    BY <1>2, <2>6 DEF EnterReplay, EnterNotDue, EnterDue, CheckPending, Release, ReleaseRefused,
       RecordRelease, queue, tables
  <2> QED
    BY <1>4, <2>2, <2>3, <2>4, <2>5, <2>6 DEF TriggerStep
<1>5. CASE FinishStale
  <2>1. cur.executor \in Jobs
    BY <1>5, JobsAssumption DEF FinishStale, At, SchedInv, CallsInv, TypeOK
  <2>2. Touches(cur.executor) /\ Present(cur.executor)
    BY <1>5, <2>1, MarkTouches DEF FinishStale, KnownInv, Present
  <2> QED
    BY <1>1, <2>1, <2>2
<1>6. CASE EnqueueRelease
  <2> DEFINE k == JobFor(call["loop"].sub)
  <2>1. PICK due \in BOOLEAN :
          job' = [job EXCEPT ![k] =
            [status |-> "QUEUED", attempts |-> 0, due |-> due,
             age |-> Cardinality({i \in Jobs : job[i].status # "ABSENT"}) + 1]]
    BY <1>6 DEF EnqueueRelease, Enqueue, Submission
  <2> HIDE DEF k
  <2>2. CASE j = k
    BY <1>6, <1>k, <2>1, <2>2 DEF Present, k
  <2>3. CASE j # k
    BY <1>k, <2>1, <2>3 DEF Present
  <2> QED
    BY <2>2, <2>3
<1>7. ASSUME NEW k \in Jobs, JobDue(k) \/ \E r \in Requests : ReplayJob(k, r)
      PROVE  Present(j)' <=> Present(j)
  BY <1>k, <1>7 DEF JobDue, BecomeDue, ReplayJob, Replay, Present, JobRow, Pending
<1>8. CASE UNCHANGED allVars \/ ExecuteReleaseJob \/ HandlerEnds \/ Plan \/ RecordOverride
           \/ AuditResolve \/ RouteEnds \/ ProcessCrash
  BY <1>2, <1>8 DEF allVars, queue, tables, ExecuteReleaseJob, HandlerEnds, HandlerReturns,
     HandlerRaises, Plan, RecordOverride, AuditResolve, RouteEnds, ProcessCrash, Crash
<1>9. ASSUME NEW s \in Submissions,
             Resolve(s) \/ DirectTransition(s) \/ ScheduleDue(s)
             \/ (\E o \in OverrideIds : Override(s, o))
             \/ \E r \in TriggerIds, k \in Jobs \union {NoJob}, force \in BOOLEAN :
                  TriggerRoute(s, r, k, force)
      PROVE  Present(j)' <=> Present(j)
  BY <1>2, <1>9 DEF Resolve, DirectTransition, ScheduleDue, Override, TriggerRoute, queue, tables
<1> QED
  BY <1>3, <1>4, <1>5, <1>6, <1>7, <1>8, <1>9 DEF ReleaseNext, ExecutorStep, LoopStep, Threads

(* The jobs in hand: the snapshot's come from the table, the executor's from *)
(* the snapshot, a call's from the executor or from the table.               *)
LEMMA BatchStep ==
    ASSUME TypeOK, [ReleaseNext]_allVars, NEW j \in batch'
    PROVE  j \in batch \/ (j \in Jobs /\ Present(j))
<1>1. CASE QueueStep
  BY <1>1, QueueStepEffect DEF Poll, Due, Pick, Start, Present, Pending
<1>2. ASSUME batch' = batch \/ batch' = {} PROVE j \in batch
  BY <1>2
<1>3. UNCHANGED queue \/ UNCHANGED threads => batch' = batch
  BY DEF queue, threads
<1>4. ASSUME NEW t \in Threads, TriggerStep(t) PROVE j \in batch
  BY <1>2, <1>3, <1>4 DEF TriggerStep, EnterReplay, EnterNotDue, EnterDue, CheckPending, MarkPending,
     Release, ReleaseRefused, FailReported, BuryReported, RecordRelease, AnswerTrigger, QueueRest
<1>5. CASE UNCHANGED allVars \/ ExecuteReleaseJob \/ FinishStale \/ HandlerEnds \/ EnqueueRelease
           \/ Plan \/ RecordOverride \/ AuditResolve \/ RouteEnds \/ ProcessCrash
  BY <1>2, <1>3, <1>5 DEF allVars, ExecuteReleaseJob, FinishStale, QueueRest, HandlerEnds,
     HandlerReturns, HandlerRaises, EnqueueRelease, Enqueue, Plan, RecordOverride, AuditResolve,
     RouteEnds, ProcessCrash, Crash
<1>6. ASSUME NEW s \in Submissions,
             Resolve(s) \/ DirectTransition(s) \/ ScheduleDue(s)
             \/ (\E o \in OverrideIds : Override(s, o))
             \/ \E r \in TriggerIds, k \in Jobs \union {NoJob}, force \in BOOLEAN :
                  TriggerRoute(s, r, k, force)
      PROVE  j \in batch
  BY <1>2, <1>3, <1>6 DEF Resolve, DirectTransition, ScheduleDue, Override, TriggerRoute
<1>7. ASSUME NEW k \in Jobs, JobDue(k) \/ \E r \in Requests : ReplayJob(k, r) PROVE j \in batch
  BY <1>2, <1>3, <1>7 DEF JobDue, BecomeDue, ReplayJob, Replay
<1> QED
  BY <1>1, <1>4, <1>5, <1>6, <1>7 DEF ReleaseNext, ExecutorStep, LoopStep, Threads

LEMMA CurStep ==
    ASSUME TypeOK, [ReleaseNext]_allVars
    PROVE  cur'.executor \in {cur.executor, NoJob} \/ cur'.executor \in batch
<1> DEFINE Goal == cur'.executor \in {cur.executor, NoJob} \/ cur'.executor \in batch
<1>c. cur \in [executor : Jobs \union {NoJob}, loop : Jobs \union {NoJob}]
  BY DEF TypeOK
<1>1. CASE QueueStep
  <2>1. Pick => Goal
    BY <1>c DEF Pick
  <2> QED
    BY <1>1, <2>1, QueueStepEffect DEF Poll, Start
<1>2. ASSUME cur' = cur PROVE Goal
  BY <1>2
<1>3. UNCHANGED queue \/ UNCHANGED threads => cur' = cur
  BY DEF queue, threads
<1>4. ASSUME NEW t \in Threads, TriggerStep(t) PROVE Goal
  BY <1>2, <1>3, <1>4 DEF TriggerStep, EnterReplay, EnterNotDue, EnterDue, CheckPending, MarkPending,
     Release, ReleaseRefused, FailReported, BuryReported, RecordRelease, AnswerTrigger, QueueRest
<1>5. CASE UNCHANGED allVars \/ ExecuteReleaseJob \/ FinishStale \/ HandlerEnds \/ EnqueueRelease
           \/ Plan \/ RecordOverride \/ AuditResolve \/ RouteEnds
  BY <1>2, <1>3, <1>5 DEF allVars, ExecuteReleaseJob, FinishStale, QueueRest, HandlerEnds,
     HandlerReturns, HandlerRaises, EnqueueRelease, Enqueue, Plan, RecordOverride, AuditResolve,
     RouteEnds
<1>6. CASE ProcessCrash
  BY <1>6 DEF ProcessCrash, Crash
<1>7. ASSUME NEW s \in Submissions,
             Resolve(s) \/ DirectTransition(s) \/ ScheduleDue(s)
             \/ (\E o \in OverrideIds : Override(s, o))
             \/ \E r \in TriggerIds, k \in Jobs \union {NoJob}, force \in BOOLEAN :
                  TriggerRoute(s, r, k, force)
      PROVE  Goal
  BY <1>2, <1>3, <1>7 DEF Resolve, DirectTransition, ScheduleDue, Override, TriggerRoute
<1>8. ASSUME NEW k \in Jobs, JobDue(k) \/ \E r \in Requests : ReplayJob(k, r) PROVE Goal
  BY <1>2, <1>3, <1>8 DEF JobDue, BecomeDue, ReplayJob, Replay
<1> QED
  BY <1>1, <1>4, <1>5, <1>6, <1>7, <1>8 DEF ReleaseNext, ExecutorStep, LoopStep, Threads

LEMMA CallJobsStep ==
    ASSUME TypeOK, SchedInv, [ReleaseNext]_allVars, NEW t \in Threads
    PROVE  \/ call'[t].job \in {call[t].job, NoJob}
           \/ call'[t].job = cur.executor /\ pc.executor = "handling"
           \/ Present(call'[t].job)
<1> DEFINE Goal == \/ call'[t].job \in {call[t].job, NoJob}
                   \/ call'[t].job = cur.executor /\ pc.executor = "handling"
                   \/ Present(call'[t].job)
<1> USE DEF SchedInv
<1>1. ASSUME call' = call PROVE Goal
  BY <1>1
<1>2. ASSUME NEW u \in Threads, NEW step \in Steps, To(u, step) PROVE Goal
  BY <1>2, ToMoves DEF Moves
<1>3. ASSUME NEW u \in Threads, Done(u) PROVE Goal
  BY <1>3, DoneEnds DEF Ends
<1>4. ASSUME NEW u \in Threads, NEW row \in CallRow, call' = [call EXCEPT ![u] = row],
             \/ row.job = NoJob \/ Present(row.job)
             \/ row.job = cur.executor /\ pc.executor = "handling"
      PROVE  Goal
  <2>1. t = u => call'[t] = row
    BY <1>4 DEF ReleaseTypes
  <2>2. t # u => call'[t] = call[t]
    BY <1>4 DEF ReleaseTypes
  <2> QED
    BY <1>4, <2>1, <2>2
<1>5. ASSUME NEW u \in Threads, TriggerStep(u) PROVE Goal
  BY <1>2, <1>5 DEF TriggerStep, EnterReplay, EnterNotDue, EnterDue, CheckPending, MarkPending,
     Release, ReleaseRefused, FailReported, BuryReported, RecordRelease, AnswerTrigger, Steps
<1>6. CASE QueueStep \/ UNCHANGED allVars \/ \E j \in Jobs : JobDue(j) \/ \E r \in Requests : ReplayJob(j, r)
  BY <1>1, <1>6 DEF QueueStep, JobDue, ReplayJob, allVars, scheduler
<1>7. CASE FinishStale \/ HandlerEnds \/ EnqueueRelease \/ AuditResolve \/ RouteEnds
           \/ Plan \/ RecordOverride
  BY <1>2, <1>3, <1>7 DEF FinishStale, HandlerEnds, EnqueueRelease, AuditResolve, RouteEnds, Plan,
     RecordOverride, Steps, Threads
<1>8. CASE ExecuteReleaseJob
  <2> DEFINE j == cur.executor
             step == IF schedule[j[1]].version = j[2] THEN "entering" ELSE "stale"
             row == [at |-> step, sub |-> j[1], req |-> j, job |-> j, forced |-> FALSE, fresh |-> FALSE]
  <2>1. j \in Jobs
    BY <1>8, JobsAssumption DEF ExecuteReleaseJob, TypeOK
  <2>2. row \in CallRow /\ row.job = cur.executor
    BY <2>1, SchedulerAssumption DEF CallRow, Steps, Asked
  <2>3. call' = [call EXCEPT !["executor"] = row] /\ pc.executor = "handling"
    BY <1>8 DEF ExecuteReleaseJob
  <2> HIDE DEF row
  <2> QED
    BY <1>4, <2>2, <2>3 DEF Threads
<1>9. ASSUME NEW s \in Submissions, Resolve(s) PROVE Goal
  <2>1. PICK step \in {"planning", "enqueueing"}, fresh \in BOOLEAN : StartResolve(s, step, fresh)
    BY <1>9 DEF Resolve
  <2> DEFINE row == [Absent EXCEPT !.at = step, !.sub = s, !.fresh = fresh]
  <2>2. row \in CallRow /\ row.job = NoJob
    BY DEF Absent, CallRow, Steps, Asked
  <2>3. call' = [call EXCEPT !["loop"] = row]
    BY <2>1 DEF StartResolve
  <2> HIDE DEF row
  <2> QED
    BY <1>4, <2>2, <2>3 DEF Threads
<1>10. ASSUME NEW s \in Submissions, NEW o \in OverrideIds, Override(s, o) PROVE Goal
  <2> DEFINE first == [Absent EXCEPT !.at = "overriding", !.sub = s, !.req = o]
             again == [Absent EXCEPT !.at = "enqueueing", !.sub = s]
  <2>1. first \in CallRow /\ first.job = NoJob /\ again \in CallRow /\ again.job = NoJob
    BY DEF Absent, CallRow, Steps, Asked
  <2>2. call' = [call EXCEPT !["loop"] = first] \/ call' = [call EXCEPT !["loop"] = again]
    BY <1>10 DEF Override
  <2> HIDE DEF first, again
  <2> QED
    BY <1>4, <2>1, <2>2 DEF Threads
<1>11. ASSUME NEW s \in Submissions, NEW r \in TriggerIds, NEW j \in Jobs \union {NoJob},
              NEW force \in BOOLEAN, TriggerRoute(s, r, j, force)
       PROVE  Goal
  <2> DEFINE row == [at |-> "entering", sub |-> s, req |-> r, job |-> j, forced |-> force, fresh |-> FALSE]
  <2>1. row \in CallRow /\ row.job = j
    BY DEF CallRow, Steps, Asked
  <2>2. call' = [call EXCEPT !["loop"] = row] /\ (j # NoJob => Present(j))
    BY <1>11 DEF TriggerRoute, Present
  <2> HIDE DEF row
  <2> QED
    BY <1>4, <2>1, <2>2 DEF Threads
<1>12. ASSUME NEW s \in Submissions, DirectTransition(s) \/ ScheduleDue(s) PROVE Goal
  BY <1>1, <1>12 DEF DirectTransition, ScheduleDue
<1>13. CASE ProcessCrash
  BY <1>13 DEF ProcessCrash, Absent
<1> QED
  BY <1>5, <1>6, <1>7, <1>8, <1>9, <1>10, <1>11, <1>12, <1>13 DEF ReleaseNext, ExecutorStep, LoopStep, Threads

LEMMA KnownNext ==
    ASSUME TypeOK, TypeOK', SchedInv, SchedInv', KnownInv, [ReleaseNext]_allVars
    PROVE  KnownInv'
<1>1. ASSUME NEW s \in Submissions, NEW v \in 1..MaxVersion, Present(<<s, v>>)'
      PROVE  v <= schedule'[s].version
  <2>1. <<s, v>> \in Jobs
    BY SchedulerAssumption
  <2>2. schedule[s].version \in Nat /\ schedule'[s].version \in Nat
        /\ v \in Nat /\ schedule[s].version <= schedule'[s].version
    BY ScheduleStep, SchedulerAssumption
       DEF SchedInv, ReleaseTypes, ScheduleRow, Kept, Planned, Overrode, MarkedTriggered
  <2>3. CASE Present(<<s, v>>)
    BY <2>2, <2>3 DEF KnownInv, Present
  <2>4. CASE EnqueueRelease /\ <<s, v>> = JobFor(call["loop"].sub)
    BY <2>2, <2>4 DEF JobFor
  <2> QED
    BY <1>1, <2>1, <2>3, <2>4, RowsStep
<1>2. ASSUME NEW j \in Jobs, Present(j) PROVE Present(j)'
  BY <1>2, RowsStep
<1>3. ASSUME NEW j \in batch' PROVE Present(j)'
  <2>1. j \in Jobs
    BY DEF TypeOK
  <2>2. Present(j)
    BY BatchStep DEF KnownInv, Present
  <2> QED
    BY <1>2, <2>1, <2>2
<1>4. ASSUME cur'.executor \in Jobs PROVE job'[cur'.executor].status # "ABSENT"
  <2>1. Present(cur'.executor)
    BY <1>4, CurStep, JobsAssumption DEF KnownInv, Present
  <2> QED
    BY <1>2, <1>4, <2>1 DEF Present
<1>5. ASSUME NEW t \in Threads, call'[t].job \in Jobs PROVE job'[call'[t].job].status # "ABSENT"
  <2>1. Present(call'[t].job)
    BY <1>5, CallJobsStep, JobsAssumption DEF KnownInv, Present
  <2> QED
    BY <1>2, <1>5, <2>1 DEF Present
<1> QED
  BY <1>1, <1>3, <1>4, <1>5 DEF KnownInv, Present

----------------------------------------------------------------------------
(* A schedule that is still to be released keeps somebody who sees to it.    *)

(* What holds around a step that leaves the schedule's version alone. *)
Waits(s) ==
  /\ TypeOK /\ TypeOK' /\ SchedInv /\ SchedInv' /\ KnownInv
  /\ s \in Submissions /\ JobFor(s) \in Jobs
  /\ ToRelease(s) /\ ToRelease(s)' /\ SeenTo(s) /\ Kept(s)

LEMMA WaitsSame ==
    ASSUME NEW s, Waits(s)
    PROVE  /\ JobFor(s)' = JobFor(s) /\ JobFor(s)[1] = s
           /\ schedule[s].due => schedule'[s].due
           /\ Ready(JobFor(s)) => schedule[s].due
BY DEF Waits, JobFor, Kept, SeenTo

(* The executor's call while it runs the schedule's job is about it. *)
LEMMA ExecutorIsAbout ==
    ASSUME NEW s, Waits(s), cur.executor = JobFor(s), call["executor"].at # "out"
    PROVE  call["executor"].sub = s /\ call["executor"].job = JobFor(s)
BY WaitsSame DEF Waits, SchedInv, CallsInv, Threads

(* A call that moves on, and what it must see to. *)
LEMMA MoveSees ==
    ASSUME NEW s, Waits(s), NEW t \in Threads, NEW step \in Steps, Moves(t, step),
           UNCHANGED <<pc, cur, batch>>,
           call[t].at \notin {"out", "overriding", "enqueueing"},
           \/ job'[JobFor(s)] = job[JobFor(s)]
           \/ job'[JobFor(s)].status = "RUNNING" /\ call[t].job = JobFor(s) /\ step = "releasing",
           call[t].sub = s => step \notin Closing,
           t = "executor" /\ cur.executor = JobFor(s) => step \in Trying,
           t = "loop" /\ LoopReleases(JobFor(s)) => step \in {"releasing", "recording"}
    PROVE  SeenTo(s)'
<1> DEFINE j == JobFor(s)
<1>1. j' = j /\ j[1] = s /\ (schedule[s].due => schedule'[s].due) /\ (Ready(j) => schedule[s].due)
  BY WaitsSame
<1>2. \A u \in Threads : u # t => call'[u] = call[u]
  BY DEF Moves
<1>3. call'[t].at = step /\ call'[t].sub = call[t].sub /\ call'[t].job = call[t].job
  BY DEF Moves
<1>4. Enqueueing(s)' \/ HasJob(j)'
  <2> HIDE DEF j
  <2>1. CASE Enqueueing(s)
    BY <1>2, <2>1 DEF Enqueueing, Threads
  <2>2. CASE HasJob(j) /\ job'[j] = job[j]
    BY <1>1, <1>2, <1>3, <2>2 DEF HasJob, LoopReleases, Threads, j
  <2>3. CASE job'[j].status = "RUNNING" /\ call[t].job = j /\ step = "releasing"
    <3>1. t = "executor" => cur.executor = j
      BY <2>3 DEF Waits, SchedInv, CallsInv
    <3> QED
      BY <1>1, <1>3, <2>3, <3>1 DEF HasJob, LoopReleases, Threads
  <2> QED
    BY <2>1, <2>2, <2>3 DEF Waits, SeenTo, j
<1>5. Ready(j)' => Ready(j)
  <2> HIDE DEF j
  <2> QED
    BY <1>1 DEF Ready, Pending, j
<1>6. cur'.executor = j => pc'.executor \in {"starting", "handling"} /\ call'["executor"].at \in Trying
  BY <1>2, <1>3 DEF Waits, SeenTo, Threads
<1>7. \A u \in Threads : call'[u].sub = s => call'[u].at \notin Closing
  BY <1>2, <1>3 DEF Waits, SeenTo
<1> QED
  BY <1>1, <1>4, <1>5, <1>6, <1>7 DEF SeenTo

(* A call of the loop that begins or ends, the queue left alone. *)
LEMMA LoopSees ==
    ASSUME NEW s, Waits(s), UNCHANGED <<pc, cur, batch>>, job'[JobFor(s)] = job[JobFor(s)],
           call'["executor"] = call["executor"],
           Enqueueing(s) => Enqueueing(s)',
           ~LoopReleases(JobFor(s)),
           call'["loop"].sub = s => call'["loop"].at \notin Closing
    PROVE  SeenTo(s)'
<1> DEFINE j == JobFor(s)
<1>1. j' = j /\ (schedule[s].due => schedule'[s].due) /\ (Ready(j) => schedule[s].due)
  BY WaitsSame
<1>2. Enqueueing(s)' \/ HasJob(j)'
  <2> HIDE DEF j
  <2> QED
    BY <1>1 DEF Waits, SeenTo, HasJob, j
<1>3. Ready(j)' => Ready(j)
  <2> HIDE DEF j
  <2> QED
    BY <1>1 DEF Ready, j
<1>4. cur'.executor = j => pc'.executor \in {"starting", "handling"} /\ call'["executor"].at \in Trying
  BY DEF Waits, SeenTo
<1>5. \A u \in Threads : call'[u].sub = s => call'[u].at \notin Closing
  BY DEF Waits, SeenTo, Threads
<1> QED
  BY <1>1, <1>2, <1>3, <1>4, <1>5 DEF SeenTo

(* The steps of a trigger call. *)
LEMMA TriggerSees ==
    ASSUME NEW s, Waits(s), NEW t \in Threads, TriggerStep(t)
    PROVE  SeenTo(s)'
<1> DEFINE j == JobFor(s)
<1>s. TypeOK /\ SchedInv /\ ReleaseTypes /\ CallsInv /\ ToRelease(s) /\ ToRelease(s)' /\ SeenTo(s)
      /\ s \in Submissions /\ j \in Jobs
  BY DEF Waits, SchedInv
<1>w. j[1] = s /\ (Ready(j) => schedule[s].due)
  BY WaitsSame
<1>e. t = "executor" /\ cur.executor = j /\ call[t].at # "out" => call[t].sub = s
  BY ExecutorIsAbout
<1>l. call[t].job = j => call[t].sub = s
  BY <1>s, <1>w DEF CallsInv
<1>q. UNCHANGED queue => UNCHANGED <<pc, cur, batch>> /\ job' = job
  BY DEF queue, tables, threads
<1>r. QueueRest => UNCHANGED <<pc, cur, batch>>
  BY DEF QueueRest, threads
<1> HIDE DEF j
<1>1. CASE EnterNotDue(t)
  <2>1. Moves(t, "raising") /\ call[t].at = "entering" /\ UNCHANGED queue
    BY <1>1, <1>s, ToMoves DEF EnterNotDue, At, Steps
  <2>2. ~(t = "executor" /\ cur.executor = j)
    <3>1. ASSUME t = "executor", cur.executor = j PROVE FALSE
      <4>1. call[t].sub = s /\ schedule[s].due
        BY <1>e, <1>w, <2>1, <3>1 DEF Ready
      <4>2. ~schedule[s].due
        BY <1>1, <4>1 DEF EnterNotDue, Submission
      <4> QED
        BY <4>1, <4>2
    <3> QED
      BY <3>1
  <2> QED
    BY <1>q, <2>1, <2>2, MoveSees DEF Steps, Closing, LoopReleases, j
<1>2. CASE EnterDue(t)
  <2>1. Moves(t, "checking") /\ call[t].at = "entering" /\ UNCHANGED queue
    BY <1>2, <1>s, ToMoves DEF EnterDue, At, Steps
  <2> QED
    BY <1>q, <2>1, MoveSees DEF Steps, Closing, Trying, LoopReleases, j
<1>3. CASE CheckPending(t)
  <2>1. PICK step \in {"marking", "releasing"} : To(t, step)
    BY <1>3 DEF CheckPending
  <2>2. Moves(t, step) /\ call[t].at = "checking" /\ UNCHANGED queue /\ step \in Steps
    BY <1>3, <1>s, <2>1, ToMoves DEF CheckPending, At, Steps
  <2> QED
    BY <1>q, <2>1, <2>2, MoveSees DEF Closing, Trying, LoopReleases, j
<1>4. CASE MarkPending(t)
  <2>1. Moves(t, "releasing") /\ call[t].at = "marking" /\ QueueRest
    BY <1>4, <1>s, ToMoves DEF MarkPending, At, Steps
  <2>2. call[t].job \in Jobs /\ job \in [Jobs -> JobRow]
    BY <1>s, <2>1 DEF CallsInv, TypeOK, JobRow
  <2>3. job'[j] = job[j] \/ (job'[j].status = "RUNNING" /\ call[t].job = j)
    BY <1>4, <1>s, <2>2 DEF MarkPending, MarkRunning, JobRow
  <2> QED
    BY <1>r, <2>1, <2>3, MoveSees DEF Steps, Closing, Trying, LoopReleases, j
<1>5. CASE Release(t)
  <2>1. Moves(t, "recording") /\ call[t].at = "releasing" /\ UNCHANGED queue
    BY <1>5, <1>s, ToMoves DEF Release, At, Steps
  <2> QED
    BY <1>q, <2>1, MoveSees DEF Steps, Closing, Trying, LoopReleases, j
<1>6. CASE ReleaseRefused(t)
  <2>1. PICK step \in {"refused", "failing"} : To(t, step)
    BY <1>6 DEF ReleaseRefused
  <2>2. Moves(t, step) /\ call[t].at = "releasing" /\ UNCHANGED queue /\ step \in Steps
    BY <1>6, <1>s, <2>1, ToMoves DEF ReleaseRefused, At, Steps
  <2>3. call[t].sub # s
    <3>1. ASSUME call[t].sub = s PROVE FALSE
      <4>1. mutex = Nobody /\ state[s] # "scheduled"
        BY <1>6, <3>1 DEF ReleaseRefused, Free, Submission
      <4>2. released[s] # {} /\ ~schedule[s].triggered /\ s \notin cut
        BY <1>s, <4>1 DEF ToRelease
      <4>3. PICK u \in Threads : call[u].at = "recording"
        BY <1>s, <4>2 DEF SchedInv, ReleaseRecorded, At
      <4>4. mutex = u
        BY <1>s, <4>3 DEF SchedInv, LockInv, InSection
      <4> QED
        BY <4>1, <4>4, SchedulerAssumption DEF Threads
    <3> QED
      BY <3>1
  <2> QED
    BY <1>e, <1>l, <1>q, <2>2, <2>3, MoveSees DEF LoopReleases, j
<1>7. ASSUME NEW step \in Steps, Moves(t, step), call[t].at \in Closing, UNCHANGED <<pc, cur, batch>>,
             job'[j] = job[j] \/ call[t].job = j,
             step \in {"refused", "burying", "returning"}
      PROVE  SeenTo(s)'
  <2>1. call[t].sub # s
    BY <1>s, <1>7 DEF SeenTo
  <2> QED
    BY <1>e, <1>l, <1>7, <2>1, MoveSees DEF LoopReleases, Closing, j
<1>8. CASE FailReported(t) \/ BuryReported(t)
  <2>1. PICK step \in {"refused", "burying"} : To(t, step)
    BY <1>8 DEF FailReported, BuryReported
  <2>2. Moves(t, step) /\ call[t].at \in {"failing", "burying"} /\ QueueRest /\ step \in Steps
    BY <1>8, <1>s, <2>1, ToMoves DEF FailReported, BuryReported, At, Steps
  <2>3. call[t].job \in Jobs
    BY <1>s, <2>2 DEF CallsInv
  <2>4. Touches(call[t].job) \/ job' = job
    <3>1. FALSE \in BOOLEAN
      OBVIOUS
    <3> QED
      BY <1>8, <1>s, <2>3, <3>1, FailTouches DEF FailReported, BuryReported
  <2>5. job'[j] = job[j] \/ call[t].job = j
    BY <1>s, <2>4 DEF Touches
  <2> QED
    BY <1>7, <1>r, <2>1, <2>2, <2>5 DEF Closing
<1>9. CASE AnswerTrigger(t)
  <2>1. Moves(t, "returning") /\ call[t].at \in {"answering", "repeating"} /\ QueueRest
    BY <1>9, <1>s, ToMoves DEF AnswerTrigger, At, Steps
  <2>2. job'[j] = job[j] \/ call[t].job = j
    BY <1>9, <1>s DEF AnswerTrigger, MarkSucceeded, TypeOK
  <2> QED
    BY <1>7, <1>r, <2>1, <2>2 DEF Closing, Steps
<1>10. CASE EnterReplay(t) \/ RecordRelease(t)
  <2>1. PICK step \in {"answering", "repeating"} :
          Moves(t, step) /\ call[t].at \in {"entering", "recording"} /\ UNCHANGED queue
    BY <1>10, <1>s, ToMoves DEF EnterReplay, RecordRelease, At, Steps
  <2>2. call[t].sub # s
    <3>1. ASSUME call[t].sub = s PROVE FALSE
      <4>1. ~schedule[s].triggered /\ schedule[s].version > 0 /\ ~schedule'[s].triggered
        BY <1>s DEF ToRelease
      <4>2. Upsert(s, [schedule[s] EXCEPT !.triggered = TRUE])
        BY <1>10, <3>1, <4>1 DEF EnterReplay, RecordRelease, Submission
      <4> QED
        BY <1>s, <4>1, <4>2, MarkWrites DEF MarkedTriggered
    <3> QED
      BY <3>1
  <2> QED
    BY <1>e, <1>l, <1>q, <2>1, <2>2, MoveSees DEF Steps, LoopReleases, j
<1> QED
  BY <1>1, <1>2, <1>3, <1>4, <1>5, <1>6, <1>8, <1>9, <1>10 DEF TriggerStep

(* The executor's own steps: it starts what the table offers, and no step    *)
(* but a running handler's touches the schedule's job.                       *)
LEMMA QueueStepSees ==
    ASSUME NEW s, Waits(s), QueueStep
    PROVE  SeenTo(s)'
<1> DEFINE j == JobFor(s)
<1>1. /\ j' = j /\ j \in Jobs /\ j # NoJob
      /\ (schedule[s].due => schedule'[s].due) /\ (Ready(j) => schedule[s].due)
      /\ TypeOK /\ SchedInv /\ SeenTo(s)
  BY WaitsSame, JobsAssumption DEF Waits
<1>2. call' = call
  BY DEF QueueStep, scheduler
<1>3. /\ cur.executor = NoJob <=> pc.executor \in {"polling", "picking", "dead"}
      /\ cur \in [executor : Jobs \union {NoJob}, loop : Jobs \union {NoJob}]
      /\ pc \in [executor : ExecutorSteps, loop : LoopSteps]
      /\ pc.executor # "handling" => call["executor"].at = "out"
  BY <1>1 DEF TypeOK, SchedInv, CallsInv
<1>4. Enqueueing(s)' <=> Enqueueing(s)
  BY <1>2 DEF Enqueueing
<1>5. LoopReleases(j)' <=> LoopReleases(j)
  BY <1>1, <1>2 DEF LoopReleases
<1>6. \A t \in Threads : call'[t].sub = s => call'[t].at \notin Closing
  BY <1>1, <1>2 DEF SeenTo
<1>7. /\ Enqueueing(s) \/ HasJob(j)
      /\ cur.executor = j => pc.executor \in {"starting", "handling"} /\ call["executor"].at \in Trying
  BY <1>1 DEF SeenTo
<1> HIDE DEF j
<1>g. ASSUME HasJob(j) => HasJob(j)', Ready(j)' => Ready(j),
             cur'.executor = j => pc'.executor \in {"starting", "handling"} /\ call["executor"].at \in Trying
      PROVE  SeenTo(s)'
  BY <1>1, <1>2, <1>4, <1>6, <1>7, <1>g DEF SeenTo, j
<1>8. CASE Poll
  <2>1. cur' = cur /\ job' = job /\ pc.executor = "polling" /\ batch' = Due
    BY <1>8 DEF Poll, tables
  <2>2. Ready(j)' => Ready(j)
    BY <1>1, <1>3, <2>1 DEF Ready, Due
  <2> QED
    BY <1>1, <1>3, <1>5, <1>g, <2>1, <2>2 DEF HasJob
<1>9. CASE Pick
  <2>1. /\ job' = job /\ pc.executor = "picking" /\ cur.executor = NoJob
        /\ batch' \subseteq batch
        /\ cur' = cur \/ (cur'.executor \in batch /\ pc'.executor = "starting")
    BY <1>3, <1>9 DEF Pick, tables, Goto
  <2>2. Ready(j)' => Ready(j)
    BY <1>1, <2>1 DEF Ready
  <2>3. HasJob(j) => HasJob(j)'
    BY <1>1, <1>5, <2>1 DEF HasJob
  <2> QED
    BY <1>1, <1>3, <1>g, <2>1, <2>2, <2>3 DEF Trying
<1>10. CASE Start /\ cur.executor \in Jobs /\ Touches(cur.executor)
  <2>1. cur' = cur /\ pc.executor = "starting" /\ pc'.executor = "handling" /\ batch' = batch
    BY <1>3, <1>10 DEF Start, Goto
  <2>2. CASE cur.executor = j
    <3>1. job'[j].status = "RUNNING"
      BY <1>1, <1>10, <2>2 DEF Start, MarkRunning, TypeOK
    <3> QED
      BY <1>1, <1>3, <1>g, <2>1, <2>2, <3>1 DEF HasJob, Ready, Trying
  <2>3. CASE cur.executor # j
    <3>1. job'[j] = job[j]
      BY <1>1, <1>10, <2>3 DEF Touches
    <3> QED
      BY <1>1, <1>5, <1>g, <2>1, <2>3, <3>1 DEF HasJob, Ready
  <2> QED
    BY <2>2, <2>3
<1>11. CASE /\ pc.executor \notin {"polling", "starting", "handling"}
            /\ batch' = batch
            /\ cur'.executor \in {cur.executor, NoJob}
            /\ job' = job \/ (cur.executor \in Jobs /\ Touches(cur.executor))
  <2>1. cur.executor # j
    BY <1>7, <1>11
  <2>2. job'[j] = job[j]
    BY <1>1, <1>11, <2>1 DEF Touches
  <2>3. cur'.executor # j
    BY <1>1, <1>11, <2>1
  <2> QED
    BY <1>1, <1>5, <1>11, <1>g, <2>1, <2>2, <2>3 DEF HasJob, Ready
<1> QED
  BY <1>1, <1>8, <1>9, <1>10, <1>11, QueueStepEffect

(* The executor's other steps. *)
LEMMA ExecutorSees ==
    ASSUME NEW s, Waits(s), ExecuteReleaseJob \/ FinishStale \/ HandlerEnds
    PROVE  SeenTo(s)'
<1> DEFINE j == JobFor(s)
<1>1. /\ j' = j /\ j \in Jobs /\ j[1] = s /\ j[2] = schedule[s].version
      /\ (schedule[s].due => schedule'[s].due) /\ (Ready(j) => schedule[s].due)
      /\ TypeOK /\ SchedInv /\ ReleaseTypes /\ SeenTo(s) /\ s \in Submissions
  BY WaitsSame DEF Waits, SchedInv, JobFor
<1>2. /\ Enqueueing(s) \/ HasJob(j)
      /\ cur.executor = j => pc.executor \in {"starting", "handling"} /\ call["executor"].at \in Trying
      /\ \A t \in Threads : call[t].sub = s => call[t].at \notin Closing
  BY <1>1 DEF SeenTo
<1> HIDE DEF j
<1>g. ASSUME call'["loop"] = call["loop"], job' = job, cur' = cur, batch' = batch,
             cur.executor = j => pc'.executor \in {"starting", "handling"} /\ call'["executor"].at \in Trying,
             call'["executor"].sub = s => call'["executor"].at \notin Closing
      PROVE  SeenTo(s)'
  <2>1. Enqueueing(s)' \/ HasJob(j)'
    BY <1>1, <1>2, <1>g DEF Enqueueing, HasJob, LoopReleases
  <2>2. Ready(j)' => Ready(j)
    BY <1>1, <1>g DEF Ready
  <2> QED
    BY <1>1, <1>2, <1>g, <2>1, <2>2 DEF SeenTo, Threads, j
<1>3. CASE ExecuteReleaseJob
  <2> DEFINE c == cur.executor
             row == [at |-> IF schedule[c[1]].version = c[2] THEN "entering" ELSE "stale",
                     sub |-> c[1], req |-> c, job |-> c, forced |-> FALSE, fresh |-> FALSE]
  <2>1. call' = [call EXCEPT !["executor"] = row] /\ pc.executor = "handling" /\ UNCHANGED queue
    BY <1>3 DEF ExecuteReleaseJob
  <2>2. call'["executor"] = row /\ call'["loop"] = call["loop"]
    BY <1>1, <2>1 DEF ReleaseTypes, Threads
  <2>3. row.at \in {"entering", "stale"} /\ (c = j => row.at = "entering")
    BY <1>1
  <2> HIDE DEF row
  <2>4. UNCHANGED <<pc, cur, batch, job>>
    BY <2>1 DEF queue, tables, threads
  <2> QED
    BY <1>g, <2>1, <2>2, <2>3, <2>4 DEF Trying, Closing
<1>4. CASE FinishStale
  <2>1. Moves("executor", "returning") /\ call["executor"].at = "stale" /\ QueueRest
    BY <1>1, <1>4, ToMoves DEF FinishStale, At, Steps, Threads
  <2>2. cur.executor # j
    BY <1>2, <2>1 DEF Trying
  <2>3. job'[j] = job[j]
    BY <1>1, <1>4, <2>2 DEF FinishStale, MarkSucceeded, TypeOK
  <2> QED
    BY <2>1, <2>2, <2>3, MoveSees DEF Steps, Closing, QueueRest, threads, j, Threads
<1>5. CASE HandlerEnds
  <2>1. Ends("executor") /\ call["executor"].at \in {"returning", "raising", "refused"}
    BY <1>1, <1>5, DoneEnds DEF HandlerEnds, At, Threads
  <2>2. cur.executor # j
    BY <1>2, <2>1 DEF Trying
  <2>3. UNCHANGED <<cur, batch, job>>
    BY <1>5 DEF HandlerEnds, HandlerReturns, HandlerRaises, tables
  <2>4. call'["loop"] = call["loop"] /\ call'["executor"].at = "out"
    BY <2>1 DEF Ends, Threads
  <2> QED
    BY <1>g, <2>2, <2>3, <2>4 DEF Closing
<1> QED
  BY <1>3, <1>4, <1>5

(* The loop's other steps. *)
LEMMA LoopStepSees ==
    ASSUME NEW s, Waits(s), RecordOverride \/ EnqueueRelease \/ AuditResolve \/ RouteEnds \/ Plan
    PROVE  SeenTo(s)'
<1> DEFINE j == JobFor(s)
<1>1. /\ j' = j /\ j \in Jobs /\ j[1] = s
      /\ (schedule[s].due => schedule'[s].due) /\ (Ready(j) => schedule[s].due)
      /\ TypeOK /\ SchedInv /\ ReleaseTypes /\ SeenTo(s) /\ s \in Submissions
      /\ schedule[s].version > 0
  BY WaitsSame DEF Waits, SchedInv, ToRelease
<1>q. UNCHANGED queue => UNCHANGED <<pc, cur, batch, job>>
  BY DEF queue, tables, threads
<1>2. CASE RecordOverride \/ Plan
  <2>1. Moves("loop", "enqueueing") /\ call["loop"].at \in {"overriding", "planning"} /\ UNCHANGED queue
    BY <1>1, <1>2, ToMoves DEF RecordOverride, Plan, At, Steps, Threads
  <2>2. call'["executor"] = call["executor"]
    BY <2>1 DEF Moves, Threads
  <2> QED
    BY <1>1, <1>q, <2>1, <2>2, LoopSees DEF Moves, Enqueueing, LoopReleases, Closing
<1>3. CASE AuditResolve \/ RouteEnds
  <2>1. Ends("loop") /\ call["loop"].at \in {"auditing", "returning", "raising", "refused"} /\ UNCHANGED queue
    BY <1>1, <1>3, DoneEnds DEF AuditResolve, RouteEnds, At, Threads
  <2>2. call'["executor"] = call["executor"]
    BY <2>1 DEF Ends, Threads
  <2> QED
    BY <1>1, <1>q, <2>1, <2>2, LoopSees DEF Ends, Enqueueing, LoopReleases, Closing
<1>4. CASE EnqueueRelease
  <2> DEFINE u == call["loop"].sub
             k == JobFor(u)
  <2>1. /\ call["loop"].at = "enqueueing" /\ Enqueue(k) /\ job'[k].due = schedule[u].due
        /\ schedule' = schedule
    BY <1>4 DEF EnqueueRelease, At, Submission
  <2>2. UNCHANGED <<pc, cur, batch>>
    BY <2>1 DEF Enqueue, threads
  <2>3. /\ call'["loop"].at \in {"auditing", "out"}
        /\ call'["executor"] = call["executor"]
    <3>1. CASE To("loop", "auditing")
      BY <1>1, <3>1, ToMoves DEF Moves, Steps, Threads
    <3>2. CASE Done("loop")
      BY <1>1, <3>2, DoneEnds DEF Ends, Threads
    <3> QED
      BY <1>4, <3>1, <3>2 DEF EnqueueRelease
  <2>4. CASE u # s
    <3>1. k # j
      BY <2>4 DEF JobFor
    <3>2. job'[j] = job[j]
      BY <1>1, <2>1, <3>1 DEF Enqueue, TypeOK
    <3> QED
      BY <1>1, <2>1, <2>2, <2>3, <2>4, <3>2, LoopSees DEF Enqueueing, LoopReleases, Closing
  <2>5. CASE u = s
    <3>1. job'[j].status = "QUEUED" /\ job'[j].due = schedule[s].due
      BY <1>1, <2>1, <2>5 DEF Enqueue, TypeOK
    <3>2. HasJob(j)'
      BY <1>1, <3>1 DEF HasJob, Pending
    <3>3. Ready(j)' => schedule'[s].due
      BY <1>1, <2>1, <2>2, <3>1 DEF Ready
    <3>4. /\ cur.executor = j => pc.executor \in {"starting", "handling"} /\ call["executor"].at \in Trying
          /\ \A t \in Threads : call[t].sub = s => call[t].at \notin Closing
      BY <1>1 DEF SeenTo
    <3> HIDE DEF j
    <3> QED
      BY <1>1, <2>2, <2>3, <3>2, <3>3, <3>4 DEF SeenTo, Threads, Closing, j
  <2> QED
    BY <2>4, <2>5
<1> QED
  BY <1>2, <1>3, <1>4

(* A route that begins. *)
LEMMA RouteSees ==
    ASSUME NEW s, Waits(s), NEW u \in Submissions,
           \/ Resolve(u) \/ DirectTransition(u) \/ ScheduleDue(u) \/ (\E o \in OverrideIds : Override(u, o))
           \/ \E r \in TriggerIds, k \in Jobs \union {NoJob}, force \in BOOLEAN :
                TriggerRoute(u, r, k, force)
    PROVE  SeenTo(s)'
<1>1. ReleaseTypes /\ SchedInv /\ s \in Submissions
  BY DEF Waits, SchedInv
<1>2. UNCHANGED <<pc, cur, batch, job>>
  BY DEF Resolve, DirectTransition, ScheduleDue, Override, TriggerRoute, queue, tables, threads
<1>3. CASE DirectTransition(u) \/ ScheduleDue(u)
  <2>1. call' = call
    BY <1>3 DEF DirectTransition, ScheduleDue
  <2>2. JobFor(s)' = JobFor(s)
    BY WaitsSame
  <2>3. (schedule[s].due => schedule'[s].due) /\ SeenTo(s)
    BY WaitsSame DEF Waits
  <2>4. Enqueueing(s)' = Enqueueing(s) /\ HasJob(JobFor(s))' = HasJob(JobFor(s))
        /\ Ready(JobFor(s))' = Ready(JobFor(s))
    BY <1>2, <2>1, <2>2 DEF Enqueueing, HasJob, LoopReleases, Ready
  <2> QED
    BY <1>2, <2>1, <2>2, <2>3, <2>4 DEF SeenTo
<1>4. ASSUME NEW row \in CallRow, row.at \notin Closing, call["loop"].at = "out",
             call' = [call EXCEPT !["loop"] = row]
      PROVE  SeenTo(s)'
  <2>1. call'["loop"] = row /\ call'["executor"] = call["executor"]
    BY <1>1, <1>4 DEF ReleaseTypes, Threads
  <2> QED
    BY <1>2, <1>4, <2>1, LoopSees DEF Enqueueing, LoopReleases
<1>5. CASE Resolve(u)
  <2>1. PICK step \in {"planning", "enqueueing"}, fresh \in BOOLEAN : StartResolve(u, step, fresh)
    BY <1>5 DEF Resolve
  <2> DEFINE row == [Absent EXCEPT !.at = step, !.sub = u, !.fresh = fresh]
  <2>2. row \in CallRow /\ row.at \notin Closing
    BY DEF Absent, CallRow, Steps, Asked, Closing
  <2>3. call' = [call EXCEPT !["loop"] = row] /\ call["loop"].at = "out"
    BY <1>5, <2>1 DEF Resolve, StartResolve, At
  <2> HIDE DEF row
  <2> QED
    BY <1>4, <2>2, <2>3
<1>6. ASSUME NEW o \in OverrideIds, Override(u, o) PROVE SeenTo(s)'
  <2> DEFINE first == [Absent EXCEPT !.at = "overriding", !.sub = u, !.req = o]
             again == [Absent EXCEPT !.at = "enqueueing", !.sub = u]
  <2>1. /\ first \in CallRow /\ first.at \notin Closing
        /\ again \in CallRow /\ again.at \notin Closing
    BY DEF Absent, CallRow, Steps, Asked, Closing
  <2>2. /\ call' = [call EXCEPT !["loop"] = first] \/ call' = [call EXCEPT !["loop"] = again]
        /\ call["loop"].at = "out"
    BY <1>6 DEF Override, At
  <2> HIDE DEF first, again
  <2> QED
    BY <1>4, <2>1, <2>2
<1>7. ASSUME NEW r \in TriggerIds, NEW k \in Jobs \union {NoJob}, NEW force \in BOOLEAN,
             TriggerRoute(u, r, k, force)
      PROVE  SeenTo(s)'
  <2> DEFINE row == [at |-> "entering", sub |-> u, req |-> r, job |-> k, forced |-> force, fresh |-> FALSE]
  <2>1. row \in CallRow /\ row.at \notin Closing
    BY DEF CallRow, Steps, Asked, Closing
  <2>2. call' = [call EXCEPT !["loop"] = row] /\ call["loop"].at = "out"
    BY <1>7 DEF TriggerRoute, At
  <2> HIDE DEF row
  <2> QED
    BY <1>4, <2>1, <2>2
<1> QED
  BY <1>3, <1>5, <1>6, <1>7

(* The clock makes no job due before its schedule; a replay has nothing to   *)
(* take up; a crash is remembered for the submissions it interrupted.        *)
LEMMA ClockSees ==
    ASSUME NEW s, Waits(s), NEW k \in Jobs, JobDue(k) \/ \E r \in Requests : ReplayJob(k, r)
    PROVE  SeenTo(s)'
<1> DEFINE j == JobFor(s)
<1>1. /\ j' = j /\ j \in Jobs /\ j[1] = s
      /\ (schedule[s].due => schedule'[s].due) /\ (Ready(j) => schedule[s].due)
      /\ TypeOK /\ SeenTo(s) /\ schedule' = schedule /\ call' = call
  BY WaitsSame DEF Waits, JobDue, ReplayJob, scheduler
<1>2. UNCHANGED <<pc, cur, batch>>
  BY DEF JobDue, BecomeDue, ReplayJob, Replay, threads
<1>3. /\ Enqueueing(s) \/ HasJob(j)
      /\ cur.executor = j => pc.executor \in {"starting", "handling"} /\ call["executor"].at \in Trying
      /\ \A t \in Threads : call[t].sub = s => call[t].at \notin Closing
  BY <1>1 DEF SeenTo
<1>4. job \in [Jobs -> JobRow]
  BY <1>1 DEF TypeOK, JobRow
<1>g. ASSUME HasJob(j) => HasJob(j)', Ready(j)' => schedule[s].due
      PROVE  SeenTo(s)'
  <2> HIDE DEF j
  <2>1. Enqueueing(s)' = Enqueueing(s)
    BY <1>1 DEF Enqueueing
  <2> QED
    BY <1>1, <1>2, <1>3, <1>g, <2>1 DEF SeenTo, j
<1>5. CASE k # j
  <2>1. job'[j] = job[j]
    BY <1>1, <1>4, <1>5 DEF JobDue, BecomeDue, ReplayJob, Replay
  <2> HIDE DEF j
  <2> QED
    BY <1>1, <1>2, <1>g, <2>1 DEF HasJob, LoopReleases, Ready
<1>6. CASE k = j /\ JobDue(k)
  <2>1. job'[j].status = job[j].status /\ schedule[s].due
    BY <1>1, <1>4, <1>6 DEF JobDue, BecomeDue, JobRow
  <2> HIDE DEF j
  <2> QED
    BY <1>1, <1>2, <1>g, <2>1 DEF HasJob, LoopReleases
<1>7. CASE k = j /\ \E r \in Requests : ReplayJob(k, r)
  <2>1. job[j].status = "DEAD_LETTERED" /\ call["loop"].at = "out"
    BY <1>7 DEF ReplayJob, Replay, At
  <2>2. ~Enqueueing(s) /\ ~HasJob(j)
    BY <2>1 DEF Enqueueing, HasJob, Pending
  <2> QED
    BY <1>3, <2>2
<1> QED
  BY <1>5, <1>6, <1>7

LEMMA CrashSees ==
    ASSUME NEW s, Waits(s), ProcessCrash
    PROVE  SeenTo(s)'
<1> DEFINE j == JobFor(s)
<1>1. /\ j' = j /\ j \in Jobs /\ j # NoJob
      /\ (schedule[s].due => schedule'[s].due) /\ (Ready(j) => schedule[s].due)
      /\ SeenTo(s) /\ s \in Submissions /\ s \notin cut'
  BY WaitsSame, JobsAssumption DEF Waits, ToRelease
<1>2. /\ \A t \in Threads : call[t].sub # s
      /\ job[j].status # "RUNNING"
  <2>1. j = <<s, schedule[s].version>> /\ schedule[s].version \in 1..MaxVersion
    BY <1>1, SchedulerAssumption DEF JobFor
  <2>2. job[<<s, schedule[s].version>>].status = "RUNNING" => s \in cut'
    BY <1>1, <2>1 DEF ProcessCrash
  <2> QED
    BY <1>1, <2>1, <2>2 DEF ProcessCrash, Submission
<1>3. /\ job' = job /\ batch' = {} /\ cur'.executor = NoJob
      /\ \A t \in Threads : call'[t].at = "out"
  BY DEF ProcessCrash, Crash, tables, Absent
<1>4. Enqueueing(s) \/ HasJob(j)
  BY <1>1 DEF SeenTo
<1> HIDE DEF j
<1>5. job[j].status \in Pending
  BY <1>2, <1>4 DEF Enqueueing, HasJob, Threads
<1>6. HasJob(j)' /\ (Ready(j)' => Ready(j))
  BY <1>1, <1>3, <1>5 DEF HasJob, Ready
<1> QED
  BY <1>1, <1>3, <1>6 DEF SeenTo, Closing, j

(* A new version's job is one nobody has heard of, and the loop is at it. *)
LEMMA NewVersionSees ==
    ASSUME TypeOK, SchedInv, KnownInv, NEW s \in Submissions,
           schedule'[s].version > schedule[s].version, schedule'[s].version \in 1..MaxVersion,
           UNCHANGED <<pc, cur, batch, job>>, call'["executor"] = call["executor"],
           Enqueueing(s)',
           call["executor"].sub = s => call["executor"].at \notin Closing
    PROVE  SeenTo(s)'
<1> DEFINE j == <<s, schedule'[s].version>>
<1>1. JobFor(s)' = j /\ j \in Jobs /\ j # NoJob
  BY SchedulerAssumption, JobsAssumption DEF JobFor
<1>2. schedule[s].version \in Nat /\ schedule'[s].version \in Nat
  BY SchedulerAssumption DEF SchedInv, ReleaseTypes, ScheduleRow
<1>3. job[j].status = "ABSENT"
  BY <1>2 DEF KnownInv
<1> HIDE DEF j
<1>4. j \notin batch /\ cur.executor # j
  BY <1>1, <1>3 DEF KnownInv
<1>5. ~Ready(JobFor(s))'
  BY <1>1, <1>3, <1>4 DEF Ready, Pending
<1>6. call'["loop"].at \notin Closing
  BY DEF Enqueueing, Closing
<1> QED
  BY <1>1, <1>4, <1>5, <1>6 DEF SeenTo, Threads

LEMMA WaitingSees ==
    ASSUME NEW s, Waits(s), [ReleaseNext]_allVars
    PROVE  SeenTo(s)'
<1>1. CASE UNCHANGED allVars
  <2>1. UNCHANGED <<pc, cur, batch, job, call>>
    BY <1>1 DEF allVars, queue, tables, threads, scheduler
  <2>2. JobFor(s)' = JobFor(s) /\ SeenTo(s) /\ (schedule[s].due => schedule'[s].due)
    BY WaitsSame DEF Waits
  <2>3. Enqueueing(s)' = Enqueueing(s) /\ HasJob(JobFor(s))' = HasJob(JobFor(s))
        /\ Ready(JobFor(s))' = Ready(JobFor(s))
    BY <2>1, <2>2 DEF Enqueueing, HasJob, LoopReleases, Ready
  <2> QED
    BY <2>1, <2>2, <2>3 DEF SeenTo
<1>2. CASE QueueStep
  BY <1>2, QueueStepSees
<1>3. CASE ExecuteReleaseJob \/ FinishStale \/ HandlerEnds
  BY <1>3, ExecutorSees
<1>4. ASSUME NEW t \in Threads, TriggerStep(t) PROVE SeenTo(s)'
  BY <1>4, TriggerSees
<1>5. CASE Plan \/ RecordOverride \/ EnqueueRelease \/ AuditResolve \/ RouteEnds
  BY <1>5, LoopStepSees
<1>6. ASSUME NEW u \in Submissions,
             \/ Resolve(u) \/ DirectTransition(u) \/ ScheduleDue(u) \/ (\E o \in OverrideIds : Override(u, o))
             \/ \E r \in TriggerIds, k \in Jobs \union {NoJob}, force \in BOOLEAN :
                  TriggerRoute(u, r, k, force)
      PROVE  SeenTo(s)'
  BY <1>6, RouteSees
<1>7. ASSUME NEW k \in Jobs, JobDue(k) \/ \E r \in Requests : ReplayJob(k, r) PROVE SeenTo(s)'
  BY <1>7, ClockSees
<1>8. CASE ProcessCrash
  BY <1>8, CrashSees
<1> QED
  BY <1>1, <1>2, <1>3, <1>4, <1>5, <1>6, <1>7, <1>8 DEF ReleaseNext, ExecutorStep, LoopStep, Threads

LEMMA CutGrows ==
    ASSUME [ReleaseNext]_allVars
    PROVE  cut \subseteq cut'
<1>1. ASSUME cut' = cut PROVE cut \subseteq cut'
  BY <1>1
<1>2. CASE ProcessCrash
  BY <1>2 DEF ProcessCrash
<1>3. ASSUME NEW t \in Threads, TriggerStep(t) PROVE cut \subseteq cut'
  BY <1>1, <1>3 DEF TriggerStep, EnterReplay, EnterNotDue, EnterDue, CheckPending, MarkPending,
     Release, ReleaseRefused, FailReported, BuryReported, RecordRelease, AnswerTrigger
<1>4. CASE UNCHANGED allVars \/ QueueStep \/ ExecuteReleaseJob \/ FinishStale \/ HandlerEnds
           \/ Plan \/ RecordOverride \/ EnqueueRelease \/ AuditResolve \/ RouteEnds
           \/ \E j \in Jobs : JobDue(j) \/ \E r \in Requests : ReplayJob(j, r)
  BY <1>1, <1>4 DEF allVars, scheduler, QueueStep, ExecuteReleaseJob, FinishStale, HandlerEnds, Plan,
     RecordOverride, EnqueueRelease, AuditResolve, RouteEnds, JobDue, ReplayJob
<1>5. ASSUME NEW u \in Submissions,
             \/ Resolve(u) \/ DirectTransition(u) \/ ScheduleDue(u) \/ (\E o \in OverrideIds : Override(u, o))
             \/ \E r \in TriggerIds, k \in Jobs \union {NoJob}, force \in BOOLEAN :
                  TriggerRoute(u, r, k, force)
      PROVE  cut \subseteq cut'
  BY <1>1, <1>5 DEF Resolve, DirectTransition, ScheduleDue, Override, TriggerRoute
<1> QED
  BY <1>2, <1>3, <1>4, <1>5 DEF ReleaseNext, ExecutorStep, LoopStep, Threads

(* What is to be released was so before: the transition route puts nothing   *)
(* on a schedule, and what it releases no trigger has released.              *)
LEMMA StillToRelease ==
    ASSUME SchedInv, [ReleaseNext]_allVars, NEW s \in Submissions, schedule[s].version > 0,
           state'[s] = "scheduled" \/ released'[s] # {}
    PROVE  state[s] = "scheduled" \/ released[s] # {}
<1>0. /\ s \in resolved /\ state[s] # "approved"
      /\ state \in [Submissions -> {"approved", "scheduled", "released"}]
      /\ released \in [Submissions -> SUBSET Asked]
  BY DEF SchedInv, RowInv, ReleaseTypes
<1>1. CASE UNCHANGED <<state, released>>
  BY <1>1
<1>2. ASSUME NEW t \in Threads, Release(t)
      PROVE  state[s] = "scheduled" \/ released[s] # {}
  BY <1>0, <1>2 DEF Release, Submission
<1>3. ASSUME NEW t \in Threads, TriggerStep(t)
      PROVE  state[s] = "scheduled" \/ released[s] # {}
  BY <1>1, <1>2, <1>3 DEF TriggerStep, EnterReplay, EnterNotDue, EnterDue, CheckPending, MarkPending,
     ReleaseRefused, FailReported, BuryReported, RecordRelease, AnswerTrigger
<1>4. ASSUME NEW u \in Submissions, Resolve(u) \/ DirectTransition(u)
      PROVE  state[s] = "scheduled" \/ released[s] # {}
  <2>1. CASE Resolve(u)
    BY <1>0, <2>1 DEF Resolve
  <2>2. CASE DirectTransition(u)
    BY <1>0, <2>2 DEF DirectTransition
  <2> QED
    BY <1>4, <2>1, <2>2
<1>5. ASSUME NEW u \in Submissions,
             \/ ScheduleDue(u) \/ (\E o \in OverrideIds : Override(u, o))
             \/ \E r \in TriggerIds, k \in Jobs \union {NoJob}, force \in BOOLEAN :
                  TriggerRoute(u, r, k, force)
      PROVE  UNCHANGED <<state, released>>
  BY <1>5 DEF ScheduleDue, Override, TriggerRoute
<1>6. CASE UNCHANGED allVars \/ QueueStep \/ ExecuteReleaseJob \/ FinishStale \/ HandlerEnds
           \/ Plan \/ RecordOverride \/ EnqueueRelease \/ AuditResolve \/ RouteEnds \/ ProcessCrash
           \/ \E j \in Jobs : JobDue(j) \/ \E r \in Requests : ReplayJob(j, r)
  BY <1>1, <1>6 DEF allVars, scheduler, QueueStep, ExecuteReleaseJob, FinishStale, HandlerEnds, Plan,
     RecordOverride, EnqueueRelease, AuditResolve, RouteEnds, JobDue, ReplayJob, ProcessCrash
<1> QED
  BY <1>1, <1>3, <1>4, <1>5, <1>6 DEF ReleaseNext, ExecutorStep, LoopStep, Threads

JobsFit == \A s \in Submissions : schedule[s].version > 0 => JobFor(s) \in Jobs
LEMMA JobsFitAlways == TypeOK /\ SchedInv /\ VersionInv => JobsFit
BY JobForIsJob DEF JobsFit

LEMMA JobNext ==
    ASSUME TypeOK, TypeOK', SchedInv, SchedInv', KnownInv, VersionInv, JobsFit', JobInv,
           [ReleaseNext]_allVars
    PROVE  JobInv'
<1> SUFFICES ASSUME NEW s \in Submissions, ToRelease(s)' PROVE SeenTo(s)'
  BY DEF JobInv
<1>1. /\ schedule'[s].version > 0 /\ ~schedule'[s].triggered /\ s \notin cut
      /\ schedule[s].version \in Nat /\ schedule'[s].version \in Nat
      /\ schedule[s].version > 0 => state[s] = "scheduled" \/ released[s] # {}
  BY CutGrows, StillToRelease DEF ToRelease, SchedInv, ReleaseTypes, ScheduleRow
<1>2. schedule'[s].version \in 1..MaxVersion
  BY <1>1, SchedulerAssumption DEF JobsFit, JobFor
<1>q. UNCHANGED queue => UNCHANGED <<pc, cur, batch, job>>
  BY DEF queue, tables, threads
<1>3. CASE Kept(s)
  <2>1. ToRelease(s)
    BY <1>1, <1>3 DEF Kept, ToRelease
  <2>2. JobFor(s) \in Jobs
    BY <2>1, JobForIsJob DEF ToRelease
  <2>3. Waits(s)
    BY <1>3, <2>1, <2>2 DEF Waits, JobInv
  <2> QED
    BY <2>3, WaitingSees
<1>4. CASE Planned(s)
  <2>1. Plan /\ call["loop"].sub = s /\ schedule[s].version = 0 /\ schedule'[s].version = 1
    BY <1>4 DEF Planned
  <2>2. Moves("loop", "enqueueing") /\ UNCHANGED queue
    BY <2>1, ToMoves DEF Plan, SchedInv, Steps, Threads
  <2>3. call["executor"].sub = s => call["executor"].at \notin Closing
    BY <2>1 DEF SchedInv, StageInv, OnSchedule, Closing, Threads
  <2>4. Enqueueing(s)' /\ call'["executor"] = call["executor"]
    BY <2>1, <2>2 DEF Moves, Enqueueing, Threads
  <2> QED
    BY <1>1, <1>2, <1>q, <2>1, <2>2, <2>3, <2>4, NewVersionSees
<1>5. CASE Overrode(s)
  <2>1. PICK o \in OverrideIds :
          /\ Override(s, o) /\ schedule[s].version > 0
          /\ call'["loop"].at = "overriding" /\ call'["loop"].sub = s
          /\ schedule'[s].version = schedule[s].version + 1
          /\ schedule'[s].triggered = schedule[s].triggered
    BY <1>5 DEF Overrode
  <2>2. ToRelease(s)
    BY <1>1, <2>1 DEF ToRelease
  <2>3. call["executor"].sub = s => call["executor"].at \notin Closing
    BY <2>2 DEF JobInv, SeenTo, Threads
  <2>4. UNCHANGED queue /\ call'["executor"] = call["executor"]
    BY <2>1 DEF Override, SchedInv, ReleaseTypes, Threads
  <2>5. Enqueueing(s)'
    BY <2>1 DEF Enqueueing
  <2> QED
    BY <1>1, <1>2, <1>q, <2>1, <2>3, <2>4, <2>5, NewVersionSees
<1>6. CASE MarkedTriggered(s)
  BY <1>1, <1>6 DEF MarkedTriggered
<1> QED
  BY <1>3, <1>4, <1>5, <1>6, ScheduleStep

(* What resolve put on schedule has one, or the plan's write is next.        *)
PlannedInv ==
  \A s \in resolved :
    schedule[s].version = 0 /\ s \notin cut =>
      call["loop"].at = "planning" /\ call["loop"].sub = s

LEMMA PlannedNext ==
    ASSUME SchedInv, SchedInv', PlannedInv, [ReleaseNext]_allVars
    PROVE  PlannedInv'
<1> SUFFICES ASSUME NEW s \in resolved', schedule'[s].version = 0, s \notin cut'
             PROVE  call'["loop"].at = "planning" /\ call'["loop"].sub = s
  BY DEF PlannedInv
<1> USE DEF SchedInv
<1>1. /\ s \in Submissions /\ s \notin cut
      /\ schedule[s].version \in Nat /\ schedule'[s].version \in Nat
  BY CutGrows DEF ReleaseTypes, ScheduleRow
<1>2. Kept(s)
  BY <1>1, ScheduleStep DEF Planned, Overrode, MarkedTriggered
<1>3. schedule[s].version = 0
  BY <1>2 DEF Kept
<1>4. CASE Resolve(s)
  <2>1. PICK fresh \in BOOLEAN : StartResolve(s, "planning", fresh)
    <3>1. ~(schedule[s].version > 0)
      BY <1>3
    <3>2. StartResolve(s, "planning", TRUE) \/ StartResolve(s, "planning", FALSE)
      BY <1>4, <3>1 DEF Resolve
    <3> QED
      BY <3>2
  <2> QED
    BY <2>1 DEF StartResolve, Absent, ReleaseTypes, Threads
<1>5. CASE s \in resolved
  <2>1. call["loop"].at = "planning" /\ call["loop"].sub = s /\ "loop" \in Threads
    BY <1>1, <1>3, <1>5 DEF PlannedInv, Threads
  <2>2. ~Plan
    <3>1. ASSUME Plan PROVE FALSE
      <4>1. PICK due \in BOOLEAN :
              Upsert(s, [schedule[s] EXCEPT !.due = due, !.manual = FALSE, !.triggered = FALSE])
        BY <2>1, <3>1 DEF Plan, Submission
      <4> DEFINE row == [schedule[s] EXCEPT !.due = due, !.manual = FALSE, !.triggered = FALSE]
      <4>2. schedule[s] \in ScheduleRow
        BY <1>1 DEF ReleaseTypes
      <4>3. row \in ScheduleRow /\ row.version = schedule[s].version
        BY <4>2 DEF ScheduleRow
      <4>4. Writes(s, row)
        BY <1>1, <4>1, <4>3, UpsertWrites
      <4> QED
        BY <1>1, <1>3, <4>4 DEF Writes
    <3> QED
      BY <3>1
  <2>3. ~ProcessCrash
    BY <1>1, <2>1 DEF ProcessCrash, Submission
  <2>4. ASSUME call'["loop"] = call["loop"]
        PROVE  call'["loop"].at = "planning" /\ call'["loop"].sub = s
    BY <2>1, <2>4
  <2>5. CASE ExecutorStep
    BY <2>4, <2>5 DEF ExecutorStep, QueueStep, scheduler, ExecuteReleaseJob, FinishStale, HandlerEnds,
      TriggerStep, EnterReplay, EnterNotDue, EnterDue, CheckPending, MarkPending, Release,
      ReleaseRefused, FailReported, BuryReported, RecordRelease, AnswerTrigger, To, Done,
      ReleaseTypes, Threads
  <2>6. CASE LoopStep
    BY <2>1, <2>2, <2>6 DEF LoopStep, RecordOverride, EnqueueRelease, AuditResolve, RouteEnds,
      TriggerStep, EnterReplay, EnterNotDue, EnterDue, CheckPending, MarkPending, Release,
      ReleaseRefused, FailReported, BuryReported, RecordRelease, AnswerTrigger, At
  <2>7. ASSUME NEW u \in Submissions,
               \/ Resolve(u) \/ DirectTransition(u) \/ ScheduleDue(u)
               \/ (\E o \in OverrideIds : Override(u, o))
               \/ \E r \in TriggerIds, k \in Jobs \union {NoJob}, force \in BOOLEAN :
                    TriggerRoute(u, r, k, force)
        PROVE  call' = call
    BY <2>1, <2>7 DEF Resolve, DirectTransition, ScheduleDue, Override, TriggerRoute, At
  <2>8. CASE UNCHANGED allVars \/ \E j \in Jobs : JobDue(j) \/ \E r \in Requests : ReplayJob(j, r)
    BY <2>4, <2>8 DEF allVars, scheduler, JobDue, ReplayJob
  <2> QED
    BY <2>3, <2>4, <2>5, <2>6, <2>7, <2>8 DEF ReleaseNext
<1>6. Resolve(s) \/ s \in resolved
  <2>1. CASE resolved' = resolved
    BY <2>1
  <2>2. ASSUME NEW u \in Submissions, Resolve(u) PROVE Resolve(s) \/ s \in resolved
    BY <2>2 DEF Resolve
  <2>3. ASSUME NEW t \in Threads, TriggerStep(t) PROVE resolved' = resolved
    BY <2>3 DEF TriggerStep, EnterReplay, EnterNotDue, EnterDue, CheckPending, MarkPending,
       Release, ReleaseRefused, FailReported, BuryReported, RecordRelease, AnswerTrigger
  <2>4. CASE UNCHANGED allVars \/ QueueStep \/ ExecuteReleaseJob \/ FinishStale \/ HandlerEnds
             \/ Plan \/ RecordOverride \/ EnqueueRelease \/ AuditResolve \/ RouteEnds \/ ProcessCrash
             \/ \E j \in Jobs : JobDue(j) \/ \E r \in Requests : ReplayJob(j, r)
    BY <2>1, <2>4 DEF allVars, scheduler, QueueStep, ExecuteReleaseJob, FinishStale, HandlerEnds, Plan,
       RecordOverride, EnqueueRelease, AuditResolve, RouteEnds, JobDue, ReplayJob, ProcessCrash
  <2>5. ASSUME NEW u \in Submissions,
               \/ DirectTransition(u) \/ ScheduleDue(u)
               \/ (\E o \in OverrideIds : Override(u, o))
               \/ \E r \in TriggerIds, k \in Jobs \union {NoJob}, force \in BOOLEAN :
                    TriggerRoute(u, r, k, force)
        PROVE  resolved' = resolved
    BY <2>5 DEF DirectTransition, ScheduleDue, Override, TriggerRoute
  <2> QED
    BY <2>1, <2>2, <2>3, <2>4, <2>5 DEF ReleaseNext, ExecutorStep, LoopStep, Threads
<1> QED
  BY <1>4, <1>5, <1>6

SchedulerInv == TypeOK /\ SchedInv /\ KnownInv /\ VersionInv /\ JobInv /\ PlannedInv

LEMMA SchedulerInvInit == ReleaseInit => SchedulerInv
<1> SUFFICES ASSUME ReleaseInit PROVE SchedulerInv
  OBVIOUS
<1>1. TypeOK /\ SchedInv
  BY ReleaseInit1
<1>2. \A s \in Submissions : schedule[s].version = 0
  BY DEF ReleaseInit
<1>3. JobInv
  BY <1>2 DEF JobInv, ToRelease
<1>4. VersionInv
  <2>1. ASSUME NEW s \in Submissions PROVE Cardinality(Overridden(s)) \in Nat
    BY <1>1, OverriddenFinite DEF SchedInv
  <2>2. crashes = 0 /\ MaxCrashes \in Nat
    BY JobsAssumption DEF ReleaseInit, Init
  <2> QED
    BY <1>2, <2>1, <2>2 DEF VersionInv
<1>5. KnownInv
  <2>1. /\ \A s \in Submissions, v \in 1..MaxVersion : job[<<s, v>>].status = "ABSENT"
        /\ batch = {} /\ cur.executor = NoJob /\ \A t \in Threads : call[t].job = NoJob
    BY SchedulerAssumption DEF ReleaseInit, Init, Absent
  <2> QED
    BY <2>1, JobsAssumption DEF KnownInv
<1>6. PlannedInv
  BY DEF ReleaseInit, PlannedInv
<1> QED
  BY <1>1, <1>3, <1>4, <1>5, <1>6 DEF SchedulerInv

LEMMA SchedulerInvNext == SchedulerInv /\ [ReleaseNext]_allVars => SchedulerInv'
<1> SUFFICES ASSUME SchedulerInv, [ReleaseNext]_allVars PROVE SchedulerInv'
  OBVIOUS
<1> USE DEF SchedulerInv
<1>1. TypeOK' /\ SchedInv'
  BY SchedNext
<1>2. KnownInv'
  BY <1>1, KnownNext
<1>3. VersionInv'
  BY <1>1, VersionNext
<1>4. (TypeOK /\ SchedInv /\ VersionInv => JobsFit)'
  BY JobsFitAlways, PTL
<1>5. JobInv'
  BY <1>1, <1>3, <1>4, JobNext
<1>6. PlannedInv'
  BY <1>1, PlannedNext
<1> QED
  BY <1>1, <1>2, <1>3, <1>5, <1>6

(* What resolve put on schedule has a schedule, and a job of its version     *)
(* waiting or being run until a release is recorded, whatever overrides,     *)
(* triggers and replays there are; what the transition route released has no *)
(* release of the scheduler's to wait for.                                   *)
THEOREM ScheduledHasJobHolds == ReleaseSpec => []ScheduledHasJob
<1>1. SchedulerInv => ScheduledHasJob
  <2> SUFFICES ASSUME SchedulerInv, NEW s \in resolved,
                      state[s] = "scheduled" \/ released[s] # {}, ~schedule[s].triggered,
                      s \notin cut, mutex # "loop"
               PROVE  /\ schedule[s].version > 0
                      /\ LET j == JobFor(s) IN
                           \/ job[j].status \in Pending
                           \/ /\ job[j].status = "RUNNING"
                              /\ \E t \in Threads : j \in {cur[t], call[t].job}
    BY DEF ScheduledHasJob
  <2>0. s \in Submissions /\ schedule[s].version \in Nat
    BY DEF SchedulerInv, SchedInv, ReleaseTypes, ScheduleRow
  <2>v. schedule[s].version > 0
    BY <2>0 DEF SchedulerInv, PlannedInv, SchedInv, LockInv, InSection, Threads
  <2>w. ToRelease(s)
    BY <2>v DEF ToRelease
  <2>1. ~Enqueueing(s)
    BY DEF SchedulerInv, SchedInv, LockInv, InSection, Enqueueing, Threads
  <2>2. HasJob(JobFor(s))
    BY <2>0, <2>1, <2>w DEF SchedulerInv, JobInv, SeenTo
  <2> QED
    BY <2>2, <2>v DEF HasJob, LoopReleases, Threads
<1> QED
  BY <1>1, SchedulerInvInit, SchedulerInvNext, PTL DEF ReleaseSpec
----------------------------------------------------------------------------
(* The scheduler implements the queue: forgetting the submissions and their  *)
(* schedules, each step of a release job or of a route that names one is a   *)
(* step of the queue's executor or of its event loop, or none of the queue's.*)
(* Where the queue takes its threads to be follows from the calls they make. *)

QExecutor ==
  IF pc.executor # "handling" THEN pc.executor
  ELSE IF At("executor", "marking") THEN "marking"
  ELSE IF At("executor", "burying") THEN "selfBurying"
  ELSE IF At("executor", "returning") THEN "reported"
  ELSE IF call["executor"].at \in {"raising", "refused"} THEN "raised"
  ELSE "handling"

Reporting == {"releasing", "recording", "failing", "answering"}
QLoop ==
  IF call["loop"].job = NoJob THEN "idle"
  ELSE IF At("loop", "marking") THEN "pending"
  ELSE IF At("loop", "burying") THEN "burying"
  ELSE IF call["loop"].at \in Reporting THEN "trying"
  ELSE "idle"

QPc == [executor |-> QExecutor, loop |-> QLoop]
QCur == [executor |-> cur.executor,
         loop |-> IF QLoop = "idle" THEN NoJob ELSE call["loop"].job]

(* What the classification of a refused or premature trigger will be.        *)
QFatal ==
  IF call["executor"].at \in {"burying", "refused"} THEN TRUE
  ELSE IF At("executor", "raising") THEN FALSE
  ELSE fatal

Q == INSTANCE JobQueueProofs WITH pc <- QPc, cur <- QCur, fatal <- QFatal

(* The tables are the same, and so is what is written to them. *)
LEMMA QSame ==
  /\ Q!Unlocked <=> Unlocked
  /\ Q!Due = Due /\ Q!Pending = Pending
  /\ \A j : /\ Q!MarkRunning(j) <=> MarkRunning(j)
            /\ Q!MarkSucceeded(j) <=> MarkSucceeded(j)
            /\ Q!FailIsNoOp(j) <=> FailIsNoOp(j)
            /\ \A terminal : /\ Q!Retry(j, terminal) <=> Retry(j, terminal)
                             /\ Q!WriteLetter(j, terminal) <=> WriteLetter(j, terminal)
                             /\ Q!Bury(j, terminal) <=> Bury(j, terminal)
BY DEF Q!Unlocked, Unlocked, Q!Due, Due, Q!Pending, Pending, Q!MarkRunning, MarkRunning,
       Q!MarkSucceeded, MarkSucceeded, Q!FailIsNoOp, FailIsNoOp, Q!Retry, Retry,
       Q!NextAttempt, NextAttempt, Q!WriteLetter, WriteLetter, Q!Bury, Bury

LEMMA QInit == ReleaseInit => Q!Init
BY DEF ReleaseInit, Init, Q!Init, QPc, QCur, QFatal, QExecutor, QLoop, At, Absent, Threads

QKnown == TypeOK /\ ReleaseTypes /\ CallsInv /\ KnownInv

(* What a step that leaves one thread's call alone leaves of the mapping. *)
LEMMA QLoopStays ==
    ASSUME call'["loop"] = call["loop"]
    PROVE  QLoop' = QLoop /\ QCur'.loop = QCur.loop /\ QPc'.loop = QPc.loop
BY DEF QLoop, QCur, QPc, At

LEMMA QExecutorStays ==
    ASSUME call'["executor"] = call["executor"], pc' = pc, cur' = cur, fatal' = fatal
    PROVE  /\ QExecutor' = QExecutor /\ QFatal' = QFatal
           /\ QCur'.executor = QCur.executor /\ QPc'.executor = QPc.executor
BY DEF QExecutor, QFatal, QCur, QPc, At

(* A thread that goes on, or drops its job, does so in the queue. *)
LEMMA QExecutorGoes ==
    ASSUME TypeOK, NEW l, NEW k,
           QPc = [executor |-> pc.executor, loop |-> l], QPc' = [executor |-> pc'.executor, loop |-> l],
           QCur = [executor |-> cur.executor, loop |-> k], QCur' = [executor |-> cur'.executor, loop |-> k]
    PROVE  /\ \A step : Goto("executor", step) => Q!Goto("executor", step)
           /\ Drop("executor") => Q!Drop("executor")
           /\ \A j : cur' = [cur EXCEPT !.executor = j] => QCur' = [QCur EXCEPT !.executor = j]
           /\ UNCHANGED pc => UNCHANGED QPc
           /\ UNCHANGED cur => UNCHANGED QCur
<1>t. pc \in [executor : ExecutorSteps, loop : LoopSteps]
      /\ cur \in [executor : Jobs \union {NoJob}, loop : Jobs \union {NoJob}]
  BY DEF TypeOK
<1> HIDE DEF QPc, QCur
<1>1. ASSUME NEW step, Goto("executor", step) PROVE Q!Goto("executor", step)
  <2>1. pc'.executor = step
    BY <1>t, <1>1 DEF Goto
  <2>2. QPc' = [executor |-> step, loop |-> l]
    BY <2>1
  <2> QED
    BY <2>2 DEF Q!Goto
<1>2. ASSUME NEW j, cur' = [cur EXCEPT !.executor = j] PROVE QCur' = [QCur EXCEPT !.executor = j]
  <2>1. cur'.executor = j
    BY <1>t, <1>2
  <2>2. QCur' = [executor |-> j, loop |-> k]
    BY <2>1
  <2> QED
    BY <2>2
<1>3. Drop("executor") => Q!Drop("executor")
  BY <1>2 DEF Drop, Q!Drop
<1> QED
  BY <1>1, <1>2, <1>3

(* The executor's own steps are the queue's, its call being none then. *)
LEMMA QueueStepQueues ==
    ASSUME QKnown, QueueStep
    PROVE  Q!Next
<1>1. pc.executor # "handling" /\ call' = call
  BY DEF QueueStep, scheduler, Poll, Pick, RoundOver, Start, Settle, Succeed, Catch, Fail, FailBury
<1>2. call["executor"].at = "out"
  BY <1>1 DEF QKnown, CallsInv
<1>3. QFatal = fatal /\ QFatal' = fatal'
  BY <1>1, <1>2 DEF QFatal, At
<1>4. /\ QPc = [executor |-> pc.executor, loop |-> QLoop]
      /\ QPc' = [executor |-> pc'.executor, loop |-> QLoop]
  BY <1>1, <1>2, QLoopStays DEF QPc, QExecutor, At
<1>5. PICK l : /\ QCur = [executor |-> cur.executor, loop |-> l]
               /\ QCur' = [executor |-> cur'.executor, loop |-> l]
  BY <1>1, QLoopStays DEF QCur
<1>6. /\ \A step : Goto("executor", step) => Q!Goto("executor", step)
      /\ Drop("executor") => Q!Drop("executor")
      /\ \A j : cur' = [cur EXCEPT !.executor = j] => QCur' = [QCur EXCEPT !.executor = j]
      /\ UNCHANGED pc => UNCHANGED QPc
      /\ UNCHANGED cur => UNCHANGED QCur
  BY <1>4, <1>5, QExecutorGoes DEF QKnown
<1>7. QPc.executor = pc.executor /\ QCur.executor = cur.executor
  BY <1>4, <1>5
<1> HIDE DEF QPc, QCur, QFatal, QKnown, Goto, Drop, Q!Goto, Q!Drop
<1> USE <1>3, <1>6, <1>7, QSame DEF tables, Q!tables, history, Q!history
<1>8. Poll => Q!Poll
  BY DEF Poll, Q!Poll
<1>9. Pick => Q!Pick
  BY DEF Pick, Q!Pick
<1>10. RoundOver => Q!RoundOver
  BY DEF RoundOver, Q!RoundOver
<1>11. Start => Q!Start
  BY DEF Start, Q!Start
<1>12. Settle => Q!Settle
  BY DEF Settle, Q!Settle
<1>13. Succeed => Q!Succeed
  BY DEF Succeed, Q!Succeed
<1>14. Catch => Q!Catch
  BY DEF Catch, Q!Catch
<1>15. Fail => Q!Fail
  BY DEF Fail, Q!Fail
<1>16. FailBury => Q!FailBury
  BY DEF FailBury, Q!FailBury
<1> QED
  BY <1>8, <1>9, <1>10, <1>11, <1>12, <1>13, <1>14, <1>15, <1>16 DEF QueueStep, Q!Next, Q!Executor

(* The executor's call alone moves. *)
LEMMA QExecutorMoves ==
    ASSUME call'["loop"] = call["loop"], cur' = cur
    PROVE  /\ \A step : QExecutor' = step => Q!Goto("executor", step)
           /\ UNCHANGED QCur
           /\ QExecutor' = QExecutor => UNCHANGED QPc
           /\ QPc.executor = QExecutor /\ QCur.executor = cur.executor
<1>1. QPc = [executor |-> QExecutor, loop |-> QLoop]
  BY DEF QPc
<1>2. QPc' = [executor |-> QExecutor', loop |-> QLoop]
  BY QLoopStays DEF QPc
<1>3. UNCHANGED QCur
  BY QLoopStays DEF QCur
<1>4. QCur.executor = cur.executor
  BY DEF QCur
<1> HIDE DEF QPc, QExecutor, QLoop, QCur
<1>5. ASSUME NEW step, QExecutor' = step PROVE Q!Goto("executor", step)
  BY <1>1, <1>2, <1>5 DEF Q!Goto
<1> QED
  BY <1>1, <1>2, <1>3, <1>4, <1>5

(* A trigger in the executor's hands is its handler reporting on the job. *)
LEMMA ExecutorTriggerQueues ==
    ASSUME QKnown, TriggerStep("executor")
    PROVE  Q!Next \/ UNCHANGED Q!vars
<1> DEFINE t == "executor"
<1>1. /\ t \in Threads /\ call[t].at # "out" /\ \A u \in Threads : u # t <=> u = "loop"
      /\ ReleaseTypes /\ CallsInv
  BY DEF QKnown, Threads, TriggerStep, At, EnterReplay, EnterNotDue, EnterDue, CheckPending, MarkPending,
         Release, ReleaseRefused, FailReported, BuryReported, RecordRelease, AnswerTrigger
<1>2. pc.executor = "handling" /\ call[t].job = cur.executor
  BY <1>1 DEF CallsInv
<1>3. cur.executor \in Jobs /\ cur.executor \in Reported /\ cur.executor # NoJob
  BY <1>2, SchedulerAssumption, JobsAssumption DEF QKnown, TypeOK
<1>4. UNCHANGED threads => pc' = pc /\ cur' = cur /\ batch' = batch /\ fatal' = fatal
  BY DEF threads
<1>5. /\ UNCHANGED queue => UNCHANGED threads /\ UNCHANGED <<tables, burying, history>>
      /\ QueueRest => UNCHANGED <<answered, threads, history>>
  BY DEF queue, QueueRest
<1>6. ASSUME NEW step \in Steps, To(t, step), UNCHANGED threads
      PROVE  /\ call'[t].at = step /\ UNCHANGED QCur
             /\ \A x : QExecutor' = x => Q!Goto("executor", x)
             /\ QExecutor' = QExecutor => UNCHANGED QPc
             /\ UNCHANGED batch
  BY <1>1, <1>4, <1>6, ToMoves, QExecutorMoves DEF Moves, Threads
<1>7. /\ QPc.executor = QExecutor /\ QCur.executor = cur.executor
      /\ \A j : Q!MarkRunning(j) <=> MarkRunning(j)
  BY QSame DEF QPc, QCur
<1>8. ASSUME NEW step \in Steps, To(t, step), UNCHANGED queue,
             QExecutor' = QExecutor, QFatal' = QFatal
      PROVE  UNCHANGED Q!vars
  BY <1>5, <1>6, <1>8 DEF tables, history, Q!vars, Q!tables, Q!threads, Q!history
<1> HIDE DEF QPc, QCur
<1>9. CASE EnterReplay(t) \/ EnterDue(t) \/ Release(t) \/ ReleaseRefused(t) \/ RecordRelease(t)
  <2>1. PICK step \in {"repeating", "checking", "recording", "failing", "answering"} : To(t, step)
    BY <1>2, <1>3, <1>9 DEF EnterReplay, EnterDue, Release, ReleaseRefused, RecordRelease
  <2>2. call[t].at \in {"entering", "releasing", "recording"} /\ UNCHANGED queue
    BY <1>9 DEF EnterReplay, EnterDue, Release, ReleaseRefused, RecordRelease, At
  <2>3. call'[t].at = step
    BY <1>5, <1>6, <2>1, <2>2 DEF Steps
  <2>4. QExecutor' = QExecutor /\ QFatal' = QFatal
    BY <1>2, <1>4, <1>5, <2>1, <2>2, <2>3 DEF QExecutor, QFatal, At
  <2> QED
    BY <1>8, <2>1, <2>2, <2>4 DEF Steps
<1>10. CASE EnterNotDue(t)
  <2>1. To(t, "raising") /\ call[t].at = "entering" /\ UNCHANGED queue
    BY <1>10 DEF EnterNotDue, At
  <2>2. call'[t].at = "raising" /\ QExecutor = "handling"
    BY <1>2, <1>5, <1>6, <2>1 DEF Steps, QExecutor, At
  <2>3. QExecutor' = "raised" /\ QFatal' = FALSE
    BY <1>2, <1>4, <1>5, <2>1, <2>2 DEF QExecutor, QFatal, At
  <2>4. Q!HandlerRaises
    BY <1>5, <1>6, <1>7, <2>1, <2>2, <2>3
       DEF Q!HandlerRaises, Steps, tables, history, Q!tables, Q!history
  <2> QED
    BY <2>4 DEF Q!Next, Q!Executor
<1>11. CASE CheckPending(t)
  <2>1. call[t].at = "checking" /\ UNCHANGED queue
        /\ To(t, IF job[cur.executor].status \in Pending THEN "marking" ELSE "releasing")
    BY <1>2, <1>3, <1>11 DEF CheckPending, At
  <2>2. QExecutor = "handling" /\ QFatal' = QFatal
    <3>1. call'[t].at \in {"marking", "releasing"}
      BY <1>5, <1>6, <2>1 DEF Steps
    <3> QED
      BY <1>2, <1>4, <1>5, <2>1, <3>1 DEF QExecutor, QFatal, At
  <2>3. CASE job[cur.executor].status \in Pending
    <3>1. call'[t].at = "marking" /\ To(t, "marking")
      BY <1>5, <1>6, <2>1, <2>3 DEF Steps
    <3>2. QExecutor' = "marking"
      BY <1>2, <1>4, <1>5, <2>1, <3>1 DEF QExecutor, At
    <3>3. Q!HandlerChecks
      BY <1>3, <1>5, <1>6, <1>7, <2>1, <2>2, <2>3, <3>1, <3>2, QSame
         DEF Q!HandlerChecks, Steps, tables, history, Q!tables, Q!history
    <3> QED
      BY <3>3 DEF Q!Next, Q!Executor
  <2>4. CASE job[cur.executor].status \notin Pending
    <3>1. call'[t].at = "releasing" /\ To(t, "releasing")
      BY <1>5, <1>6, <2>1, <2>4 DEF Steps
    <3>2. QExecutor' = "handling"
      BY <1>2, <1>4, <1>5, <2>1, <3>1 DEF QExecutor, At
    <3> QED
      BY <1>8, <2>1, <2>2, <3>1, <3>2 DEF Steps
  <2> QED
    BY <2>3, <2>4
<1>12. CASE MarkPending(t)
  <2>1. To(t, "releasing") /\ call[t].at = "marking" /\ QueueRest /\ Unlocked
        /\ MarkRunning(cur.executor) /\ UNCHANGED <<letters, burying>>
    BY <1>2, <1>12 DEF MarkPending, At
  <2>2. call'[t].at = "releasing"
    BY <1>5, <1>6, <2>1 DEF Steps
  <2>3. QExecutor = "marking" /\ QExecutor' = "handling" /\ QFatal' = QFatal
    BY <1>2, <1>4, <1>5, <2>1, <2>2 DEF QExecutor, QFatal, At
  <2>4. Q!HandlerMarksRunning
    BY <1>5, <1>6, <1>7, <2>1, <2>3, QSame DEF Q!HandlerMarksRunning, Steps, history, Q!history
  <2> QED
    BY <2>4 DEF Q!Next, Q!Executor
<1>13. CASE AnswerTrigger(t)
  <2>1. To(t, "returning") /\ call[t].at \in {"answering", "repeating"} /\ QueueRest /\ Unlocked
        /\ MarkSucceeded(cur.executor) /\ UNCHANGED <<letters, burying>>
    BY <1>2, <1>3, <1>13 DEF AnswerTrigger, At
  <2>2. call'[t].at = "returning"
    BY <1>5, <1>6, <2>1 DEF Steps
  <2>3. QExecutor = "handling" /\ QExecutor' = "reported" /\ QFatal' = QFatal
    BY <1>2, <1>4, <1>5, <2>1, <2>2 DEF QExecutor, QFatal, At
  <2>4. Q!HandlerReportsSuccess
    BY <1>3, <1>5, <1>6, <1>7, <2>1, <2>3, QSame DEF Q!HandlerReportsSuccess, Steps, history, Q!history
  <2> QED
    BY <2>4 DEF Q!Next, Q!Executor
<1>14. CASE FailReported(t)
  <2>1. call[t].at = "failing" /\ QueueRest /\ Unlocked
        /\ \/ (FailIsNoOp(cur.executor) \/ Retry(cur.executor, FALSE)) /\ To(t, "refused")
           \/ WriteLetter(cur.executor, FALSE) /\ To(t, "burying")
    BY <1>2, <1>14 DEF FailReported, At
  <2>2. PICK step \in {"refused", "burying"} :
          /\ To(t, step) /\ call'[t].at = step
          /\ step = "refused" => FailIsNoOp(cur.executor) \/ Retry(cur.executor, FALSE)
          /\ step = "burying" => WriteLetter(cur.executor, FALSE)
    BY <1>5, <1>6, <2>1 DEF Steps
  <2>3. /\ QExecutor = "handling" /\ QFatal' = TRUE
        /\ QExecutor' = IF step = "refused" THEN "raised" ELSE "selfBurying"
    BY <1>2, <1>4, <1>5, <2>1, <2>2 DEF QExecutor, QFatal, At
  <2>4. Q!HandlerReportsFailure
    BY <1>3, <1>5, <1>6, <1>7, <2>1, <2>2, <2>3, QSame
       DEF Q!HandlerReportsFailure, Steps, history, Q!history
  <2> QED
    BY <2>4 DEF Q!Next, Q!Executor
<1>15. CASE BuryReported(t)
  <2>1. To(t, "refused") /\ call[t].at = "burying" /\ QueueRest /\ Bury(cur.executor, FALSE)
    BY <1>2, <1>15 DEF BuryReported, At
  <2>2. call'[t].at = "refused"
    BY <1>5, <1>6, <2>1 DEF Steps
  <2>3. QExecutor = "selfBurying" /\ QExecutor' = "raised" /\ QFatal' = QFatal
    BY <1>2, <1>4, <1>5, <2>1, <2>2 DEF QExecutor, QFatal, At
  <2>4. Q!FailBury
    BY <1>5, <1>6, <1>7, <2>1, <2>3, QSame DEF Q!FailBury, Steps, history, Q!history
  <2> QED
    BY <2>4 DEF Q!Next, Q!Executor
<1> QED
  BY <1>9, <1>10, <1>11, <1>12, <1>13, <1>14, <1>15 DEF TriggerStep

(* The handler's beginning, a stale job, and what execute_due_jobs sees. *)
LEMMA HandlerQueues ==
    ASSUME QKnown, ExecuteReleaseJob \/ FinishStale \/ HandlerEnds
    PROVE  Q!Next \/ UNCHANGED Q!vars
<1> DEFINE t == "executor"
<1>1. /\ t \in Threads /\ "loop" \in Threads /\ t # "loop" /\ ReleaseTypes /\ CallsInv
      /\ \A u \in Threads : u # t => u = "loop"
  BY DEF QKnown, Threads
<1>2. pc.executor = "handling"
  BY <1>1 DEF ExecuteReleaseJob, FinishStale, HandlerEnds, At, CallsInv
<1>3. cur.executor \in Jobs /\ cur.executor \in Reported
  BY <1>2, SchedulerAssumption DEF QKnown, TypeOK
<1>4. pc \in [executor : ExecutorSteps, loop : LoopSteps]
  BY DEF QKnown, TypeOK
<1>5. /\ call'["loop"] = call["loop"] /\ cur' = cur
      /\ call \in [Threads -> CallRow]
  BY <1>1 DEF ReleaseTypes, ExecuteReleaseJob, FinishStale, HandlerEnds, HandlerReturns,
              HandlerRaises, To, Done, queue, threads, QueueRest
<1>6. /\ UNCHANGED QCur
      /\ \A x : QExecutor' = x => Q!Goto("executor", x)
      /\ QExecutor' = QExecutor => UNCHANGED QPc
      /\ QPc.executor = QExecutor /\ QCur.executor = cur.executor
  BY <1>5, QExecutorMoves
<1> HIDE DEF QPc, QCur
<1>7. CASE ExecuteReleaseJob
  <2>1. call[t].at = "out" /\ call'[t].at \in {"entering", "stale"} /\ UNCHANGED queue
    BY <1>1, <1>5, <1>7 DEF ExecuteReleaseJob, At
  <2>2. QExecutor' = QExecutor /\ QFatal' = QFatal
    BY <1>2, <2>1 DEF QExecutor, QFatal, At, queue, threads
  <2> QED
    BY <1>6, <2>1, <2>2
       DEF queue, threads, tables, history, Q!vars, Q!tables, Q!threads, Q!history
<1>8. CASE FinishStale
  <2>1. call[t].at = "stale" /\ To(t, "returning") /\ Unlocked /\ MarkSucceeded(cur.executor)
        /\ QueueRest /\ UNCHANGED <<letters, burying>>
    BY <1>8 DEF FinishStale, At
  <2>2. call'[t].at = "returning"
    BY <1>1, <2>1, ToMoves DEF Moves, Steps
  <2>3. QExecutor = "handling" /\ QExecutor' = "reported" /\ QFatal' = QFatal
    BY <1>2, <2>1, <2>2 DEF QExecutor, QFatal, At, QueueRest, threads
  <2>4. Q!HandlerReportsSuccess
    BY <1>3, <1>6, <2>1, <2>3, QSame DEF Q!HandlerReportsSuccess, QueueRest, threads, history, Q!history
  <2> QED
    BY <2>4 DEF Q!Next, Q!Executor
<1>9. CASE HandlerEnds /\ At(t, "returning")
  <2>1. HandlerReturns /\ call[t].at = "returning" /\ call'[t].at = "out"
    BY <1>1, <1>9, DoneEnds DEF HandlerEnds, At, Ends
  <2>2. pc'.executor = "settling"
    BY <1>4, <2>1 DEF HandlerReturns, Goto
  <2>3. QExecutor = "reported" /\ QExecutor' = "settling" /\ QFatal' = QFatal
    BY <1>2, <2>1, <2>2 DEF QExecutor, QFatal, At, HandlerReturns
  <2>4. Q!HandlerReturns
    BY <1>6, <2>1, <2>3 DEF HandlerReturns, Q!HandlerReturns, tables, history, Q!tables, Q!history
  <2> QED
    BY <2>4 DEF Q!Next, Q!Executor
<1>10. CASE HandlerEnds /\ ~At(t, "returning")
  <2>1. /\ HandlerRaises /\ call'[t].at = "out" /\ call[t].at \in {"raising", "refused"}
        /\ call[t].at = "raising" => fatal' = FALSE
        /\ call[t].at = "refused" => fatal' = TRUE
    BY <1>1, <1>10, DoneEnds DEF HandlerEnds, HandlerRaises, At, Ends
  <2>2. pc'.executor = "raised"
    BY <1>4, <2>1 DEF HandlerRaises, Goto
  <2>3. QExecutor = "raised" /\ QExecutor' = "raised" /\ QFatal' = QFatal
    BY <1>2, <2>1, <2>2 DEF QExecutor, QFatal, At
  <2> QED
    BY <1>6, <2>1, <2>3
       DEF HandlerRaises, tables, history, Q!vars, Q!tables, Q!threads, Q!history
<1> QED
  BY <1>7, <1>8, <1>9, <1>10

(* The loop's call alone moves. *)
LEMMA QLoopMoves ==
    ASSUME call'["executor"] = call["executor"], pc' = pc, cur' = cur, fatal' = fatal
    PROVE  /\ \A step : QLoop' = step => Q!Goto("loop", step)
           /\ QLoop' = "idle" => Q!Drop("loop")
           /\ \A j : QLoop' # "idle" /\ call'["loop"].job = j => QCur' = [QCur EXCEPT !.loop = j]
           /\ QLoop' = QLoop /\ call'["loop"].job = call["loop"].job => UNCHANGED <<QPc, QCur>>
           /\ QLoop = "idle" /\ QLoop' = "idle" => UNCHANGED <<QPc, QCur>>
           /\ QPc.loop = QLoop /\ QFatal' = QFatal
           /\ QLoop # "idle" => QCur.loop = call["loop"].job
<1>1. QPc = [executor |-> QExecutor, loop |-> QLoop] /\ QPc' = [executor |-> QExecutor, loop |-> QLoop']
  BY QExecutorStays DEF QPc
<1>2. /\ QCur = [executor |-> cur.executor, loop |-> IF QLoop = "idle" THEN NoJob ELSE call["loop"].job]
      /\ QCur' = [executor |-> cur.executor, loop |-> IF QLoop' = "idle" THEN NoJob ELSE call'["loop"].job]
  BY DEF QCur
<1>3. QFatal' = QFatal
  BY QExecutorStays
<1> HIDE DEF QPc, QCur, QLoop, QExecutor, QFatal
<1>4. ASSUME NEW step, QLoop' = step PROVE Q!Goto("loop", step)
  BY <1>1, <1>4 DEF Q!Goto
<1>5. ASSUME QLoop' = "idle" PROVE Q!Drop("loop")
  BY <1>2, <1>5 DEF Q!Drop
<1>6. ASSUME NEW j, QLoop' # "idle", call'["loop"].job = j PROVE QCur' = [QCur EXCEPT !.loop = j]
  BY <1>2, <1>6
<1> QED
  BY <1>1, <1>2, <1>3, <1>4, <1>5, <1>6

(* A trigger in the loop's hands that names a job is the loop's report on it.*)
LEMMA LoopTriggerQueues ==
    ASSUME QKnown, TriggerStep("loop")
    PROVE  Q!Next \/ UNCHANGED Q!vars
<1> DEFINE t == "loop"
           j == call[t].job
<1>1. /\ t \in Threads /\ "executor" \in Threads /\ t # "executor"
      /\ ReleaseTypes /\ j \in Jobs \union {NoJob} /\ NoJob \notin Jobs
      /\ j \in Jobs => j \in Reported /\ job[j].status # "ABSENT"
      /\ call[t].at \in {"marking", "failing", "burying"} => j \in Jobs
  BY SchedulerAssumption, JobsAssumption DEF QKnown, KnownInv, CallsInv, Threads, ReleaseTypes, CallRow
<1>2. /\ UNCHANGED queue => UNCHANGED threads /\ UNCHANGED <<tables, burying, history>>
      /\ QueueRest => UNCHANGED <<answered, threads, history>>
  BY DEF queue, QueueRest
<1>3. ASSUME NEW step \in Steps, To(t, step), UNCHANGED threads
      PROVE  /\ call'[t].at = step /\ call'[t].job = j
             /\ \A x : QLoop' = x => Q!Goto("loop", x)
             /\ QLoop' = "idle" => Q!Drop("loop")
             /\ QLoop' # "idle" => QCur' = [QCur EXCEPT !.loop = j]
             /\ QLoop' = QLoop => UNCHANGED <<QPc, QCur>>
             /\ QPc.loop = QLoop
             /\ QLoop # "idle" => QCur.loop = j
             /\ UNCHANGED <<batch, QFatal>>
  BY <1>1, <1>3, ToMoves, QLoopMoves DEF Moves, threads
<1>4. ASSUME NEW step \in Steps, To(t, step), UNCHANGED queue, QLoop' = QLoop
      PROVE  UNCHANGED Q!vars
  BY <1>2, <1>3, <1>4 DEF tables, history, Q!vars, Q!tables, Q!threads, Q!history
<1> HIDE DEF QPc, QCur, QFatal, j
<1>5. CASE EnterReplay(t) \/ EnterNotDue(t) \/ EnterDue(t) \/ Release(t) \/ ReleaseRefused(t)
           \/ RecordRelease(t)
  <2>1. PICK step \in {"repeating", "raising", "checking", "recording", "refused", "failing", "answering"} :
          /\ To(t, step)
          /\ call[t].at = "entering" => step \in {"repeating", "raising", "checking"}
          /\ call[t].at # "entering" =>
               step \in Reporting \/ (step = "refused" /\ j = NoJob)
    <3>1. CASE EnterReplay(t) \/ EnterNotDue(t) \/ EnterDue(t)
      BY <3>1 DEF EnterReplay, EnterNotDue, EnterDue, At
    <3>2. CASE Release(t) \/ RecordRelease(t)
      BY <3>2 DEF Release, RecordRelease, At, Reporting
    <3>3. CASE ReleaseRefused(t)
      BY <3>3 DEF ReleaseRefused, At, Reporting, j
    <3> QED
      BY <1>5, <3>1, <3>2, <3>3
  <2>2. call[t].at \in {"entering", "releasing", "recording"} /\ UNCHANGED queue
    BY <1>5 DEF EnterReplay, EnterNotDue, EnterDue, Release, ReleaseRefused, RecordRelease, At
  <2>3. call'[t].at = step /\ call'[t].job = j
    BY <1>2, <1>3, <2>1, <2>2 DEF Steps
  <2>4. QLoop' = QLoop
    BY <2>1, <2>2, <2>3 DEF QLoop, At, Reporting, j
  <2> QED
    BY <1>4, <2>1, <2>2, <2>4 DEF Steps
<1>6. CASE CheckPending(t)
  <2>1. call[t].at = "checking" /\ UNCHANGED queue
        /\ To(t, IF j # NoJob /\ job[j].status \in Pending THEN "marking" ELSE "releasing")
    BY <1>6 DEF CheckPending, At, j
  <2>2. PICK step \in {"marking", "releasing"} :
          To(t, step) /\ (step = "marking" <=> j # NoJob /\ job[j].status \in Pending)
    BY <2>1
  <2>3. call'[t].at = step /\ call'[t].job = j
    BY <1>2, <1>3, <2>1, <2>2 DEF Steps
  <2>4. QLoop = "idle" /\ QLoop' = IF j = NoJob THEN "idle"
                                  ELSE IF step = "marking" THEN "pending" ELSE "trying"
    BY <2>1, <2>2, <2>3 DEF QLoop, At, Reporting, j
  <2>5. CASE j = NoJob
    BY <1>4, <2>1, <2>2, <2>4, <2>5 DEF Steps
  <2>6. CASE j \in Jobs
    <3>1. Q!Goto("loop", IF job[j].status \in Pending THEN "pending" ELSE "trying")
          /\ QCur' = [QCur EXCEPT !.loop = j]
      BY <1>1, <1>2, <1>3, <2>1, <2>2, <2>4, <2>6 DEF Steps
    <3>2. Q!TriggerChecks(j)
      BY <1>1, <1>2, <1>3, <2>1, <2>2, <2>4, <2>6, <3>1, QSame
         DEF Q!TriggerChecks, Q!LoopFrame, Steps, tables, history, Q!tables, Q!history
    <3> QED
      BY <2>6, <3>2 DEF Q!Next
  <2> QED
    BY <1>1, <2>5, <2>6
<1>7. CASE MarkPending(t)
  <2>1. /\ To(t, "releasing") /\ call[t].at = "marking" /\ j \in Jobs /\ QueueRest /\ Unlocked
        /\ MarkRunning(j) /\ UNCHANGED <<letters, burying>>
    BY <1>1, <1>7 DEF MarkPending, At, j
  <2>2. call'[t].at = "releasing" /\ call'[t].job = j
    BY <1>2, <1>3, <2>1 DEF Steps
  <2>3. QLoop = "pending" /\ QLoop' = "trying"
    BY <1>1, <2>1, <2>2 DEF QLoop, At, Reporting, j
  <2>4. Q!TriggerMarksRunning
    <3>1. UNCHANGED QCur
      BY <1>1, <1>2, <2>1, <2>2, <2>3, ToMoves DEF QCur, threads, j, QueueRest
    <3> QED
      BY <1>2, <1>3, <2>1, <2>3, <3>1, QSame
         DEF Q!TriggerMarksRunning, Q!LoopFrame, Steps, history, Q!history
  <2> QED
    BY <2>4 DEF Q!Next, Q!Trigger
<1>8. CASE AnswerTrigger(t)
  <2>1. /\ To(t, "returning") /\ call[t].at \in {"answering", "repeating"} /\ QueueRest
        /\ UNCHANGED <<letters, burying>>
        /\ j = NoJob => job' = job
        /\ j # NoJob => Unlocked /\ MarkSucceeded(j)
    BY <1>8 DEF AnswerTrigger, At, j
  <2>2. call'[t].at = "returning" /\ call'[t].job = j
    BY <1>2, <1>3, <2>1 DEF Steps
  <2>3. QLoop' = "idle"
    BY <2>2 DEF QLoop, At, Reporting
  <2>4. CASE j = NoJob
    <3>1. QLoop = "idle"
      BY <2>4 DEF QLoop, j
    <3> QED
      BY <1>2, <1>3, <2>1, <2>3, <2>4, <3>1
         DEF Steps, history, Q!vars, Q!tables, Q!threads, Q!history
  <2>5. CASE j \in Jobs /\ call[t].at = "answering"
    <3>1. QLoop = "trying"
      BY <1>1, <2>5 DEF QLoop, At, Reporting, j
    <3>2. Q!TriggerSucceeds
      BY <1>1, <1>2, <1>3, <2>1, <2>3, <2>5, <3>1, QSame
         DEF Q!TriggerSucceeds, Q!LoopFrame, Steps, history, Q!history
    <3> QED
      BY <3>2 DEF Q!Next, Q!Trigger
  <2>6. CASE j \in Jobs /\ call[t].at = "repeating"
    <3>1. QLoop = "idle"
      BY <2>6 DEF QLoop, At, Reporting
    <3>2. Q!TriggerRepeats(j)
      BY <1>1, <1>2, <1>3, <2>1, <2>3, <2>6, <3>1, QSame
         DEF Q!TriggerRepeats, Q!threads, Steps, history, Q!history
    <3> QED
      BY <2>6, <3>2 DEF Q!Next
  <2> QED
    BY <1>1, <2>1, <2>4, <2>5, <2>6
<1>9. CASE FailReported(t)
  <2>1. /\ call[t].at = "failing" /\ j \in Jobs /\ QueueRest /\ Unlocked
        /\ \/ (FailIsNoOp(j) \/ Retry(j, FALSE)) /\ To(t, "refused")
           \/ WriteLetter(j, FALSE) /\ To(t, "burying")
    BY <1>1, <1>9 DEF FailReported, At, j
  <2>2. PICK step \in {"refused", "burying"} :
          /\ To(t, step) /\ call'[t].at = step /\ call'[t].job = j
          /\ step = "refused" => FailIsNoOp(j) \/ Retry(j, FALSE)
          /\ step = "burying" => WriteLetter(j, FALSE)
    BY <1>2, <1>3, <2>1 DEF Steps
  <2>3. QLoop = "trying" /\ QLoop' = IF step = "refused" THEN "idle" ELSE "burying"
    BY <1>1, <2>1, <2>2 DEF QLoop, At, Reporting, j
  <2>4. step = "burying" => UNCHANGED QCur
    BY <1>2, <2>1, <2>2, <2>3 DEF QCur, threads, j, QueueRest
  <2>5. Q!TriggerFails
    BY <1>2, <1>3, <2>1, <2>2, <2>3, <2>4, QSame
       DEF Q!TriggerFails, Q!LoopFrame, Steps, history, Q!history
  <2> QED
    BY <2>5 DEF Q!Next, Q!Trigger
<1>10. CASE BuryReported(t)
  <2>1. /\ call[t].at = "burying" /\ j \in Jobs /\ QueueRest
        /\ Bury(j, FALSE) /\ To(t, "refused")
    BY <1>1, <1>10 DEF BuryReported, At, j
  <2>2. call'[t].at = "refused" /\ call'[t].job = j
    BY <1>2, <1>3, <2>1 DEF Steps
  <2>3. QLoop = "burying" /\ QLoop' = "idle"
    BY <1>1, <2>1, <2>2 DEF QLoop, At, Reporting, j
  <2>4. Q!TriggerBury
    BY <1>2, <1>3, <2>1, <2>3, QSame
       DEF Q!TriggerBury, Q!LoopFrame, Steps, history, Q!history
  <2> QED
    BY <2>4 DEF Q!Next, Q!Trigger
<1> QED
  BY <1>5, <1>6, <1>7, <1>8, <1>9, <1>10 DEF TriggerStep

(* Steps of the routes that the queue knows nothing of. *)
LEMMA RouteQueues ==
    ASSUME QKnown,
           \/ Plan \/ RecordOverride \/ AuditResolve \/ RouteEnds
           \/ \E s \in Submissions :
                \/ Resolve(s) \/ DirectTransition(s) \/ ScheduleDue(s)
             \/ (\E o \in OverrideIds : Override(s, o))
                \/ \E r \in TriggerIds, j \in Jobs \union {NoJob}, force \in BOOLEAN :
                     TriggerRoute(s, r, j, force)
    PROVE  UNCHANGED Q!vars
<1> DEFINE Quietly == /\ call'["executor"] = call["executor"] /\ UNCHANGED queue
                      /\ call' = call \/ (QLoop = "idle" /\ QLoop' = "idle")
           Elsewhere == {"out", "planning", "overriding", "enqueueing", "auditing", "entering",
                         "returning", "raising", "refused"}
           OnTheWay == /\ call'["executor"] = call["executor"] /\ UNCHANGED queue
                       /\ call["loop"].at \in Elsewhere /\ call'["loop"].at \in Elsewhere
<1>1. call \in [Threads -> CallRow] /\ "executor" \in Threads /\ "loop" \in Threads
  BY DEF QKnown, ReleaseTypes, Threads
<1>2. Quietly => UNCHANGED Q!vars
  <2>1. Quietly => UNCHANGED <<QPc, QCur, QFatal, tables, burying, batch, history>>
    BY QLoopMoves, QExecutorStays, QLoopStays DEF queue, threads, QPc, QCur, QFatal, QLoop, QExecutor, At
  <2> QED
    BY <2>1 DEF tables, history, Q!vars, Q!tables, Q!threads, Q!history
<1>3. OnTheWay => Quietly
  BY DEF QLoop, At, Reporting
<1> HIDE DEF Quietly
<1>4. CASE Plan \/ RecordOverride
  <2>1. OnTheWay
    <3>1. To("loop", "enqueueing") /\ call["loop"].at \in {"planning", "overriding"} /\ UNCHANGED queue
      BY <1>4 DEF Plan, RecordOverride, At
    <3> QED
      BY <1>1, <3>1, ToMoves DEF QKnown, Moves, Steps, Threads
  <2> QED
    BY <1>2, <1>3, <2>1
<1>5. CASE AuditResolve \/ RouteEnds
  <2>1. OnTheWay
    BY <1>1, <1>5 DEF AuditResolve, RouteEnds, Done, Absent, At, CallRow
  <2> QED
    BY <1>2, <1>3, <2>1
<1>6. ASSUME NEW s \in Submissions, Resolve(s) \/ \E o \in OverrideIds : Override(s, o)
      PROVE  UNCHANGED Q!vars
  <2>1. OnTheWay
    BY <1>1, <1>6 DEF Resolve, StartResolve, Override, Absent, At, CallRow
  <2> QED
    BY <1>2, <1>3, <2>1
<1>7. ASSUME NEW s \in Submissions, DirectTransition(s) \/ ScheduleDue(s) PROVE UNCHANGED Q!vars
  BY <1>2, <1>7 DEF DirectTransition, ScheduleDue, Quietly
<1>8. ASSUME NEW s \in Submissions, NEW r \in TriggerIds, NEW j \in Jobs \union {NoJob},
             NEW force \in BOOLEAN, TriggerRoute(s, r, j, force)
      PROVE  UNCHANGED Q!vars
  <2>1. OnTheWay
    BY <1>1, <1>8 DEF TriggerRoute, At, CallRow
  <2> QED
    BY <1>2, <1>3, <2>1
<1> QED
  BY <1>4, <1>5, <1>6, <1>7, <1>8

(* What the queue has of its own: a job enqueued, due or replayed; a crash.  *)
LEMMA RequestQueues ==
    ASSUME QKnown,
           \/ EnqueueRelease \/ ProcessCrash
           \/ \E j \in Jobs : JobDue(j) \/ \E r \in Requests : ReplayJob(j, r)
    PROVE  Q!Next \/ UNCHANGED Q!vars
<1>1. call \in [Threads -> CallRow] /\ "executor" \in Threads /\ "loop" \in Threads
  BY DEF QKnown, ReleaseTypes, Threads
<1>2. QPc.loop = QLoop
  BY DEF QPc
<1>3. UNCHANGED threads /\ call' = call => UNCHANGED <<QPc, QCur, QFatal, batch>>
  BY QLoopStays, QExecutorStays DEF threads, QPc, QCur, QFatal, QLoop, QExecutor, At
<1>4. ASSUME NEW j \in Jobs, JobDue(j) PROVE Q!Next
  <2>1. Q!BecomeDue(j)
    BY <1>3, <1>4, QSame
       DEF JobDue, BecomeDue, scheduler, history, Q!BecomeDue, Q!threads, Q!history
  <2> QED
    BY <2>1 DEF Q!Next
<1>5. ASSUME NEW j \in Jobs, NEW r \in Requests, ReplayJob(j, r) PROVE Q!Next
  <2>1. QLoop = "idle"
    BY <1>5 DEF ReplayJob, QLoop, At, Reporting
  <2>2. UNCHANGED <<QPc, QCur, QFatal, batch>>
    BY <1>3, <1>5 DEF ReplayJob, Replay, scheduler
  <2>3. Q!Replay(j, r)
    BY <1>2, <1>5, <2>1, <2>2, QSame
       DEF ReplayJob, Replay, Newest, Q!Replay, Q!Newest, Q!threads
  <2> QED
    BY <2>3 DEF Q!Next
<1>6. CASE EnqueueRelease
  <2>1. PICK j : j = JobFor(Submission("loop"))
    OBVIOUS
  <2>2. /\ call["loop"].at = "enqueueing" /\ Enqueue(j) /\ call'["executor"] = call["executor"]
        /\ call'["loop"].at \in {"out", "auditing"}
    BY <1>1, <1>6, <2>1 DEF EnqueueRelease, To, Done, Absent, At, CallRow
  <2>3. UNCHANGED threads
    BY <2>2 DEF Enqueue
  <2>4. QLoop = "idle" /\ QLoop' = "idle"
    BY <2>2 DEF QLoop, At, Reporting
  <2>5. UNCHANGED <<QPc, QCur, QFatal, batch>>
    BY <2>2, <2>3, <2>4, QLoopMoves DEF threads
  <2>6. CASE j \in Jobs
    <3>1. Q!Enqueue(j)
      <4>1. \E due \in BOOLEAN :
              job' = [job EXCEPT ![j] =
                [status |-> "QUEUED", attempts |-> 0, due |-> due,
                 age |-> Cardinality({k \in Jobs : job[k].status # "ABSENT"}) + 1]]
        BY <2>2 DEF Enqueue
      <4>2. Unlocked /\ job[j].status = "ABSENT" /\ UNCHANGED <<letters, answered, burying, history>>
        BY <2>2 DEF Enqueue
      <4>3. \A S : Q!Cardinality(S) = Cardinality(S)
        BY DEF Q!Cardinality, Cardinality
      <4> QED
        BY <1>2, <2>4, <2>5, <4>1, <4>2, <4>3, QSame DEF history, Q!Enqueue, Q!threads, Q!history
    <3> QED
      BY <2>6, <3>1 DEF Q!Next
  <2>7. CASE j \notin Jobs
    <3>1. job' = job
      BY <2>2, <2>7 DEF Enqueue, QKnown, TypeOK
    <3> QED
      BY <2>2, <2>5, <3>1
         DEF Enqueue, history, Q!vars, Q!tables, Q!threads, Q!history
  <2> QED
    BY <2>6, <2>7
<1>7. CASE ProcessCrash
  <2>1. Crash /\ call'["executor"] = Absent /\ call'["loop"] = Absent
    BY <1>1, <1>7 DEF ProcessCrash
  <2>2. pc' = [executor |-> "polling", loop |-> "idle"] /\ fatal' = FALSE
        /\ cur' = [executor |-> NoJob, loop |-> NoJob]
    BY <2>1 DEF Crash
  <2>3. QPc' = [executor |-> "polling", loop |-> "idle"] /\ QFatal' = FALSE
        /\ QCur' = [executor |-> NoJob, loop |-> NoJob]
    BY <2>1, <2>2 DEF QPc, QCur, QFatal, QLoop, QExecutor, Absent, At
  <2>4. Q!Crash
    BY <2>1, <2>3 DEF Crash, Q!Crash, tables, Q!tables
  <2> QED
    BY <2>4 DEF Q!Next
<1> QED
  BY <1>4, <1>5, <1>6, <1>7

LEMMA QueueNext == QKnown /\ [ReleaseNext]_allVars => [Q!Next]_(Q!vars)
<1> SUFFICES ASSUME QKnown, [ReleaseNext]_allVars PROVE Q!Next \/ UNCHANGED Q!vars
  OBVIOUS
<1>1. UNCHANGED allVars => UNCHANGED Q!vars
  BY DEF allVars, queue, scheduler, tables, threads, history, Q!vars, Q!tables, Q!threads,
         Q!history, QPc, QCur, QFatal, QLoop, QExecutor, At
<1> QED
  BY <1>1, QueueStepQueues, ExecutorTriggerQueues, HandlerQueues, LoopTriggerQueues,
     RouteQueues, RequestQueues DEF ReleaseNext, ExecutorStep, LoopStep

(* Under resolving, overriding and triggering routes the scheduler's jobs    *)
(* are run, reported on, retried and buried as the queue's are.              *)
THEOREM SchedulerImplementsQueue == ReleaseSpec => Q!Spec
<1>1. SchedulerInv => QKnown
  BY DEF SchedulerInv, SchedInv, QKnown
<1> QED
  BY <1>1, QInit, QueueNext, SchedulerInvInit, SchedulerInvNext, PTL DEF ReleaseSpec, Q!Spec

(* So they keep to the queue's promises: a release job is run no more often  *)
(* than it has attempts, and one that is given up on can be replayed, once   *)
(* for each dead letter.                                                     *)
THEOREM SchedulerKeepsQueue ==
  ReleaseSpec => []RunsWithinBudget /\ []DeadLettersReplayable /\ []ReplaysOnce
<1>1. /\ Q!RunsWithinBudget => RunsWithinBudget
      /\ Q!DeadLettersReplayable => DeadLettersReplayable
      /\ Q!ReplaysOnce => ReplaysOnce
  BY DEF Q!RunsWithinBudget, RunsWithinBudget, Q!Due, Due, Q!Pending, Pending,
         Q!DeadLettersReplayable, DeadLettersReplayable, Q!Newest, Newest, Q!ReplaysOnce, ReplaysOnce
<1>2. Q!IsFiniteSet(Jobs)
  BY JobsAssumption DEF IsFiniteSet, Q!IsFiniteSet
<1>3. Q!Spec => []Q!RunsWithinBudget
  BY <1>2, JobsAssumption, Q!RunsWithinBudgetHolds
<1>4. Q!Spec => []Q!DeadLettersReplayable
  BY <1>2, JobsAssumption, Q!DeadLettersReplayableHolds
<1>5. Q!Spec => []Q!ReplaysOnce
  BY <1>2, JobsAssumption, Q!ReplaysOnceHolds
<1> QED
  BY <1>1, <1>3, <1>4, <1>5, SchedulerImplementsQueue, PTL
=============================================================================

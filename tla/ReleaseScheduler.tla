-------------------------- MODULE ReleaseScheduler --------------------------
(* ReleaseSchedulerService (features/submissions/scheduler) on top of the    *)
(* job queue: the event loop resolves, overrides and triggers, the executor  *)
(* runs the release jobs, and both meet in trigger_release.                  *)
(*                                                                           *)
(* A step is one commit or one read.  A job is named <<submission, schedule  *)
(* version>>, which is its idempotency key, and its trigger's request id is  *)
(* the job itself.  transition_submission is one step, as SubmissionWorkflow *)
(* shows it to be.  The queue's own steps are those of JobQueue; its event   *)
(* loop stays idle there, what the loop does being spelled out here.         *)
EXTENDS JobQueue

CONSTANTS
  Submissions,
  TriggerIds,   \* request ids of POST /release/trigger
  OverrideIds,  \* request ids of PUT /schedule
  MaxVersion,   \* bound: schedule versions, enough for every write there is
  Nobody        \* nobody holds the scheduler's _lock

ASSUME SchedulerAssumption ==
  /\ IsFiniteSet(OverrideIds) /\ MaxVersion \in Nat
  /\ MaxVersion >= Cardinality(OverrideIds) + MaxCrashes + 2
  /\ Jobs = Submissions \X (1..MaxVersion)
  /\ Handled = Jobs /\ Reported = Jobs
  /\ TriggerIds \intersect Jobs = {}
  /\ Nobody \notin {"executor", "loop"}

VARIABLES
  state,       \* the submission, from its approval on
  schedule,    \* release_schedules: version (0: no row), planned time passed,
               \*   source manual_override, release_triggered_at set
  released,    \* request ids of the release transitions in the log
  overrides,   \* schedule_overrides
  resolved,    \* submissions whose resolve transition is in the log
  audited,     \* submissions whose resolve call appended its audit event
  mutex,       \* the thread in a section of the scheduler's _lock
  call,        \* each thread's call: where it is, and its arguments
  cut,         \* history: submissions a crash interrupted a call about
  answers      \* history: "performed" and "refused", with the trigger's request

scheduler == <<state, schedule, released, overrides, resolved, audited, mutex, call, cut,
               answers>>
queue == <<tables, burying, threads, history>>
allVars == <<queue, scheduler>>

Threads == {"executor", "loop"}
Absent == [at |-> "out", sub |-> NoJob, req |-> NoJob, job |-> NoJob, forced |-> FALSE,
           fresh |-> FALSE]
JobFor(s) == <<s, schedule[s].version>>

ReleaseInit ==
  /\ Init
  /\ state = [s \in Submissions |-> "approved"]
  /\ schedule = [s \in Submissions |->
                   [version |-> 0, due |-> FALSE, manual |-> FALSE, triggered |-> FALSE]]
  /\ released = [s \in Submissions |-> {}]
  /\ overrides = [s \in Submissions |-> {}]
  /\ resolved = {}
  /\ audited = {}
  /\ mutex = Nobody
  /\ call = [t \in Threads |-> Absent]
  /\ cut = {}
  /\ answers = [s \in Submissions |-> {}]

----------------------------------------------------------------------------
At(t, step) == call[t].at = step
To(t, step) == call' = [call EXCEPT ![t].at = step]
Done(t) == call' = [call EXCEPT ![t] = Absent]
Locked(t) == mutex = t
Free == mutex = Nobody
Leave == mutex' = Nobody
Submission(t) == call[t].sub

(* How a trigger call ends, for the properties.                              *)
Answer(t, a) == answers' = [answers EXCEPT ![call[t].sub] = @ \union {<<call[t].req, a>>}]

(* _upsert_schedule of a schedule with the next version.                     *)
Upsert(s, row) == schedule' = [schedule EXCEPT ![s] = [row EXCEPT !.version = @ + 1]]

----------------------------------------------------------------------------
(* resolve_schedule: transition, schedule and job are three commits, and a   *)
(* call sent again does what is missing.  Each submission has one scheduling *)
(* event, the one of its approval.  A submission that was scheduled by the   *)
(* transition route has no resolve transition: the call is refused.          *)

StartResolve(s, step, fresh) ==
  call' = [call EXCEPT !["loop"] = [Absent EXCEPT !.at = step, !.sub = s, !.fresh = fresh]]

Resolve(s) ==
  /\ At("loop", "out") /\ Free
  /\ \/ /\ state[s] = "approved"
        /\ state' = [state EXCEPT ![s] = "scheduled"]
        /\ resolved' = resolved \union {s}
        /\ StartResolve(s, "planning", TRUE)
     \/ /\ s \in resolved /\ schedule[s].version = 0
        /\ StartResolve(s, "planning", FALSE) /\ UNCHANGED <<state, resolved>>
     \/ /\ schedule[s].version > 0 /\ (s \in audited \/ ~schedule[s].manual)
        /\ job[JobFor(s)].status = "ABSENT"
        /\ StartResolve(s, "enqueueing", FALSE) /\ UNCHANGED <<state, resolved>>
  /\ mutex' = "loop"
  /\ UNCHANGED <<queue, schedule, released, overrides, audited, cut, answers>>

(* POST /submissions/{id}/transition, by an admin or the system: it knows    *)
(* neither the _lock nor the schedule, and its request id is none of theirs. *)
DirectTransition(s) ==
  /\ At("loop", "out")
  /\ \E step \in {<<"approved", "scheduled">>, <<"scheduled", "released">>} :
       state[s] = step[1] /\ state' = [state EXCEPT ![s] = step[2]]
  /\ UNCHANGED <<queue, schedule, released, overrides, resolved, audited, mutex, call, cut,
     answers>>

Plan ==
  /\ At("loop", "planning")
  /\ \E due \in BOOLEAN :
       Upsert(Submission("loop"), [schedule[Submission("loop")] EXCEPT
         !.due = due, !.manual = FALSE, !.triggered = FALSE])
  /\ To("loop", "enqueueing")
  /\ UNCHANGED <<queue, state, released, overrides, resolved, audited, mutex, cut, answers>>

(* override_schedule: schedule, override record and job.  What the row says  *)
(* of the release itself is kept.                                            *)
Override(s, o) ==
  /\ At("loop", "out") /\ Free /\ schedule[s].version > 0
  /\ \/ /\ o \notin overrides[s]
        /\ \E due \in BOOLEAN :
             Upsert(s, [schedule[s] EXCEPT !.due = due, !.manual = TRUE])
        /\ call' = [call EXCEPT !["loop"] =
                      [Absent EXCEPT !.at = "overriding", !.sub = s, !.req = o]]
     \/ /\ o \in overrides[s] /\ job[JobFor(s)].status = "ABSENT"
        /\ call' = [call EXCEPT !["loop"] = [Absent EXCEPT !.at = "enqueueing", !.sub = s]]
        /\ UNCHANGED schedule
  /\ mutex' = "loop"
  /\ UNCHANGED <<queue, state, released, overrides, resolved, audited, cut, answers>>

(* Mutant: the override's job is left to the next poll of nobody.            *)
RecordOverrideOnly ==
  /\ At("loop", "overriding")
  /\ overrides' = [overrides EXCEPT ![Submission("loop")] = @ \union {call["loop"].req}]
  /\ Done("loop") /\ Leave
  /\ UNCHANGED <<queue, state, schedule, released, resolved, audited, cut, answers>>

RecordOverride ==
  /\ At("loop", "overriding")
  /\ overrides' = [overrides EXCEPT ![Submission("loop")] = @ \union {call["loop"].req}]
  /\ To("loop", "enqueueing")
  /\ UNCHANGED <<queue, state, schedule, released, resolved, audited, mutex, cut, answers>>

(* _enqueue_release_job for the version just written; a resolve call that    *)
(* was no replay appends its audit event after letting the lock go.          *)
EnqueueRelease ==
  /\ At("loop", "enqueueing")
  /\ LET s == Submission("loop") IN
       /\ Enqueue(JobFor(s)) /\ job'[JobFor(s)].due = schedule[s].due
       /\ IF call["loop"].fresh THEN To("loop", "auditing") ELSE Done("loop")
  /\ Leave
  /\ UNCHANGED <<state, schedule, released, overrides, resolved, audited, cut, answers>>

AuditResolve ==
  /\ At("loop", "auditing")
  /\ audited' = audited \union {Submission("loop")}
  /\ Done("loop")
  /\ UNCHANGED <<queue, state, schedule, released, overrides, resolved, mutex, cut, answers>>

----------------------------------------------------------------------------
(* trigger_release, called by a route or by a release job.                   *)

TriggerRoute(s, r, j, force) ==
  /\ At("loop", "out") /\ schedule[s].version > 0
  /\ j # NoJob => j[1] = s /\ job[j].status # "ABSENT"
  /\ call' = [call EXCEPT !["loop"] =
       [at |-> "entering", sub |-> s, req |-> r, job |-> j, forced |-> force, fresh |-> FALSE]]
  /\ UNCHANGED <<queue, state, schedule, released, overrides, resolved, audited, mutex, cut,
     answers>>

(* _execute_release_job compares the versions, without the lock.             *)
ExecuteReleaseJob ==
  /\ pc.executor = "handling" /\ At("executor", "out")
  /\ LET j == cur.executor IN
       call' = [call EXCEPT !["executor"] =
         [at |-> IF schedule[j[1]].version = j[2] THEN "entering" ELSE "stale",
          sub |-> j[1], req |-> j, job |-> j, forced |-> FALSE, fresh |-> FALSE]]
  /\ UNCHANGED <<queue, state, schedule, released, overrides, resolved, audited, mutex, cut,
     answers>>

(* The first section finds the request performed before (its transition is   *)
(* in the log; the schedule is repaired if a crash left it), or the release. *)
EnterReplay(t) ==
  /\ At(t, "entering") /\ Free
  /\ LET s == Submission(t) IN
       \/ /\ call[t].req \in released[s] /\ ~schedule[s].triggered
          /\ Upsert(s, [schedule[s] EXCEPT !.triggered = TRUE])
       \/ schedule[s].triggered /\ UNCHANGED schedule
  /\ mutex' = t
  /\ To(t, "repeating")
  /\ UNCHANGED <<queue, state, released, overrides, resolved, audited, cut, answers>>

EnterNotDue(t) ==
  /\ At(t, "entering") /\ Free
  /\ call[t].req \notin released[Submission(t)] /\ ~schedule[Submission(t)].triggered
  /\ ~call[t].forced /\ ~schedule[Submission(t)].due
  /\ To(t, "raising")
  /\ UNCHANGED <<queue, state, schedule, released, overrides, resolved, audited, mutex, cut,
     answers>>

EnterDue(t) ==
  /\ At(t, "entering") /\ Free
  /\ call[t].req \notin released[Submission(t)] /\ ~schedule[Submission(t)].triggered
  /\ call[t].forced \/ schedule[Submission(t)].due
  /\ To(t, "checking")
  /\ UNCHANGED <<queue, state, schedule, released, overrides, resolved, audited, mutex, cut,
     answers>>

(* _mark_job_running_if_pending, between the two sections.                   *)
CheckPending(t) ==
  /\ At(t, "checking")
  /\ To(t, IF call[t].job # NoJob /\ job[call[t].job].status \in Pending
           THEN "marking" ELSE "releasing")
  /\ UNCHANGED <<queue, state, schedule, released, overrides, resolved, audited, mutex, cut,
     answers>>

QueueRest == UNCHANGED <<answered, threads, history>>

MarkPending(t) ==
  /\ At(t, "marking") /\ Unlocked
  /\ MarkRunning(call[t].job)
  /\ To(t, "releasing")
  /\ QueueRest /\ UNCHANGED <<letters, burying, state, schedule, released, overrides, resolved,
     audited, mutex, cut, answers>>

(* Mutant: a released submission may be released again.                      *)
ReleaseAgain(t) ==
  /\ At(t, "releasing") /\ Free
  /\ LET s == Submission(t) IN
       /\ state' = [state EXCEPT ![s] = "released"]
       /\ released' = [released EXCEPT ![s] = @ \union {call[t].req}]
  /\ mutex' = t
  /\ To(t, "recording")
  /\ UNCHANGED <<queue, schedule, overrides, resolved, audited, cut, answers>>

(* The second section asks for the transition; nothing of the first section  *)
(* is looked at again before it.  (The one other call there could be with    *)
(* this request id is over: the loop makes one at a time.)                   *)
Release(t) ==
  /\ At(t, "releasing") /\ Free
  /\ LET s == Submission(t) IN
       /\ state[s] = "scheduled"
       /\ state' = [state EXCEPT ![s] = "released"]
       /\ released' = [released EXCEPT ![s] = @ \union {call[t].req}]
  /\ mutex' = t
  /\ To(t, "recording")
  /\ UNCHANGED <<queue, schedule, overrides, resolved, audited, cut, answers>>

(* transition_submission refuses: the submission has been released.          *)
ReleaseRefused(t) ==
  /\ At(t, "releasing") /\ Free
  /\ state[Submission(t)] # "scheduled"
  /\ IF call[t].job = NoJob
     THEN To(t, "refused") /\ UNCHANGED mutex
     ELSE To(t, "failing") /\ mutex' = t
  /\ Answer(t, "refused")
  /\ UNCHANGED <<queue, state, schedule, released, overrides, resolved, audited, cut>>

FailReported(t) ==
  /\ At(t, "failing") /\ Unlocked
  /\ \/ (FailIsNoOp(call[t].job) \/ Retry(call[t].job, FALSE)) /\ To(t, "refused") /\ Leave
     \/ WriteLetter(call[t].job, FALSE) /\ To(t, "burying") /\ UNCHANGED mutex
  /\ QueueRest /\ UNCHANGED <<state, schedule, released, overrides, resolved, audited, cut,
     answers>>

BuryReported(t) ==
  /\ At(t, "burying")
  /\ Bury(call[t].job, FALSE)
  /\ To(t, "refused") /\ Leave
  /\ QueueRest /\ UNCHANGED <<state, schedule, released, overrides, resolved, audited, cut,
     answers>>

(* Mutant: the schedule is answered but not saved.                           *)
RecordUnsaved(t) ==
  /\ At(t, "recording") /\ Leave
  /\ Answer(t, "performed")
  /\ To(t, "answering")
  /\ UNCHANGED <<queue, schedule, state, released, overrides, resolved, audited, cut>>

(* The schedule is read again, and marked unless that was done meanwhile.    *)
RecordRelease(t) ==
  /\ At(t, "recording")
  /\ LET s == Submission(t) IN
       IF schedule[s].triggered
       THEN UNCHANGED <<schedule, mutex, answers>>
       ELSE /\ Upsert(s, [schedule[s] EXCEPT !.triggered = TRUE])
            /\ Leave
            /\ Answer(t, "performed")
  /\ To(t, "answering")
  /\ UNCHANGED <<queue, state, released, overrides, resolved, audited, cut>>

(* mark_succeeded, if the call names a job, and the return.                  *)
AnswerTrigger(t) ==
  /\ At(t, "answering") \/ At(t, "repeating")
  /\ IF call[t].job = NoJob
     THEN UNCHANGED job
     ELSE Unlocked /\ MarkSucceeded(call[t].job)
  /\ mutex' = IF Locked(t) THEN Nobody ELSE mutex
  /\ To(t, "returning")
  /\ QueueRest /\ UNCHANGED <<letters, burying, state, schedule, released, overrides, resolved,
     audited, cut, answers>>

(* A job of an old version has nothing to release.                           *)
FinishStale ==
  /\ At("executor", "stale") /\ Unlocked
  /\ MarkSucceeded(cur.executor)
  /\ To("executor", "returning")
  /\ QueueRest /\ UNCHANGED <<letters, burying, state, schedule, released, overrides, resolved,
     audited, mutex, cut, answers>>

(* The route answers; execute_due_jobs goes on with what the handler did.    *)
(* TRANSITION_NOT_ALLOWED is terminal, SCHEDULE_NOT_DUE is to be retried.    *)
RouteEnds ==
  /\ At("loop", "returning") \/ At("loop", "raising") \/ At("loop", "refused")
  /\ Done("loop")
  /\ UNCHANGED <<queue, state, schedule, released, overrides, resolved, audited, mutex, cut,
     answers>>

HandlerEnds ==
  /\ \/ At("executor", "returning") /\ HandlerReturns
     \/ At("executor", "raising") /\ HandlerRaises /\ ~fatal'
     \/ At("executor", "refused") /\ HandlerRaises /\ fatal'
  /\ Done("executor")
  /\ UNCHANGED <<state, schedule, released, overrides, resolved, audited, mutex, cut, answers>>

----------------------------------------------------------------------------
(* planned_release_at passes; a job's scheduled_for is the planned time of   *)
(* its own version.                                                          *)
ScheduleDue(s) ==
  /\ ~schedule[s].due
  /\ schedule' = [schedule EXCEPT ![s].due = TRUE]
  /\ UNCHANGED <<queue, state, released, overrides, resolved, audited, mutex, call, cut, answers>>

JobDue(j) ==
  /\ j = JobFor(j[1]) => schedule[j[1]].due
  /\ BecomeDue(j)
  /\ UNCHANGED scheduler

ProcessCrash ==
  /\ Crash
  /\ mutex' = Nobody
  /\ call' = [t \in Threads |-> Absent]
  /\ cut' = cut \union {s \in Submissions : \E t \in Threads : Submission(t) = s}
                \union {s \in Submissions :
                          \E v \in 1..MaxVersion : job[<<s, v>>].status = "RUNNING"}
  /\ UNCHANGED <<state, schedule, released, overrides, resolved, audited, answers>>

QueueStep ==
  /\ Poll \/ Pick \/ RoundOver \/ Start \/ Settle \/ Succeed \/ Catch \/ Fail \/ FailBury
  /\ UNCHANGED scheduler

TriggerStep(t) ==
  EnterReplay(t) \/ EnterNotDue(t) \/ EnterDue(t) \/ CheckPending(t) \/ MarkPending(t)
  \/ Release(t) \/ ReleaseRefused(t) \/ FailReported(t) \/ BuryReported(t)
  \/ RecordRelease(t) \/ AnswerTrigger(t)

ExecutorStep ==
  QueueStep \/ ExecuteReleaseJob \/ FinishStale \/ HandlerEnds \/ TriggerStep("executor")

LoopStep ==
  Plan \/ RecordOverride \/ EnqueueRelease \/ AuditResolve \/ RouteEnds \/ TriggerStep("loop")

ReplayJob(j, r) ==
  At("loop", "out") /\ Replay(j, r) /\ UNCHANGED scheduler

ReleaseNext ==
  \/ ExecutorStep
  \/ LoopStep
  \/ \E s \in Submissions :
       \/ Resolve(s) \/ DirectTransition(s) \/ ScheduleDue(s)
       \/ \E o \in OverrideIds : Override(s, o)
       \/ \E r \in TriggerIds, j \in Jobs \union {NoJob}, force \in BOOLEAN :
            TriggerRoute(s, r, j, force)
  \/ \E j \in Jobs : JobDue(j) \/ \E r \in Requests : ReplayJob(j, r)
  \/ ProcessCrash

ReleaseSpec == ReleaseInit /\ [][ReleaseNext]_allVars

(* Both threads go on with what they have begun, and time passes.            *)
FairReleaseSpec ==
  /\ ReleaseSpec /\ WF_allVars(ExecutorStep) /\ WF_allVars(LoopStep)
  /\ \A s \in Submissions : WF_allVars(ScheduleDue(s))
  /\ \A j \in Jobs : WF_allVars(JobDue(j))
----------------------------------------------------------------------------
(* Properties.                                                               *)

(* resolve, override and trigger write the schedule and the submission in    *)
(* separate commits, and the transition route only the submission.  Still a  *)
(* schedule says that its release was triggered only if a trigger released   *)
(* the submission, and it says so of every one a trigger released, except    *)
(* while a thread is recording it or after a crash cut that call off.        *)
ReleaseRecorded ==
  \A s \in Submissions :
    /\ schedule[s].triggered => state[s] = "released" /\ released[s] # {}
    /\ released[s] # {} /\ ~schedule[s].triggered =>
         s \in cut \/ \E t \in Threads : At(t, "recording") /\ Submission(t) = s

(* However the route and the job race, and whatever is sent again, one call  *)
(* releases a submission and one is answered as the one that did.            *)
ReleasedOnce ==
  \A s \in Submissions :
    /\ Cardinality(released[s]) <= 1
    /\ Cardinality({a \in answers[s] : a[2] = "performed"}) <= 1

(* A submission that resolve put on schedule has a schedule, and whichever   *)
(* version an override left, a job of that version is waiting or being run   *)
(* until the release is recorded; only a crash can come between the          *)
(* transition, the schedule's commit and the job's.  (Two kinds are outside: *)
(* one that the transition route scheduled, which has neither and gets none, *)
(* and one that it released, whose job fails for good.)                      *)
ScheduledHasJob ==
  \A s \in resolved :
    /\ state[s] = "scheduled" \/ released[s] # {}
    /\ ~schedule[s].triggered /\ s \notin cut /\ mutex # "loop"
    => LET j == JobFor(s) IN
         /\ schedule[s].version > 0
         /\ \/ job[j].status \in Pending
            \/ job[j].status = "RUNNING" /\ \E t \in Threads : j \in {cur[t], call[t].job}

(* A schedule is carried out in the end: the submission is released, and the *)
(* schedule says so unless the transition route released it.                 *)
ScheduledIsReleased ==
  \A s \in Submissions :
    schedule[s].version > 0 ~>
      state[s] = "released" /\ (schedule[s].triggered \/ released[s] = {})

(* tests/test_release_scheduler_service.py:680: a job of a stale version of  *)
(* the schedule releases nothing.                                            *)
StaleJobReleasesNothing ==
  [][\A s \in Submissions, v \in 1..MaxVersion :
       <<s, v>> \in released'[s] \ released[s] => schedule[s].version = v]_allVars

(* tests/test_release_scheduler_service.py:846-851: of two triggers at once  *)
(* one releases and the other gets an idempotent answer, not an error.       *)
RacingTriggersAgree ==
  \A s \in Submissions, r \in TriggerIds \union Jobs : <<r, "refused">> \notin answers[s]
=============================================================================

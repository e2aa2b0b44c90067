------------------------------ MODULE JobQueue ------------------------------
(* BackgroundJobQueueService (features/jobs/services) and its                *)
(* BackgroundExecutor thread, shared with the API's event loop.              *)
(*                                                                           *)
(* Every write of the queue's tables takes _write_lock and commits before it *)
(* lets go, so a step here is one locked section; only mark_failed commits   *)
(* twice under the lock (dead letter, then job row), and `burying` is the    *)
(* time between. Reads take no lock.  The event loop enqueues, replays and,  *)
(* for release jobs whose id a trigger request carries, reports on the job   *)
(* itself.                                                                   *)
(* An Airtable job's handler also writes the submission's link through this  *)
(* connection, without the lock or a commit, so those rows go with the       *)
(* queue's next commit or rollback; they are not modelled.                   *)
EXTENDS Naturals, Sequences, FiniteSets

CONSTANTS
  Jobs,         \* idempotency keys; the row with that key
  Handled,      \* jobs whose job_type has a registered handler
  Reported,     \* release jobs: the trigger reports on them while it runs
  Requests,     \* request ids of replays
  MaxAttempts,  \* max_attempts of each job
  NoJob,        \* nobody's current job
  Open,         \* replayed_at IS NULL
  MaxCrashes,   \* bound: process crashes
  MaxTimeouts,  \* bound: writes refused with "database is locked"
  MaxLetters    \* bound: dead letters of one job

ASSUME JobsAssumption ==
  /\ IsFiniteSet(Jobs) /\ Handled \subseteq Jobs /\ Reported \subseteq Handled
  /\ MaxAttempts \in [Jobs -> Nat \ {0}]
  /\ NoJob \notin Jobs /\ Open \notin Requests
  /\ MaxCrashes \in Nat /\ MaxTimeouts \in Nat /\ MaxLetters \in Nat

VARIABLES
  job,       \* job_runs: status, attempt_count, scheduled_for <= now, created_at
  letters,   \* dead_letter_jobs of a job, oldest first: the replay's request, or Open
  answered,  \* job_replay_requests of a job
  burying,   \* holds _write_lock between mark_failed's two commits, or NoJob
  pc,        \* where the executor and the event loop are
  cur,       \* the job each is working on
  batch,     \* the executor's remaining snapshot of due jobs
  fatal,     \* classification of the exception the executor caught
  runs,      \* history: handler runs since the job was queued or replayed
  lost,      \* history: jobs that were RUNNING when their thread was cut off
  crashes, timeouts

tables == <<job, letters, answered>>
threads == <<pc, cur, batch, fatal>>
history == <<runs, lost, crashes, timeouts>>
vars == <<tables, burying, threads, history>>

Pending == {"QUEUED", "RETRYING"}
Settled == {"SUCCEEDED", "DEAD_LETTERED"}
Statuses == {"ABSENT", "RUNNING"} \union Pending \union Settled
ExecutorSteps == {"polling", "picking", "starting", "handling", "marking", "reported",
                  "settling", "succeeding", "raised", "failing", "burying", "selfBurying", "dead"}
LoopSteps == {"idle", "pending", "trying", "burying"}

(* Mutant: _fetch_due_jobs without its status filter.                        *)
DueInAnyStatus == {j \in Jobs : job[j].due}

Due == {j \in Jobs : job[j].status \in Pending /\ job[j].due}
Newest(j) == letters[j][Len(letters[j])]

Init ==
  /\ job = [j \in Jobs |-> [status |-> "ABSENT", attempts |-> 0, due |-> FALSE, age |-> 0]]
  /\ letters = [j \in Jobs |-> <<>>]
  /\ answered = [j \in Jobs |-> {}]
  /\ burying = NoJob
  /\ pc = [executor |-> "polling", loop |-> "idle"]
  /\ cur = [executor |-> NoJob, loop |-> NoJob]
  /\ batch = {} /\ fatal = FALSE
  /\ runs = [j \in Jobs |-> 0] /\ lost = {}
  /\ crashes = 0 /\ timeouts = 0

----------------------------------------------------------------------------
(* The writes, each a section under _write_lock.                             *)

Unlocked == burying = NoJob

(* mark_running and mark_succeeded look at no status before they write one.  *)
MarkRunning(j) == job' = [job EXCEPT ![j].status = "RUNNING"]
MarkSucceeded(j) == job' = [job EXCEPT ![j].status = "SUCCEEDED"]

NextAttempt(j, terminal) == IF terminal THEN MaxAttempts[j] ELSE job[j].attempts + 1

(* Mutants: > for >= when the attempts are compared; the status kept.        *)
RetryOnceMore(j, terminal) ==
  /\ job[j].status # "DEAD_LETTERED"
  /\ NextAttempt(j, terminal) <= MaxAttempts[j]
  /\ job' = [job EXCEPT ![j].status = "RETRYING", ![j].due = FALSE,
                        ![j].attempts = NextAttempt(j, terminal)]
  /\ UNCHANGED <<letters, burying>>

RetryKeepsStatus(j, terminal) ==
  /\ job[j].status # "DEAD_LETTERED"
  /\ NextAttempt(j, terminal) < MaxAttempts[j]
  /\ job' = [job EXCEPT ![j].due = FALSE, ![j].attempts = NextAttempt(j, terminal)]
  /\ UNCHANGED <<letters, burying>>

(* mark_failed of a job with attempts left: back to the queue, backing off.  *)
Retry(j, terminal) ==
  /\ job[j].status # "DEAD_LETTERED"
  /\ NextAttempt(j, terminal) < MaxAttempts[j]
  /\ job' = [job EXCEPT ![j].status = "RETRYING", ![j].due = FALSE,
                        ![j].attempts = NextAttempt(j, terminal)]
  /\ UNCHANGED <<letters, burying>>

(* Mutant: the job row first, then the dead letter.                          *)
WriteStatusFirst(j, terminal) ==
  /\ job[j].status # "DEAD_LETTERED"
  /\ NextAttempt(j, terminal) >= MaxAttempts[j]
  /\ job' = [job EXCEPT ![j].status = "DEAD_LETTERED"]
  /\ burying' = j
  /\ UNCHANGED letters

(* mark_failed of a job whose attempts are spent commits the dead letter...  *)
WriteLetter(j, terminal) ==
  /\ job[j].status # "DEAD_LETTERED"
  /\ NextAttempt(j, terminal) >= MaxAttempts[j]
  /\ Len(letters[j]) < MaxLetters
  /\ letters' = [letters EXCEPT ![j] = Append(@, Open)]
  /\ burying' = j
  /\ UNCHANGED job

(* ... and then, in a second transaction, the job row.                       *)
Bury(j, terminal) ==
  /\ burying = j
  /\ job' = [job EXCEPT ![j].status = "DEAD_LETTERED",
                        ![j].attempts = NextAttempt(j, terminal)]
  /\ burying' = NoJob
  /\ UNCHANGED letters

FailIsNoOp(j) == job[j].status = "DEAD_LETTERED" /\ UNCHANGED <<job, letters, burying>>

----------------------------------------------------------------------------
(* The executor's thread.                                                    *)

Goto(t, step) == pc' = [pc EXCEPT ![t] = step]
Drop(t) == cur' = [cur EXCEPT ![t] = NoJob]

(* _run wakes up: execute_due_jobs takes its snapshot of the due jobs.       *)
Poll ==
  /\ pc.executor = "polling"
  /\ batch' = Due
  /\ Goto("executor", "picking")
  /\ UNCHANGED <<tables, burying, cur, fatal, history>>

(* The next job of the snapshot, oldest first; without handler it is passed. *)
Pick ==
  /\ pc.executor = "picking"
  /\ \E j \in batch :
       /\ \A k \in batch : job[j].age <= job[k].age
       /\ batch' = batch \ {j}
       /\ IF j \in Handled
          THEN Goto("executor", "starting") /\ cur' = [cur EXCEPT !.executor = j]
          ELSE UNCHANGED <<pc, cur>>
  /\ UNCHANGED <<tables, burying, fatal, history>>

RoundOver ==
  /\ pc.executor = "picking" /\ batch = {}
  /\ Goto("executor", "polling")
  /\ UNCHANGED <<tables, burying, cur, batch, fatal, history>>

(* mark_running, whatever became of the job since the snapshot; handler(job).*)
Start ==
  /\ pc.executor = "starting" /\ Unlocked
  /\ MarkRunning(cur.executor)
  /\ runs' = [runs EXCEPT ![cur.executor] = @ + 1]
  /\ Goto("executor", "handling")
  /\ UNCHANGED <<letters, answered, burying, cur, batch, fatal, lost, crashes, timeouts>>

HandlerReturns ==
  /\ pc.executor \in {"handling", "reported"}
  /\ Goto("executor", "settling")
  /\ UNCHANGED <<tables, burying, cur, batch, fatal, history>>

(* The handler raises; _classify_execution_failure says whether for good.    *)
HandlerRaises ==
  /\ pc.executor \in {"handling", "reported"}
  /\ fatal' \in BOOLEAN
  /\ Goto("executor", "raised")
  /\ UNCHANGED <<tables, burying, cur, batch, history>>

(* A release job's handler calls trigger_release, which reports by itself.   *)
(* _mark_job_running_if_pending reads the status and writes it later...      *)
HandlerChecks ==
  /\ pc.executor = "handling" /\ cur.executor \in Reported
  /\ job[cur.executor].status \in Pending
  /\ Goto("executor", "marking")
  /\ UNCHANGED <<tables, burying, cur, batch, fatal, history>>

HandlerMarksRunning ==
  /\ pc.executor = "marking" /\ Unlocked
  /\ MarkRunning(cur.executor)
  /\ Goto("executor", "handling")
  /\ UNCHANGED <<letters, answered, burying, cur, batch, fatal, history>>

(* ... then mark_succeeded, or mark_failed and after it the exception.  (A   *)
(* report that is refused by the database is an exception of the handler.)   *)
HandlerReportsSuccess ==
  /\ pc.executor = "handling" /\ cur.executor \in Reported /\ Unlocked
  /\ MarkSucceeded(cur.executor)
  /\ Goto("executor", "reported")
  /\ UNCHANGED <<letters, answered, burying, cur, batch, fatal, history>>

HandlerReportsFailure ==
  /\ pc.executor = "handling" /\ cur.executor \in Reported /\ Unlocked
  /\ fatal' \in BOOLEAN
  /\ \/ /\ FailIsNoOp(cur.executor) \/ Retry(cur.executor, FALSE)
        /\ Goto("executor", "raised")
     \/ WriteLetter(cur.executor, FALSE) /\ Goto("executor", "selfBurying")
  /\ UNCHANGED <<answered, cur, batch, history>>

(* latest.status is read; only a job still RUNNING is settled by the loop.   *)
Settle ==
  /\ pc.executor = "settling"
  /\ IF job[cur.executor].status = "RUNNING"
     THEN Goto("executor", "succeeding") /\ UNCHANGED cur
     ELSE Goto("executor", "picking") /\ Drop("executor")
  /\ UNCHANGED <<tables, burying, batch, fatal, history>>

(* Mutant: the job stays in hand.                                            *)
SucceedKeepsJob ==
  /\ pc.executor = "succeeding" /\ Unlocked
  /\ MarkSucceeded(cur.executor)
  /\ Goto("executor", "picking")
  /\ UNCHANGED <<letters, answered, burying, cur, batch, fatal, history>>

Succeed ==
  /\ pc.executor = "succeeding" /\ Unlocked
  /\ MarkSucceeded(cur.executor)
  /\ Goto("executor", "picking") /\ Drop("executor")
  /\ UNCHANGED <<letters, answered, burying, batch, fatal, history>>

(* Mutant: the exception is swallowed.                                       *)
CatchAndPass ==
  /\ pc.executor = "raised"
  /\ Goto("executor", "picking") /\ Drop("executor")
  /\ UNCHANGED <<tables, burying, batch, fatal, history>>

Catch ==
  /\ pc.executor = "raised"
  /\ IF job[cur.executor].status = "RUNNING"
     THEN Goto("executor", "failing") /\ UNCHANGED cur
     ELSE Goto("executor", "picking") /\ Drop("executor")
  /\ UNCHANGED <<tables, burying, batch, fatal, history>>

Fail ==
  /\ pc.executor = "failing" /\ Unlocked
  /\ \/ /\ FailIsNoOp(cur.executor) \/ Retry(cur.executor, fatal)
        /\ Goto("executor", "picking") /\ Drop("executor")
     \/ WriteLetter(cur.executor, fatal) /\ Goto("executor", "burying") /\ UNCHANGED cur
  /\ UNCHANGED <<answered, batch, fatal, history>>

FailBury ==
  /\ \/ /\ pc.executor = "burying" /\ Bury(cur.executor, fatal)
        /\ Goto("executor", "picking") /\ Drop("executor")
     \/ /\ pc.executor = "selfBurying" /\ Bury(cur.executor, FALSE)
        /\ Goto("executor", "raised") /\ UNCHANGED cur
  /\ UNCHANGED <<answered, batch, fatal, history>>

----------------------------------------------------------------------------
(* The event loop: one route at a time.                                      *)

LoopFrame == UNCHANGED <<batch, fatal>>

(* enqueue: a row per idempotency key; a second call returns the first row.  *)
Enqueue(j) ==
  /\ pc.loop = "idle" /\ Unlocked /\ job[j].status = "ABSENT"
  /\ \E due \in BOOLEAN :
       job' = [job EXCEPT ![j] =
         [status |-> "QUEUED", attempts |-> 0, due |-> due,
          age |-> Cardinality({k \in Jobs : job[k].status # "ABSENT"}) + 1]]
  /\ UNCHANGED <<letters, answered, burying, threads, history>>

(* Mutants: the request is not recorded; the dead letter is not marked.      *)
ReplayUnrecorded(j, r) ==
  /\ pc.loop = "idle" /\ Unlocked /\ r \notin answered[j]
  /\ job[j].status = "DEAD_LETTERED" /\ letters[j] # <<>> /\ Newest(j) = Open
  /\ letters' = [letters EXCEPT ![j][Len(letters[j])] = r]
  /\ job' = [job EXCEPT ![j].status = "QUEUED", ![j].attempts = 0, ![j].due = TRUE]
  /\ runs' = [runs EXCEPT ![j] = 0]
  /\ UNCHANGED <<answered, burying, threads, lost, crashes, timeouts>>

ReplayUnmarked(j, r) ==
  /\ pc.loop = "idle" /\ Unlocked /\ r \notin answered[j]
  /\ job[j].status = "DEAD_LETTERED" /\ letters[j] # <<>> /\ Newest(j) = Open
  /\ job' = [job EXCEPT ![j].status = "QUEUED", ![j].attempts = 0, ![j].due = TRUE]
  /\ answered' = [answered EXCEPT ![j] = @ \union {r}]
  /\ runs' = [runs EXCEPT ![j] = 0]
  /\ UNCHANGED <<letters, burying, threads, lost, crashes, timeouts>>

(* replay: refused unless the job is dead-lettered and its newest letter is  *)
(* open; a request already answered gets its stored answer and changes none. *)
Replay(j, r) ==
  /\ pc.loop = "idle" /\ Unlocked /\ r \notin answered[j]
  /\ job[j].status = "DEAD_LETTERED" /\ letters[j] # <<>> /\ Newest(j) = Open
  /\ letters' = [letters EXCEPT ![j][Len(letters[j])] = r]
  /\ job' = [job EXCEPT ![j].status = "QUEUED", ![j].attempts = 0, ![j].due = TRUE]
  /\ answered' = [answered EXCEPT ![j] = @ \union {r}]
  /\ runs' = [runs EXCEPT ![j] = 0]
  /\ UNCHANGED <<burying, threads, lost, crashes, timeouts>>

(* A trigger request naming job j finds the release made before, and only    *)
(* tells the job, in whatever status that is.                                *)
TriggerRepeats(j) ==
  /\ pc.loop = "idle" /\ Unlocked /\ j \in Reported /\ job[j].status # "ABSENT"
  /\ MarkSucceeded(j)
  /\ UNCHANGED <<letters, answered, burying, threads, history>>

(* ... or is to make it: _mark_job_running_if_pending reads the status...    *)
TriggerChecks(j) ==
  /\ pc.loop = "idle" /\ j \in Reported /\ job[j].status # "ABSENT"
  /\ Goto("loop", IF job[j].status \in Pending THEN "pending" ELSE "trying")
  /\ cur' = [cur EXCEPT !.loop = j]
  /\ LoopFrame /\ UNCHANGED <<tables, burying, history>>

(* ... and marks it later.                                                   *)
TriggerMarksRunning ==
  /\ pc.loop = "pending" /\ Unlocked
  /\ MarkRunning(cur.loop)
  /\ Goto("loop", "trying")
  /\ LoopFrame /\ UNCHANGED <<letters, answered, burying, cur, history>>

TriggerSucceeds ==
  /\ pc.loop = "trying" /\ Unlocked
  /\ MarkSucceeded(cur.loop)
  /\ Goto("loop", "idle") /\ Drop("loop")
  /\ LoopFrame /\ UNCHANGED <<letters, answered, burying, history>>

TriggerFails ==
  /\ pc.loop = "trying" /\ Unlocked
  /\ \/ /\ FailIsNoOp(cur.loop) \/ Retry(cur.loop, FALSE)
        /\ Goto("loop", "idle") /\ Drop("loop")
     \/ WriteLetter(cur.loop, FALSE) /\ Goto("loop", "burying") /\ UNCHANGED cur
  /\ LoopFrame /\ UNCHANGED <<answered, history>>

TriggerBury ==
  /\ pc.loop = "burying" /\ Bury(cur.loop, FALSE)
  /\ Goto("loop", "idle") /\ Drop("loop")
  /\ LoopFrame /\ UNCHANGED <<answered, history>>

----------------------------------------------------------------------------
(* The clock, and what fails.                                                *)

BecomeDue(j) ==
  /\ job[j].status \in Pending /\ ~job[j].due
  /\ job' = [job EXCEPT ![j].due = TRUE]
  /\ UNCHANGED <<letters, answered, burying, threads, history>>

(* Another connection keeps SQLite's writer lock longer than the busy        *)
(* timeout: the write raises and _write_lock is let go.                      *)
WriteRefused ==
  /\ timeouts < MaxTimeouts
  /\ timeouts' = timeouts + 1

(* What execute_due_jobs' try block does with it: it is one more exception.  *)
WriteRefusedCaught ==
  /\ WriteRefused
  /\ \/ pc.executor \in {"starting", "marking", "succeeding"} /\ Unlocked
     \/ pc.executor = "selfBurying"
  /\ burying' = NoJob
  /\ fatal' = FALSE
  /\ Goto("executor", "raised")
  /\ UNCHANGED <<tables, cur, batch, runs, lost, crashes>>

(* In its except block nothing catches it, and _run only handles a closed    *)
(* database: the thread ends, and with it the polling.                       *)
WriteRefusedUncaught ==
  /\ WriteRefused
  /\ (pc.executor = "failing" /\ Unlocked) \/ pc.executor = "burying"
  /\ burying' = NoJob
  /\ lost' = lost \union {cur.executor}
  /\ Goto("executor", "dead") /\ Drop("executor")
  /\ batch' = {}
  /\ UNCHANGED <<tables, fatal, runs, crashes>>

(* The route answers 500.                                                    *)
WriteRefusedInTrigger ==
  /\ WriteRefused
  /\ (pc.loop \in {"pending", "trying"} /\ Unlocked) \/ pc.loop = "burying"
  /\ burying' = NoJob
  /\ lost' = lost \union {cur.loop}
  /\ Goto("loop", "idle") /\ Drop("loop")
  /\ UNCHANGED <<tables, batch, fatal, runs, crashes>>

(* The process dies and is started again: nothing looks at RUNNING jobs.     *)
Crash ==
  /\ crashes < MaxCrashes
  /\ crashes' = crashes + 1
  /\ burying' = NoJob
  /\ pc' = [executor |-> "polling", loop |-> "idle"]
  /\ cur' = [executor |-> NoJob, loop |-> NoJob]
  /\ batch' = {} /\ fatal' = FALSE
  /\ lost' = lost \union {j \in Jobs : job[j].status = "RUNNING"}
  /\ UNCHANGED <<tables, runs, timeouts>>

----------------------------------------------------------------------------
Executor ==
  Poll \/ Pick \/ RoundOver \/ Start \/ HandlerReturns \/ HandlerRaises
  \/ HandlerChecks \/ HandlerMarksRunning
  \/ HandlerReportsSuccess \/ HandlerReportsFailure
  \/ Settle \/ Succeed \/ Catch \/ Fail \/ FailBury

Trigger ==
  TriggerMarksRunning \/ TriggerSucceeds \/ TriggerFails \/ TriggerBury

Next ==
  \/ Executor
  \/ Trigger
  \/ \E j \in Jobs :
       \/ Enqueue(j) \/ TriggerRepeats(j) \/ TriggerChecks(j) \/ BecomeDue(j)
       \/ \E r \in Requests : Replay(j, r)
  \/ WriteRefusedCaught \/ WriteRefusedUncaught \/ WriteRefusedInTrigger
  \/ Crash

Spec == Init /\ [][Next]_vars

(* The executor's thread keeps running while it lives, a route that started  *)
(* is carried on by the loop, and the clock goes on.                         *)
FairSpec ==
  Spec /\ WF_vars(Executor) /\ WF_vars(Trigger) /\ \A j \in Jobs : WF_vars(BecomeDue(j))
----------------------------------------------------------------------------
(* Properties.                                                               *)

(* Every table, thread and history variable keeps its type; in particular a  *)
(* thread works on a job exactly while it is in one of its steps.            *)
TypeOK ==
  /\ job \in [Jobs -> [status : Statuses, attempts : Nat, due : BOOLEAN, age : Nat]]
  /\ letters \in [Jobs -> Seq(Requests \union {Open})]
  /\ answered \in [Jobs -> SUBSET Requests]
  /\ burying \in Jobs \union {NoJob}
  /\ pc \in [executor : ExecutorSteps, loop : LoopSteps]
  /\ cur \in [executor : Jobs \union {NoJob}, loop : Jobs \union {NoJob}]
  /\ cur.executor = NoJob <=> pc.executor \in {"polling", "picking", "dead"}
  /\ cur.loop = NoJob <=> pc.loop = "idle"
  /\ batch \in SUBSET Jobs /\ fatal \in BOOLEAN
  /\ runs \in [Jobs -> Nat] /\ lost \in SUBSET Jobs
  /\ crashes \in Nat /\ timeouts \in Nat

(* A job mark_failed has given up on can always be replayed: it has a dead   *)
(* letter, and the newest one is still open, although the letter and the     *)
(* status are committed separately and the process may die in between.       *)
DeadLettersReplayable ==
  \A j \in Jobs : job[j].status = "DEAD_LETTERED" => letters[j] # <<>> /\ Newest(j) = Open

(* replay: a dead letter is replayed by one request and a request replays    *)
(* one dead letter of a job, so the recorded answers and the letters agree.  *)
ReplaysOnce ==
  \A j \in Jobs :
    /\ \A i, k \in 1..Len(letters[j]) :
         letters[j][i] = letters[j][k] /\ letters[j][i] # Open => i = k
    /\ answered[j] = {letters[j][i] : i \in 1..Len(letters[j])} \ {Open}

(* Between two (re)queueings the handler runs at most max_attempts times,    *)
(* whatever the event loop reports about the job meanwhile, and a job still  *)
(* waiting for a run has one left.                                           *)
RunsWithinBudget ==
  \A j \in Jobs :
    /\ runs[j] <= MaxAttempts[j]
    /\ j \in Due => runs[j] < MaxAttempts[j]

(* A job is RUNNING only while a thread works on it; otherwise its thread    *)
(* was cut off by a crash or a refused write.                                *)
RunningIsWorkedOn ==
  \A j \in Jobs :
    job[j].status = "RUNNING" => j \in {cur.executor, cur.loop} \union lost

(* An open dead letter of a job only the executor reports on tells of a job *)
(* that really is dead-lettered, except between mark_failed's commits or     *)
(* when its thread was cut off there.                                        *)
OpenLettersAreOfTheDead ==
  \A j \in Jobs \ Reported :
    (\E i \in 1..Len(letters[j]) : letters[j][i] = Open) =>
      job[j].status = "DEAD_LETTERED" \/ burying = j \/ j \in lost

(* mark_running and mark_succeeded check no status; still, of the jobs only  *)
(* the executor reports on, a succeeded one stays so and a dead-lettered one *)
(* changes by a replay only, whatever the triggers do to other jobs.         *)
SettledForGood ==
  [][\A j \in Jobs \ Reported : job[j].status \in Settled /\ job'[j] # job[j] =>
       job[j].status = "DEAD_LETTERED" /\ answered'[j] # answered[j]]_vars

(* Every queued job whose type has a handler is eventually run and succeeds  *)
(* or is dead-lettered (engine.py: "retry, dead-letter, replay, polling"),   *)
(* unless some job has as many dead letters as the bound allows.  It is      *)
(* forgotten only when a crash or a refused write cut off the thread that    *)
(* had it, or ended the executor.                                            *)
OnlyFaultsForgetJobs ==
  \A j \in Handled : job[j].status \in Pending \union {"RUNNING"} ~>
     \/ job[j].status \in Settled
     \/ j \in lost \/ pc.executor = "dead"
     \/ \E k \in Jobs : Len(letters[k]) = MaxLetters
=============================================================================

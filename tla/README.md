# Verification of Splice

TLA+ models, TLC runs and TLAPS proofs for the Splice application: a FastAPI
backend over SQLite (`apps/api`), an Electron shell that starts and supervises
it (`electron`), and a renderer (`src/renderer`).  Paths below are relative to
the repository; most of the modelled code is under
`apps/api/app/features`.

Contents: [inventory](#inventory), [threads and connections](#threads-and-connections),
[modules](#modules), [runs](#runs), [proofs](#proofs), [findings](#findings),
[what is not modelled](#what-is-not-modelled), [what is left](#what-is-left).

## Inventory

| component | state it keeps | operations | what makes it correct |
|---|---|---|---|
| submission state machine (`submissions/state_machine`) | `submissions` (state, version), `submission_transitions`, `submission_metadata` | create_draft, transition, reads | the transition log has one row per version, replays to the state, and a request id performs one transition |
| workflow service and orchestrator (`submissions/service.py`, `orchestrator.py`) | `integration_outcomes`, `integration_provider_jobs` | transition_submission, dispatch_integration, consume_transition_event | an outcome belongs to a committed transition, or to an event the dispatch route was handed, and carries all its provider jobs |
| job queue (`jobs/services`) | `job_runs`, `dead_letter_jobs`, `job_replay_requests` | enqueue, mark_running / succeeded / failed, execute_due_jobs, replay | a job is attempted at most max_attempts times, a dead job has its dead letter, no job is forgotten |
| integration job handlers (`jobs/services/integrations.py`) | Airtable records, upload sessions, submission states (through the workflow) | airtable sync, dropbox delivery | a delivered upload moves its submission once |
| release scheduler (`submissions/scheduler`) | `release_schedules`, `schedule_overrides` | resolve, override, trigger | what resolve puts on schedule has a job that releases it, once; a job of an overridden schedule releases nothing |
| review console (`review/services`) | `review_decisions`, tags, flags | queue, approve, reject, reopen, tag, flag | the decision history agrees with the transition log |
| intake storage (`submissions/storage`) | `intake_sessions`, uploaded files, manifests | session, upload, finalize and lock, hand-off | a locked session is never written again |
| auth sessions (`auth/services/session.py`) | `auth_users`, `auth_sessions` | register, login, refresh, logout | a refresh token is used once, reuse revokes its family, lockout after repeated failures |
| OTP and action tokens (`auth/services/otp.py`) | `auth_otp_challenges`, `auth_action_tokens` | send, verify, reset | attempts are limited, a token is consumed once |
| notifications (`notifications/service.py`) | `notifications`, delivery attempts | emit, retry, mark read | one notification per event and recipient, retries stop |
| audit log (`audit/service.py`) | `audit_events` | append, verify, export | append-only, hash-chained |
| QC engine, rules, registry (`qc`) | `qc_runs`, `qc_rule_overrides` | start run, report, override | one run per idempotency key |
| creator workspace (`creator`) | submission forms, Airtable links | edit form, sync | the gate sees the linked record |
| admin configuration (`admin/service`) | integration settings and their history | update, activate, roll back | the active version is in the history |
| Electron main process (`electron/main.js`, `infra`, `config`) | the backend's child process, `process.env`, runtime configuration, windows and trusted senders | start, probe, assemble, open and close windows, quit | the router talks to the backend this app started, and no backend outlives the app |
| Dropbox broker (`electron/ipc/dropboxOauthDesktopBroker.js`) | OAuth sessions, the listener on one port | start, callback, exchange, expiry, status | one session holds the port, and a code is exchanged for the session it was granted to |
| IPC router, contracts and clients (`electron/ipc`) | the active actor, local audit log | invoke: check, authorize, call, check | a call the bridge takes is taken by every layer, is done as the session's actor, and its result reaches the page |
| preload bridge (`electron/preload.js`) | none | one method for each channel, request and reply checks | its checks and the contracts agree |
| workspace page (`renderer/workspace`, `renderer/core`) | drafts shown, folder, QC verdict, upload shown, local storage | create, save, link, check, submit, control and poll an upload | what is handed over passed QC, a verdict stays with its folder, an upload shown is polled |
| sign-in, navigation and Dropbox dialog (`src/renderer.js`) | actor, view, codes, dialog | sign-in, registration, codes, logout, setup | the router acts for the user who is shown |
| notification centre, review and admin pages | lists and forms | read marks, decisions, configuration | what is shown converges to the backend |

## Threads and connections

What interleaves decides what a model has to split into steps.

* Most routes are `async def` without an `await` in their body: they run one
  after the other on the event loop's thread.
* The routes of auth, audit and the creator workspace are plain `def`: FastAPI
  runs them in its thread pool, so they interleave with everything.
* `main.py` starts one job executor thread, which polls every five seconds and
  calls the workflow service, the scheduler and the notification service.
* Services open SQLite connections with `check_same_thread=False` in WAL mode.
  `SubmissionWorkflowService` has one connection, which the event loop and the
  executor share without a lock (`main.py:109`).  The creator workspace opens
  a connection for each request.
* The Electron main process and each page are one event loop each: a handler
  runs up to its next `await`, and what it read before may be stale after.
  Replies of two calls come in any order, and a page ends with its window
  while the main process, its actor and the broker go on.

## Modules

`SubmissionRules` holds the states, roles and the transition table
(`state_machine/rules.py`).

`SubmissionWorkflow` models the transition path statement by statement.  Its
variables are the committed tables (`disk`), the tables as each connection's
open transaction sees them (`tx`), a step and the values read so far for each
calling thread (`pc`, `ctx`), and the transitions that `transition()` returned
as performed (`applied`).  One action is one SQL statement: `Lookup` and
`Read` (no transaction yet), `Insert`, `Recheck`, `Update`, `SaveMetadata`,
`Commit`, then `Consume` and the orchestrator's `InsertOutcome`, `QueueJobs`
or `RepairJobs`, and `Finish`.  `WriteLockTimeout` is a statement that raises
because another connection holds the writer lock; `Crash` is the death of the
process that owns a connection.  Which thread calls through which connection
is the constant `Conn`, so the same module describes separate processes and
the shared connection of `main.py`.  `Dispatch` is the internal route
`POST /internal/integrations/dispatch`: its caller makes up the whole event,
with its key, its id and its release month, and nobody compares it with
`submission_transitions`.  The constant `Dispatches` says what is handed over,
`dispatched` remembers it, and the event may be one of a transition that is
committed, that is still to come, or that never happens; `Consume` then finds
the outcome of that key, if there is one, and goes on with what is stored there.

`SubmissionLedger` is the promise: a state and an append-only ledger for each
submission, moved together by one atomic transition along an edge of the rule
table.

`SubmissionWorkflowInv` states the inductive invariant of the proofs;
`SubmissionWorkflowProofs` proves it, what follows from it, and the refinement;
`MCSubmissionWorkflow` instantiates the specification for TLC.

`JobQueue` models `BackgroundJobQueueService` and its executor thread.  Every
write of the queue holds `_write_lock` and commits before it lets go, so one
locked section is one step; `mark_failed` alone commits twice in its section
(dead letter, then job row), and `burying` is the time between, when readers
without the lock, and a crash, can see the one without the other.  The executor is a
sequence of steps (`pc.executor`: poll, pick, start, handle, mark); the event
loop enqueues, replays and lists, and reports on a release job itself while
it triggers a release (`Reported`), or tells at once that it succeeded when the
release turns out to have been made (`TriggerRepeats`).  A handler's result is any of success, a
transient and a terminal error.  `Crash` restarts the process; a
`WriteRefused` step is "database is locked" at any write, with what becomes
of the thread that meets it.

`ReleaseScheduler` extends `JobQueue` with `resolve_schedule`,
`override_schedule` and `trigger_release`, commit by commit, under the
scheduler's own `_lock` (`mutex`), and replaces the executor's abstract
handler by `_execute_release_job`.  A job is named <<submission, schedule
version>>, which is what its idempotency key is made of.
A job whose release is refused fails for good (TRANSITION_NOT_ALLOWED is
terminal for the queue), while one that is not due is tried again
(SCHEDULE_NOT_DUE is not).  `transition_submission` is one step, as the workflow's refinement of
`SubmissionLedger` shows it to be; of the submission's states only those from
approval on occur.  `DirectTransition` is the transition route
(`submissions/router.py:44`): an administrator or the system schedules or
releases a submission with it outside the scheduler's lock, at any point of its
calls, and no schedule, job or record of the scheduler's hears of it.  The
request ids it uses are taken to be none of the scheduler's own
(`...:schedule-resolve`, `...:release-trigger`).  `resolved` says whose resolve
transition is in the log, since resolve goes on with a scheduled submission
only if that was its doing.  Planned dates are past or not yet.  A trigger request
whose id names another submission's job, and refused writes, are left to
`JobQueue`.

`StorageHandoff` extends `JobQueue` with the intake session of one submission
and the Dropbox delivery job, and replaces the executor's abstract handler by
`_execute_dropbox_delivery` and `process_storage_handoff`.  `IntakeStorageService`
has one connection and no lock; what the event loop and the executor share is a
row of `upload_sessions` with its metadata JSON, which each of them reads
whole, changes in a copy and writes back whole.  `session` is that row, `assets`
the manifest, `route` and `work` are the two threads: where each is and the
copies it holds (`snap`; `prog` is the copy `_persist_handoff_progress` takes
for each file).  A step is one read or one write, and `Updated` is what
`metadata.update` adds to a copy.  The event loop's operations are start and
reset (`StartSession`, `ResetSession`), lock and unlock (`LockFiles`,
`UnlockFiles`, `UnlockSession`), `EraseManifest`, `InsertRow` for each file and
`IndexManifest` (upsert, whose rows the worker sees before the commit, as both
threads share the connection),
`CreateHandoff` to `SaveHandoff`, and `Control` with the steps of pause, resume
and cancel; the worker's run from `StartDelivery` over one round of checking,
sending and recording for each file to `ConfirmHandoff`, `ApplyState` and the
transition it requests.  A file is one chunk, and a call to Dropbox takes any
time and either succeeds or raises.  `ReadRows` takes the rows it finds for the
pack, all of them or not (`whole`).  `sent`, `delivered`, `torn`, `handed` and
`crossed` are ghosts that no action's guard reads but `handed`, in the control
request, which needs the id a create call returned.  `torn` holds the jobs that
sent what they had read of a manifest half written; `crossed` says that a
session was reset or unlocked under a delivery, or that a delivery began in the
middle of an upsert.  That an error between two inserts takes the rows back, and
with them what the other thread has not committed yet, is left out.

Taken as one step each: `transition_submission`, the `SELECT` and the writes of
one helper that commits once, and `enqueue`, which holds the queue's lock.  The
`qc_failed` state, the manifest's version number and the request keys of start
and upsert are left out.  A `DomainError` of a delivery is terminal but for
`VERSION_CONFLICT` and the 503 of an upload that is not confirmed, as
`classify_job_failure` has it.

`WorkspacePage` models the creator's page of the renderer.  `rows` is the
service's row of each submission, `page` what the page shows, its requests
under way and its local storage, `seen` the history the properties speak of.
Each handler that awaits is a process of its own in `page.op` with what it
remembers (the draft, the folder, its place); an action is what a handler does
up to its next request, or a request with its answer.  A request takes effect
and is answered in one step, except the list, the poll and the controls, whose
answers may be late (`ListIsRead` and `ListArrives`, for example), and
`AnswerIsLost` is a request that took effect and whose answer did not come.
"queued" and "in_progress" are one status, "active"; a folder is one with the
required top-level folders; one poll is out at a time, and two submits at most.
`Stays` restricts the creator: with it, a draft and its folder are left only
while nothing is in flight.  `seen.disturbed` remembers that a request failed or
was refused, that the page was started again, that an upload was controlled, or
that a submit began while something else was under way.

`BackendSupervisor` is the main process around its backend: the start and its
probes, the environment and the configuration read twice, the windows and
quitting.  `DropboxBroker` is the broker with the browser's tabs and the clock
as its environment.  `DesktopShell` composes both with the actor of the router
and the page of the open window: sign-in, registration with one-time codes,
navigation and the Dropbox dialog.  A click and what the main process does up
to its first `await` are one step, a poll's effect and reply too; other replies
wait in `calls`, with the window they go to, and are lost when it is closed.
Quitting ends the process in one step.

The boundary between page, main process and service describes every payload
four times, each written separately; each has a module, in which a schema is
a function from fields to the set of values it takes (`IpcSchema`):
`PreloadContracts` (what `preload.js` lets through) with `PreloadReplies` (the
replies it accepts), `IpcAccountContracts` and `IpcContracts`
(`electron/ipc/contracts.js`), `BackendClients` (what each client sends, and
how it maps replies and errors) and `ApiModels` (the request and response
models of the API).  A text stands for all texts of its kind: blank, of some
length, a word of an enumeration, a date and time, an address; a number is one
of the contracts' bounds or a neighbour.  `IpcBoundary` sends one call through
all of them: the request's check in the bridge, `createIpcRouter`'s checks in
their order, the actor written into the payload, the client's body, the
service's model of it, the reply's mapping and its two checks, the audit entry.

## Runs

| run | question | bounds |
|---|---|---|
| `workflow_lifecycle` | two instances race to upload, take back or submit, and approve one submission, with replays under another claim, lock timeouts and crashes, while the dispatch route is handed the approval's event at any time: is the log complete, does it replay, do outcomes belong to committed transitions or to what was handed over and provider jobs to outcomes, is the ledger implemented, does every call return? | one submission, two threads on two connections, four requests under three ids, one event handed over |
| `workflow_shared` | the same with the shared connection of `main.py` | upload calls only, nothing handed to the dispatch route; a violation is expected |
| `queue` | with faults at any step: is the attempt budget kept, can a dead job be replayed, is a replay sent twice done once, is every RUNNING job worked on or cut off; does a settled job nobody reports on but the executor stay so; and does every queued job settle unless a fault took its thread? | two jobs, one of them reported on by the event loop, one and two attempts, one crash, one refused write, one replay request, two dead letters a job |
| `scheduler_crash` | crashes between any two commits of resolve, trigger and the release job, and direct transitions beside them: is a trigger's release recorded, and performed once? | one submission, one trigger request, one crash, versions up to 3 |
| `scheduler_releases` | resolve, override, trigger and the transition route race the executor: does what resolve scheduled keep a job, and is every schedule's submission released? | one submission, one override, one trigger, no crash, versions up to 3 |
| `scheduler_stale` | does a job of an overridden version release nothing? | a violation is expected |
| `handoff_controls` | pause, resume and cancel at any step of a delivery: is only what was sent called completed, and does the delivery end? | one request key, two files, one pack, one attempt |
| `handoff_amends` | rejection, unlocking and a second pack, a second key, retries, replays, and the delivery an approval queues, with manifests read while their rows are inserted: is only what was sent called completed and put to review? | two keys, two packs of two files, one retry, one replay, no controls |
| `workspace` | the creator's page, with every answer at any time, an automatic save, two submits, a failed or lost request and a restart: is only a folder that passed QC handed over, does a stored verdict stay with its folder, is an upload that is shown polled? | two drafts, one of them earlier, two folders, three clicks, one automatic save, one fault |
| `workspace_unchecked` | the first again, of a creator who does not wait | four clicks, no fault; a violation is expected |
| `ipc_boundary` | every channel, with valid and broken payloads, every set of roles, every frame and every kind of answer: do the four descriptions of a payload agree, whom is a call made for, and what is the page told? | one call at a time, one field of its payload or of its reply varied |
| `desktop` | boot, windows closed and opened, sign-ins and the Dropbox dialog with replies in any order, a tab left over, sessions that expire: whom does the router act for and which backend does it reach, and do the dialog and its polling end rightly? | two users, one administrator, two OAuth sessions, two windows, three calls, one probe |

The bounds are enough for the races the code has.  In the workflow two threads
can be between any two statements of each other, the third request makes the
version read by a thread stale by more than one, and a request id is used with
two claims.  The event handed over is that of the approval, with a release month
the submission lacks: handed over first it announces a transition that may never
come and takes the key of the one that does, handed over later it repeats it.  More submissions add nothing, as no statement touches two of them;
the proofs cover every number.

For the queue, two jobs are enough for a snapshot to hold a job while another
runs, two attempts for a retry and a dead letter, and a crash and a refused
write fall between any two steps.  `MaxLetters` bounds the dead letters of a
job, of which the code has no limit: a job that the event loop keeps failing
and replaying reaches the bound, so `OnlyFaultsForgetJobs` promises nothing of it there.
For the scheduler, three versions are all that one override and one recovery
can write after the first; `ASSUME SchedulerAssumption` ties the bound to them.

For the hand-off, two files make a first and a last one, with a check before
each, and a manifest that is half written; two packs make an old and an amended one; one retry and one replay make an
attempt that finds the traces of an earlier one.  `MaxPacks` and `Files` are
those bounds, `Edges` and `Replayed` say which transitions clients request and
which dead letters they replay in a run, and keep the two runs apart: controls
against one delivery, and new packs against several (together they pass
TLC's reach; the theorems cover them together).  The queue's own faults
are left to its runs (`MaxCrashes` and `MaxTimeouts` are 0 here).

For the page, two drafts are what a reply about the wrong one needs, two
folders what a verdict about another one needs, and three clicks any handler
started within another's await, twice; symmetric drafts and folders are
exchanged.  For the boundary, layers differ in a field at a time, and the
router keeps nothing between two calls but its actor, which `desktop` follows.
For the desktop, the second window is one that opens after the first has been
closed with replies on their way, and the second OAuth session the one whose
tab is left over from the first.

Fairness: the workflow's only says that a thread which has accepted a call
keeps executing statements, as a running Python thread does; clients, crashes
and form edits are never forced.  The queue's adds that the executor keeps
polling and that time passes, so that a back-off ends and a planned date comes;
the scheduler's and the hand-off's that calls the event loop has started go on.
None of them forces a client to send a request, a control action, a replay or
an override.  The desktop's says that the start goes on, that the page's timer
fires, that an answer to a poll is handled, and that time passes; no user
clicks, no browser comes back and no backend answers for it.

## Proofs

`SubmissionWorkflowProofs` proves `Spec => []TypeOK` with no assumption, and,
when every thread has a connection of its own (`IsolatedConnections`),
`Spec => []WorkflowInv` for every number of submissions, threads, connections
and calls.  The safety properties speak of the committed tables only, which is
not inductive: whether a commit keeps them depends on what the open
transaction holds.  `WorkflowInv` therefore adds that at most one connection
has a transaction (`OneWriter`), that the transaction of a thread is the
committed tables with exactly the statements the thread has executed
(`TxContents`), that what a thread has read is the past of its submission
(`SnapshotHolds`), and that once its row is inserted it is the present
(`SnapshotCurrent`, which follows because the row's id would collide if the
submission had moved).  A thread that dispatches has no call and nothing of all
this: of its event it is known only that it was handed over or that a committed row
has it (`Announceable`).  `LogMatchesVersion`, `LogReplaysToState`,
`AppliedAreLogged`, `RequestAppliedOnce`, `OutcomesAreOfTheLog` and
`OutcomesHaveJobs` follow.  So does `Spec => ImplementsLedger`
(`WorkflowImplementsLedger`): `CreateDraft` and `Commit` are the only steps
that move the ledger.

`JobQueueProofs` proves type correctness and the queue's six safety properties
for every set of jobs, every attempt limit and every number of crashes and
refused writes.  Its argument classifies each step by what it does to one
job's rows (`TableStep`), so that a property of the tables is checked against
a handful of effects and not against every action.  `DeadLettersReplayable`
and `ReplaysOnce` are action and state properties of those effects;
`OpenLettersAreOfTheDead` and `RunningIsWorkedOn` need to say which job each
thread is working on, and where; `RunsWithinBudget` needs that a handler run
not yet counted is the one the executor is in the middle of (`BudgetInv`).
`OpenLettersAreOfTheDead` and `SettledForGood` are false of a release job, on
which the event loop and the executor report at once; they speak of the jobs
outside `Reported`, and their invariant (`AloneOf`) follows one such job through
the executor's hands, while the event loop does what it likes to the others.

`ReleaseSchedulerProofs` proves the scheduler's three safety properties for
every set of submissions, every finite set of override requests, any trigger
requests and any number of crashes and replays; it extends `JobQueueProofs`, since the scheduler
writes the queue's rows too.  `SchedInv` holds what one lock gives: which steps a
call takes only inside a section of `_lock` (`LockInv`), what the schedule and the log
are at each step (`StageInv`), and how the three tables of a
submission fit together (`RowInv`); `ReleaseRecorded` and `ReleasedOnce` follow.
Since the transition route may move a submission between any two of a call's
steps, the invariant keeps of its state only what nobody takes back: what resolve
has scheduled is not approved again, and a release a trigger made stays in the
log (`released`), where a direct one has no mark.
`ScheduledHasJob` needs four more parts.  What resolve has put on schedule has a
schedule, or the call is about to write it (`PlannedInv`).  A job in anyone's hands was enqueued
for a version there has been (`KnownInv`).  A version is the plan's, an
override's, one that an override cut off by a crash left unrecorded, or the
release's (`VersionInv`), so that the bound `MaxVersion`, which
`SchedulerAssumption` takes large enough for the overrides and crashes there
are, never keeps a schedule from having its job.  And whoever
has not released a schedule yet sees to it (`JobInv`): the loop is about to
enqueue, or the job of the present version is waiting or running, and no call
about the submission is on its way to reporting that job done or failed, unless
the submission has been released directly (`ToRelease`).  The
last part is what an override that overtakes a running job could break.

The same module proves that `ReleaseSpec` implements the queue's `Spec`
(`SchedulerImplementsQueue`).  The mapping (`QPc`, `QCur`, `QFatal`) reads the
queue's threads off the scheduler's calls: a release job is in `handle` from
the moment it is entered until it ends, and a trigger that names a job is where
its report on that job is.  Each step of a call is then a step of `JobQueue`'s
executor, of its loop, or none, so the attempt budget, the replayable dead
letters and the single replays carry over to release jobs, on which routes
report behind the executor's back (`SchedulerKeepsQueue`).

`DesktopShellProofs` proves the six safety properties of `desktop` for every
number of ports, windows, OAuth sessions, users and calls, in three inductive
invariants that hardly touch.  `SupInv` follows the supervisor through its
stages: from the spawn on, the environment holds the child's port and secret,
so that the settings read again are the child's, and only the child that main
holds can be running, so that stopping it leaves none.  `BrokerInv` says that
a session listens exactly while it is pending, that no two listen, and that a
code is of its session; each step changes one session (`OneSessionChanges`) or
expires some (`CleanupKeepsInv`).  `PageInv` rests on both: one window is open
at most and its number is never used again (`OneWindow`), so a reply to a closed
window is nobody's; one sign-in at a time is under way; and the router acts for
the user of the sign-in that is on its way to the page or, if there is none,
for the one the page shows (`ActingInv`), which is not inductive without the
first half.

`StorageHandoffProofs` proves both safety properties of the hand-off for any
keys, packs, files and faults, and that `HandoffSpec` implements the queue's
`Spec` (`HandoffImplementsQueue`): each step of the worker, of a route or of an
approval is, to the queue's tables, a step of `JobQueue` or none, so
`JobQueueProofs`' theorems carry over to deliveries (`DeliveriesKeepQueue`).
`CompletedWasSent` is not inductive, since the two threads write back whole
copies of the metadata they read earlier.  `PackInv` therefore follows the rows of the
manifest, all there unless a route is inserting them, and every copy: none that the worker holds, nor one a waiting call holds, says COMPLETED,
except the one a route is about to write back unchanged in it, and then the
present pack was sent; the session's lock and its assets' go together; and
while a delivery uploads, the pack it has read is the one in the manifest, and it
has read all of it.  All of it is stated of a delivery that nothing has crossed
(`crossed`), as the property is.  `DeliveredInv` says that a delivery which sent
its last file has its own job in `delivered` or in `torn` up to the transition it
asks for; as `torn` is empty while nothing has been crossed (`PackInv`),
`ReviewFollowsDelivery` follows.

`WorkspacePageProofs` proves, for any number of drafts, folders, clicks,
automatic saves, failed or lost requests and restarts, `SubmittedFolderPassedQc`,
`VerdictIsKeptWithItsFolder` and `UploadIsWatched` of a creator who stays with a
draft while anything of it is in flight: the theorems assume `Stays`, and without
it the run `workspace_unchecked` refutes the first.  No property is inductive: a
row says what was handed over, and which folder that will be is in a handler's
memory, read two requests earlier.  `PageInv` ties the three together.  What a
submit remembers of its folder is the folder selected now, and its submission
has passed on it (`OpHolds`); a verdict on the page that a handler, a poll, a
control, or a submission being uploaded may write to the local storage is about
the folder selected now (`Attested`), since `persistDraftContext` stores that
one whatever submission it is called for; a session, manifest or handoff of a
row names a folder that passed (`RowHolds`); and a list on its way to the page
calls nothing uploading that is not attested (`ListsHold`).  Each helper of the
page has one lemma on which fields it moves and one that it keeps `PageInv`, for
any page, so that the proof of a handler follows the handler.

`UploadIsWatched` needs `WatchInv` besides, which says of a session nothing has
disturbed what each answer that may stop the polling can be about.  One submit
is out at a time (`OneSubmit`) and until it hands its pack over nothing is
uploaded or polled (`Quiet`); an upload that goes on is of the submission
that is being submitted, or of one the rows call uploading (`UnderWay`); and a
poll, a list or the local storage that calls an upload over is right for good
(`PollTold`, `ListTells`, `StoredTells`).  A submit begun while something else
is under way counts as a disturbance (`Settled`): the page allows it, but then
a late answer about one upload can stop the polling of another.

`IpcBoundaryProofs` and, for the replies, `IpcReplyProofs` prove the six
properties of the boundary.  `IpcBoundary` has no constants, and its run looks
at the probes it lists; the proofs hold for every value of every field.
`CallInv` says what is settled at each stage of a call: before it is admitted
nothing is answered, the log is empty until the router replies and then has the
one entry that fits the reply, and an answer that is an error has the code it
was given; `AuditTellsTheOutcome` and `ErrorKeepsItsCode` follow.
For `DoneForTheSession` the channels are sorted by what their bodies say of the
actor (`Acting`, `Owning`, `Impersonal`).  For a request of any contents, the
body of an acting channel begins with the actor of the request and so keeps his
id and role whatever is merged after it, an owner's body takes the id alone,
and the others take neither (`BodyActsFor`); the contracts of the first two
list those fields, so the payload has them (`PayloadHasItsFields`), and they
are the ones the router overwrites (`ActorOfTheSession`).

`NoValidCallIsRefused` compares the two contracts of a request.  One field type
covers another when it has every value of it that the page may send (`Covers`:
a key that holds undefined and a text of white space are left out), and two
contracts agree when each field the bridge checks covers the router's
(`Agree`).  A payload then passes the one check if it passes the other
(`AgreeingContracts`), whatever it holds in the field that varies: the nested
objects need care, because a check looks into an object only where something
in the payload refers to it.  `Pairs` and `WordPairs` list the pairs of types
that the two files use for a field, once each, and one lemma for each part of
the registry walks through its channels, with the helper and without
(`ChecksAgree`).  The shield's status has no fields to check
(`ShieldIsUnfielded`).

`AcceptedReachesService` goes one layer further, from the router's contract
through the client's mapping to the service's model.  `Told` says that a
request's fields have the types of its contract and that no text in them is
blank; `Crosses` that, if so, the body the client makes is one the model takes,
and that the contract leaves room for what the router writes over the payload
(`Regular`: the session's id, and the first of the roles that may call).  Each
reading the clients make of a field (`v || null`, `v ?? 3`, a flag, an array
that may be missing, ...) has a lemma that gives the service's types for what
comes out (`TextsPass` to `ObjectsPass`), and one lemma for each part of the
registry puts them together for its channels (`AuthRequestsCross` to
`IntakeRequestsCross`).  Three bodies have objects inside and get a proof of
their own (`PackReaches`, `PolicyReaches`, `ManifestReaches`): the payload must
be shown to refer to the part it was built from, and for the archive of a pack
that nothing else in the body refers to it.  The invariant (`Admitted`) is
short: an admitted call passed the contract and the roles, and the body is the
client's.

`DoneReachesPage` (`IpcReplyProofs`) takes the way back, from the service's
model of a reply through the client's mapping to the response contract and the
bridge's check. `Speaks` says that a reply has the fields of its model, each of
its type, and `Lands` that whatever it says in them, the data the client maps it
to has exactly the fields of the router's contract and what the bridge looks at.
Again each reading of the clients has a lemma (`TextsShow` to `WordsShow`), then
each object that several channels return (`NotificationsShow`,
`ManifestsAreWhole`, `DetailsLand`, ...), and one lemma for each part of the
bridge goes through its channels (`AuthRepliesLand` to `LocalRepliesLand`, put
together in `EveryReplyLands`).  The replies that are probed are of their models
(`RepliesAreOfTheirModels`), so both checks take what the handler returns
(`ReturnedIsTaken`).  The two kinds of reply that are left out are told by the
data itself (`Usual`): a review reply whose submission is uploading, and metrics
that are empty.  The invariant (`Heard`) hands the channel the bridge knew and
the data the handler returned on to the two checks.

Liveness (`CallsReturn`, `OnlyFaultsForgetJobs`, `ScheduledIsReleased`,
`DeliveriesEnd`, `PollingStops`) is out of the prover's reach and model-checked
only.  Every safety property of the passing runs is stated by a theorem.

## Findings

`workflow_shared`: with the shared connection, the loser of a race rolls back
the winner's uncommitted statements, and the winner still reports its
transition as performed (`state_machine/engine.py:302`).

`scheduler_stale`: a release job compares its version before the lock is taken
and never again, so an override that commits in between does not stop it
(`scheduler/jobs.py:64`).

`workspace_unchecked`: submitting checks its gates against the folder chosen
when the button was pressed, awaits a save, and then reads the chosen folder
again for the manifest and the path it hands over; choosing a folder is not held
back meanwhile, so a folder no QC run has seen is handed over
(`workspace-page.js:1892`).

Behaviours met while modelling that have no run of their own:

* The dispatch route looks nothing up (`submissions/router.py:82`,
  `orchestrator.py:63`): an outcome, and provider jobs, can be recorded for a
  transition that was never committed, and when the transition comes later under
  that key, it is answered with the stored outcome.  `OutcomesAreOfTheLog` speaks
  of the log and of what was handed over.
* A submission that the transition route puts to scheduled has no schedule and no
  release job, and `resolve_schedule` refuses it, so that nothing releases it by
  itself.  One that the route releases keeps a schedule that is never marked as
  triggered, and its release job fails for good (`submissions/router.py:44`,
  `state_machine/rules.py:57`).  `ScheduledHasJob` speaks of what resolve put on
  schedule, `ReleaseRecorded` of what a trigger released.
* A delivery that begins while a manifest's rows are inserted reads those that are
  there, sends them as if they were the pack, and puts the submission to review
  (`storage/manifest.py:140`, `storage/dropbox.py:612`).  Both properties of the
  hand-off except such a delivery (`crossed`, `torn`).
* A write refused inside `execute_due_jobs`' exception handler is caught by
  nobody, and the executor thread ends (`worker.py:32`): `queue` counts it
  among the faults after which a job may be forgotten.
* The worker writes each file's progress with a copy of the metadata read
  earlier and the status IN_PROGRESS, so a cancel written in between is lost and
  the upload goes on (`storage/dropbox.py:818`).
* Resuming a failed hand-off enqueues under its old key; `enqueue` returns the
  existing, dead-lettered row, and the answer still says `job_reenqueued`
  (`storage/dropbox.py:290`).
* Of two triggers at once the loser gets `TRANSITION_NOT_ALLOWED` instead of an
  idempotent answer.  After an unlock, the hand-off of the amended pack can be
  answered as existing already, with no job queued for it.  A replayed delivery
  whose first attempt had moved the submission back to draft uploads every file
  and is then refused with `VERSION_CONFLICT`, as it uses the same request id.
* The layers of the boundary disagree where the properties of `ipc_boundary`
  say so: the strict contract of a timeline's entries lacks the decision the
  client gives (`contracts.js:1554`); no branch of the bridge's
  `assertSuccessData` knows the job and scheduling channels; the bridge's list
  of codes lacks `ADMIN_CONFIG_ROLLBACK_NOT_AVAILABLE`; a canceled folder
  selection, empty metrics and a review reply about an uploading submission
  come back as `INTERNAL_ERROR`; the event of a schedule's resolution is sent
  in a form the service refuses; and when its helper module cannot be loaded
  the bridge has no check for seven admin channels and refuses them.
* An upload that has ended may be shown as going on with nobody polling it: the
  automatic save's list is read between the hand-off and the transition, and
  arrives when the delivery has failed; the poll's own reload is skipped, as that
  one is under way, and the next submission opened clears the stored outcome
  (`workspace-page.js:1447`, 2328).  `UploadIsWatched` therefore speaks of uploads
  that do go on.
* The router's actor is the user of the last sign-in that was answered, also
  when the window it was for is closed, the page refused the reply, or the
  call was a registration (`strayed` in `DesktopShell`).

## What is not modelled

Payloads beyond the values the contracts tell apart, formatting, logging and
HTTP; media probing and the measurements of QC rules; rendering.  Of the
desktop: the health server, the tray, the privacy shield's window effects, the
web preferences and navigation guards (static), the route aliases of the
navigation but one, a foreign process on the broker's port or on the one found
free for the backend (readiness only asks for a 2xx there), and the manual
OAuth code.  Of the service: the review console's own rows, refresh tokens,
attempt limits of one-time codes, deliveries of notifications, the audit
chain, the administrators' versions and the Airtable records, which an Airtable
job writes on the queue's connection without its lock or a commit (they go with
the queue's next commit; no property reads them); the
calls and replies of all of these are in the boundary's modules.
PROJECT.json lists every component with its status, and every hazard with the
properties that cover it or why none does.

## What is left

1. `AuditLog` (`audit/service.py`): append under `_lock`, the last hash by
   `ORDER BY created_at DESC, id DESC`, the validation of the chain, which is
   valid while the clock strictly increases.
2. `ReviewConsole`, composed with the workflow's ledger: the decision is
   inserted after the transition has been committed.
3. `AuthSessions` with one-time passwords: rotation and reuse detection on
   thread-pool threads, attempt limits, single use.
4. `Notifications`, with the renderer's optimistic marks against its poll.

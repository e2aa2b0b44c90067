--------------------------- MODULE SubmissionWorkflow ---------------------------
(***************************************************************************)
(* The submission workflow of the API: SubmissionStateMachineService       *)
(* (state_machine/engine.py), the creator gate and the second phase of     *)
(* SubmissionWorkflowService (service.py), and the integration             *)
(* orchestrator it hands a committed transition to (orchestrator.py).      *)
(*                                                                         *)
(* A transition is not one atomic step.  The engine looks the request up,  *)
(* reads the submission, checks the rules, and only then opens a write     *)
(* transaction of three statements; the orchestrator then works in         *)
(* transactions of its own.  Every SQL statement is one action, so the     *)
(* threads that call the service interleave between statements.            *)
(*                                                                         *)
(* Conn says which SQLite connection a thread calls through.  A connection *)
(* has at most one open transaction, opened by the first INSERT or UPDATE, *)
(* which every thread of that connection reads, extends, commits and rolls *)
(* back; one connection at a time may hold a transaction with writes       *)
(* (SQLite's writer lock), and the others read what is committed (WAL).    *)
(***************************************************************************)
EXTENDS Integers, FiniteSets, SubmissionRules

CONSTANTS
    Submissions,    (* submission ids                                       *)
    RequestIds,     (* request ids that clients and jobs choose             *)
    Actors,         (* actor ids                                            *)
    Threads,        (* callers of the service: the event loop, the executor *)
    Connections,    (* SQLite connections, one per service instance         *)
    Conn,           (* the connection each thread calls through             *)
    Owner,          (* creator_id of each submission                        *)
    Calls,          (* the transition calls that are made                   *)
    Dispatches,     (* what is handed to the internal dispatch route        *)
    NoTx,           (* a connection without an open transaction             *)
    NoCall          (* a thread without a call                              *)

(***************************************************************************)
(* A claim is what a replayed request is compared on; expected is -1 when  *)
(* the caller gives no expected_version; month says that the request's     *)
(* metadata carries a preferred_release_month.                             *)
(***************************************************************************)
Claim == [to : States, actor : Actors, role : Roles, reason : BOOLEAN]

Call == [sub : Submissions, req : RequestIds, claim : Claim,
         expected : Int, month : BOOLEAN]

(***************************************************************************)
(* A transition event.  The orchestrator finds an outcome by the event's   *)
(* idempotency key, and a job by the event's id and the name of what is    *)
(* announced; the rest of the event is payload.  The engine makes the key  *)
(* of submission, version and state and the id of submission and version;  *)
(* who calls the dispatch route writes what he likes into all of them, and *)
(* into month, the preferred_release_month of the event.                   *)
(***************************************************************************)
Id == Submissions \X Nat

Key == Submissions \X Nat \X States

Event == [key : Key, id : Id, to : States]

ASSUME WorkflowAssumption ==
    /\ Conn \in [Threads -> Connections]
    /\ Owner \in [Submissions -> Actors]
    /\ Calls \subseteq Call
    /\ Dispatches \subseteq [event : Event, month : BOOLEAN]

(* Every thread has a service instance, so a connection, of its own.  *)
IsolatedConnections == \A t, u \in Threads : Conn[t] = Conn[u] => t = u

VARIABLES
    disk,       (* the committed tables                                     *)
    tx,         (* per connection: the tables as its open transaction sees  *)
                (* them, or NoTx                                            *)
    pc,         (* per thread: the statement it executes next               *)
    ctx,        (* per thread: the call and what it has read so far         *)
    applied,    (* the transitions transition() has returned as performed   *)
    dispatched  (* history: the events the dispatch route was handed        *)

vars == <<disk, tx, pc, ctx, applied, dispatched>>

(* submission_transitions: the id is sub:version, the key sub:req.  *)
Row == [sub : Submissions, version : Nat, from : States, req : RequestIds,
        claim : Claim]

Targets == {"airtable", "dropbox"}

(***************************************************************************)
(* form is the creator gate of service.py: no submission_metadata row, a   *)
(* form that is not completed and linked, or one that is.                  *)
(***************************************************************************)
Forms == {"none", "incomplete", "linked"}

Tables == [state : [Submissions -> States \cup {"absent"}],
           version : [Submissions -> Nat],
           month : [Submissions -> BOOLEAN],
           form : [Submissions -> Forms],
           log : SUBSET Row,
           outcomes : SUBSET Event,
           jobs : SUBSET [id : Id, to : States, target : Targets]]

ASSUME NoTxAssumption == NoTx \notin Tables

Snapshot == [state : States, version : Nat, month : BOOLEAN]

Context == [call : Call \cup {NoCall}, snap : Snapshot, event : Event]

Steps == {"idle", "lookup", "read", "insert", "recheck", "update", "metadata",
          "commit", "consume", "repair", "outcome", "queue", "finish"}

(* The steps of the engine; what is dispatched has none of them, and no call.  *)
Transitioning == {"lookup", "read", "insert", "recheck", "update", "metadata", "commit"}

Result == [sub : Submissions, req : RequestIds, version : Nat, to : States]

----------------------------------------------------------------------------
(* The connection a thread works through.  *)

View(t) == IF tx[Conn[t]] = NoTx THEN disk ELSE tx[Conn[t]]

(* The writer lock is this thread's connection's, or nobody's.  *)
MayWrite(t) == \A c \in Connections : c # Conn[t] => tx[c] = NoTx

Execute(t, tables) ==
    /\ MayWrite(t)
    /\ tx' = [tx EXCEPT ![Conn[t]] = tables]
    /\ UNCHANGED disk

CommitTx(t) ==
    /\ disk' = View(t)
    /\ tx' = [tx EXCEPT ![Conn[t]] = NoTx]

Rollback(t) ==
    /\ tx' = [tx EXCEPT ![Conn[t]] = NoTx]
    /\ UNCHANGED disk

At(t, step) == pc[t] = step

GoTo(t, step) ==
    /\ pc' = [pc EXCEPT ![t] = step]
    /\ UNCHANGED ctx

(* The call returns or raises; the caller forgets what it read.  *)
Return(t) ==
    /\ pc' = [pc EXCEPT ![t] = "idle"]
    /\ ctx' = [ctx EXCEPT ![t] = NoCall]

----------------------------------------------------------------------------
(* What the statements find and write.  *)

RowsOf(tables, sub) == {r \in tables.log : r.sub = sub}

RowOf(tables, call) == {r \in RowsOf(tables, call.sub) : r.req = call.req}

Announce(sub, version, to) ==
    [key |-> <<sub, version, to>>, id |-> <<sub, version>>, to |-> to]

EventOf(row) == Announce(row.sub, row.version, row.claim.to)

(* The row and the event of the transition a thread is about to record.  *)
NewRow(t) ==
    [sub |-> ctx[t].call.sub, version |-> ctx[t].snap.version + 1,
     from |-> ctx[t].snap.state, req |-> ctx[t].call.req,
     claim |-> ctx[t].call.claim]

(* The creator gate: submitting needs a completed form with a linked record. *)
GateOpen(tables, call) ==
    \/ call.claim.role # "creator"
    \/ call.claim.to \notin {"under_review", "uploading"}
    \/ tables.form[call.sub] # "incomplete"

(* Mutant: the rule table is not consulted.  *)
AllowedWithoutRule(tables, call) ==
    LET s == call.sub IN
    /\ tables.state[s] \in States
    /\ call.expected \in {-1, tables.version[s]}
    /\ call.claim.role = "creator" => call.claim.actor = Owner[s]

Allowed(tables, call) ==
    LET s == call.sub IN
    /\ tables.state[s] \in States
    /\ call.expected \in {-1, tables.version[s]}
    /\ call.claim.role = "creator" => call.claim.actor = Owner[s]
    /\ Permits(tables.state[s], call.claim.to, call.claim.role, call.claim.reason)

(* Approval is announced to airtable, to the scheduler and to dropbox; the   *)
(* scheduler's event has no provider job.                                    *)
TargetsOf(to) ==
    CASE to = "approved" -> {"airtable", "dropbox"}
      [] to \in {"rejected", "scheduled"} -> {"airtable"}
      [] OTHER -> {}

ProviderJobs(event) ==
    {[id |-> event.id, to |-> event.to, target |-> g] : g \in TargetsOf(event.to)}

(* The outcomes under an event's key: the key is the table's primary key.  *)
OutcomesOf(tables, event) == {o \in tables.outcomes : o.key = event.key}

----------------------------------------------------------------------------
Init ==
    /\ disk = [state |-> [s \in Submissions |-> "absent"],
               version |-> [s \in Submissions |-> 0],
               month |-> [s \in Submissions |-> FALSE],
               form |-> [s \in Submissions |-> "none"],
               log |-> {}, outcomes |-> {}, jobs |-> {}]
    /\ tx = [c \in Connections |-> NoTx]
    /\ pc = [t \in Threads |-> "idle"]
    /\ ctx = [t \in Threads |-> NoCall]
    /\ applied = {}
    /\ dispatched = {}

(* Mutant: the draft is inserted over an existing submission.  *)
CreateDraftAgain(t, s, month) ==
    /\ At(t, "idle")
    /\ MayWrite(t)
    /\ disk' = [View(t) EXCEPT !.state[s] = "draft", !.month[s] = month]
    /\ tx' = [tx EXCEPT ![Conn[t]] = NoTx]
    /\ UNCHANGED <<pc, ctx, applied, dispatched>>

(***************************************************************************)
(* create_draft: an existing submission is returned as it is; a new one is *)
(* inserted with its metadata and committed.  The two inserts and the      *)
(* commit are one step.                                                    *)
(***************************************************************************)
CreateDraft(t, s, month) ==
    /\ At(t, "idle")
    /\ View(t).state[s] = "absent"
    /\ MayWrite(t)
    /\ disk' = [View(t) EXCEPT !.state[s] = "draft", !.month[s] = month]
    /\ tx' = [tx EXCEPT ![Conn[t]] = NoTx]
    /\ UNCHANGED <<pc, ctx, applied, dispatched>>

(***************************************************************************)
(* The creator's form and its Airtable link change under the creator       *)
(* endpoints, which open a connection of their own for each request.       *)
(***************************************************************************)
EditForm(s, form) ==
    /\ \A c \in Connections : tx[c] = NoTx
    /\ disk.state[s] # "absent"
    /\ \/ form = "incomplete"
       \/ form = "linked" /\ disk.form[s] = "incomplete"
    /\ disk' = [disk EXCEPT !.form[s] = form]
    /\ UNCHANGED <<tx, pc, ctx, applied, dispatched>>

(* transition_submission: the call arrives and passes the creator gate.  *)
Submit(t, call) ==
    /\ At(t, "idle")
    /\ GateOpen(View(t), call)
    /\ pc' = [pc EXCEPT ![t] = "lookup"]
    /\ ctx' = [ctx EXCEPT ![t] =
                 [call |-> call,
                  snap |-> [state |-> "draft", version |-> 0, month |-> FALSE],
                  event |-> Announce(call.sub, 0, call.claim.to)]]
    /\ UNCHANGED <<disk, tx, applied, dispatched>>

(* Mutant: the stored row is handed on instead of its event.  *)
ReplayedRow(t, row) ==
    /\ pc' = [pc EXCEPT ![t] = "consume"]
    /\ ctx' = [ctx EXCEPT ![t].snap.month = View(t).month[row.sub],
                          ![t].event = row]

(***************************************************************************)
(* SELECT ... WHERE idempotency_key: a replay with another claim is        *)
(* refused, a true replay carries the recorded transition's event on to    *)
(* the orchestrator with the metadata as it is now.                        *)
(***************************************************************************)
Replayed(t, row) ==
    /\ pc' = [pc EXCEPT ![t] = "consume"]
    /\ ctx' = [ctx EXCEPT ![t].snap.month = View(t).month[row.sub],
                          ![t].event = EventOf(row)]

Lookup(t) ==
    /\ At(t, "lookup")
    /\ LET rows == RowOf(View(t), ctx[t].call) IN
       \/ rows = {} /\ GoTo(t, "read")
       \/ \E row \in rows :
             IF row.claim = ctx[t].call.claim THEN Replayed(t, row) ELSE Return(t)
    /\ UNCHANGED <<disk, tx, applied, dispatched>>

(***************************************************************************)
(* SELECT ... FROM submissions and its metadata, then the guards.  Nothing *)
(* is locked: what is read here is compared again only by the UPDATE.      *)
(***************************************************************************)
Read(t) ==
    /\ At(t, "read")
    /\ LET call == ctx[t].call
           s == call.sub
       IN IF Allowed(View(t), call)
          THEN /\ pc' = [pc EXCEPT ![t] = "insert"]
               /\ ctx' = [ctx EXCEPT
                    ![t].snap = [state |-> View(t).state[s],
                                 version |-> View(t).version[s],
                                 month |-> View(t).month[s] \/ call.month],
                    ![t].event = Announce(s, View(t).version[s] + 1, call.claim.to)]
          ELSE Return(t)
    /\ UNCHANGED <<disk, tx, applied, dispatched>>

(* Mutant: only the id is unique, not the idempotency key.  *)
InsertWithoutKey(t) ==
    /\ At(t, "insert")
    /\ IF \E r \in RowsOf(View(t), NewRow(t).sub) : r.version = NewRow(t).version
       THEN /\ Execute(t, View(t))
            /\ GoTo(t, "recheck")
       ELSE /\ Execute(t, [View(t) EXCEPT !.log = @ \cup {NewRow(t)}])
            /\ GoTo(t, "update")
    /\ UNCHANGED <<applied, dispatched>>

(* INSERT OR IGNORE INTO submission_transitions: the id and the key are unique. *)
Insert(t) ==
    /\ At(t, "insert")
    /\ IF \E r \in RowsOf(View(t), NewRow(t).sub) :
            r.version = NewRow(t).version \/ r.req = NewRow(t).req
       THEN /\ Execute(t, View(t))
            /\ GoTo(t, "recheck")
       ELSE /\ Execute(t, [View(t) EXCEPT !.log = @ \cup {NewRow(t)}])
            /\ GoTo(t, "update")
    /\ UNCHANGED <<applied, dispatched>>

(* Mutant: a lost race is taken for a replay of this call's own event.  *)
RecheckGoesOn(t) ==
    /\ At(t, "recheck")
    /\ LET rows == RowOf(View(t), ctx[t].call) IN
       \/ rows = {} /\ CommitTx(t) /\ GoTo(t, "consume")
       \/ \E row \in rows : CommitTx(t) /\ Replayed(t, row)
    /\ UNCHANGED <<applied, dispatched>>

(* Mutant: nothing is done when the ignored insert was not a replay.  *)
RecheckOnlyReplays(t) ==
    /\ At(t, "recheck")
    /\ \E row \in RowOf(View(t), ctx[t].call) : CommitTx(t) /\ Replayed(t, row)
    /\ UNCHANGED <<applied, dispatched>>

(***************************************************************************)
(* The insert was ignored: a row with this key is a replay (the claim is   *)
(* not compared here), no such row a lost race, which rolls back.          *)
(***************************************************************************)
Recheck(t) ==
    /\ At(t, "recheck")
    /\ LET rows == RowOf(View(t), ctx[t].call) IN
       \/ rows = {} /\ Rollback(t) /\ Return(t)
       \/ \E row \in rows : CommitTx(t) /\ Replayed(t, row)
    /\ UNCHANGED <<applied, dispatched>>

(* UPDATE submissions ... WHERE version = the version read.  *)
Update(t) ==
    /\ At(t, "update")
    /\ LET s == ctx[t].call.sub IN
       IF View(t).version[s] = ctx[t].snap.version
       THEN /\ Execute(t, [View(t) EXCEPT
                             !.state[s] = ctx[t].call.claim.to,
                             !.version[s] = ctx[t].snap.version + 1])
            /\ GoTo(t, "metadata")
       ELSE Rollback(t) /\ Return(t)
    /\ UNCHANGED <<applied, dispatched>>

(* INSERT ... ON CONFLICT DO UPDATE: the metadata read earlier, merged.  *)
SaveMetadata(t) ==
    /\ At(t, "metadata")
    /\ Execute(t, [View(t) EXCEPT !.month[ctx[t].call.sub] = ctx[t].snap.month])
    /\ GoTo(t, "commit")
    /\ UNCHANGED <<applied, dispatched>>

(* Mutant: the block ends without a commit.  *)
CommitForgotten(t) ==
    /\ At(t, "commit")
    /\ Rollback(t)
    /\ applied' = applied \cup
         {[sub |-> ctx[t].call.sub, req |-> ctx[t].call.req,
           version |-> NewRow(t).version, to |-> ctx[t].call.claim.to]}
    /\ GoTo(t, "consume")
    /\ UNCHANGED dispatched

(* The with block ends and transition() returns the performed transition.  *)
Commit(t) ==
    /\ At(t, "commit")
    /\ CommitTx(t)
    /\ applied' = applied \cup
         {[sub |-> ctx[t].call.sub, req |-> ctx[t].call.req,
           version |-> NewRow(t).version, to |-> ctx[t].call.claim.to]}
    /\ GoTo(t, "consume")
    /\ UNCHANGED dispatched

(***************************************************************************)
(* dispatch_integration: the body of the request is the event that the     *)
(* orchestrator consumes.  Nothing compares it with the log: it may be the *)
(* event of a transition that was committed, that is still to come, or     *)
(* that never will.                                                        *)
(***************************************************************************)
Dispatch(t, d) ==
    /\ At(t, "idle")
    /\ pc' = [pc EXCEPT ![t] = "consume"]
    /\ ctx' = [ctx EXCEPT ![t] =
                 [call |-> NoCall,
                  snap |-> [state |-> "draft", version |-> 0, month |-> d.month],
                  event |-> d.event]]
    /\ dispatched' = dispatched \cup {d.event}
    /\ UNCHANGED <<disk, tx, applied>>

(***************************************************************************)
(* consume_transition_event: an outcome under this key only gets the jobs  *)
(* that are missing of what was stored with it; an approval without a      *)
(* release month raises, after the transition has been committed.          *)
(***************************************************************************)
Consume(t) ==
    /\ At(t, "consume")
    /\ LET e == ctx[t].event IN
       \/ \E o \in OutcomesOf(View(t), e) :
             /\ pc' = [pc EXCEPT ![t] = "repair"]
             /\ ctx' = [ctx EXCEPT ![t].event = o]
       \/ /\ OutcomesOf(View(t), e) = {}
          /\ IF e.to = "approved" /\ ~ctx[t].snap.month
             THEN Return(t) ELSE GoTo(t, "outcome")
    /\ UNCHANGED <<disk, tx, applied, dispatched>>

(***************************************************************************)
(* _ensure_provider_jobs: the jobs that do not exist yet are inserted; if  *)
(* none is missing, nothing is executed.                                   *)
(***************************************************************************)
EnsureJobs(t) ==
    /\ LET all == [View(t) EXCEPT !.jobs = @ \cup ProviderJobs(ctx[t].event)] IN
       IF all = View(t) THEN UNCHANGED <<disk, tx>> ELSE Execute(t, all)
    /\ GoTo(t, "finish")
    /\ UNCHANGED <<applied, dispatched>>

RepairJobs(t) == At(t, "repair") /\ EnsureJobs(t)

(* Mutant: the outcome is committed before its jobs are inserted.  *)
InsertOutcomeAndCommit(t) ==
    /\ At(t, "outcome")
    /\ MayWrite(t)
    /\ LET e == ctx[t].event IN
       IF OutcomesOf(View(t), e) # {}
       THEN Rollback(t) /\ Return(t)
       ELSE /\ disk' = [View(t) EXCEPT !.outcomes = @ \cup {e}]
            /\ UNCHANGED tx
            /\ GoTo(t, "queue")
    /\ UNCHANGED <<applied, dispatched>>

(* INSERT INTO integration_outcomes: a duplicate key raises and rolls back.  *)
InsertOutcome(t) ==
    /\ At(t, "outcome")
    /\ LET e == ctx[t].event IN
       IF OutcomesOf(View(t), e) # {}
       THEN MayWrite(t) /\ Rollback(t) /\ Return(t)
       ELSE /\ Execute(t, [View(t) EXCEPT !.outcomes = @ \cup {e}])
            /\ GoTo(t, "queue")
    /\ UNCHANGED <<applied, dispatched>>

(* _persist_integration_events, in the transaction of the outcome.  *)
QueueJobs(t) == At(t, "queue") /\ EnsureJobs(t)

Finish(t) ==
    /\ At(t, "finish")
    /\ CommitTx(t)
    /\ Return(t)
    /\ UNCHANGED <<applied, dispatched>>

(***************************************************************************)
(* Another connection keeps the writer lock past the busy timeout: the     *)
(* statement raises and the with block rolls back.                         *)
(***************************************************************************)
WriteLockTimeout(t) ==
    /\ pc[t] \in {"insert", "update", "metadata", "repair", "outcome", "queue"}
    /\ ~MayWrite(t)
    /\ Rollback(t)
    /\ Return(t)
    /\ UNCHANGED <<applied, dispatched>>

(* The process of a connection dies: its calls and its transaction are gone. *)
Crash(c) ==
    /\ \E t \in Threads : Conn[t] = c /\ pc[t] # "idle"
    /\ pc' = [t \in Threads |-> IF Conn[t] = c THEN "idle" ELSE pc[t]]
    /\ ctx' = [t \in Threads |-> IF Conn[t] = c THEN NoCall ELSE ctx[t]]
    /\ tx' = [tx EXCEPT ![c] = NoTx]
    /\ UNCHANGED <<disk, applied, dispatched>>

(* What is left of a call that has been accepted.  *)
Step(t) ==
    \/ Lookup(t) \/ Read(t) \/ Insert(t) \/ Recheck(t) \/ Update(t)
    \/ SaveMetadata(t) \/ Commit(t) \/ Consume(t) \/ RepairJobs(t)
    \/ InsertOutcome(t) \/ QueueJobs(t) \/ Finish(t) \/ WriteLockTimeout(t)

Arrive(t) ==
    \/ \E s \in Submissions, month \in BOOLEAN : CreateDraft(t, s, month)
    \/ \E call \in Calls : Submit(t, call)
    \/ \E d \in Dispatches : Dispatch(t, d)

Next ==
    \/ \E t \in Threads : Arrive(t) \/ Step(t)
    \/ \E s \in Submissions, form \in Forms : EditForm(s, form)
    \/ \E c \in Connections : Crash(c)

Spec == Init /\ [][Next]_vars

(* A thread that has accepted a call keeps running it; nobody has to call.  *)
FairSpec == Spec /\ \A t \in Threads : WF_vars(Step(t))

----------------------------------------------------------------------------
TypeOK ==
    /\ disk \in Tables
    /\ tx \in [Connections -> Tables \cup {NoTx}]
    /\ pc \in [Threads -> Steps]
    /\ ctx \in [Threads -> Context \cup {NoCall}]
    /\ \A t \in Threads :
          /\ pc[t] # "idle" => ctx[t] \in Context
          /\ pc[t] \in Transitioning => ctx[t].call \in Call
    /\ applied \subseteq Result
    /\ dispatched \subseteq Event

(* A log with exactly one row for every version up to the submission's.  *)
Numbered(tables) ==
    /\ \A r \in tables.log : r.version \in 1..tables.version[r.sub]
    /\ \A s \in Submissions : \A v \in 1..tables.version[s] :
          \E r \in tables.log : r.sub = s /\ r.version = v
    /\ \A r, q \in tables.log : r.sub = q.sub /\ r.version = q.version => r = q

(* A row leaves the state that the row before it reached, the first leaves  *)
(* draft, and the last reaches the current state.                           *)
Chained(tables) ==
    \A r \in tables.log :
        /\ r.version = 1 => r.from = "draft"
        /\ \A q \in tables.log :
              r.sub = q.sub /\ q.version = r.version + 1 => q.from = r.claim.to
        /\ r.version = tables.version[r.sub] => r.claim.to = tables.state[r.sub]

(***************************************************************************)
(* The committed log of a submission has exactly one row for every version *)
(* up to the version of the submission: engine.py writes the row and the   *)
(* version in one transaction.                                             *)
(***************************************************************************)
LogMatchesVersion == Numbered(disk)

(***************************************************************************)
(* The log replays to the state, although the state that a row leaves was  *)
(* read before the transaction that records it began.                      *)
(***************************************************************************)
LogReplaysToState == Chained(disk)

(***************************************************************************)
(* A transition that transition() returned as performed is in the          *)
(* committed log, under its request and its version, and stays there.      *)
(***************************************************************************)
AppliedAreLogged ==
    \A a \in applied :
        \E r \in disk.log : /\ r.sub = a.sub /\ r.req = a.req
                            /\ r.version = a.version /\ r.claim.to = a.to

(***************************************************************************)
(* A request id performs at most one transition of a submission, however   *)
(* often and through however many instances it is sent (engine.py:29).     *)
(***************************************************************************)
RequestAppliedOnce ==
    \A a, b \in applied : a.sub = b.sub /\ a.req = b.req => a = b

(* What the orchestrator may have been given to announce.  *)
Announceable(event) ==
    event \in dispatched \/ \E r \in disk.log : EventOf(r) = event

(***************************************************************************)
(* The workflow itself tells other systems only of transitions that        *)
(* happened: a committed outcome is that of a row of the committed log, or *)
(* of an event that was handed to the dispatch route, which looks nothing  *)
(* up; and a provider job belongs to a committed outcome.                  *)
(***************************************************************************)
OutcomesAreOfTheLog ==
    /\ \A e \in disk.outcomes : Announceable(e)
    /\ \A j \in disk.jobs : \E e \in disk.outcomes : j \in ProviderJobs(e)

(***************************************************************************)
(* A committed outcome has all its provider jobs: the orchestrator never   *)
(* records that an event was handled and loses the work it stands for.     *)
(***************************************************************************)
OutcomesHaveJobs ==
    \A e \in disk.outcomes : ProviderJobs(e) \subseteq disk.jobs

(* The committed log as the abstract ledger.  *)
EntryAt(tables, s, v) ==
    LET r == CHOOSE r \in tables.log : r.sub = s /\ r.version = v
    IN [from |-> r.from, to |-> r.claim.to, req |-> r.req]

LedgerOf(tables) ==
    [s \in Submissions |-> [v \in 1..tables.version[s] |-> EntryAt(tables, s, v)]]

CommittedLedger == LedgerOf(disk)

Ledger == INSTANCE SubmissionLedger
          WITH current <- disk.state, ledger <- CommittedLedger

(* The committed tables implement the ledger: every commit is one atomic     *)
(* transition of one submission, or none.                                    *)
ImplementsLedger == Ledger!LedgerSpec

(***************************************************************************)
(* Every call returns: no thread waits for ever for the writer lock, and   *)
(* no transaction is left holding it.                                      *)
(***************************************************************************)
CallsReturn == \A t \in Threads : (pc[t] # "idle") ~> (pc[t] = "idle")
================================================================================

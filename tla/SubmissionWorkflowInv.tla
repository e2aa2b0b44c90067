------------------------- MODULE SubmissionWorkflowInv -------------------------
(***************************************************************************)
(* The inductive invariant of SubmissionWorkflow when every thread has a   *)
(* connection of its own (IsolatedConnections).  It says what an open      *)
(* transaction holds at every step, which is what the safety properties    *)
(* need: they only speak of the committed tables.                          *)
(***************************************************************************)
EXTENDS SubmissionWorkflow

(* The steps at which a thread has a transaction open, or may have one.  *)
Writing == {"recheck", "update", "metadata", "commit", "queue"}

MaybeWriting == Writing \cup {"finish"}

(* SQLite's writer lock; a transaction belongs to the thread that works in it. *)
OneWriter ==
    /\ \A c, d \in Connections : tx[c] # NoTx /\ tx[d] # NoTx => c = d
    /\ \A c \in Connections : tx[c] # NoTx =>
          \E t \in Threads : Conn[t] = c /\ pc[t] \in MaybeWriting
    /\ \A t \in Threads : pc[t] \in Writing => tx[Conn[t]] # NoTx

(* The committed tables with the statements a thread has executed on them.  *)
Recorded(t) == [disk EXCEPT !.log = @ \cup {NewRow(t)}]

Moved(t) == [Recorded(t) EXCEPT !.state[ctx[t].call.sub] = ctx[t].call.claim.to,
                                !.version[ctx[t].call.sub] = ctx[t].snap.version + 1]

Saved(t) == [Moved(t) EXCEPT !.month[ctx[t].call.sub] = ctx[t].snap.month]

Announced(t) == [disk EXCEPT !.outcomes = @ \cup {ctx[t].event}]

Queued(t) == [Announced(t) EXCEPT !.jobs = @ \cup ProviderJobs(ctx[t].event)]

TxContents(t) ==
    LET T == tx[Conn[t]] IN
    /\ pc[t] = "recheck" => T = disk
    /\ pc[t] = "update" => T = Recorded(t)
    /\ pc[t] = "metadata" => T = Moved(t)
    /\ pc[t] = "commit" => T = Saved(t)
    /\ pc[t] = "queue" => T = Announced(t)
    /\ pc[t] = "finish" => T \in {NoTx, Queued(t)}

(* What a thread has read is the past of the submission, or its present.  *)
SnapshotHolds(t) ==
    LET s == ctx[t].call.sub
        snap == ctx[t].snap
    IN /\ snap.version <= disk.version[s]
       /\ snap.version = disk.version[s] => snap.state = disk.state[s]

(* Once the row is in, nobody else can have moved the submission.  *)
SnapshotCurrent(t) ==
    LET s == ctx[t].call.sub IN
    /\ ctx[t].snap.version = disk.version[s]
    /\ ctx[t].snap.state = disk.state[s]
    /\ RowOf(disk, ctx[t].call) = {}

(* The row to be recorded follows a rule, and the event announces the row.  *)
RowHolds(t) ==
    /\ ctx[t].event = EventOf(NewRow(t))
    /\ Edge(ctx[t].snap.state, ctx[t].call.claim.to)

ThreadInv(t) ==
    /\ TxContents(t)
    /\ pc[t] = "insert" => SnapshotHolds(t)
    /\ pc[t] \in {"update", "metadata", "commit"} => SnapshotCurrent(t)
    /\ pc[t] \in {"insert", "update", "metadata", "commit"} => RowHolds(t)
    /\ pc[t] \in {"consume", "repair", "outcome", "queue", "finish"} =>
          Announceable(ctx[t].event)
    /\ pc[t] = "repair" => ctx[t].event \in disk.outcomes

(* A key names one row; a submission that has not moved is a draft or absent. *)
Keyed(tables) ==
    /\ \A r, q \in tables.log : r.sub = q.sub /\ r.req = q.req => r = q
    /\ \A s \in Submissions :
          tables.version[s] = 0 => tables.state[s] \in {"absent", "draft"}
    /\ \A s \in Submissions : tables.state[s] = "absent" => tables.version[s] = 0

DiskInv ==
    /\ Numbered(disk) /\ Chained(disk) /\ Keyed(disk)
    /\ AppliedAreLogged
    /\ OutcomesAreOfTheLog
    /\ OutcomesHaveJobs

(***************************************************************************)
(* The committed tables are consistent, and every thread is where its      *)
(* statements and what it has read say it is.                              *)
(***************************************************************************)
WorkflowInv ==
    /\ TypeOK
    /\ OneWriter
    /\ \A t \in Threads : ThreadInv(t)
    /\ DiskInv
================================================================================

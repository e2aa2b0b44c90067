------------------------ MODULE SubmissionWorkflowProofs ------------------------
(***************************************************************************)
(* Proofs about SubmissionWorkflow.                                        *)
(***************************************************************************)
EXTENDS SubmissionWorkflowInv, SequenceTheorems, TLAPS

USE DEF At, GoTo, Return, Execute, CommitTx, Rollback, RowsOf, RowOf

----------------------------------------------------------------------------
(* Typing.  *)

(* A thread sees well-typed tables.  *)
LEMMA ViewType ==
    ASSUME TypeOK, NEW t \in Threads
    PROVE  /\ View(t) \in Tables
           /\ Conn[t] \in Connections
BY WorkflowAssumption DEF TypeOK, View

(* Closing or replacing one connection's transaction keeps tx well typed.  *)
LEMMA TxType ==
    ASSUME TypeOK, NEW c \in Connections, NEW T \in Tables \cup {NoTx}
    PROVE  [tx EXCEPT ![c] = T] \in [Connections -> Tables \cup {NoTx}]
BY DEF TypeOK

(* What TypeOK says of where the threads are and what they hold.  *)
CtxType ==
    /\ pc \in [Threads -> Steps]
    /\ ctx \in [Threads -> Context \cup {NoCall}]
    /\ \A t \in Threads :
          /\ pc[t] # "idle" => ctx[t] \in Context
          /\ pc[t] \in Transitioning => ctx[t].call \in Call

USE DEF CtxType, Transitioning

(* Moving one thread on keeps pc well typed.  *)
LEMMA StepType ==
    ASSUME TypeOK, NEW t \in Threads, NEW step \in Steps
    PROVE  [pc EXCEPT ![t] = step] \in [Threads -> Steps]
BY DEF TypeOK

(* A thread that moves on without changing what it has read.  *)
LEMMA GoToType ==
    ASSUME TypeOK, NEW t \in Threads, NEW step \in Steps, pc[t] # "idle", GoTo(t, step),
           step \in Transitioning => pc[t] \in Transitioning
    PROVE  CtxType'
BY StepType DEF TypeOK, CtxType

LEMMA ReturnType ==
    ASSUME TypeOK, NEW t \in Threads, Return(t)
    PROVE  CtxType'
BY StepType DEF TypeOK, Steps, CtxType, Transitioning

(* What a running thread holds.  *)
LEMMA ContextType ==
    ASSUME TypeOK, NEW t \in Threads, pc[t] # "idle"
    PROVE  /\ ctx[t] \in Context
           /\ ctx[t].snap \in Snapshot
           /\ ctx[t].snap.version \in Nat
           /\ ctx[t].snap.month \in BOOLEAN
           /\ ctx[t].event \in Event
           /\ ctx[t].event.id \in Id
           /\ ctx[t].event.to \in States
<1>1. ctx[t] \in Context
  BY DEF TypeOK
<1>2. ctx[t].snap \in Snapshot /\ ctx[t].event \in Event
  BY <1>1 DEF Context
<1>3. ctx[t].snap.version \in Nat /\ ctx[t].snap.month \in BOOLEAN
  BY <1>2 DEF Snapshot
<1>4. ctx[t].event.id \in Id /\ ctx[t].event.to \in States
  BY <1>2 DEF Event
<1> QED
  BY <1>1, <1>2, <1>3, <1>4

(* The call of a thread that executes a transition, with all its parts.  *)
LEMMA CallType ==
    ASSUME TypeOK, NEW t \in Threads, pc[t] \in Transitioning
    PROVE  /\ pc[t] # "idle"
           /\ ctx[t] \in Context
           /\ ctx[t].call \in Call
           /\ ctx[t].call.sub \in Submissions
           /\ ctx[t].call.req \in RequestIds
           /\ ctx[t].call.claim \in Claim
           /\ ctx[t].call.claim.to \in States
           /\ ctx[t].call.month \in BOOLEAN
           /\ ctx[t].snap \in Snapshot
           /\ ctx[t].snap.version \in Nat
           /\ ctx[t].snap.month \in BOOLEAN
           /\ ctx[t].event \in Event
<1>1. pc[t] # "idle"
  BY DEF Transitioning
<1>2. ctx[t].call \in Call
  BY DEF TypeOK
<1>3. /\ ctx[t].call.sub \in Submissions
      /\ ctx[t].call.req \in RequestIds
      /\ ctx[t].call.claim \in Claim
      /\ ctx[t].call.month \in BOOLEAN
  BY <1>2 DEF Call
<1>4. ctx[t].call.claim.to \in States
  BY <1>3 DEF Claim
<1> QED
  BY <1>1, <1>2, <1>3, <1>4, ContextType

LEMMA NewRowType ==
    ASSUME TypeOK, NEW t \in Threads, pc[t] \in Transitioning
    PROVE  NewRow(t) \in Row
BY CallType DEF NewRow, Row, Snapshot

LEMMA AnnounceType ==
    ASSUME NEW s \in Submissions, NEW v \in Nat, NEW to \in States
    PROVE  Announce(s, v, to) \in Event
BY DEF Announce, Event, Key, Id

LEMMA RowParts ==
    ASSUME NEW T \in Tables, NEW row \in T.log
    PROVE  /\ row \in Row
           /\ EventOf(row) \in Event
<1>1. row \in Row
  BY DEF Tables
<1>2. row.claim.to \in States
  BY <1>1 DEF Row, Claim
<1> QED
  BY <1>1, <1>2, AnnounceType DEF EventOf, Row

(* A replay goes on with a well-typed event.  *)
LEMMA ReplayedType ==
    ASSUME TypeOK, NEW t \in Threads, pc[t] # "idle",
           NEW row \in View(t).log, Replayed(t, row)
    PROVE  CtxType'
<1>1. EventOf(row) \in Event /\ row.sub \in Submissions
  BY ViewType, RowParts DEF Row
<1>2. View(t).month[row.sub] \in BOOLEAN
  BY <1>1, ViewType DEF Tables
<1>3. [ctx[t] EXCEPT !.snap.month = View(t).month[row.sub],
                     !.event = EventOf(row)] \in Context
  BY <1>1, <1>2, ContextType DEF Context, Snapshot
<1>4. /\ pc' = [pc EXCEPT ![t] = "consume"]
      /\ "consume" \in Steps /\ "consume" \notin Transitioning
  BY DEF Replayed, Steps, Transitioning
<1>5. ctx' = [ctx EXCEPT ![t] = [ctx[t] EXCEPT !.snap.month = View(t).month[row.sub],
                                              !.event = EventOf(row)]]
  BY DEF Replayed, TypeOK
<1> QED
  BY <1>3, <1>4, <1>5, StepType DEF TypeOK, CtxType

LEMMA CreateDraftType ==
    ASSUME TypeOK, NEW t \in Threads, NEW s \in Submissions, NEW month \in BOOLEAN,
           CreateDraft(t, s, month)
    PROVE  TypeOK'
<1>1. [View(t) EXCEPT !.state[s] = "draft", !.month[s] = month] \in Tables
  BY ViewType DEF Tables, States
<1>2. disk' \in Tables
  BY <1>1 DEF CreateDraft
<1>3. tx' \in [Connections -> Tables \cup {NoTx}]
  BY ViewType, TxType DEF CreateDraft
<1> QED
  BY <1>2, <1>3 DEF CreateDraft, TypeOK

LEMMA EditFormType ==
    ASSUME TypeOK, NEW s \in Submissions, NEW form \in Forms, EditForm(s, form)
    PROVE  TypeOK'
<1>1. [disk EXCEPT !.form[s] = form] \in Tables
  BY DEF TypeOK, Tables
<1> QED
  BY <1>1 DEF EditForm, TypeOK

LEMMA SubmitType ==
    ASSUME TypeOK, NEW t \in Threads, NEW call \in Calls, Submit(t, call)
    PROVE  TypeOK'
<1> DEFINE c == [call |-> call,
                 snap |-> [state |-> "draft", version |-> 0, month |-> FALSE],
                 event |-> Announce(call.sub, 0, call.claim.to)]
<1>1. c \in Context /\ c.call \in Call
  <2>1. call \in Call /\ call.sub \in Submissions /\ call.claim.to \in States
    BY WorkflowAssumption DEF Call, Claim
  <2>2. Announce(call.sub, 0, call.claim.to) \in Event
    BY <2>1, AnnounceType
  <2> QED
    BY <2>1, <2>2 DEF Context, Snapshot, States
<1>2. "lookup" \in Steps
  BY DEF Steps
<1>3. ctx' = [ctx EXCEPT ![t] = c]
  BY DEF Submit
<1> QED
  BY <1>1, <1>2, <1>3 DEF Submit, TypeOK

LEMMA LookupType ==
    ASSUME TypeOK, NEW t \in Threads, Lookup(t)
    PROVE  TypeOK'
<1>1. CtxType'
  <2>1. CASE GoTo(t, "read")
    BY <2>1, GoToType DEF Lookup, Steps
  <2>2. CASE Return(t)
    BY <2>2, ReturnType DEF Lookup
  <2>3. CASE \E row \in RowOf(View(t), ctx[t].call) : Replayed(t, row)
    BY <2>3, ReplayedType DEF Lookup
  <2> QED
    BY <2>1, <2>2, <2>3 DEF Lookup
<1> QED
  BY <1>1 DEF Lookup, TypeOK

LEMMA ReadType ==
    ASSUME TypeOK, NEW t \in Threads, Read(t)
    PROVE  TypeOK'
<1> DEFINE call == ctx[t].call
           V == View(t)
           snap == [state |-> V.state[call.sub], version |-> V.version[call.sub],
                    month |-> V.month[call.sub] \/ call.month]
           event == Announce(call.sub, V.version[call.sub] + 1, call.claim.to)
<1>1. CASE Return(t)
  BY <1>1, ReturnType DEF Read, TypeOK
<1>2. CASE /\ Allowed(V, call)
           /\ pc' = [pc EXCEPT ![t] = "insert"]
           /\ ctx' = [ctx EXCEPT ![t].snap = snap, ![t].event = event]
  <2>1. V \in Tables /\ call.sub \in Submissions /\ pc[t] \in Transitioning
    BY ViewType, CallType DEF Read
  <2>2. V.version[call.sub] \in Nat /\ V.month[call.sub] \in BOOLEAN
    BY <2>1 DEF Tables
  <2>3. V.state[call.sub] \in States
    BY <1>2 DEF Allowed
  <2>4. (V.month[call.sub] \/ call.month) \in BOOLEAN
    OBVIOUS
  <2>5. snap \in Snapshot
    BY <2>2, <2>3, <2>4 DEF Snapshot
  <2>6. event \in Event
    <3>1. call.claim.to \in States /\ V.version[call.sub] + 1 \in Nat
      BY <2>1, <2>2, CallType
    <3> QED
      BY <2>1, <3>1, AnnounceType
  <2> HIDE DEF snap, event
  <2>7. [ctx[t] EXCEPT !.snap = snap, !.event = event] \in Context
    BY <2>1, <2>5, <2>6, CallType DEF Context
  <2>8. ctx' = [ctx EXCEPT ![t] = [ctx[t] EXCEPT !.snap = snap, !.event = event]]
    BY <1>2 DEF TypeOK
  <2>9. "insert" \in Steps
    BY DEF Steps
  <2> QED
    BY <1>2, <2>7, <2>8, <2>9 DEF Read, TypeOK
<1> QED
  BY <1>1, <1>2 DEF Read

LEMMA InsertType ==
    ASSUME TypeOK, NEW t \in Threads, Insert(t)
    PROVE  TypeOK'
<1>1. pc[t] \in Transitioning /\ View(t) \in Tables /\ Conn[t] \in Connections
  BY ViewType DEF Insert
<1>2. [View(t) EXCEPT !.log = @ \cup {NewRow(t)}] \in Tables
  BY <1>1, NewRowType DEF Tables
<1>3. PICK T \in Tables, step \in {"recheck", "update"} :
          Execute(t, T) /\ GoTo(t, step)
  BY <1>1, <1>2 DEF Insert
<1>4. step \in Steps
  BY DEF Steps
<1> QED
  BY <1>1, <1>3, <1>4, GoToType, TxType DEF Insert, TypeOK

LEMMA RecheckType ==
    ASSUME TypeOK, NEW t \in Threads, Recheck(t)
    PROVE  TypeOK'
<1>1. CtxType'
  BY ReturnType, ReplayedType DEF Recheck
<1>2. disk' \in Tables /\ tx' \in [Connections -> Tables \cup {NoTx}]
  BY ViewType, TxType DEF Recheck, TypeOK
<1> QED
  BY <1>1, <1>2 DEF Recheck, TypeOK

LEMMA UpdateType ==
    ASSUME TypeOK, NEW t \in Threads, Update(t)
    PROVE  TypeOK'
<1> DEFINE s == ctx[t].call.sub
           T == [View(t) EXCEPT !.state[s] = ctx[t].call.claim.to,
                                !.version[s] = ctx[t].snap.version + 1]
<1>1. View(t) \in Tables /\ Conn[t] \in Connections /\ pc[t] \in Transitioning
  BY ViewType DEF Update
<1>2. s \in Submissions /\ ctx[t].call.claim.to \in States /\ ctx[t].snap.version + 1 \in Nat
  BY <1>1, CallType
<1>3. T \in Tables
  BY <1>1, <1>2 DEF Tables
<1> HIDE DEF T
<1>4. CASE Execute(t, T) /\ GoTo(t, "metadata")
  BY <1>1, <1>3, <1>4, GoToType, TxType DEF Update, TypeOK, Steps
<1>5. CASE Rollback(t) /\ Return(t)
  BY <1>1, <1>5, ReturnType, TxType DEF Update, TypeOK
<1> QED
  BY <1>4, <1>5 DEF Update, T

LEMMA SaveMetadataType ==
    ASSUME TypeOK, NEW t \in Threads, SaveMetadata(t)
    PROVE  TypeOK'
<1> DEFINE T == [View(t) EXCEPT !.month[ctx[t].call.sub] = ctx[t].snap.month]
<1>1. View(t) \in Tables /\ Conn[t] \in Connections /\ pc[t] \in Transitioning
  BY ViewType DEF SaveMetadata
<1>2. T \in Tables
  BY <1>1, CallType DEF Tables
<1>3. Execute(t, T) /\ GoTo(t, "commit") /\ "commit" \in Steps
  BY DEF SaveMetadata, Steps
<1> HIDE DEF T
<1> QED
  BY <1>1, <1>2, <1>3, GoToType, TxType DEF SaveMetadata, TypeOK

LEMMA CommitType ==
    ASSUME TypeOK, NEW t \in Threads, Commit(t)
    PROVE  TypeOK'
<1>1. View(t) \in Tables /\ Conn[t] \in Connections /\ pc[t] \in Transitioning
  BY ViewType DEF Commit
<1>2. disk' \in Tables /\ tx' \in [Connections -> Tables \cup {NoTx}]
  BY <1>1, TxType DEF Commit
<1>3. applied' \subseteq Result
  <2>1. ctx[t].snap.version + 1 \in Nat
    BY <1>1, CallType
  <2> QED
    BY <1>1, <2>1, CallType DEF Commit, Result, NewRow, TypeOK
<1>4. "consume" \in Steps
  BY DEF Steps
<1> QED
  BY <1>1, <1>2, <1>3, <1>4, GoToType DEF Commit, TypeOK

LEMMA DispatchType ==
    ASSUME TypeOK, NEW t \in Threads, NEW d \in Dispatches, Dispatch(t, d)
    PROVE  TypeOK'
<1> DEFINE c == [call |-> NoCall,
                 snap |-> [state |-> "draft", version |-> 0, month |-> d.month],
                 event |-> d.event]
<1>1. d.event \in Event /\ d.month \in BOOLEAN
  BY WorkflowAssumption
<1>2. c \in Context
  BY <1>1 DEF Context, Snapshot, States
<1>3. ctx' = [ctx EXCEPT ![t] = c]
  BY DEF Dispatch
<1>4. "consume" \in Steps /\ "consume" \notin Transitioning
  BY DEF Steps, Transitioning
<1> HIDE DEF c
<1> QED
  BY <1>1, <1>2, <1>3, <1>4 DEF Dispatch, TypeOK

LEMMA ConsumeType ==
    ASSUME TypeOK, NEW t \in Threads, Consume(t)
    PROVE  TypeOK'
<1>1. pc[t] # "idle" /\ View(t) \in Tables
  BY ViewType DEF Consume, At
<1>2. CtxType'
  <2>1. ASSUME NEW o \in OutcomesOf(View(t), ctx[t].event),
               pc' = [pc EXCEPT ![t] = "repair"],
               ctx' = [ctx EXCEPT ![t].event = o]
        PROVE  CtxType'
    <3>1. o \in Event
      BY <1>1 DEF OutcomesOf, Tables
    <3>2. [ctx[t] EXCEPT !.event = o] \in Context
      BY <1>1, <3>1, ContextType DEF Context
    <3>3. ctx' = [ctx EXCEPT ![t] = [ctx[t] EXCEPT !.event = o]]
      BY <2>1 DEF TypeOK
    <3>4. "repair" \in Steps /\ "repair" \notin Transitioning
      BY DEF Steps, Transitioning
    <3> QED
      BY <2>1, <3>2, <3>3, <3>4, StepType DEF TypeOK, CtxType
  <2>2. CASE Return(t)
    BY <2>2, ReturnType
  <2>3. CASE GoTo(t, "outcome")
    BY <1>1, <2>3, GoToType DEF Steps, Transitioning
  <2> QED
    BY <2>1, <2>2, <2>3 DEF Consume
<1> QED
  BY <1>2 DEF Consume, TypeOK, CtxType

LEMMA EnsureJobsType ==
    ASSUME TypeOK, NEW t \in Threads, pc[t] # "idle", EnsureJobs(t)
    PROVE  TypeOK'
<1> DEFINE T == [View(t) EXCEPT !.jobs = @ \cup ProviderJobs(ctx[t].event)]
<1>1. View(t) \in Tables /\ Conn[t] \in Connections
  BY ViewType
<1>2. TargetsOf(ctx[t].event.to) \subseteq Targets
  BY DEF TargetsOf, Targets
<1>3. ProviderJobs(ctx[t].event) \subseteq [id : Id, to : States, target : Targets]
  BY <1>2, ContextType DEF ProviderJobs
<1>4. T \in Tables
  BY <1>1, <1>3 DEF Tables
<1> HIDE DEF T
<1>5. GoTo(t, "finish") /\ "finish" \in Steps
  BY DEF EnsureJobs, Steps
<1>6. disk' \in Tables /\ tx' \in [Connections -> Tables \cup {NoTx}]
  BY <1>1, <1>4, TxType DEF EnsureJobs, TypeOK, T
<1> QED
  BY <1>5, <1>6, GoToType DEF EnsureJobs, TypeOK

LEMMA InsertOutcomeType ==
    ASSUME TypeOK, NEW t \in Threads, InsertOutcome(t)
    PROVE  TypeOK'
<1> DEFINE T == [View(t) EXCEPT !.outcomes = @ \cup {ctx[t].event}]
<1>1. View(t) \in Tables /\ Conn[t] \in Connections /\ pc[t] # "idle"
  BY ViewType DEF InsertOutcome
<1>2. T \in Tables
  BY <1>1, ContextType DEF Tables
<1> HIDE DEF T
<1>3. CASE Execute(t, T) /\ GoTo(t, "queue")
  BY <1>1, <1>2, <1>3, GoToType, TxType DEF InsertOutcome, TypeOK, Steps
<1>4. CASE Rollback(t) /\ Return(t)
  BY <1>1, <1>4, ReturnType, TxType DEF InsertOutcome, TypeOK
<1> QED
  BY <1>3, <1>4 DEF InsertOutcome, T

LEMMA FinishType ==
    ASSUME TypeOK, NEW t \in Threads, Finish(t) \/ WriteLockTimeout(t)
    PROVE  TypeOK'
BY ViewType, TxType, ReturnType DEF Finish, WriteLockTimeout, TypeOK

LEMMA CrashType ==
    ASSUME TypeOK, NEW c \in Connections, Crash(c)
    PROVE  TypeOK'
BY TxType DEF Crash, TypeOK, Steps

LEMMA InitType == Init => TypeOK
<1> SUFFICES ASSUME Init PROVE TypeOK
  OBVIOUS
<1>1. disk \in Tables
  BY DEF Init, Tables, Forms
<1> QED
  BY <1>1 DEF Init, TypeOK, Steps

LEMMA NextType == TypeOK /\ [Next]_vars => TypeOK'
<1> SUFFICES ASSUME TypeOK, [Next]_vars PROVE TypeOK'
  OBVIOUS
<1>1. CASE UNCHANGED vars
  BY <1>1 DEF TypeOK, vars
<1>2. ASSUME NEW t \in Threads, Arrive(t) PROVE TypeOK'
  BY <1>2, CreateDraftType, SubmitType, DispatchType DEF Arrive
<1>3. ASSUME NEW t \in Threads, Step(t) PROVE TypeOK'
  <2>1. ASSUME Lookup(t) \/ Read(t) \/ Insert(t) \/ Recheck(t) \/ Update(t)
        PROVE TypeOK'
    BY <2>1, LookupType, ReadType, InsertType, RecheckType, UpdateType
  <2>2. ASSUME SaveMetadata(t) \/ Commit(t) \/ Consume(t) \/ RepairJobs(t)
        PROVE TypeOK'
    BY <2>2, SaveMetadataType, CommitType, ConsumeType, EnsureJobsType DEF RepairJobs
  <2>3. ASSUME InsertOutcome(t) \/ QueueJobs(t) \/ Finish(t) \/ WriteLockTimeout(t)
        PROVE TypeOK'
    BY <2>3, InsertOutcomeType, EnsureJobsType, FinishType DEF QueueJobs
  <2> QED
    BY <1>3, <2>1, <2>2, <2>3 DEF Step
<1>4. ASSUME NEW s \in Submissions, NEW form \in Forms, EditForm(s, form) PROVE TypeOK'
  BY <1>4, EditFormType
<1>5. ASSUME NEW c \in Connections, Crash(c) PROVE TypeOK'
  BY <1>5, CrashType
<1> QED
  BY <1>1, <1>2, <1>3, <1>4, <1>5 DEF Next

(***************************************************************************)
(* Every table, transaction and local variable of the workflow stays well  *)
(* typed, whichever threads share a connection.                            *)
(***************************************************************************)
THEOREM WorkflowTypeCorrect == Spec => []TypeOK
BY InitType, NextType, PTL DEF Spec
----------------------------------------------------------------------------
(* Isolated connections: what the threads leave alone of each other.  *)

(* A thread that is not writing sees the committed tables.  *)
LEMMA NotWriting ==
    ASSUME IsolatedConnections, TypeOK, OneWriter,
           NEW t \in Threads, pc[t] \notin MaybeWriting
    PROVE  tx[Conn[t]] = NoTx /\ View(t) = disk
<1>1. Conn[t] \in Connections
  BY ViewType
<1>2. tx[Conn[t]] = NoTx
  BY <1>1 DEF OneWriter, IsolatedConnections
<1> QED
  BY <1>2 DEF View

(* A thread with an open transaction works in it, and no other has one.  *)
LEMMA WritingAlone ==
    ASSUME IsolatedConnections, TypeOK, OneWriter,
           NEW t \in Threads, tx[Conn[t]] # NoTx
    PROVE  /\ View(t) = tx[Conn[t]]
           /\ MayWrite(t)
           /\ \A u \in Threads : u # t => tx[Conn[u]] = NoTx
BY WorkflowAssumption DEF View, MayWrite, OneWriter, IsolatedConnections

LEMMA OthersQuiet ==
    ASSUME IsolatedConnections, TypeOK, NEW t \in Threads, MayWrite(t),
           NEW u \in Threads, u # t
    PROVE  tx[Conn[u]] = NoTx
BY WorkflowAssumption DEF MayWrite, IsolatedConnections

(* A thread that executes a statement holds the writer lock.  *)
LEMMA ExecuteKeepsLock ==
    ASSUME IsolatedConnections, TypeOK, OneWriter, NEW t \in Threads,
           NEW T \in Tables, Execute(t, T), NEW step \in MaybeWriting,
           pc' = [pc EXCEPT ![t] = step]
    PROVE  /\ OneWriter'
           /\ tx'[Conn[t]] = T
           /\ \A u \in Threads : u # t => tx'[Conn[u]] = tx[Conn[u]]
<1>1. Conn[t] \in Connections /\ T # NoTx
  BY ViewType, NoTxAssumption
<1>2. \A c \in Connections : c # Conn[t] => tx'[c] = tx[c] /\ tx[c] = NoTx
  BY DEF TypeOK, MayWrite
<1>3. tx'[Conn[t]] = T
  BY <1>1 DEF TypeOK
<1>4. \A u \in Threads : u # t => tx'[Conn[u]] = tx[Conn[u]] /\ pc'[u] = pc[u]
  BY <1>2, WorkflowAssumption DEF IsolatedConnections, TypeOK
<1>5. pc'[t] = step
  BY DEF TypeOK
<1>6. \A u \in Threads : pc'[u] \in Writing => tx'[Conn[u]] # NoTx
  BY <1>1, <1>3, <1>4 DEF OneWriter
<1>7. \A c \in Connections : tx'[c] # NoTx =>
        \E u \in Threads : Conn[u] = c /\ pc'[u] \in MaybeWriting
  BY <1>2, <1>5
<1> QED
  BY <1>2, <1>3, <1>4, <1>6, <1>7 DEF OneWriter

(* Commit and rollback give the lock back.  *)
LEMMA CloseKeepsLock ==
    ASSUME IsolatedConnections, TypeOK, OneWriter, NEW t \in Threads,
           tx' = [tx EXCEPT ![Conn[t]] = NoTx],
           NEW step \in Steps \ Writing, pc' = [pc EXCEPT ![t] = step]
    PROVE  /\ OneWriter'
           /\ tx'[Conn[t]] = NoTx
           /\ \A u \in Threads : u # t => tx'[Conn[u]] = tx[Conn[u]]
<1>1. Conn[t] \in Connections
  BY ViewType
<1>2. tx'[Conn[t]] = NoTx /\ \A c \in Connections : c # Conn[t] => tx'[c] = tx[c]
  BY <1>1 DEF TypeOK
<1>3. \A u \in Threads : u # t =>
        tx'[Conn[u]] = tx[Conn[u]] /\ Conn[u] # Conn[t] /\ pc'[u] = pc[u]
  BY <1>2, WorkflowAssumption DEF IsolatedConnections, TypeOK
<1>4. \A c \in Connections : tx'[c] # NoTx =>
        \E u \in Threads : Conn[u] = c /\ pc'[u] \in MaybeWriting
  BY <1>2, <1>3 DEF OneWriter
<1>5. pc'[t] \notin Writing
  BY DEF TypeOK
<1>6. \A u \in Threads : pc'[u] \in Writing => tx'[Conn[u]] # NoTx
  BY <1>3, <1>5 DEF OneWriter
<1> QED
  BY <1>2, <1>3, <1>4, <1>6 DEF OneWriter

(* A thread that executes nothing leaves the lock where it is.  *)
LEMMA ReadKeepsLock ==
    ASSUME TypeOK, OneWriter, NEW t \in Threads, tx' = tx,
           NEW step \in Steps \ Writing, pc' = [pc EXCEPT ![t] = step],
           pc[t] \in MaybeWriting => step \in MaybeWriting
    PROVE  OneWriter'
BY DEF OneWriter, TypeOK

(***************************************************************************)
(* What a step of another thread may do to the committed tables: the log   *)
(* and the outcomes only grow, and a state only changes with its version,  *)
(* or from absent.                                                         *)
(***************************************************************************)
Grows ==
    /\ disk.log \subseteq disk'.log
    /\ disk.outcomes \subseteq disk'.outcomes
    /\ dispatched \subseteq dispatched'
    /\ \A s \in Submissions :
          \/ disk'.version[s] > disk.version[s]
          \/ /\ disk'.version[s] = disk.version[s]
             /\ disk.state[s] \in {"absent", disk'.state[s]}

LEMMA OthersUnmoved ==
    ASSUME WorkflowInv, TypeOK', NEW u \in Threads,
           pc'[u] = pc[u], ctx'[u] = ctx[u], tx'[Conn[u]] = tx[Conn[u]],
           (disk' = disk /\ dispatched \subseteq dispatched') \/ (Grows /\ tx[Conn[u]] = NoTx)
    PROVE  ThreadInv(u)'
<1>1. CASE disk' = disk /\ dispatched \subseteq dispatched'
  <2>1. NewRow(u)' = NewRow(u)
    BY DEF NewRow
  <2>2. Recorded(u)' = Recorded(u) /\ Announced(u)' = Announced(u)
    BY <1>1, <2>1 DEF Recorded, Announced
  <2>3. Moved(u)' = Moved(u) /\ Queued(u)' = Queued(u)
    BY <2>2 DEF Moved, Queued
  <2>4. Saved(u)' = Saved(u)
    BY <2>3 DEF Saved
  <2>5. TxContents(u) => TxContents(u)'
    BY <1>1, <2>2, <2>3, <2>4 DEF TxContents
  <2>6. (SnapshotHolds(u) => SnapshotHolds(u)') /\ (SnapshotCurrent(u) => SnapshotCurrent(u)')
    BY <1>1 DEF SnapshotHolds, SnapshotCurrent
  <2>7. Announceable(ctx[u].event) => Announceable(ctx[u].event)'
    BY <1>1 DEF Announceable
  <2>8. ThreadInv(u)
    BY DEF WorkflowInv
  <2>9. RowHolds(u) => RowHolds(u)'
    BY <2>1 DEF RowHolds
  <2> QED
    BY <1>1, <2>5, <2>6, <2>7, <2>8, <2>9 DEF ThreadInv
<1>2. CASE Grows /\ tx[Conn[u]] = NoTx
  <2>1. pc[u] \notin Writing
    BY <1>2 DEF WorkflowInv, OneWriter
  <2>2. TxContents(u)'
    BY <1>2, <2>1 DEF TxContents, Writing
  <2>3. ASSUME pc[u] = "insert" PROVE SnapshotHolds(u)'
    <3>1. SnapshotHolds(u)
      BY <2>3 DEF WorkflowInv, ThreadInv
    <3>2. ctx[u].call.sub \in Submissions /\ ctx[u].snap.version \in Nat
          /\ ctx[u].snap.state \in States
      BY <2>3, CallType DEF WorkflowInv, Snapshot
    <3>3. disk.version[ctx[u].call.sub] \in Nat /\ disk'.version[ctx[u].call.sub] \in Nat
      BY <3>2 DEF WorkflowInv, TypeOK, Tables
    <3> QED
      BY <1>2, <3>1, <3>2, <3>3 DEF SnapshotHolds, Grows, States
  <2>4. Announceable(ctx[u].event) => Announceable(ctx[u].event)'
    BY <1>2 DEF Announceable, Grows
  <2>5. pc[u] = "insert" => RowHolds(u)'
    BY DEF WorkflowInv, ThreadInv, RowHolds, NewRow
  <2>6. pc[u] = "repair" => ctx'[u].event \in disk'.outcomes
    BY <1>2 DEF WorkflowInv, ThreadInv, Grows
  <2>7. pc[u] \in {"consume", "repair", "outcome", "queue", "finish"} => Announceable(ctx[u].event)'
    BY <2>4 DEF WorkflowInv, ThreadInv
  <2> QED
    BY <2>1, <2>2, <2>3, <2>5, <2>6, <2>7 DEF ThreadInv, Writing
<1> QED
  BY <1>1, <1>2

LEMMA DiskKept ==
    ASSUME DiskInv, disk' = disk, applied' = applied, dispatched \subseteq dispatched'
    PROVE  DiskInv'
BY DEF DiskInv, Numbered, Chained, Keyed, AppliedAreLogged, OutcomesAreOfTheLog,
       Announceable, OutcomesHaveJobs, ProviderJobs, TargetsOf

(* A step of t that commits nothing preserves the invariant if it is fine for t. *)
LEMMA OwnStep ==
    ASSUME WorkflowInv, TypeOK', NEW t \in Threads, OneWriter', ThreadInv(t)',
           disk' = disk, applied' = applied, dispatched \subseteq dispatched',
           \A u \in Threads : u # t =>
               pc'[u] = pc[u] /\ ctx'[u] = ctx[u] /\ tx'[Conn[u]] = tx[Conn[u]]
    PROVE  WorkflowInv'
<1>1. \A u \in Threads : ThreadInv(u)'
  BY OthersUnmoved
<1>2. DiskInv'
  BY DiskKept DEF WorkflowInv
<1> QED
  BY <1>1, <1>2 DEF WorkflowInv

(* A call that ends, with or without a transaction to roll back.  *)
LEMMA ReturnKeeps ==
    ASSUME IsolatedConnections, WorkflowInv, TypeOK', NEW t \in Threads, Return(t),
           Rollback(t) \/ (pc[t] \notin MaybeWriting /\ UNCHANGED <<disk, tx>>),
           applied' = applied, dispatched' = dispatched
    PROVE  WorkflowInv'
<1>1. "idle" \in Steps \ Writing
  BY DEF Steps, Writing
<1>2. /\ OneWriter'
      /\ \A u \in Threads : u # t => tx'[Conn[u]] = tx[Conn[u]]
  <2>1. CASE Rollback(t)
    BY <1>1, <2>1, CloseKeepsLock DEF WorkflowInv, Rollback, Return
  <2>2. CASE pc[t] \notin MaybeWriting /\ UNCHANGED <<disk, tx>>
    BY <1>1, <2>2, ReadKeepsLock DEF WorkflowInv, Return
  <2> QED
    BY <2>1, <2>2
<1>3. pc'[t] = "idle" /\ \A u \in Threads : u # t => pc'[u] = pc[u] /\ ctx'[u] = ctx[u]
  BY DEF Return, WorkflowInv, TypeOK
<1>4. ThreadInv(t)'
  BY <1>3 DEF ThreadInv, TxContents
<1>5. disk' = disk
  BY DEF Rollback
<1> QED
  BY <1>2, <1>3, <1>4, <1>5, OwnStep

(* A step of t that executes no statement.  *)
LEMMA ReadStep ==
    ASSUME WorkflowInv, TypeOK', NEW t \in Threads, UNCHANGED <<disk, tx, applied>>,
           dispatched \subseteq dispatched',
           NEW step \in Steps \ Writing, pc' = [pc EXCEPT ![t] = step],
           pc[t] \in MaybeWriting => step \in MaybeWriting,
           \A u \in Threads : u # t => ctx'[u] = ctx[u],
           ThreadInv(t)'
    PROVE  WorkflowInv'
<1>1. OneWriter'
  BY ReadKeepsLock DEF WorkflowInv
<1>2. \A u \in Threads : u # t => pc'[u] = pc[u] /\ tx'[Conn[u]] = tx[Conn[u]]
  BY DEF WorkflowInv, TypeOK
<1> QED
  BY <1>1, <1>2, OwnStep

(* A step of t that executes a statement in its transaction.  *)
LEMMA WriteStep ==
    ASSUME IsolatedConnections, WorkflowInv, TypeOK', NEW t \in Threads,
           NEW T \in Tables, Execute(t, T),
           NEW step \in MaybeWriting, GoTo(t, step), UNCHANGED <<applied, dispatched>>,
           tx'[Conn[t]] = T => ThreadInv(t)'
    PROVE  WorkflowInv'
<1>1. /\ OneWriter'
      /\ tx'[Conn[t]] = T
      /\ \A u \in Threads : u # t => tx'[Conn[u]] = tx[Conn[u]]
  BY ExecuteKeepsLock DEF WorkflowInv, GoTo
<1>2. \A u \in Threads : u # t => pc'[u] = pc[u] /\ ctx'[u] = ctx[u]
  BY DEF WorkflowInv, TypeOK, GoTo
<1> QED
  BY <1>1, <1>2, OwnStep DEF Execute
----------------------------------------------------------------------------
(* The steps that commit nothing.  *)

LEMMA SubmitInv ==
    ASSUME WorkflowInv, TypeOK', NEW t \in Threads, NEW call \in Calls, Submit(t, call)
    PROVE  WorkflowInv'
<1>1. "lookup" \in Steps \ Writing /\ pc[t] \notin MaybeWriting
  BY DEF Steps, Writing, MaybeWriting, Submit, At
<1>2. pc'[t] = "lookup" /\ \A u \in Threads : u # t => ctx'[u] = ctx[u]
  BY DEF Submit, WorkflowInv, TypeOK
<1>3. ThreadInv(t)'
  BY <1>2 DEF ThreadInv, TxContents
<1> QED
  BY <1>1, <1>2, <1>3, ReadStep DEF Submit

LEMMA DispatchInv ==
    ASSUME WorkflowInv, TypeOK', NEW t \in Threads, NEW d \in Dispatches, Dispatch(t, d)
    PROVE  WorkflowInv'
<1>1. "consume" \in Steps \ Writing /\ pc[t] \notin MaybeWriting
  BY DEF Steps, Writing, MaybeWriting, Dispatch, At
<1>2. /\ pc'[t] = "consume" /\ ctx'[t].event = d.event
      /\ d.event \in dispatched'
      /\ \A u \in Threads : u # t => ctx'[u] = ctx[u]
  BY DEF Dispatch, WorkflowInv, TypeOK
<1>3. Announceable(ctx[t].event)'
  BY <1>2 DEF Announceable, Dispatch
<1>4. ThreadInv(t)'
  BY <1>2, <1>3 DEF ThreadInv, TxContents
<1> QED
  BY <1>1, <1>2, <1>4, ReadStep DEF Dispatch

LEMMA LookupInv ==
    ASSUME IsolatedConnections, WorkflowInv, TypeOK', NEW t \in Threads, Lookup(t)
    PROVE  WorkflowInv'
<1>1. pc[t] = "lookup" /\ pc[t] \notin MaybeWriting /\ View(t) = disk
      /\ "read" \in Steps \ Writing /\ "consume" \in Steps \ Writing
  BY NotWriting DEF Lookup, At, MaybeWriting, Writing, WorkflowInv, Steps
<1>2. CASE GoTo(t, "read")
  <2>1. pc'[t] = "read"
    BY <1>2 DEF GoTo, WorkflowInv, TypeOK
  <2>2. ThreadInv(t)'
    BY <2>1 DEF ThreadInv, TxContents
  <2> QED
    BY <1>1, <1>2, <2>2, ReadStep DEF GoTo, Lookup
<1>3. ASSUME NEW row \in disk.log, Replayed(t, row) PROVE WorkflowInv'
  <2>1. /\ pc'[t] = "consume" /\ ctx'[t].event = EventOf(row)
        /\ \A u \in Threads : u # t => ctx'[u] = ctx[u]
    BY <1>1, <1>3, CallType DEF Replayed, WorkflowInv, TypeOK
  <2>2. Announceable(ctx[t].event)'
    BY <2>1 DEF Announceable, Lookup
  <2>3. ThreadInv(t)'
    BY <2>1, <2>2 DEF ThreadInv, TxContents
  <2> QED
    BY <1>1, <1>3, <2>1, <2>3, ReadStep DEF Replayed, Lookup
<1>4. CASE Return(t)
  BY <1>1, <1>4, ReturnKeeps DEF Lookup
<1> QED
  BY <1>1, <1>2, <1>3, <1>4 DEF Lookup, RowOf, RowsOf

LEMMA ReadInv ==
    ASSUME IsolatedConnections, WorkflowInv, TypeOK', NEW t \in Threads, Read(t)
    PROVE  WorkflowInv'
<1> DEFINE s == ctx[t].call.sub
<1>1. pc[t] = "read" /\ pc[t] \notin MaybeWriting /\ View(t) = disk
      /\ "insert" \in Steps \ Writing
  BY NotWriting DEF Read, At, MaybeWriting, Writing, WorkflowInv, Steps
<1>2. CASE Return(t)
  BY <1>1, <1>2, ReturnKeeps DEF Read
<1>3. CASE pc' = [pc EXCEPT ![t] = "insert"] /\ ~Return(t)
  <2>1. ctx[t] \in Context /\ s \in Submissions
    BY <1>1, CallType DEF WorkflowInv
  <2>2. disk.version[s] \in Nat
    BY <2>1 DEF WorkflowInv, TypeOK, Tables
  <2>3. /\ ctx'[t].call = ctx[t].call
        /\ ctx'[t].snap.version = disk.version[s]
        /\ ctx'[t].snap.state = disk.state[s]
        /\ ctx'[t].event = Announce(s, disk.version[s] + 1, ctx[t].call.claim.to)
        /\ \A u \in Threads : u # t => ctx'[u] = ctx[u]
    BY <1>1, <1>3, <2>1 DEF Read, WorkflowInv, TypeOK, Context
  <2>4. pc'[t] = "insert" /\ disk' = disk
    BY <1>3 DEF Read, WorkflowInv, TypeOK
  <2>5. SnapshotHolds(t)'
    BY <2>2, <2>3, <2>4 DEF SnapshotHolds
  <2>6. RowHolds(t)'
    <3>1. Edge(disk.state[s], ctx[t].call.claim.to)
      BY <1>1, <1>3 DEF Read, Allowed, Permits, Edge
    <3> QED
      BY <2>3, <3>1 DEF RowHolds, EventOf, NewRow
  <2>7. ThreadInv(t)'
    BY <2>4, <2>5, <2>6 DEF ThreadInv, TxContents
  <2> QED
    BY <1>1, <1>3, <2>3, <2>7, ReadStep DEF Read
<1> QED
  BY <1>2, <1>3 DEF Read

LEMMA ConsumeInv ==
    ASSUME IsolatedConnections, WorkflowInv, TypeOK', NEW t \in Threads, Consume(t)
    PROVE  WorkflowInv'
<1>1. pc[t] = "consume" /\ pc[t] \notin MaybeWriting /\ View(t) = disk
      /\ "repair" \in Steps \ Writing /\ "outcome" \in Steps \ Writing
  BY NotWriting DEF Consume, At, MaybeWriting, Writing, WorkflowInv, Steps
<1>2. CASE Return(t)
  BY <1>1, <1>2, ReturnKeeps DEF Consume
<1>3. CASE GoTo(t, "outcome")
  <2>1. pc'[t] = "outcome" /\ ctx' = ctx /\ disk' = disk
    BY <1>3 DEF GoTo, WorkflowInv, TypeOK, Consume
  <2>2. Announceable(ctx[t].event)
    BY <1>1 DEF WorkflowInv, ThreadInv
  <2>3. Announceable(ctx[t].event)'
    BY <2>1, <2>2 DEF Announceable, Consume
  <2>4. ThreadInv(t)'
    BY <2>1, <2>3 DEF ThreadInv, TxContents
  <2> QED
    BY <1>1, <1>3, <2>1, <2>4, ReadStep DEF GoTo, Consume
<1>4. ASSUME NEW o \in OutcomesOf(disk, ctx[t].event),
             pc' = [pc EXCEPT ![t] = "repair"], ctx' = [ctx EXCEPT ![t].event = o]
      PROVE  WorkflowInv'
  <2>1. ctx[t] \in Context
    BY <1>1, ContextType DEF WorkflowInv
  <2>2. /\ pc'[t] = "repair" /\ ctx'[t].event = o /\ disk' = disk
        /\ \A u \in Threads : u # t => ctx'[u] = ctx[u]
    BY <1>4, <2>1 DEF WorkflowInv, TypeOK, Context, Consume
  <2>3. o \in disk.outcomes
    BY DEF OutcomesOf
  <2>4. Announceable(o)
    BY <2>3 DEF WorkflowInv, DiskInv, OutcomesAreOfTheLog
  <2>5. Announceable(ctx[t].event)'
    BY <2>2, <2>4 DEF Announceable, Consume
  <2>6. ThreadInv(t)'
    BY <2>2, <2>3, <2>5 DEF ThreadInv, TxContents
  <2> QED
    BY <1>1, <1>4, <2>2, <2>6, ReadStep DEF Consume
<1> QED
  BY <1>1, <1>2, <1>3, <1>4 DEF Consume
----------------------------------------------------------------------------
(* The statements of an open transaction.  *)

LEMMA StatementTypes ==
    ASSUME TypeOK, NEW t \in Threads, pc[t] \in Transitioning
    PROVE  Recorded(t) \in Tables /\ Moved(t) \in Tables /\ Saved(t) \in Tables
<1>1. disk \in Tables
  BY DEF TypeOK
<1>2. Recorded(t) \in Tables
  BY <1>1, NewRowType DEF Recorded, Tables
<1>3. Moved(t) \in Tables
  <2>1. ctx[t].snap.version + 1 \in Nat
    BY CallType
  <2> QED
    BY <1>2, <2>1, CallType DEF Moved, Tables
<1>4. Saved(t) \in Tables
  BY <1>3, CallType DEF Saved, Tables
<1> QED
  BY <1>2, <1>3, <1>4

LEMMA OutcomeTypes ==
    ASSUME TypeOK, NEW t \in Threads, pc[t] # "idle"
    PROVE  Announced(t) \in Tables /\ Queued(t) \in Tables
<1>1. disk \in Tables
  BY DEF TypeOK
<1>2. Announced(t) \in Tables
  BY <1>1, ContextType DEF Announced, Tables
<1>3. ProviderJobs(ctx[t].event) \subseteq [id : Id, to : States, target : Targets]
  BY ContextType DEF ProviderJobs, TargetsOf, Targets
<1>4. Queued(t) \in Tables
  BY <1>2, <1>3 DEF Queued, Tables
<1> QED
  BY <1>2, <1>4

(* If the row does not collide, nobody moved the submission since it was read. *)
LEMMA FreshRow ==
    ASSUME WorkflowInv, NEW t \in Threads, pc[t] = "insert",
           ~ \E r \in RowsOf(disk, NewRow(t).sub) :
                r.version = NewRow(t).version \/ r.req = NewRow(t).req
    PROVE  SnapshotCurrent(t)
<1> DEFINE s == ctx[t].call.sub
<1>1. s \in Submissions /\ ctx[t].snap.version \in Nat /\ SnapshotHolds(t)
  BY CallType DEF WorkflowInv, ThreadInv
<1>2. disk.version[s] \in Nat /\ ctx[t].snap.version <= disk.version[s]
  BY <1>1 DEF WorkflowInv, TypeOK, Tables, SnapshotHolds
<1>3. \A r \in disk.log : r.sub = s => r.version # ctx[t].snap.version + 1
                                      /\ r.req # ctx[t].call.req
  BY DEF NewRow, RowsOf
<1>4. ctx[t].snap.version + 1 \notin 1..disk.version[s]
  BY <1>1, <1>3 DEF WorkflowInv, DiskInv, Numbered
<1>5. ctx[t].snap.version = disk.version[s]
  BY <1>1, <1>2, <1>4
<1>6. RowOf(disk, ctx[t].call) = {}
  BY <1>3 DEF RowOf, RowsOf
<1> QED
  BY <1>1, <1>5, <1>6 DEF SnapshotCurrent, SnapshotHolds

LEMMA InsertInv ==
    ASSUME IsolatedConnections, WorkflowInv, TypeOK', NEW t \in Threads, Insert(t)
    PROVE  WorkflowInv'
<1>1. pc[t] = "insert" /\ View(t) = disk /\ disk \in Tables
  BY NotWriting DEF Insert, At, MaybeWriting, Writing, WorkflowInv, TypeOK
<1>2. Recorded(t) \in Tables /\ "update" \in MaybeWriting /\ "recheck" \in MaybeWriting
  BY <1>1, StatementTypes DEF WorkflowInv, MaybeWriting, Writing
<1>3. CASE Execute(t, disk) /\ GoTo(t, "recheck")
  <2>1. pc'[t] = "recheck" /\ disk' = disk
    BY <1>3 DEF GoTo, Execute, WorkflowInv, TypeOK
  <2>2. tx'[Conn[t]] = disk => ThreadInv(t)'
    BY <2>1 DEF ThreadInv, TxContents
  <2> QED
    BY <1>1, <1>2, <1>3, <2>2, WriteStep DEF Insert
<1>4. CASE /\ ~ \E r \in RowsOf(disk, NewRow(t).sub) :
                  r.version = NewRow(t).version \/ r.req = NewRow(t).req
           /\ Execute(t, Recorded(t)) /\ GoTo(t, "update")
  <2>1. pc'[t] = "update" /\ disk' = disk /\ ctx' = ctx
    BY <1>4 DEF GoTo, Execute, WorkflowInv, TypeOK
  <2>2. SnapshotCurrent(t)
    BY <1>1, <1>4, FreshRow
  <2>3. SnapshotCurrent(t)' /\ NewRow(t)' = NewRow(t)
    BY <2>1, <2>2 DEF SnapshotCurrent, NewRow
  <2>4. Recorded(t)' = Recorded(t)
    BY <2>1, <2>3 DEF Recorded
  <2>5. RowHolds(t)'
    BY <1>1, <2>1, <2>3 DEF WorkflowInv, ThreadInv, RowHolds
  <2>6. tx'[Conn[t]] = Recorded(t) => ThreadInv(t)'
    BY <2>1, <2>3, <2>4, <2>5 DEF ThreadInv, TxContents
  <2> QED
    BY <1>2, <1>4, <2>6, WriteStep DEF Insert
<1> QED
  BY <1>1, <1>3, <1>4 DEF Insert, Recorded

LEMMA RecheckInv ==
    ASSUME IsolatedConnections, WorkflowInv, TypeOK', NEW t \in Threads, Recheck(t)
    PROVE  WorkflowInv'
<1>1. pc[t] = "recheck" /\ View(t) = disk
  BY DEF Recheck, At, WorkflowInv, ThreadInv, TxContents, OneWriter, Writing, View
<1>2. CASE Rollback(t) /\ Return(t)
  BY <1>2, ReturnKeeps DEF Recheck
<1>3. ASSUME NEW row \in disk.log, CommitTx(t), Replayed(t, row) PROVE WorkflowInv'
  <2>1. /\ pc'[t] = "consume" /\ ctx'[t].event = EventOf(row) /\ disk' = disk
        /\ \A u \in Threads : u # t => ctx'[u] = ctx[u] /\ pc'[u] = pc[u]
    BY <1>1, <1>3, CallType DEF Replayed, CommitTx, WorkflowInv, TypeOK
  <2>2. Announceable(ctx[t].event)'
    BY <2>1 DEF Announceable
  <2>3. ThreadInv(t)'
    BY <2>1, <2>2 DEF ThreadInv, TxContents
  <2>4. "consume" \in Steps \ Writing
    BY DEF Steps, Writing
  <2>5. /\ OneWriter'
        /\ \A u \in Threads : u # t => tx'[Conn[u]] = tx[Conn[u]]
    BY <1>3, <2>4, CloseKeepsLock DEF WorkflowInv, CommitTx, Replayed
  <2> QED
    BY <2>1, <2>3, <2>5, OwnStep DEF Recheck
<1> QED
  BY <1>1, <1>2, <1>3 DEF Recheck, RowOf, RowsOf

LEMMA UpdateInv ==
    ASSUME IsolatedConnections, WorkflowInv, TypeOK', NEW t \in Threads, Update(t)
    PROVE  WorkflowInv'
<1>1. pc[t] = "update" /\ View(t) = Recorded(t)
  BY DEF Update, At, WorkflowInv, ThreadInv, TxContents, OneWriter, Writing, View
<1>2. Moved(t) \in Tables /\ "metadata" \in MaybeWriting
  BY <1>1, StatementTypes DEF WorkflowInv, MaybeWriting, Writing
<1>3. CASE Rollback(t) /\ Return(t)
  BY <1>3, ReturnKeeps DEF Update
<1>4. CASE Execute(t, Moved(t)) /\ GoTo(t, "metadata")
  <2>1. pc'[t] = "metadata" /\ disk' = disk /\ ctx' = ctx
    BY <1>4 DEF GoTo, Execute, WorkflowInv, TypeOK
  <2>2. SnapshotCurrent(t) /\ RowHolds(t)
    BY <1>1 DEF WorkflowInv, ThreadInv
  <2>3. SnapshotCurrent(t)' /\ NewRow(t)' = NewRow(t) /\ RowHolds(t)'
    BY <2>1, <2>2 DEF SnapshotCurrent, NewRow, RowHolds
  <2>4. Recorded(t)' = Recorded(t)
    BY <2>1, <2>3 DEF Recorded
  <2>5. Moved(t)' = Moved(t)
    BY <2>1, <2>4 DEF Moved
  <2>6. tx'[Conn[t]] = Moved(t) => ThreadInv(t)'
    BY <2>1, <2>2, <2>3, <2>5 DEF ThreadInv, TxContents
  <2> QED
    BY <1>2, <1>4, <2>6, WriteStep DEF Update
<1> QED
  BY <1>1, <1>3, <1>4 DEF Update, Moved

LEMMA SaveMetadataInv ==
    ASSUME IsolatedConnections, WorkflowInv, TypeOK', NEW t \in Threads, SaveMetadata(t)
    PROVE  WorkflowInv'
<1>1. pc[t] = "metadata" /\ View(t) = Moved(t)
  BY DEF SaveMetadata, At, WorkflowInv, ThreadInv, TxContents, OneWriter, Writing, View
<1>2. Saved(t) \in Tables /\ "commit" \in MaybeWriting
  BY <1>1, StatementTypes DEF WorkflowInv, MaybeWriting, Writing
<1>3. Execute(t, Saved(t)) /\ GoTo(t, "commit")
  BY <1>1 DEF SaveMetadata, Saved
<1>4. pc'[t] = "commit" /\ disk' = disk /\ ctx' = ctx
  BY <1>3 DEF GoTo, Execute, WorkflowInv, TypeOK
<1>5. SnapshotCurrent(t) /\ RowHolds(t)
  BY <1>1 DEF WorkflowInv, ThreadInv
<1>6. SnapshotCurrent(t)' /\ NewRow(t)' = NewRow(t) /\ RowHolds(t)'
  BY <1>4, <1>5 DEF SnapshotCurrent, NewRow, RowHolds
<1>7. Recorded(t)' = Recorded(t)
  BY <1>4, <1>6 DEF Recorded
<1>8. Saved(t)' = Saved(t)
  BY <1>4, <1>7 DEF Moved, Saved
<1>9. tx'[Conn[t]] = Saved(t) => ThreadInv(t)'
  BY <1>4, <1>5, <1>6, <1>8 DEF ThreadInv, TxContents
<1> QED
  BY <1>2, <1>3, <1>9, WriteStep DEF SaveMetadata

LEMMA RepairJobsInv ==
    ASSUME IsolatedConnections, WorkflowInv, TypeOK', NEW t \in Threads, RepairJobs(t)
    PROVE  WorkflowInv'
<1> DEFINE all == [disk EXCEPT !.jobs = @ \cup ProviderJobs(ctx[t].event)]
<1>1. pc[t] = "repair" /\ View(t) = disk /\ tx[Conn[t]] = NoTx /\ disk \in Tables
      /\ "finish" \in MaybeWriting
  BY NotWriting DEF RepairJobs, At, MaybeWriting, Writing, WorkflowInv, TypeOK
<1>2. ctx[t].event \in disk.outcomes /\ Announceable(ctx[t].event)
  BY <1>1 DEF WorkflowInv, ThreadInv
<1>3. Announced(t) = disk
  <2>1. disk.outcomes \cup {ctx[t].event} = disk.outcomes
    BY <1>2
  <2> QED
    BY <1>1, <2>1 DEF Announced, Tables
<1>4. Queued(t) = all
  BY <1>3 DEF Queued
<1>5. Queued(t) \in Tables
  BY <1>1, OutcomeTypes DEF WorkflowInv
<1> HIDE DEF all
<1>6. pc'[t] = "finish" /\ disk' = disk /\ ctx' = ctx /\ GoTo(t, "finish")
  BY DEF RepairJobs, EnsureJobs, GoTo, Execute, WorkflowInv, TypeOK
<1>7. Queued(t)' = Queued(t) /\ Announceable(ctx[t].event)'
  BY <1>2, <1>6 DEF Queued, Announced, Announceable, RepairJobs, EnsureJobs
<1>8. tx'[Conn[t]] \in {NoTx, Queued(t)} => ThreadInv(t)'
  BY <1>6, <1>7 DEF ThreadInv, TxContents
<1>9. CASE Execute(t, all)
  BY <1>1, <1>4, <1>5, <1>6, <1>8, <1>9, WriteStep DEF RepairJobs, EnsureJobs
<1>10. CASE UNCHANGED <<disk, tx>>
  <2>1. ThreadInv(t)'
    BY <1>1, <1>8, <1>10
  <2>2. pc[t] \notin MaybeWriting /\ "finish" \in Steps \ Writing
    BY <1>1 DEF MaybeWriting, Writing, Steps
  <2> QED
    BY <1>6, <1>10, <2>1, <2>2, ReadStep DEF GoTo, RepairJobs, EnsureJobs
<1> QED
  BY <1>1, <1>9, <1>10 DEF RepairJobs, EnsureJobs, all

LEMMA InsertOutcomeInv ==
    ASSUME IsolatedConnections, WorkflowInv, TypeOK', NEW t \in Threads, InsertOutcome(t)
    PROVE  WorkflowInv'
<1>1. pc[t] = "outcome" /\ View(t) = disk
  BY NotWriting DEF InsertOutcome, At, MaybeWriting, Writing, WorkflowInv
<1>2. Announced(t) \in Tables /\ "queue" \in MaybeWriting
  BY <1>1, OutcomeTypes DEF WorkflowInv, MaybeWriting, Writing
<1>3. CASE Rollback(t) /\ Return(t)
  BY <1>3, ReturnKeeps DEF InsertOutcome
<1>4. CASE Execute(t, Announced(t)) /\ GoTo(t, "queue")
  <2>1. pc'[t] = "queue" /\ disk' = disk /\ ctx' = ctx
    BY <1>4 DEF GoTo, Execute, WorkflowInv, TypeOK
  <2>2. Announced(t)' = Announced(t)
    BY <2>1 DEF Announced
  <2>3. Announceable(ctx[t].event)'
    BY <1>1, <2>1 DEF WorkflowInv, ThreadInv, Announceable, InsertOutcome
  <2>4. tx'[Conn[t]] = Announced(t) => ThreadInv(t)'
    BY <2>1, <2>2, <2>3 DEF ThreadInv, TxContents
  <2> QED
    BY <1>2, <1>4, <2>4, WriteStep DEF InsertOutcome
<1> QED
  BY <1>1, <1>3, <1>4 DEF InsertOutcome, Announced

LEMMA QueueJobsInv ==
    ASSUME IsolatedConnections, WorkflowInv, TypeOK', NEW t \in Threads, QueueJobs(t)
    PROVE  WorkflowInv'
<1> DEFINE all == [View(t) EXCEPT !.jobs = @ \cup ProviderJobs(ctx[t].event)]
<1>1. pc[t] = "queue" /\ View(t) = Announced(t) /\ tx[Conn[t]] = Announced(t)
      /\ tx[Conn[t]] # NoTx /\ pc[t] \in MaybeWriting
  BY DEF QueueJobs, At, WorkflowInv, ThreadInv, TxContents, OneWriter, Writing,
         MaybeWriting, View
<1>2. Queued(t) = all
  BY <1>1 DEF Queued
<1>3. Queued(t) \in Tables /\ Announced(t) \in Tables /\ "finish" \in MaybeWriting
  BY <1>1, OutcomeTypes DEF WorkflowInv, MaybeWriting
<1> HIDE DEF all
<1>4. pc'[t] = "finish" /\ disk' = disk /\ ctx' = ctx /\ GoTo(t, "finish")
  BY DEF QueueJobs, EnsureJobs, GoTo, Execute, WorkflowInv, TypeOK
<1>5. Queued(t)' = Queued(t)
  BY <1>4 DEF Queued, Announced
<1>6. Announceable(ctx[t].event)'
  BY <1>1, <1>4 DEF WorkflowInv, ThreadInv, Announceable, QueueJobs, EnsureJobs
<1>7. tx'[Conn[t]] = Queued(t) => ThreadInv(t)'
  BY <1>4, <1>5, <1>6 DEF ThreadInv, TxContents
<1>8. CASE Execute(t, all)
  BY <1>2, <1>3, <1>4, <1>7, <1>8, WriteStep DEF QueueJobs, EnsureJobs
<1>9. CASE all = View(t) /\ UNCHANGED <<disk, tx>>
  <2>1. ThreadInv(t)'
    BY <1>1, <1>2, <1>7, <1>9
  <2>2. "finish" \in Steps \ Writing
    BY DEF Writing, Steps
  <2> QED
    BY <1>3, <1>4, <1>9, <2>1, <2>2, ReadStep DEF GoTo, QueueJobs, EnsureJobs
<1> QED
  BY <1>1, <1>8, <1>9 DEF QueueJobs, EnsureJobs, all

LEMMA WriteLockTimeoutInv ==
    ASSUME IsolatedConnections, WorkflowInv, TypeOK', NEW t \in Threads, WriteLockTimeout(t)
    PROVE  WorkflowInv'
BY ReturnKeeps DEF WriteLockTimeout

LEMMA CrashInv ==
    ASSUME WorkflowInv, TypeOK', NEW c \in Connections, Crash(c)
    PROVE  WorkflowInv'
<1>1. \A u \in Threads : IF Conn[u] = c THEN pc'[u] = "idle"
                        ELSE pc'[u] = pc[u] /\ ctx'[u] = ctx[u]
                             /\ tx'[Conn[u]] = tx[Conn[u]]
  BY WorkflowAssumption DEF Crash, WorkflowInv, TypeOK
<1>2. \A d \in Connections : tx'[d] = IF d = c THEN NoTx ELSE tx[d]
  BY DEF Crash, WorkflowInv, TypeOK
<1>3. disk' = disk /\ applied' = applied /\ dispatched' = dispatched
  BY DEF Crash
<1>4. OneWriter'
  BY <1>1, <1>2, WorkflowAssumption DEF WorkflowInv, OneWriter, Writing
<1>5. \A u \in Threads : Conn[u] = c => ThreadInv(u)'
  BY <1>1 DEF ThreadInv, TxContents
<1>6. \A u \in Threads : Conn[u] # c => ThreadInv(u)'
  BY <1>1, <1>3, OthersUnmoved
<1>7. DiskInv'
  BY <1>3, DiskKept DEF WorkflowInv
<1> QED
  BY <1>4, <1>5, <1>6, <1>7 DEF WorkflowInv
----------------------------------------------------------------------------
(* The steps that commit.  *)

LEMMA CommitStep ==
    ASSUME WorkflowInv, TypeOK', NEW t \in Threads, OneWriter', ThreadInv(t)',
           Grows, DiskInv',
           \A u \in Threads : u # t =>
               /\ pc'[u] = pc[u] /\ ctx'[u] = ctx[u]
               /\ tx'[Conn[u]] = tx[Conn[u]] /\ tx[Conn[u]] = NoTx
    PROVE  WorkflowInv'
<1>1. \A u \in Threads : ThreadInv(u)'
  BY OthersUnmoved
<1> QED
  BY <1>1 DEF WorkflowInv

LEMMA CreateDraftInv ==
    ASSUME IsolatedConnections, WorkflowInv, TypeOK', NEW t \in Threads,
           NEW s \in Submissions, NEW month \in BOOLEAN, CreateDraft(t, s, month)
    PROVE  WorkflowInv'
<1>1. /\ pc[t] = "idle" /\ View(t) = disk /\ tx[Conn[t]] = NoTx
      /\ disk \in Tables /\ Conn[t] \in Connections
  BY NotWriting, ViewType DEF CreateDraft, At, MaybeWriting, Writing, WorkflowInv, TypeOK
<1>2. /\ disk.state[s] = "absent" /\ disk.version[s] = 0
  BY <1>1 DEF CreateDraft, WorkflowInv, DiskInv, Keyed
<1>3. /\ disk'.log = disk.log /\ disk'.outcomes = disk.outcomes /\ disk'.jobs = disk.jobs
      /\ disk'.version = disk.version
      /\ disk'.state[s] = "draft"
      /\ \A x \in Submissions : x # s => disk'.state[x] = disk.state[x]
  BY <1>1 DEF CreateDraft, Tables
<1>4. Grows
  <2>1. \A x \in Submissions : disk.state[x] \in {"absent", disk'.state[x]}
    BY <1>2, <1>3
  <2> QED
    BY <1>3, <2>1 DEF Grows, CreateDraft
<1>5. DiskInv'
  <2>1. \A r \in disk.log : r.version = disk.version[r.sub] => r.sub # s
    BY <1>2 DEF WorkflowInv, DiskInv, Numbered
  <2>2. \A r \in disk.log : r.sub \in Submissions
    BY <1>1 DEF Tables, Row
  <2>3. Numbered(disk)'
    BY <1>3 DEF Numbered, WorkflowInv, DiskInv
  <2>4. Chained(disk)'
    BY <1>3, <2>1, <2>2 DEF Chained, WorkflowInv, DiskInv
  <2>5. Keyed(disk)'
    BY <1>2, <1>3 DEF Keyed, WorkflowInv, DiskInv
  <2>6. AppliedAreLogged'
    BY <1>3 DEF AppliedAreLogged, WorkflowInv, DiskInv, CreateDraft
  <2>7. OutcomesAreOfTheLog' /\ OutcomesHaveJobs'
    BY <1>3 DEF OutcomesAreOfTheLog, Announceable, OutcomesHaveJobs, ProviderJobs, TargetsOf,
                WorkflowInv, DiskInv, CreateDraft
  <2> QED
    BY <2>3, <2>4, <2>5, <2>6, <2>7 DEF DiskInv
<1>6. tx' = tx /\ pc' = pc /\ ctx' = ctx
  BY <1>1 DEF CreateDraft, WorkflowInv, TypeOK
<1>7. OneWriter'
  BY <1>6 DEF OneWriter, WorkflowInv
<1>8. ThreadInv(t)'
  BY <1>1, <1>6 DEF ThreadInv, TxContents
<1>9. \A u \in Threads : u # t => tx[Conn[u]] = NoTx
  BY OthersQuiet DEF CreateDraft, WorkflowInv
<1> QED
  BY <1>4, <1>5, <1>6, <1>7, <1>8, <1>9, CommitStep

LEMMA EditFormInv ==
    ASSUME WorkflowInv, TypeOK', NEW s \in Submissions, NEW form \in Forms,
           EditForm(s, form)
    PROVE  WorkflowInv'
<1>1. /\ disk'.log = disk.log /\ disk'.outcomes = disk.outcomes /\ disk'.jobs = disk.jobs
      /\ disk'.version = disk.version /\ disk'.state = disk.state
  BY DEF EditForm, WorkflowInv, TypeOK, Tables
<1>2. Grows
  BY <1>1 DEF Grows, EditForm
<1>3. DiskInv'
  BY <1>1 DEF EditForm, WorkflowInv, DiskInv, Numbered, Chained, Keyed, AppliedAreLogged,
              OutcomesAreOfTheLog, Announceable, OutcomesHaveJobs, ProviderJobs, TargetsOf
<1>4. tx' = tx /\ pc' = pc /\ ctx' = ctx
  BY DEF EditForm
<1>5. OneWriter'
  BY <1>4 DEF OneWriter, WorkflowInv
<1>6. \A u \in Threads : tx[Conn[u]] = NoTx
  BY WorkflowAssumption DEF EditForm
<1>7. \A u \in Threads : ThreadInv(u)'
  BY <1>2, <1>4, <1>6, OthersUnmoved
<1> QED
  BY <1>3, <1>5, <1>7 DEF WorkflowInv

(* What the transition's transaction leaves in the committed tables.  *)
LEMMA SavedTables ==
    ASSUME TypeOK, NEW t \in Threads, pc[t] \in Transitioning
    PROVE  LET s == ctx[t].call.sub IN
           /\ Saved(t).log = disk.log \cup {NewRow(t)}
           /\ Saved(t).outcomes = disk.outcomes
           /\ Saved(t).jobs = disk.jobs
           /\ Saved(t).state[s] = ctx[t].call.claim.to
           /\ Saved(t).version[s] = ctx[t].snap.version + 1
           /\ \A x \in Submissions : x # s =>
                 /\ Saved(t).state[x] = disk.state[x]
                 /\ Saved(t).version[x] = disk.version[x]
<1>1. disk \in Tables /\ ctx[t].call.sub \in Submissions
  BY CallType DEF TypeOK
<1>2. /\ Recorded(t) \in Tables
      /\ Recorded(t).log = disk.log \cup {NewRow(t)}
      /\ Recorded(t).outcomes = disk.outcomes
      /\ Recorded(t).jobs = disk.jobs
      /\ Recorded(t).state = disk.state
      /\ Recorded(t).version = disk.version
  BY <1>1, StatementTypes DEF Recorded, Tables
<1>3. /\ Moved(t) \in Tables
      /\ Moved(t).log = Recorded(t).log
      /\ Moved(t).outcomes = Recorded(t).outcomes
      /\ Moved(t).jobs = Recorded(t).jobs
      /\ Moved(t).state = [Recorded(t).state EXCEPT ![ctx[t].call.sub] = ctx[t].call.claim.to]
      /\ Moved(t).version = [Recorded(t).version EXCEPT ![ctx[t].call.sub] = ctx[t].snap.version + 1]
  BY <1>2, StatementTypes DEF Moved, Tables
<1>4. /\ Saved(t).log = Moved(t).log
      /\ Saved(t).outcomes = Moved(t).outcomes
      /\ Saved(t).jobs = Moved(t).jobs
      /\ Saved(t).state = Moved(t).state
      /\ Saved(t).version = Moved(t).version
  BY <1>3 DEF Saved, Tables
<1> QED
  BY <1>1, <1>2, <1>3, <1>4 DEF Tables

(***************************************************************************)
(* The transition's transaction leads from consistent tables to consistent *)
(* ones: the new row is the next of its submission, leaves the state the   *)
(* last one reached, and its key is new.                                   *)
(***************************************************************************)
LEMMA AppendRow ==
    ASSUME WorkflowInv, NEW t \in Threads, pc[t] = "commit", disk' = Saved(t),
           dispatched' = dispatched
    PROVE  Numbered(disk)' /\ Chained(disk)' /\ Keyed(disk)' /\ Grows
<1> DEFINE s == ctx[t].call.sub
           R == NewRow(t)
           v == disk.version[s]
<1>1. /\ s \in Submissions /\ ctx[t].snap.state \in States
      /\ ctx[t].call.claim.to \in States /\ R \in Row
  BY CallType, NewRowType DEF WorkflowInv, Snapshot
<1>2. /\ ctx[t].snap.version = v
      /\ ctx[t].snap.state = disk.state[s]
      /\ RowOf(disk, ctx[t].call) = {}
  BY DEF WorkflowInv, ThreadInv, SnapshotCurrent
<1>3. v \in Nat /\ disk.log \subseteq Row /\ \A x \in Submissions : disk.version[x] \in Nat
  BY <1>1 DEF WorkflowInv, TypeOK, Tables
<1>4. /\ R.sub = s /\ R.version = v + 1 /\ R.from = disk.state[s]
      /\ R.req = ctx[t].call.req /\ R.claim.to = ctx[t].call.claim.to
  BY <1>2 DEF NewRow
<1>5. /\ disk'.log = disk.log \cup {R}
      /\ disk'.outcomes = disk.outcomes
      /\ disk'.state[s] = R.claim.to
      /\ disk'.version[s] = v + 1
      /\ \A x \in Submissions : x # s =>
            disk'.state[x] = disk.state[x] /\ disk'.version[x] = disk.version[x]
  BY <1>2, <1>4, SavedTables DEF WorkflowInv
<1>6. Numbered(disk) /\ Chained(disk) /\ Keyed(disk)
  BY DEF WorkflowInv, DiskInv
<1>7. \A r \in disk.log : r.sub \in Submissions /\ r.version \in Nat
                         /\ (r.sub = s => r.version <= v /\ r.req # R.req)
  BY <1>2, <1>3, <1>4, <1>6 DEF Numbered, Row, RowOf, RowsOf
<1> HIDE DEF s, R, v
<1>8. Numbered(disk)'
  <2>1. \A r \in disk'.log : r.version \in 1..disk'.version[r.sub]
    BY <1>3, <1>4, <1>5, <1>6, <1>7 DEF Numbered
  <2>2. ASSUME NEW x \in Submissions, NEW n \in 1..disk'.version[x]
        PROVE  \E r \in disk'.log : r.sub = x /\ r.version = n
    <3>1. CASE x = s /\ n = v + 1
      BY <1>4, <1>5, <3>1
    <3>2. CASE ~(x = s /\ n = v + 1)
      <4>1. n \in 1..disk.version[x]
        BY <1>3, <1>5, <3>2 DEF v
      <4> QED
        BY <1>5, <1>6, <4>1 DEF Numbered
    <3> QED
      BY <3>1, <3>2
  <2>3. \A r, q \in disk'.log : r.sub = q.sub /\ r.version = q.version => r = q
    BY <1>3, <1>4, <1>5, <1>6, <1>7 DEF Numbered
  <2> QED
    BY <2>1, <2>2, <2>3 DEF Numbered
<1>9. Chained(disk)'
  <2>1. R.version = 1 => R.from = "draft"
    BY <1>1, <1>2, <1>3, <1>4, <1>6 DEF Keyed, States, v, s
  <2>2. \A r \in disk'.log : r.version = 1 => r.from = "draft"
    BY <1>5, <1>6, <2>1 DEF Chained
  <2>3. ASSUME NEW r \in disk'.log, NEW q \in disk'.log,
               r.sub = q.sub, q.version = r.version + 1
        PROVE  q.from = r.claim.to
    <3>1. CASE q = R
      <4>1. r.sub = s /\ r.version = v /\ r \in disk.log
        BY <1>3, <1>4, <1>5, <1>7, <2>3, <3>1
      <4> QED
        BY <1>4, <1>6, <3>1, <4>1 DEF Chained, v
    <3>2. CASE q # R /\ r = R
      BY <1>3, <1>4, <1>5, <1>7, <2>3, <3>2
    <3>3. CASE q # R /\ r # R
      BY <1>5, <1>6, <2>3, <3>3 DEF Chained
    <3> QED
      BY <3>1, <3>2, <3>3
  <2>4. \A r \in disk'.log : r.version = disk'.version[r.sub] => r.claim.to = disk'.state[r.sub]
    BY <1>3, <1>4, <1>5, <1>6, <1>7 DEF Chained
  <2> QED
    BY <2>2, <2>3, <2>4 DEF Chained
<1>10. Keyed(disk)'
  <2>1. \A r, q \in disk'.log : r.sub = q.sub /\ r.req = q.req => r = q
    BY <1>4, <1>5, <1>6, <1>7 DEF Keyed
  <2>2. R.claim.to # "absent" /\ v + 1 # 0
    BY <1>1, <1>3, <1>4 DEF States
  <2> QED
    BY <1>5, <1>6, <2>1, <2>2 DEF Keyed
<1>11. Grows
  BY <1>3, <1>5 DEF Grows, v
<1> QED
  BY <1>8, <1>9, <1>10, <1>11

LEMMA CommitInv ==
    ASSUME IsolatedConnections, WorkflowInv, TypeOK', NEW t \in Threads, Commit(t)
    PROVE  WorkflowInv'
<1> DEFINE s == ctx[t].call.sub
           R == NewRow(t)
<1>1. /\ pc[t] = "commit" /\ tx[Conn[t]] # NoTx /\ View(t) = Saved(t)
  BY DEF Commit, At, WorkflowInv, ThreadInv, TxContents, OneWriter, Writing, View
<1>2. disk' = Saved(t) /\ tx' = [tx EXCEPT ![Conn[t]] = NoTx]
  BY <1>1 DEF Commit, CommitTx
<1>3. Numbered(disk)' /\ Chained(disk)' /\ Keyed(disk)' /\ Grows
  BY <1>1, <1>2, AppendRow DEF Commit
<1>4. disk'.log = disk.log \cup {R} /\ disk'.outcomes = disk.outcomes
      /\ disk'.jobs = disk.jobs
  BY <1>1, <1>2, SavedTables DEF WorkflowInv
<1>5. ctx[t].event = EventOf(R)
  BY <1>1 DEF WorkflowInv, ThreadInv, RowHolds
<1>6. AppliedAreLogged'
  <2>1. ASSUME NEW a \in applied
        PROVE  \E r \in disk'.log : /\ r.sub = a.sub /\ r.req = a.req
                                   /\ r.version = a.version /\ r.claim.to = a.to
    BY <1>4 DEF AppliedAreLogged, WorkflowInv, DiskInv
  <2>2. R.sub = s /\ R.req = ctx[t].call.req /\ R.claim.to = ctx[t].call.claim.to
    BY DEF NewRow
  <2>3. R \in disk'.log
    BY <1>4
  <2> HIDE DEF R
  <2> QED
    BY <2>1, <2>2, <2>3 DEF AppliedAreLogged, Commit, R
<1>7. OutcomesAreOfTheLog' /\ OutcomesHaveJobs'
  BY <1>4 DEF OutcomesAreOfTheLog, Announceable, OutcomesHaveJobs, ProviderJobs, TargetsOf,
              WorkflowInv, DiskInv, Commit
<1>8. DiskInv'
  BY <1>3, <1>6, <1>7 DEF DiskInv
<1>9. /\ OneWriter'
      /\ \A u \in Threads : u # t => tx'[Conn[u]] = tx[Conn[u]]
  <2>1. "consume" \in Steps \ Writing
    BY DEF Steps, Writing
  <2> QED
    BY <1>2, <2>1, CloseKeepsLock DEF WorkflowInv, Commit, GoTo
<1>10. \A u \in Threads : u # t => tx[Conn[u]] = NoTx
  BY <1>1, WritingAlone DEF WorkflowInv
<1>11. /\ pc'[t] = "consume" /\ ctx' = ctx
       /\ \A u \in Threads : u # t => pc'[u] = pc[u]
  BY DEF Commit, GoTo, WorkflowInv, TypeOK
<1>12. ThreadInv(t)'
  <2>1. Announceable(ctx[t].event)'
    BY <1>4, <1>5, <1>11 DEF Announceable
  <2> QED
    BY <1>11, <2>1 DEF ThreadInv, TxContents
<1> QED
  BY <1>3, <1>8, <1>9, <1>10, <1>11, <1>12, CommitStep

LEMMA FinishInv ==
    ASSUME IsolatedConnections, WorkflowInv, TypeOK', NEW t \in Threads, Finish(t)
    PROVE  WorkflowInv'
<1> DEFINE e == ctx[t].event
<1>1. pc[t] = "finish" /\ tx[Conn[t]] \in {NoTx, Queued(t)} /\ disk \in Tables
  BY DEF Finish, At, WorkflowInv, ThreadInv, TxContents, TypeOK
<1>2. CASE tx[Conn[t]] = NoTx
  <2>1. Rollback(t)
    BY <1>2 DEF Finish, CommitTx, Rollback, View
  <2> QED
    BY <2>1, ReturnKeeps DEF Finish
<1>3. CASE tx[Conn[t]] # NoTx
  <2>1. disk' = Queued(t)
    BY <1>1, <1>3 DEF Finish, CommitTx, View
  <2>2. /\ disk'.log = disk.log /\ disk'.state = disk.state /\ disk'.version = disk.version
        /\ disk'.outcomes = disk.outcomes \cup {e}
        /\ disk'.jobs = disk.jobs \cup ProviderJobs(e)
    BY <1>1, <2>1 DEF Queued, Announced, Tables
  <2>3. Announceable(e)
    BY <1>1 DEF WorkflowInv, ThreadInv
  <2>4. Grows
    BY <2>2 DEF Grows, Finish
  <2>5. DiskInv'
    <3>1. Numbered(disk)' /\ Chained(disk)' /\ Keyed(disk)'
      BY <2>2 DEF Numbered, Chained, Keyed, WorkflowInv, DiskInv
    <3>2. AppliedAreLogged'
      BY <2>2 DEF AppliedAreLogged, WorkflowInv, DiskInv, Finish
    <3>3. OutcomesAreOfTheLog'
      <4>1. \A d \in disk.outcomes \cup {e} : Announceable(d)
        BY <2>3 DEF OutcomesAreOfTheLog, WorkflowInv, DiskInv
      <4>2. \A d \in disk.outcomes \cup {e} : Announceable(d)'
        BY <2>2, <4>1 DEF Announceable, Finish
      <4>3. \A j \in disk'.jobs : \E d \in disk'.outcomes : j \in ProviderJobs(d)
        BY <2>2 DEF OutcomesAreOfTheLog, WorkflowInv, DiskInv
      <4> HIDE DEF e
      <4> QED
        BY <2>2, <4>2, <4>3 DEF OutcomesAreOfTheLog, ProviderJobs, TargetsOf
    <3>4. OutcomesHaveJobs'
      <4>1. \A d \in disk.outcomes \cup {e} :
              ProviderJobs(d) \subseteq disk.jobs \cup ProviderJobs(e)
        BY DEF OutcomesHaveJobs, WorkflowInv, DiskInv
      <4> QED
        BY <2>2, <4>1 DEF OutcomesHaveJobs, ProviderJobs, TargetsOf
    <3> QED
      BY <3>1, <3>2, <3>3, <3>4 DEF DiskInv
  <2>6. /\ OneWriter'
        /\ \A u \in Threads : u # t => tx'[Conn[u]] = tx[Conn[u]]
    <3>1. "idle" \in Steps \ Writing
      BY DEF Steps, Writing
    <3> QED
      BY <3>1, CloseKeepsLock DEF WorkflowInv, Finish, CommitTx, Return
  <2>7. \A u \in Threads : u # t => tx[Conn[u]] = NoTx
    BY <1>3, WritingAlone DEF WorkflowInv
  <2>8. /\ pc'[t] = "idle"
        /\ \A u \in Threads : u # t => pc'[u] = pc[u] /\ ctx'[u] = ctx[u]
    BY DEF Finish, Return, WorkflowInv, TypeOK
  <2>9. ThreadInv(t)'
    BY <2>8 DEF ThreadInv, TxContents
  <2> QED
    BY <2>4, <2>5, <2>6, <2>7, <2>8, <2>9, CommitStep
<1> QED
  BY <1>2, <1>3
----------------------------------------------------------------------------
(* The safety theorems of isolated connections.  *)

LEMMA InitInv == Init => WorkflowInv
<1> SUFFICES ASSUME Init PROVE WorkflowInv
  OBVIOUS
<1>1. OneWriter
  BY WorkflowAssumption DEF Init, OneWriter, Writing
<1>2. \A t \in Threads : ThreadInv(t)
  BY DEF Init, ThreadInv, TxContents
<1>3. DiskInv
  BY DEF Init, DiskInv, Numbered, Chained, Keyed, AppliedAreLogged, OutcomesAreOfTheLog,
         OutcomesHaveJobs
<1> QED
  BY <1>1, <1>2, <1>3, InitType DEF WorkflowInv

LEMMA NextInv ==
    ASSUME IsolatedConnections, WorkflowInv, [Next]_vars
    PROVE  WorkflowInv'
<1>1. TypeOK'
  BY NextType DEF WorkflowInv
<1>2. CASE UNCHANGED vars
  <2>1. OneWriter' /\ DiskInv'
    BY <1>2, DiskKept DEF vars, WorkflowInv, OneWriter
  <2>2. \A u \in Threads : ThreadInv(u)'
    BY <1>1, <1>2, OthersUnmoved DEF vars
  <2> QED
    BY <1>1, <2>1, <2>2 DEF WorkflowInv
<1>3. ASSUME NEW t \in Threads, Arrive(t) PROVE WorkflowInv'
  BY <1>1, <1>3, CreateDraftInv, SubmitInv, DispatchInv DEF Arrive
<1>4. ASSUME NEW t \in Threads, Step(t) PROVE WorkflowInv'
  <2>1. ASSUME Lookup(t) \/ Read(t) \/ Insert(t) \/ Recheck(t) \/ Update(t)
        PROVE  WorkflowInv'
    BY <1>1, <2>1, LookupInv, ReadInv, InsertInv, RecheckInv, UpdateInv
  <2>2. ASSUME SaveMetadata(t) \/ Commit(t) \/ Consume(t) \/ RepairJobs(t)
        PROVE  WorkflowInv'
    BY <1>1, <2>2, SaveMetadataInv, CommitInv, ConsumeInv, RepairJobsInv
  <2>3. ASSUME InsertOutcome(t) \/ QueueJobs(t) \/ Finish(t) \/ WriteLockTimeout(t)
        PROVE  WorkflowInv'
    BY <1>1, <2>3, InsertOutcomeInv, QueueJobsInv, FinishInv, WriteLockTimeoutInv
  <2> QED
    BY <1>4, <2>1, <2>2, <2>3 DEF Step
<1>5. ASSUME NEW s \in Submissions, NEW form \in Forms, EditForm(s, form) PROVE WorkflowInv'
  BY <1>1, <1>5, EditFormInv
<1>6. ASSUME NEW c \in Connections, Crash(c) PROVE WorkflowInv'
  BY <1>1, <1>6, CrashInv
<1> QED
  BY <1>2, <1>3, <1>4, <1>5, <1>6 DEF Next

(***************************************************************************)
(* With a connection for each thread, the tables stay consistent and every *)
(* thread's open transaction holds exactly what it has executed.           *)
(***************************************************************************)
THEOREM WorkflowInvariant ==
    ASSUME IsolatedConnections
    PROVE  Spec => []WorkflowInv
BY InitInv, NextInv, PTL DEF Spec

(***************************************************************************)
(* With a connection for each thread, the committed log has exactly one    *)
(* row for each version (engine.py: the row and the version are one        *)
(* transaction, and the row's id is unique).                               *)
(***************************************************************************)
THEOREM LogMatchesVersionHolds ==
    ASSUME IsolatedConnections
    PROVE  Spec => []LogMatchesVersion
<1>1. WorkflowInv => LogMatchesVersion
  BY DEF WorkflowInv, DiskInv, LogMatchesVersion
<1> QED
  BY <1>1, WorkflowInvariant, PTL

(***************************************************************************)
(* With a connection for each thread, the log replays to the state,        *)
(* although the guards and the row's from state are read before the        *)
(* transaction begins.                                                     *)
(***************************************************************************)
THEOREM LogReplaysToStateHolds ==
    ASSUME IsolatedConnections
    PROVE  Spec => []LogReplaysToState
<1>1. WorkflowInv => LogReplaysToState
  BY DEF WorkflowInv, DiskInv, LogReplaysToState
<1> QED
  BY <1>1, WorkflowInvariant, PTL

(***************************************************************************)
(* With a connection for each thread, a transition that transition()       *)
(* returned as performed is in the committed log for good.                 *)
(***************************************************************************)
THEOREM AppliedAreLoggedHolds ==
    ASSUME IsolatedConnections
    PROVE  Spec => []AppliedAreLogged
<1>1. WorkflowInv => AppliedAreLogged
  BY DEF WorkflowInv, DiskInv
<1> QED
  BY <1>1, WorkflowInvariant, PTL

(***************************************************************************)
(* With a connection for each thread, a request id performs at most one    *)
(* transition of a submission.                                             *)
(***************************************************************************)
THEOREM RequestAppliedOnceHolds ==
    ASSUME IsolatedConnections
    PROVE  Spec => []RequestAppliedOnce
<1>1. ASSUME WorkflowInv PROVE RequestAppliedOnce
  <2>1. ASSUME NEW a \in applied, NEW b \in applied, a.sub = b.sub, a.req = b.req
        PROVE  a = b
    <3>1. PICK r \in disk.log : /\ r.sub = a.sub /\ r.req = a.req
                                /\ r.version = a.version /\ r.claim.to = a.to
      BY <1>1 DEF WorkflowInv, DiskInv, AppliedAreLogged
    <3>2. PICK q \in disk.log : /\ q.sub = b.sub /\ q.req = b.req
                                /\ q.version = b.version /\ q.claim.to = b.to
      BY <1>1 DEF WorkflowInv, DiskInv, AppliedAreLogged
    <3>3. r = q
      BY <1>1, <2>1, <3>1, <3>2 DEF WorkflowInv, DiskInv, Keyed
    <3>4. a \in Result /\ b \in Result
      BY <1>1 DEF WorkflowInv, TypeOK
    <3> QED
      BY <2>1, <3>1, <3>2, <3>3, <3>4 DEF Result
  <2> QED
    BY <2>1 DEF RequestAppliedOnce
<1> QED
  BY <1>1, WorkflowInvariant, PTL

(***************************************************************************)
(* With a connection for each thread, an outcome is that of a committed    *)
(* transition, or of an event that was handed to the dispatch route, and a *)
(* provider job belongs to an outcome, whichever events are handed over.   *)
(***************************************************************************)
THEOREM OutcomesAreOfTheLogHolds ==
    ASSUME IsolatedConnections
    PROVE  Spec => []OutcomesAreOfTheLog
<1>1. WorkflowInv => OutcomesAreOfTheLog
  BY DEF WorkflowInv, DiskInv
<1> QED
  BY <1>1, WorkflowInvariant, PTL

(***************************************************************************)
(* With a connection for each thread, a recorded outcome has all of its    *)
(* provider jobs.                                                          *)
(***************************************************************************)
THEOREM OutcomesHaveJobsHolds ==
    ASSUME IsolatedConnections
    PROVE  Spec => []OutcomesHaveJobs
<1>1. WorkflowInv => OutcomesHaveJobs
  BY DEF WorkflowInv, DiskInv
<1> QED
  BY <1>1, WorkflowInvariant, PTL

(***************************************************************************)
(* The committed tables of SubmissionWorkflow implement SubmissionLedger   *)
(* when every thread has a connection of its own.  The ledger moves in two *)
(* steps of the workflow only: CreateDraft and Commit; the entry of a      *)
(* version is the committed row with that version.                         *)
(***************************************************************************)

(* A function on 1..k is a sequence of length k.  *)
LEMMA FunctionIsSequence ==
    ASSUME NEW S, NEW k \in Nat, NEW f \in [1..k -> S]
    PROVE  f \in Seq(S) /\ Len(f) = k
OBVIOUS

(* A numbered log has the row of each version, and only that one.  *)
LEMMA EntryFound ==
    ASSUME NEW T, Numbered(T), NEW s \in Submissions, NEW v \in 1..T.version[s]
    PROVE  \E r \in T.log :
              /\ r.sub = s /\ r.version = v
              /\ EntryAt(T, s, v) = [from |-> r.from, to |-> r.claim.to, req |-> r.req]
<1> DEFINE r == CHOOSE r \in T.log : r.sub = s /\ r.version = v
<1>1. r \in T.log /\ r.sub = s /\ r.version = v
  BY DEF Numbered
<1> QED
  BY <1>1 DEF EntryAt

LEMMA EntryIs ==
    ASSUME NEW T, Numbered(T), NEW r \in T.log, r.sub \in Submissions
    PROVE  EntryAt(T, r.sub, r.version) =
             [from |-> r.from, to |-> r.claim.to, req |-> r.req]
<1> DEFINE s == r.sub
           v == r.version
<1>1. s \in Submissions /\ v \in 1..T.version[s]
  BY DEF Numbered
<1> HIDE DEF s, v
<1>2. PICK q \in T.log :
        /\ q.sub = s /\ q.version = v
        /\ EntryAt(T, s, v) = [from |-> q.from, to |-> q.claim.to, req |-> q.req]
  BY <1>1, EntryFound
<1> USE DEF s, v
<1>3. q = r
  BY <1>2 DEF Numbered
<1> QED
  BY <1>2, <1>3

LEMMA LedgerType ==
    ASSUME WorkflowInv, NEW s \in Submissions
    PROVE  /\ disk.version[s] \in Nat
           /\ CommittedLedger[s] \in Seq(Ledger!Entry)
           /\ Len(CommittedLedger[s]) = disk.version[s]
           /\ DOMAIN CommittedLedger[s] = 1..disk.version[s]
           /\ \A v \in 1..disk.version[s] : CommittedLedger[s][v] = EntryAt(disk, s, v)
<1>1. disk.version[s] \in Nat /\ disk.log \subseteq Row /\ Numbered(disk)
  BY DEF WorkflowInv, TypeOK, Tables, DiskInv
<1>2. CommittedLedger[s] = [v \in 1..disk.version[s] |-> EntryAt(disk, s, v)]
  BY DEF CommittedLedger, LedgerOf
<1>3. ASSUME NEW v \in 1..disk.version[s] PROVE EntryAt(disk, s, v) \in Ledger!Entry
  <2>1. PICK r \in disk.log :
          EntryAt(disk, s, v) = [from |-> r.from, to |-> r.claim.to, req |-> r.req]
    BY <1>1, EntryFound
  <2>2. r.from \in States /\ r.claim.to \in States /\ r.req \in RequestIds
    BY <1>1 DEF Row, Claim
  <2> QED
    BY <2>1, <2>2 DEF Ledger!Entry, Ledger!States, States
<1>4. [v \in 1..disk.version[s] |-> EntryAt(disk, s, v)] \in Seq(Ledger!Entry)
  BY <1>1, <1>3, IsASeq
<1> QED
  BY <1>1, <1>2, <1>4, LenProperties

LEMMA LedgerKept ==
    ASSUME disk'.log = disk.log, disk'.version = disk.version
    PROVE  CommittedLedger' = CommittedLedger
BY DEF CommittedLedger, LedgerOf, EntryAt

LEMMA CreateDraftRefines ==
    ASSUME IsolatedConnections, WorkflowInv, NEW t \in Threads,
           NEW s \in Submissions, NEW month \in BOOLEAN, CreateDraft(t, s, month)
    PROVE  Ledger!OpenDraft(s)
<1>1. View(t) = disk /\ disk \in Tables
  BY NotWriting DEF CreateDraft, At, MaybeWriting, Writing, WorkflowInv, TypeOK
<1>2. disk'.log = disk.log /\ disk'.version = disk.version
      /\ disk'.state = [disk.state EXCEPT ![s] = "draft"]
  BY <1>1 DEF CreateDraft, Tables
<1> QED
  BY <1>1, <1>2, LedgerKept DEF CreateDraft, Ledger!OpenDraft

(***************************************************************************)
(* Commit appends one entry, along an edge, under a request the ledger of  *)
(* the submission does not have.                                           *)
(***************************************************************************)
LEMMA CommitRefines ==
    ASSUME IsolatedConnections, WorkflowInv, WorkflowInv', NEW t \in Threads, Commit(t)
    PROVE  Ledger!Transition(ctx[t].call.sub, ctx[t].call.claim.to, ctx[t].call.req)
<1> DEFINE s == ctx[t].call.sub
           to == ctx[t].call.claim.to
           req == ctx[t].call.req
           R == NewRow(t)
           n == disk.version[s]
           e == [from |-> disk.state[s], to |-> to, req |-> req]
<1>1. /\ pc[t] = "commit" /\ disk' = Saved(t)
  BY DEF Commit, CommitTx, At, WorkflowInv, ThreadInv, TxContents, OneWriter, Writing, View
<1>2. /\ s \in Submissions /\ ctx[t].snap.state \in States /\ to \in States
      /\ req \in RequestIds
  BY <1>1, CallType DEF WorkflowInv, Snapshot
<1>3. /\ ctx[t].snap.version = n
      /\ ctx[t].snap.state = disk.state[s]
      /\ RowOf(disk, ctx[t].call) = {}
      /\ Edge(disk.state[s], to)
  BY <1>1 DEF WorkflowInv, ThreadInv, SnapshotCurrent, RowHolds
<1>4. disk \in Tables /\ n \in Nat /\ Numbered(disk) /\ Numbered(disk')
  BY <1>2 DEF WorkflowInv, TypeOK, Tables, DiskInv, Numbered
<1>5. /\ disk'.log = disk.log \cup {R}
      /\ disk'.state[s] = to
      /\ disk'.version[s] = n + 1
      /\ \A x \in Submissions : x # s =>
            disk'.state[x] = disk.state[x] /\ disk'.version[x] = disk.version[x]
  BY <1>1, <1>3, SavedTables DEF WorkflowInv
<1>6. disk'.state = [disk.state EXCEPT ![s] = to]
  <2>1. disk.state \in [Submissions -> States \cup {"absent"}]
        /\ disk'.state \in [Submissions -> States \cup {"absent"}]
    BY DEF WorkflowInv, TypeOK, Tables
  <2> QED
    BY <1>2, <1>5, <2>1
<1>7. \A i \in DOMAIN CommittedLedger[s] : CommittedLedger[s][i].req # req
  <2>1. SUFFICES ASSUME NEW i \in 1..n PROVE EntryAt(disk, s, i).req # req
    BY <1>2, LedgerType
  <2>2. s \in Submissions /\ i \in 1..disk.version[s]
    BY <1>2
  <2> HIDE DEF s
  <2>3. PICK r \in disk.log :
          /\ r.sub = s /\ r.version = i
          /\ EntryAt(disk, s, i) = [from |-> r.from, to |-> r.claim.to, req |-> r.req]
    BY <1>4, <2>2, EntryFound
  <2> QED
    BY <1>3, <2>3 DEF RowOf, RowsOf, s
<1>8. \A x \in Submissions : \A v \in 1..disk.version[x] :
        EntryAt(disk', x, v) = EntryAt(disk, x, v)
  <2> SUFFICES ASSUME NEW x \in Submissions, NEW v \in 1..disk.version[x]
               PROVE  EntryAt(disk', x, v) = EntryAt(disk, x, v)
    OBVIOUS
  <2>1. PICK r \in disk.log :
          /\ r.sub = x /\ r.version = v
          /\ EntryAt(disk, x, v) = [from |-> r.from, to |-> r.claim.to, req |-> r.req]
    BY <1>4, EntryFound
  <2>2. r \in disk'.log
    BY <1>5
  <2> QED
    BY <1>4, <2>1, <2>2, EntryIs
<1>9. EntryAt(disk', s, n + 1) = e
  <2>1. R \in disk'.log /\ R.sub = s /\ R.version = n + 1 /\ R.from = disk.state[s]
        /\ R.claim.to = to /\ R.req = req
    BY <1>3, <1>5 DEF NewRow
  <2> HIDE DEF R
  <2>2. EntryAt(disk', R.sub, R.version) =
          [from |-> R.from, to |-> R.claim.to, req |-> R.req]
    BY <1>2, <1>4, <2>1, EntryIs
  <2> QED
    BY <2>1, <2>2
<1>10. CommittedLedger' = [x \in Submissions |->
          [v \in 1..disk'.version[x] |-> EntryAt(disk', x, v)]]
  BY DEF CommittedLedger, LedgerOf
<1>11. ASSUME NEW x \in Submissions, x # s PROVE CommittedLedger'[x] = CommittedLedger[x]
  BY <1>5, <1>8, <1>10, <1>11 DEF CommittedLedger, LedgerOf
<1>12. CommittedLedger'[s] = Append(CommittedLedger[s], e)
  <2> DEFINE old == CommittedLedger[s]
             new == [v \in 1..(n + 1) |-> EntryAt(disk', s, v)]
  <2>1. CommittedLedger'[s] = new
    BY <1>2, <1>5, <1>10
  <2>2. e \in Ledger!Entry
    BY <1>2, <1>3 DEF Ledger!Entry, Ledger!States, States
  <2>3. old \in Seq(Ledger!Entry) /\ Len(old) = n
        /\ \A v \in 1..n : old[v] = EntryAt(disk, s, v)
    BY <1>2, LedgerType
  <2> HIDE DEF old, e
  <2>4. \A v \in 1..(n + 1) : new[v] \in Ledger!Entry
    <3>1. ASSUME NEW v \in 1..n PROVE new[v] \in Ledger!Entry
      <4>1. old[v] \in Ledger!Entry
        BY <2>3, ElementOfSeq
      <4>2. new[v] = EntryAt(disk', s, v)
        BY <1>4
      <4>3. EntryAt(disk', s, v) = EntryAt(disk, s, v)
        BY <1>2, <1>8
      <4> HIDE DEF new
      <4> QED
        BY <2>3, <4>1, <4>2, <4>3
    <3>2. new[n + 1] \in Ledger!Entry
      BY <1>4, <1>9, <2>2 DEF e
    <3>3. \A v \in 1..(n + 1) : v \in 1..n \/ v = n + 1
      BY <1>4
    <3> HIDE DEF new
    <3> QED
      BY <3>1, <3>2, <3>3
  <2>5. new \in Seq(Ledger!Entry) /\ Len(new) = n + 1
    <3>1. new \in [1..(n + 1) -> Ledger!Entry]
      BY <2>4
    <3>2. n + 1 \in Nat
      BY <1>4
    <3> HIDE DEF new
    <3> QED
      BY <3>1, <3>2, FunctionIsSequence
  <2>6. Append(old, e) \in Seq(Ledger!Entry) /\ Len(Append(old, e)) = n + 1
        /\ \A v \in 1..n : Append(old, e)[v] = old[v]
        /\ Append(old, e)[n + 1] = e
    BY <2>2, <2>3, AppendProperties
  <2>7. \A v \in 1..(n + 1) : new[v] = Append(old, e)[v]
    <3>1. ASSUME NEW v \in 1..n PROVE new[v] = Append(old, e)[v]
      <4>1. new[v] = EntryAt(disk', s, v)
        BY <1>4
      <4>2. EntryAt(disk', s, v) = EntryAt(disk, s, v)
        BY <1>2, <1>8
      <4> QED
        BY <2>3, <2>6, <4>1, <4>2
    <3>2. new[n + 1] = Append(old, e)[n + 1]
      <4>1. new[n + 1] = EntryAt(disk', s, n + 1)
        BY <1>4
      <4> HIDE DEF new
      <4> QED
        BY <1>9, <2>6, <4>1
    <3>3. \A v \in 1..(n + 1) : v \in 1..n \/ v = n + 1
      BY <1>4
    <3> HIDE DEF new
    <3> QED
      BY <3>1, <3>2, <3>3
  <2> HIDE DEF new
  <2>8. new = Append(old, e)
    BY <2>5, <2>6, <2>7, SeqEqual
  <2> QED
    BY <2>1, <2>8 DEF old
<1>13. CommittedLedger' = [CommittedLedger EXCEPT ![s] = Append(@, e)]
  BY <1>2, <1>10, <1>11, <1>12 DEF CommittedLedger, LedgerOf
<1> QED
  BY <1>2, <1>3, <1>6, <1>7, <1>13 DEF Ledger!Transition, Ledger!States, Ledger!Edge,
        Ledger!TransitionRules, Ledger!Rule, Ledger!Preparers, Edge, TransitionRules, Rule,
        Preparers, States

(* A step that leaves the log, the versions and the states alone.  *)
LEMMA LedgerStutters ==
    ASSUME disk'.log = disk.log, disk'.version = disk.version, disk'.state = disk.state
    PROVE  UNCHANGED Ledger!ledgerVars
BY LedgerKept DEF Ledger!ledgerVars

LEMMA StepRefines ==
    ASSUME IsolatedConnections, WorkflowInv, WorkflowInv', [Next]_vars
    PROVE  [Ledger!LedgerNext]_(Ledger!ledgerVars)
<1>1. CASE UNCHANGED disk
  BY <1>1, LedgerStutters
<1>2. ASSUME NEW t \in Threads, NEW s \in Submissions, NEW month \in BOOLEAN,
             CreateDraft(t, s, month)
      PROVE  Ledger!LedgerNext
  BY <1>2, CreateDraftRefines DEF Ledger!LedgerNext
<1>3. ASSUME NEW t \in Threads, Commit(t) PROVE Ledger!LedgerNext
  <2>1. pc[t] \in Transitioning
    BY <1>3 DEF Commit, At
  <2>2. /\ ctx[t].call.sub \in Submissions /\ ctx[t].call.req \in RequestIds
        /\ ctx[t].call.claim.to \in Ledger!States
    BY <2>1, CallType DEF WorkflowInv, Ledger!States, States
  <2> QED
    BY <1>3, <2>2, CommitRefines DEF Ledger!LedgerNext
<1>4. ASSUME NEW s \in Submissions, NEW form \in Forms, EditForm(s, form)
      PROVE  UNCHANGED Ledger!ledgerVars
  <2>1. disk'.log = disk.log /\ disk'.version = disk.version /\ disk'.state = disk.state
    BY <1>4 DEF EditForm, WorkflowInv, TypeOK, Tables
  <2> QED
    BY <2>1, LedgerStutters
<1>5. ASSUME NEW t \in Threads, Recheck(t) PROVE UNCHANGED disk
  BY <1>5 DEF Recheck, CommitTx, Rollback, At, WorkflowInv, ThreadInv, TxContents, OneWriter,
              Writing, View
<1>6. ASSUME NEW t \in Threads, Finish(t) PROVE UNCHANGED Ledger!ledgerVars
  <2>1. disk' \in {disk, Queued(t)} /\ disk \in Tables
    BY <1>6 DEF Finish, CommitTx, At, View, WorkflowInv, ThreadInv, TxContents, TypeOK
  <2>2. disk'.log = disk.log /\ disk'.version = disk.version /\ disk'.state = disk.state
    BY <2>1 DEF Queued, Announced, Tables
  <2> QED
    BY <2>2, LedgerStutters
<1>7. ASSUME NEW t \in Threads,
             Lookup(t) \/ Read(t) \/ Insert(t) \/ Update(t) \/ SaveMetadata(t) \/ Consume(t)
             \/ RepairJobs(t) \/ InsertOutcome(t) \/ QueueJobs(t) \/ WriteLockTimeout(t)
      PROVE  UNCHANGED disk
  BY <1>7 DEF Lookup, Read, Insert, Update, SaveMetadata, Consume, RepairJobs, InsertOutcome,
              QueueJobs, EnsureJobs, WriteLockTimeout, Execute, Rollback
<1>8. ASSUME NEW t \in Threads, NEW call \in Calls, Submit(t, call) PROVE UNCHANGED disk
  BY <1>8 DEF Submit
<1>9. ASSUME NEW t \in Threads, NEW d \in Dispatches, Dispatch(t, d) PROVE UNCHANGED disk
  BY <1>9 DEF Dispatch
<1>10. ASSUME NEW c \in Connections, Crash(c) PROVE UNCHANGED disk
  BY <1>10 DEF Crash
<1>11. CASE UNCHANGED vars
  BY <1>1, <1>11 DEF vars
<1> QED
  BY <1>1, <1>2, <1>3, <1>4, <1>5, <1>6, <1>7, <1>8, <1>9, <1>10, <1>11
     DEF Next, Arrive, Step

LEMMA InitRefines == Init => Ledger!LedgerInit
<1> SUFFICES ASSUME Init PROVE Ledger!LedgerInit
  OBVIOUS
<1>1. disk.state = [s \in Submissions |-> "absent"] /\ disk.version = [s \in Submissions |-> 0]
  BY DEF Init
<1>2. \A s \in Submissions : [v \in 1..disk.version[s] |-> EntryAt(disk, s, v)] = <<>>
  BY <1>1
<1> QED
  BY <1>1, <1>2 DEF Ledger!LedgerInit, CommittedLedger, LedgerOf

(***************************************************************************)
(* With a connection for each thread, the committed tables implement the   *)
(* ledger: whatever the threads interleave, each commit is one transition  *)
(* of the rule table under a new request, or changes no submission.        *)
(***************************************************************************)
THEOREM WorkflowImplementsLedger ==
    ASSUME IsolatedConnections
    PROVE  Spec => ImplementsLedger
<1>1. Init => Ledger!LedgerInit
  BY InitRefines
<1>2. WorkflowInv /\ WorkflowInv' /\ [Next]_vars => [Ledger!LedgerNext]_(Ledger!ledgerVars)
  BY StepRefines
<1> QED
  BY <1>1, <1>2, WorkflowInvariant, PTL DEF Spec, ImplementsLedger, Ledger!LedgerSpec
================================================================================

--------------------------- MODULE JobQueueProofs ---------------------------
(* Proofs about JobQueue, for any jobs, requests, attempts and bounds.       *)
EXTENDS JobQueue, SequenceTheorems, FiniteSetTheorems, TLAPS

JobRow == [status : Statuses, attempts : Nat, due : BOOLEAN, age : Nat]

LEMMA TypeInit == Init => TypeOK
<1> SUFFICES ASSUME Init PROVE TypeOK
  OBVIOUS
<1>1. letters \in [Jobs -> Seq(Requests \union {Open})]
  BY EmptySeq DEF Init
<1>2. job \in [Jobs -> JobRow]
  BY DEF Init, JobRow, Statuses
<1> QED
  BY <1>1, <1>2 DEF Init, TypeOK, JobRow, ExecutorSteps, LoopSteps

TablesTyped ==
  /\ job \in [Jobs -> JobRow]
  /\ letters \in [Jobs -> Seq(Requests \union {Open})]
  /\ burying \in Jobs \union {NoJob}

(* mark_running and mark_succeeded keep the type of the job rows. *)
LEMMA MarkTyped ==
    ASSUME TypeOK, NEW j \in Jobs, MarkRunning(j) \/ MarkSucceeded(j)
    PROVE  job' \in [Jobs -> JobRow]
<1>1. job \in [Jobs -> JobRow]
  BY DEF TypeOK, JobRow
<1> QED
  BY <1>1 DEF MarkRunning, MarkSucceeded, Statuses, Settled, JobRow

(* So do replay and the clock. *)
LEMMA RequeueTyped ==
    ASSUME TypeOK, NEW j \in Jobs, BecomeDue(j) \/ \E r \in Requests : Replay(j, r)
    PROVE  job' \in [Jobs -> JobRow]
<1>1. job \in [Jobs -> JobRow]
  BY DEF TypeOK, JobRow
<1>2. BecomeDue(j) => job' \in [Jobs -> JobRow]
  BY <1>1 DEF BecomeDue, JobRow
<1>3. ASSUME NEW r \in Requests, Replay(j, r) PROVE job' \in [Jobs -> JobRow]
  <2>1. job' = [job EXCEPT ![j].status = "QUEUED", ![j].attempts = 0, ![j].due = TRUE]
    BY <1>3 DEF Replay
  <2> QED
    BY <1>1, <2>1 DEF Statuses, Pending, JobRow
<1> QED
  BY <1>2, <1>3

(* Each of mark_failed's writes keeps the tables' types. *)
LEMMA FailTyped ==
    ASSUME TypeOK, NEW j \in Jobs, NEW terminal \in BOOLEAN,
           Retry(j, terminal) \/ WriteLetter(j, terminal) \/ Bury(j, terminal) \/ FailIsNoOp(j)
    PROVE  TablesTyped'
<1>1. job \in [Jobs -> JobRow]
  BY DEF TypeOK, JobRow
<1>2. NextAttempt(j, terminal) \in Nat
  BY <1>1, JobsAssumption DEF NextAttempt, JobRow
<1>3. Retry(j, terminal) \/ Bury(j, terminal) => job' \in [Jobs -> JobRow]
  BY <1>1, <1>2 DEF Retry, Bury, Statuses, Pending, Settled, JobRow
<1>4. Append(letters[j], Open) \in Seq(Requests \union {Open})
  BY AppendProperties DEF TypeOK
<1>5. WriteLetter(j, terminal) => letters' \in [Jobs -> Seq(Requests \union {Open})]
  BY <1>4 DEF WriteLetter, TypeOK
<1> QED
  BY <1>1, <1>3, <1>5 DEF Retry, Bury, WriteLetter, FailIsNoOp, TypeOK, TablesTyped

(* The executor counts a run of the job it has in hand. *)
LEMMA StartTyped ==
    ASSUME runs \in [Jobs -> Nat], cur.executor \in Jobs, Start
    PROVE  runs' \in [Jobs -> Nat]
<1>1. runs' = [runs EXCEPT ![cur.executor] = @ + 1]
  BY DEF Start
<1> QED
  BY <1>1

LEMMA TypeNext == TypeOK /\ [Next]_vars => TypeOK'
<1> SUFFICES ASSUME TypeOK, [Next]_vars PROVE TypeOK'
  OBVIOUS
<1>0. job \in [Jobs -> JobRow] /\ TRUE \in BOOLEAN /\ FALSE \in BOOLEAN
  BY DEF TypeOK, JobRow
<1> USE JobsAssumption DEF TypeOK, ExecutorSteps, LoopSteps,
      tables, threads, history, Goto, Drop, LoopFrame
<1>1. CASE Poll
  BY <1>0, <1>1 DEF Poll, Due, JobRow
<1>2. CASE Pick
  BY <1>0, <1>2 DEF Pick, JobRow
<1>3. CASE RoundOver
  BY <1>0, <1>3 DEF RoundOver, JobRow
<1>4. CASE Start
  <2>1. cur.executor \in Jobs
    BY <1>4 DEF Start
  <2>2. job' \in [Jobs -> JobRow]
    BY <1>4, <2>1, MarkTyped DEF Start
  <2>3. runs \in [Jobs -> Nat]
    OBVIOUS
  <2>4. runs' \in [Jobs -> Nat]
    <3> HIDE DEF TypeOK
    <3> QED
      BY <1>4, <2>1, <2>3, StartTyped
  <2> QED
    BY <1>4, <2>1, <2>2, <2>4 DEF Start, JobRow
<1>5. CASE HandlerReturns
  BY <1>0, <1>5 DEF HandlerReturns, JobRow
<1>6. CASE HandlerRaises
  BY <1>0, <1>6 DEF HandlerRaises, JobRow
<1>7. CASE HandlerChecks
  BY <1>0, <1>7 DEF HandlerChecks, JobRow
<1>8. CASE HandlerMarksRunning
  <2>1. cur.executor \in Jobs
    BY <1>8 DEF HandlerMarksRunning
  <2>2. job' \in [Jobs -> JobRow]
    BY <1>8, <2>1, MarkTyped DEF HandlerMarksRunning
  <2> QED
    BY <1>8, <2>1, <2>2 DEF HandlerMarksRunning, JobRow
<1>9. CASE HandlerReportsSuccess
  <2>1. cur.executor \in Jobs
    BY <1>9 DEF HandlerReportsSuccess
  <2>2. job' \in [Jobs -> JobRow]
    BY <1>9, <2>1, MarkTyped DEF HandlerReportsSuccess
  <2> QED
    BY <1>9, <2>1, <2>2 DEF HandlerReportsSuccess, JobRow
<1>10. CASE HandlerReportsFailure
  <2>1. cur.executor \in Jobs
    BY <1>10 DEF HandlerReportsFailure
  <2>2. TablesTyped'
    BY <1>10, <2>1, FailTyped DEF HandlerReportsFailure
  <2> QED
    BY <1>10, <2>1, <2>2 DEF HandlerReportsFailure, JobRow, TablesTyped
<1>11. CASE Settle
  BY <1>0, <1>11 DEF Settle, JobRow
<1>12. CASE Succeed
  <2>1. cur.executor \in Jobs
    BY <1>12 DEF Succeed
  <2>2. job' \in [Jobs -> JobRow]
    BY <1>12, <2>1, MarkTyped DEF Succeed
  <2> QED
    BY <1>12, <2>1, <2>2 DEF Succeed, JobRow
<1>13. CASE Catch
  BY <1>0, <1>13 DEF Catch, JobRow
<1>14. CASE Fail
  <2>1. cur.executor \in Jobs
    BY <1>14 DEF Fail
  <2>2. TablesTyped'
    BY <1>14, <2>1, FailTyped DEF Fail
  <2> QED
    BY <1>14, <2>1, <2>2 DEF Fail, JobRow, TablesTyped
<1>15. CASE FailBury
  <2>1. cur.executor \in Jobs
    BY <1>15 DEF FailBury
  <2>2. TablesTyped'
    <3>1. Bury(cur.executor, fatal) \/ Bury(cur.executor, FALSE)
      BY <1>15 DEF FailBury
    <3>2. CASE Bury(cur.executor, fatal)
      BY <2>1, <3>2, FailTyped
    <3>3. CASE Bury(cur.executor, FALSE)
      BY <2>1, <3>3, FailTyped
    <3> QED
      BY <3>1, <3>2, <3>3
  <2> QED
    BY <1>15, <2>1, <2>2 DEF FailBury, JobRow, TablesTyped
<1>16. CASE TriggerMarksRunning
  <2>1. cur.loop \in Jobs
    BY <1>16 DEF TriggerMarksRunning
  <2>2. job' \in [Jobs -> JobRow]
    BY <1>16, <2>1, MarkTyped DEF TriggerMarksRunning
  <2> QED
    BY <1>16, <2>1, <2>2 DEF TriggerMarksRunning, JobRow
<1>17. CASE TriggerSucceeds
  <2>1. cur.loop \in Jobs
    BY <1>17 DEF TriggerSucceeds
  <2>2. job' \in [Jobs -> JobRow]
    BY <1>17, <2>1, MarkTyped DEF TriggerSucceeds
  <2> QED
    BY <1>17, <2>1, <2>2 DEF TriggerSucceeds, JobRow
<1>18. CASE TriggerFails
  <2>1. cur.loop \in Jobs
    BY <1>18 DEF TriggerFails
  <2>2. TablesTyped'
    BY <1>18, <2>1, FailTyped DEF TriggerFails
  <2> QED
    BY <1>18, <2>1, <2>2 DEF TriggerFails, JobRow, TablesTyped
<1>19. CASE TriggerBury
  <2>1. cur.loop \in Jobs
    BY <1>19 DEF TriggerBury
  <2>2. TablesTyped'
    BY <1>19, <2>1, FailTyped DEF TriggerBury
  <2> QED
    BY <1>19, <2>1, <2>2 DEF TriggerBury, JobRow, TablesTyped
<1>20. ASSUME NEW j \in Jobs, Enqueue(j) PROVE TypeOK'
  <2>1. IsFiniteSet({k \in Jobs : job[k].status # "ABSENT"})
    BY FS_Subset
  <2>2. Cardinality({k \in Jobs : job[k].status # "ABSENT"}) \in Nat
    BY <2>1, FS_CardinalityType
  <2> DEFINE count == Cardinality({k \in Jobs : job[k].status # "ABSENT"})
             n == count + 1
  <2> HIDE DEF count
  <2>3. n \in Nat
    <3>1. count \in Nat
      BY <2>2 DEF count
    <3> QED
      BY <3>1
  <2>4. PICK due \in BOOLEAN :
          job' = [job EXCEPT ![j] = [status |-> "QUEUED", attempts |-> 0, due |-> due, age |-> n]]
    BY <1>20 DEF Enqueue, count
  <2> HIDE DEF n
  <2>5. job' \in [Jobs -> JobRow]
    BY <1>0, <2>3, <2>4 DEF JobRow, Statuses, Pending
  <2> QED
    BY <1>20, <2>5 DEF Enqueue, JobRow
<1>21. ASSUME NEW j \in Jobs, TriggerChecks(j) PROVE TypeOK'
  BY <1>0, <1>21 DEF TriggerChecks, JobRow
<1>22. ASSUME NEW j \in Jobs, BecomeDue(j) PROVE TypeOK'
  <2>1. job' \in [Jobs -> JobRow]
    BY <1>22, RequeueTyped
  <2> QED
    BY <1>22, <2>1 DEF BecomeDue, JobRow
<1>23. ASSUME NEW j \in Jobs, NEW r \in Requests, Replay(j, r) PROVE TypeOK'
  <2>1. job' \in [Jobs -> JobRow]
    BY <1>23, RequeueTyped
  <2>2. Len(letters[j]) \in 1..Len(letters[j])
    BY <1>23, EmptySeq DEF Replay
  <2>3. [letters[j] EXCEPT ![Len(letters[j])] = r] \in Seq(Requests \union {Open})
    BY <2>2, ExceptSeq
  <2>4. letters' = [letters EXCEPT ![j] = [letters[j] EXCEPT ![Len(letters[j])] = r]]
    BY <1>23 DEF Replay
  <2>5. letters' \in [Jobs -> Seq(Requests \union {Open})]
    BY <2>3, <2>4
  <2>6. answered' \in [Jobs -> SUBSET Requests] /\ runs' \in [Jobs -> Nat]
    BY <1>23 DEF Replay
  <2> QED
    BY <1>23, <2>1, <2>5, <2>6 DEF Replay, JobRow
<1>24. CASE WriteRefusedCaught
  <2>1. timeouts' \in Nat
    BY <1>24 DEF WriteRefusedCaught, WriteRefused
  <2>2. pc' \in [executor : ExecutorSteps, loop : LoopSteps]
        /\ cur' \in [executor : Jobs \union {NoJob}, loop : Jobs \union {NoJob}]
        /\ (cur'.executor = NoJob <=> pc'.executor \in {"polling", "picking", "dead"})
        /\ (cur'.loop = NoJob <=> pc'.loop = "idle")
    BY <1>24 DEF WriteRefusedCaught
  <2>3. lost' \in SUBSET Jobs
    BY <1>24 DEF WriteRefusedCaught
  <2> QED
    BY <1>24, <2>1, <2>2, <2>3 DEF WriteRefusedCaught
<1>25. CASE WriteRefusedUncaught
  <2>1. timeouts' \in Nat
    BY <1>25 DEF WriteRefusedUncaught, WriteRefused
  <2>2. pc' \in [executor : ExecutorSteps, loop : LoopSteps]
        /\ cur' \in [executor : Jobs \union {NoJob}, loop : Jobs \union {NoJob}]
        /\ (cur'.executor = NoJob <=> pc'.executor \in {"polling", "picking", "dead"})
        /\ (cur'.loop = NoJob <=> pc'.loop = "idle")
    BY <1>25 DEF WriteRefusedUncaught
  <2>3. lost' \in SUBSET Jobs
    BY <1>25 DEF WriteRefusedUncaught
  <2> QED
    BY <1>25, <2>1, <2>2, <2>3 DEF WriteRefusedUncaught
<1>26. CASE WriteRefusedInTrigger
  <2>1. timeouts' \in Nat
    BY <1>26 DEF WriteRefusedInTrigger, WriteRefused
  <2>2. pc' \in [executor : ExecutorSteps, loop : LoopSteps]
        /\ cur' \in [executor : Jobs \union {NoJob}, loop : Jobs \union {NoJob}]
        /\ (cur'.executor = NoJob <=> pc'.executor \in {"polling", "picking", "dead"})
        /\ (cur'.loop = NoJob <=> pc'.loop = "idle")
    BY <1>26 DEF WriteRefusedInTrigger
  <2>3. lost' \in SUBSET Jobs
    BY <1>26 DEF WriteRefusedInTrigger
  <2> QED
    BY <1>26, <2>1, <2>2, <2>3 DEF WriteRefusedInTrigger
<1>27. CASE Crash
  <2>1. crashes' \in Nat
    BY <1>27 DEF Crash
  <2>2. lost' \in SUBSET Jobs
    BY <1>27 DEF Crash
  <2> QED
    BY <1>27, <2>1, <2>2 DEF Crash
<1>r. ASSUME NEW j \in Jobs, TriggerRepeats(j) PROVE TypeOK'
  <2>1. job' \in [Jobs -> JobRow]
    BY <1>r, MarkTyped DEF TriggerRepeats
  <2> QED
    BY <1>r, <2>1 DEF TriggerRepeats, JobRow
<1>28. CASE UNCHANGED vars
  BY <1>28 DEF vars
<1> QED
  BY <1>r, <1>1, <1>2, <1>3, <1>4, <1>5, <1>6, <1>7, <1>8, <1>9, <1>10, <1>11, <1>12, <1>13, <1>14, <1>15, <1>16, <1>17, <1>18, <1>19, <1>20, <1>21, <1>22, <1>23, <1>24, <1>25, <1>26, <1>27, <1>28 DEF Next, Executor, Trigger

(* A job row is only ever in a known state, and every column has its type. *)
THEOREM QueueTypeCorrect == Spec => []TypeOK
BY TypeInit, TypeNext, PTL DEF Spec

----------------------------------------------------------------------------
(* RunningIsWorkedOn is inductive: whoever lets go of a job has just read    *)
(* that it is not RUNNING, or has just written another status.               *)

LEMMA WorkedOnNext == TypeOK /\ RunningIsWorkedOn /\ [Next]_vars => RunningIsWorkedOn'
<1> SUFFICES ASSUME TypeOK, RunningIsWorkedOn, [Next]_vars,
                    NEW i \in Jobs, job'[i].status = "RUNNING"
             PROVE  i = cur'.executor \/ i = cur'.loop \/ i \in lost'
  BY DEF RunningIsWorkedOn
<1>0. job[i].status = "RUNNING" => i = cur.executor \/ i = cur.loop \/ i \in lost
  BY DEF RunningIsWorkedOn
<1>t. job \in [Jobs -> JobRow] /\ cur \in [executor : Jobs \union {NoJob}, loop : Jobs \union {NoJob}]
  BY DEF TypeOK, JobRow
<1>1. CASE Poll
  BY <1>0, <1>t, <1>1 DEF Poll, tables, threads, history, Goto, Drop, LoopFrame, MarkRunning, MarkSucceeded, JobRow
<1>2. CASE Pick
  <2>1. cur.executor = NoJob
    BY <1>2 DEF Pick, TypeOK
  <2>2. i # NoJob
    BY JobsAssumption
  <2> QED
    BY <1>0, <1>t, <1>2, <2>1, <2>2 DEF Pick, tables, threads, history, Goto, Drop, LoopFrame, JobRow
<1>3. CASE RoundOver
  BY <1>0, <1>t, <1>3 DEF RoundOver, tables, threads, history, Goto, Drop, LoopFrame, MarkRunning, MarkSucceeded, JobRow
<1>4. CASE Start
  BY <1>0, <1>t, <1>4 DEF Start, tables, threads, history, Goto, Drop, LoopFrame, MarkRunning, MarkSucceeded, JobRow
<1>5. CASE HandlerReturns
  BY <1>0, <1>t, <1>5 DEF HandlerReturns, tables, threads, history, Goto, Drop, LoopFrame, MarkRunning, MarkSucceeded, JobRow
<1>6. CASE HandlerRaises
  BY <1>0, <1>t, <1>6 DEF HandlerRaises, tables, threads, history, Goto, Drop, LoopFrame, MarkRunning, MarkSucceeded, JobRow
<1>7. CASE HandlerChecks
  BY <1>0, <1>t, <1>7 DEF HandlerChecks, tables, threads, history, Goto, Drop, LoopFrame, MarkRunning, MarkSucceeded, JobRow
<1>8. CASE HandlerMarksRunning
  BY <1>0, <1>t, <1>8 DEF HandlerMarksRunning, tables, threads, history, Goto, Drop, LoopFrame, MarkRunning, MarkSucceeded, JobRow
<1>9. CASE HandlerReportsSuccess
  BY <1>0, <1>t, <1>9 DEF HandlerReportsSuccess, tables, threads, history, Goto, Drop, LoopFrame, MarkRunning, MarkSucceeded, JobRow
<1>10. CASE HandlerReportsFailure
  BY <1>0, <1>t, <1>10 DEF HandlerReportsFailure, Retry, WriteLetter, Bury, FailIsNoOp, tables, threads, history, Goto, Drop, LoopFrame, MarkRunning, MarkSucceeded, JobRow
<1>11. CASE Settle
  BY <1>0, <1>t, <1>11 DEF Settle, tables, threads, history, Goto, Drop, LoopFrame, MarkRunning, MarkSucceeded, JobRow
<1>12. CASE Succeed
  BY <1>0, <1>t, <1>12 DEF Succeed, tables, threads, history, Goto, Drop, LoopFrame, MarkRunning, MarkSucceeded, JobRow
<1>13. CASE Catch
  BY <1>0, <1>t, <1>13 DEF Catch, tables, threads, history, Goto, Drop, LoopFrame, MarkRunning, MarkSucceeded, JobRow
<1>14. CASE Fail
  BY <1>0, <1>t, <1>14 DEF Fail, Retry, WriteLetter, Bury, FailIsNoOp, tables, threads, history, Goto, Drop, LoopFrame, MarkRunning, MarkSucceeded, JobRow
<1>15. CASE FailBury
  <2>1. (job'[cur.executor].status = "DEAD_LETTERED" \/ cur.executor = NoJob)
        /\ (i # cur.executor => job'[i] = job[i])
    BY <1>t, <1>15 DEF FailBury, Bury, JobRow
  <2>2. i # cur.executor
    BY <2>1, JobsAssumption
  <2> QED
    BY <1>0, <1>t, <1>15, <2>1, <2>2 DEF FailBury, Drop, history
<1>16. CASE TriggerMarksRunning
  BY <1>0, <1>t, <1>16 DEF TriggerMarksRunning, tables, threads, history, Goto, Drop, LoopFrame, MarkRunning, MarkSucceeded, JobRow
<1>17. CASE TriggerSucceeds
  BY <1>0, <1>t, <1>17 DEF TriggerSucceeds, tables, threads, history, Goto, Drop, LoopFrame, MarkRunning, MarkSucceeded, JobRow
<1>18. CASE TriggerFails
  <2>1. CASE WriteLetter(cur.loop, FALSE) /\ UNCHANGED cur
    BY <1>0, <1>18, <2>1 DEF TriggerFails, WriteLetter, tables, threads, history, Goto, Drop, LoopFrame, JobRow
  <2>2. CASE FailIsNoOp(cur.loop) /\ Drop("loop")
    BY <1>0, <1>t, <1>18, <2>2 DEF TriggerFails, FailIsNoOp, tables, threads, history, Goto, Drop, LoopFrame, JobRow
  <2>3. CASE Retry(cur.loop, FALSE) /\ Drop("loop")
    BY <1>0, <1>t, <1>18, <2>3 DEF TriggerFails, Retry, tables, threads, history, Goto, Drop, LoopFrame, JobRow
  <2> QED
    BY <1>18, <2>1, <2>2, <2>3 DEF TriggerFails
<1>19. CASE TriggerBury
  BY <1>0, <1>t, <1>19 DEF TriggerBury, Retry, WriteLetter, Bury, FailIsNoOp, tables, threads, history, Goto, Drop, LoopFrame, MarkRunning, MarkSucceeded, JobRow
<1>20. ASSUME NEW j \in Jobs, Enqueue(j)
      PROVE  i = cur'.executor \/ i = cur'.loop \/ i \in lost'
  BY <1>0, <1>t, <1>20 DEF Enqueue, tables, threads, history, Goto, Drop, LoopFrame, MarkRunning, MarkSucceeded, JobRow
<1>21. ASSUME NEW j \in Jobs, TriggerChecks(j)
      PROVE  i = cur'.executor \/ i = cur'.loop \/ i \in lost'
  <2>1. cur.loop = NoJob
    BY <1>21 DEF TriggerChecks, TypeOK
  <2>2. i # NoJob
    BY JobsAssumption
  <2> QED
    BY <1>0, <1>t, <1>21, <2>1, <2>2 DEF TriggerChecks, tables, threads, history, Goto, Drop, LoopFrame, JobRow
<1>22. ASSUME NEW j \in Jobs, BecomeDue(j)
      PROVE  i = cur'.executor \/ i = cur'.loop \/ i \in lost'
  BY <1>0, <1>t, <1>22 DEF BecomeDue, tables, threads, history, Goto, Drop, LoopFrame, MarkRunning, MarkSucceeded, JobRow
<1>23. ASSUME NEW j \in Jobs, NEW r \in Requests, Replay(j, r)
      PROVE  i = cur'.executor \/ i = cur'.loop \/ i \in lost'
  BY <1>0, <1>t, <1>23 DEF Replay, tables, threads, history, Goto, Drop, LoopFrame, MarkRunning, MarkSucceeded, JobRow
<1>24. CASE WriteRefusedCaught
  BY <1>0, <1>t, <1>24 DEF WriteRefusedCaught, tables, threads, history, Goto, Drop, LoopFrame, MarkRunning, MarkSucceeded, JobRow
<1>25. CASE WriteRefusedUncaught
  BY <1>0, <1>t, <1>25 DEF WriteRefusedUncaught, tables, threads, history, Goto, Drop, LoopFrame, MarkRunning, MarkSucceeded, JobRow
<1>26. CASE WriteRefusedInTrigger
  BY <1>0, <1>t, <1>26 DEF WriteRefusedInTrigger, tables, threads, history, Goto, Drop, LoopFrame, MarkRunning, MarkSucceeded, JobRow
<1>27. CASE Crash
  BY <1>0, <1>t, <1>27 DEF Crash, tables, threads, history, Goto, Drop, LoopFrame, MarkRunning, MarkSucceeded, JobRow
<1>r. ASSUME NEW j \in Jobs, TriggerRepeats(j)
      PROVE  i = cur'.executor \/ i = cur'.loop \/ i \in lost'
  BY <1>0, <1>t, <1>r DEF TriggerRepeats, tables, threads, history, MarkSucceeded, JobRow
<1>28. CASE UNCHANGED vars
  BY <1>0, <1>28 DEF vars, tables, threads, history, Goto, Drop, LoopFrame, MarkRunning, MarkSucceeded, JobRow
<1> QED
  BY <1>r, <1>1, <1>2, <1>3, <1>4, <1>5, <1>6, <1>7, <1>8, <1>9, <1>10, <1>11, <1>12, <1>13, <1>14, <1>15, <1>16, <1>17, <1>18, <1>19, <1>20, <1>21, <1>22, <1>23, <1>24, <1>25, <1>26, <1>27, <1>28 DEF Next, Executor, Trigger
(* A RUNNING job is in a thread's hands, unless its thread was cut off. *)
THEOREM RunningIsWorkedOnHolds == Spec => []RunningIsWorkedOn
<1>1. Init => RunningIsWorkedOn
  BY DEF Init, RunningIsWorkedOn
<1> QED
  BY <1>1, TypeInit, TypeNext, WorkedOnNext, PTL DEF Spec
----------------------------------------------------------------------------
(* What a step does to the tables.                                           *)

Quiet ==
  UNCHANGED <<tables, runs>> /\ burying' \in {burying, NoJob}

Marks(j) ==
  /\ MarkRunning(j) \/ MarkSucceeded(j)
  /\ UNCHANGED <<letters, answered, burying>>
  /\ Start \/ UNCHANGED runs

Fails(j, terminal) ==
  /\ \/ Retry(j, terminal)
     \/ WriteLetter(j, terminal) /\ Unlocked
     \/ Bury(j, terminal)
  /\ UNCHANGED <<answered, runs>>

(* A step leaves the tables alone, marks a job, fails it, or is a request's. *)
LEMMA TableStep ==
    ASSUME TypeOK, [Next]_vars
    PROVE  \/ Quiet
           \/ \E j \in Jobs : Marks(j) \/ Enqueue(j) \/ BecomeDue(j)
           \/ \E j \in Jobs, terminal \in BOOLEAN : Fails(j, terminal)
           \/ \E j \in Jobs, r \in Requests : Replay(j, r)
<1> DEFINE Goal == \/ Quiet
                   \/ \E j \in Jobs : Marks(j) \/ Enqueue(j) \/ BecomeDue(j)
                   \/ \E j \in Jobs, terminal \in BOOLEAN : Fails(j, terminal)
                   \/ \E j \in Jobs, r \in Requests : Replay(j, r)
<1>t. /\ cur.executor = NoJob <=> pc.executor \in {"polling", "picking", "dead"}
      /\ cur.loop = NoJob <=> pc.loop = "idle"
      /\ cur.executor \in Jobs \union {NoJob} /\ cur.loop \in Jobs \union {NoJob}
      /\ fatal \in BOOLEAN
  BY DEF TypeOK
<1>1. ASSUME Poll PROVE Goal
  <2>1. Quiet
    BY <1>1 DEF Poll, Quiet, tables, history
  <2> QED
    BY <2>1
<1>2. ASSUME Pick PROVE Goal
  <2>1. Quiet
    BY <1>2 DEF Pick, Quiet, tables, history
  <2> QED
    BY <2>1
<1>3. ASSUME RoundOver PROVE Goal
  <2>1. Quiet
    BY <1>3 DEF RoundOver, Quiet, tables, history
  <2> QED
    BY <2>1
<1>4. ASSUME Start PROVE Goal
  <2>1. cur.executor \in Jobs /\ Marks(cur.executor)
    BY <1>t, <1>4 DEF Start, Marks
  <2> QED
    BY <2>1
<1>5. ASSUME HandlerReturns PROVE Goal
  <2>1. Quiet
    BY <1>5 DEF HandlerReturns, Quiet, tables, history
  <2> QED
    BY <2>1
<1>6. ASSUME HandlerRaises PROVE Goal
  <2>1. Quiet
    BY <1>6 DEF HandlerRaises, Quiet, tables, history
  <2> QED
    BY <2>1
<1>7. ASSUME HandlerChecks PROVE Goal
  <2>1. Quiet
    BY <1>7 DEF HandlerChecks, Quiet, tables, history
  <2> QED
    BY <2>1
<1>8. ASSUME HandlerMarksRunning PROVE Goal
  <2>1. cur.executor \in Jobs /\ Marks(cur.executor)
    BY <1>t, <1>8 DEF HandlerMarksRunning, Marks, history
  <2> QED
    BY <2>1
<1>9. ASSUME HandlerReportsSuccess PROVE Goal
  <2>1. cur.executor \in Jobs /\ Marks(cur.executor)
    BY <1>t, <1>9 DEF HandlerReportsSuccess, Marks, history
  <2> QED
    BY <2>1
<1>10. ASSUME HandlerReportsFailure PROVE Goal
  <2>1. cur.executor \in Jobs
    BY <1>t, <1>10 DEF HandlerReportsFailure
  <2>2. CASE FailIsNoOp(cur.executor)
    BY <1>10, <2>2 DEF HandlerReportsFailure, FailIsNoOp, Quiet, tables, history
  <2>3. CASE Retry(cur.executor, FALSE) \/ WriteLetter(cur.executor, FALSE)
    BY <1>t, <1>10, <2>1, <2>3 DEF HandlerReportsFailure, Fails, history
  <2> QED
    BY <1>10, <2>2, <2>3 DEF HandlerReportsFailure
<1>11. ASSUME Settle PROVE Goal
  <2>1. Quiet
    BY <1>11 DEF Settle, Quiet, tables, history
  <2> QED
    BY <2>1
<1>12. ASSUME Succeed PROVE Goal
  <2>1. cur.executor \in Jobs /\ Marks(cur.executor)
    BY <1>t, <1>12 DEF Succeed, Marks, history
  <2> QED
    BY <2>1
<1>13. ASSUME Catch PROVE Goal
  <2>1. Quiet
    BY <1>13 DEF Catch, Quiet, tables, history
  <2> QED
    BY <2>1
<1>14. ASSUME Fail PROVE Goal
  <2>1. cur.executor \in Jobs
    BY <1>t, <1>14 DEF Fail
  <2>2. CASE FailIsNoOp(cur.executor)
    BY <1>14, <2>2 DEF Fail, FailIsNoOp, Quiet, tables, history
  <2>3. CASE Retry(cur.executor, fatal) \/ WriteLetter(cur.executor, fatal)
    BY <1>t, <1>14, <2>1, <2>3 DEF Fail, Fails, history
  <2> QED
    BY <1>14, <2>2, <2>3 DEF Fail
<1>15. ASSUME FailBury PROVE Goal
  <2>1. cur.executor \in Jobs
    BY <1>t, <1>15 DEF FailBury
  <2>2. CASE Bury(cur.executor, fatal)
    BY <1>t, <1>15, <2>1, <2>2 DEF FailBury, Fails, history
  <2>3. CASE Bury(cur.executor, FALSE)
    BY <1>15, <2>1, <2>3 DEF FailBury, Fails, history
  <2> QED
    BY <1>15, <2>2, <2>3 DEF FailBury
<1>16. ASSUME TriggerMarksRunning PROVE Goal
  <2>1. cur.loop \in Jobs /\ Marks(cur.loop)
    BY <1>t, <1>16 DEF TriggerMarksRunning, Marks, history
  <2> QED
    BY <2>1
<1>17. ASSUME TriggerSucceeds PROVE Goal
  <2>1. cur.loop \in Jobs /\ Marks(cur.loop)
    BY <1>t, <1>17 DEF TriggerSucceeds, Marks, history
  <2> QED
    BY <2>1
<1>18. ASSUME TriggerFails PROVE Goal
  <2>1. cur.loop \in Jobs
    BY <1>t, <1>18 DEF TriggerFails
  <2>2. CASE FailIsNoOp(cur.loop)
    BY <1>18, <2>2 DEF TriggerFails, FailIsNoOp, Quiet, tables, history
  <2>3. CASE Retry(cur.loop, FALSE) \/ WriteLetter(cur.loop, FALSE)
    BY <1>t, <1>18, <2>1, <2>3 DEF TriggerFails, Fails, history
  <2> QED
    BY <1>18, <2>2, <2>3 DEF TriggerFails
<1>19. ASSUME TriggerBury PROVE Goal
  <2>1. cur.loop \in Jobs /\ Fails(cur.loop, FALSE)
    BY <1>t, <1>19 DEF TriggerBury, Fails, history
  <2> QED
    BY <2>1
<1>20. ASSUME NEW j \in Jobs, TriggerChecks(j) PROVE Goal
  BY <1>20 DEF TriggerChecks, Quiet, history, tables
<1>21. ASSUME WriteRefusedCaught PROVE Goal
  BY <1>21 DEF WriteRefusedCaught, Quiet, history, tables
<1>22. ASSUME WriteRefusedUncaught PROVE Goal
  BY <1>22 DEF WriteRefusedUncaught, Quiet, history, tables
<1>23. ASSUME WriteRefusedInTrigger PROVE Goal
  BY <1>23 DEF WriteRefusedInTrigger, Quiet, history, tables
<1>24. ASSUME Crash PROVE Goal
  BY <1>24 DEF Crash, Quiet, history, tables
<1>r. ASSUME NEW j \in Jobs, TriggerRepeats(j) PROVE Goal
  <2>1. Marks(j)
    BY <1>r DEF TriggerRepeats, Marks, history
  <2> QED
    BY <2>1
<1>25. CASE UNCHANGED vars
  BY <1>25 DEF vars, Quiet, history, tables
<1> QED
  BY <1>r, <1>1, <1>2, <1>3, <1>4, <1>5, <1>6, <1>7, <1>8, <1>9, <1>10, <1>11, <1>12, <1>13, <1>14, <1>15, <1>16, <1>17, <1>18, <1>19, <1>20, <1>21, <1>22, <1>23, <1>24, <1>25 DEF Next, Executor, Trigger

----------------------------------------------------------------------------
(* DeadLettersReplayable.  The letter mark_failed has written is open while  *)
(* the lock is kept for the second commit, which is what makes the status    *)
(* true of an open letter.                                                   *)

BuriedIsOpen == burying # NoJob => letters[burying] # <<>> /\ Newest(burying) = Open

ReplayInv == DeadLettersReplayable /\ BuriedIsOpen

LEMMA ReplayInvNext == TypeOK /\ ReplayInv /\ [Next]_vars => ReplayInv'
<1> SUFFICES ASSUME TypeOK, ReplayInv, [Next]_vars PROVE ReplayInv'
  OBVIOUS
<1> USE DEF ReplayInv
<1>t. /\ job \in [Jobs -> JobRow] /\ letters \in [Jobs -> Seq(Requests \union {Open})]
      /\ burying \in Jobs \union {NoJob} /\ NoJob \notin Jobs /\ Open \notin Requests
  BY JobsAssumption DEF TypeOK, JobRow
<1>1. CASE Quiet
  BY <1>1 DEF Quiet, tables, DeadLettersReplayable, BuriedIsOpen, Newest
<1>2. ASSUME NEW j \in Jobs, Marks(j) PROVE ReplayInv'
  BY <1>t, <1>2 DEF Marks, MarkRunning, MarkSucceeded, DeadLettersReplayable, BuriedIsOpen, Newest, JobRow
<1>3. ASSUME NEW j \in Jobs, Enqueue(j) PROVE ReplayInv'
  BY <1>t, <1>3 DEF Enqueue, DeadLettersReplayable, BuriedIsOpen, Newest, JobRow
<1>4. ASSUME NEW j \in Jobs, BecomeDue(j) PROVE ReplayInv'
  BY <1>t, <1>4 DEF BecomeDue, DeadLettersReplayable, BuriedIsOpen, Newest, JobRow
<1>5. ASSUME NEW j \in Jobs, NEW terminal \in BOOLEAN, Fails(j, terminal) PROVE ReplayInv'
  <2>1. CASE Retry(j, terminal)
    BY <1>t, <2>1 DEF Retry, DeadLettersReplayable, BuriedIsOpen, Newest, JobRow
  <2>2. CASE WriteLetter(j, terminal)
    <3>1. letters' = [letters EXCEPT ![j] = Append(letters[j], Open)] /\ burying' = j /\ job' = job
      BY <2>2 DEF WriteLetter
    <3>2. letters[j] \in Seq(Requests \union {Open})
      BY <1>t
    <3>3. /\ Append(letters[j], Open) # <<>>
          /\ Append(letters[j], Open)[Len(Append(letters[j], Open))] = Open
      BY <3>2, AppendProperties, EmptySeq
    <3>4. letters'[j] # <<>> /\ Newest(j)' = Open
      BY <1>t, <3>1, <3>3 DEF Newest
    <3>5. \A i \in Jobs : i # j => letters'[i] = letters[i]
      BY <1>t, <3>1
    <3> QED
      BY <3>1, <3>4, <3>5 DEF DeadLettersReplayable, BuriedIsOpen, Newest
  <2>3. CASE Bury(j, terminal)
    BY <1>t, <2>3 DEF Bury, DeadLettersReplayable, BuriedIsOpen, Newest, JobRow
  <2> QED
    BY <1>5, <2>1, <2>2, <2>3 DEF Fails
<1>6. ASSUME NEW j \in Jobs, NEW r \in Requests, Replay(j, r) PROVE ReplayInv'
  <2>1. /\ job' = [job EXCEPT ![j].status = "QUEUED", ![j].attempts = 0, ![j].due = TRUE]
        /\ burying = NoJob /\ burying' = NoJob
        /\ \A i \in Jobs : i # j => letters'[i] = letters[i]
    BY <1>t, <1>6 DEF Replay, Unlocked
  <2>2. \A i \in Jobs : job'[i].status = "DEAD_LETTERED" => i # j /\ job[i].status = "DEAD_LETTERED"
    BY <1>t, <2>1 DEF JobRow
  <2> QED
    BY <2>1, <2>2 DEF DeadLettersReplayable, BuriedIsOpen, Newest
<1> QED
  BY <1>1, <1>2, <1>3, <1>4, <1>5, <1>6, TableStep

(* A dead-lettered job has an open newest letter: it can be replayed. *)
THEOREM DeadLettersReplayableHolds == Spec => []DeadLettersReplayable
<1>1. Init => ReplayInv
  BY DEF Init, ReplayInv, DeadLettersReplayable, BuriedIsOpen
<1>2. ReplayInv => DeadLettersReplayable
  BY DEF ReplayInv
<1> QED
  BY <1>1, <1>2, TypeInit, TypeNext, ReplayInvNext, PTL DEF Spec

----------------------------------------------------------------------------
(* ReplaysOnce: a request replays only when it is not answered yet, and the  *)
(* letter and the answer are written in one transaction.                     *)

LEMMA ReplaysOnceNext == TypeOK /\ ReplaysOnce /\ [Next]_vars => ReplaysOnce'
<1> SUFFICES ASSUME TypeOK, ReplaysOnce, [Next]_vars PROVE ReplaysOnce'
  OBVIOUS
<1>t. /\ letters \in [Jobs -> Seq(Requests \union {Open})]
      /\ answered \in [Jobs -> SUBSET Requests] /\ Open \notin Requests
  BY JobsAssumption DEF TypeOK
<1>1. CASE UNCHANGED <<letters, answered>>
  BY <1>1 DEF ReplaysOnce
<1>2. ASSUME NEW j \in Jobs, NEW terminal \in BOOLEAN,
             WriteLetter(j, terminal), UNCHANGED answered
      PROVE  ReplaysOnce'
  <2> DEFINE n == Len(letters[j])
  <2>1. letters' = [letters EXCEPT ![j] = Append(letters[j], Open)]
    BY <1>2 DEF WriteLetter
  <2>2. /\ n \in Nat /\ Len(letters'[j]) = n + 1
        /\ \A i \in 1..n : letters'[j][i] = letters[j][i]
        /\ letters'[j][n + 1] = Open
    BY <1>t, <2>1, AppendProperties, LenProperties
  <2>3. \A i \in 1..Len(letters'[j]) : letters'[j][i] # Open => i \in 1..n
    BY <2>2
  <2>4. {letters'[j][i] : i \in 1..Len(letters'[j])} \ {Open}
           = {letters[j][i] : i \in 1..Len(letters[j])} \ {Open}
    BY <2>2, <2>3
  <2>5. \A i \in Jobs : i # j => letters'[i] = letters[i]
    BY <1>t, <2>1
  <2>6. \A i, k \in 1..Len(letters'[j]) :
           letters'[j][i] = letters'[j][k] /\ letters'[j][i] # Open => i = k
    BY <2>2, <2>3 DEF ReplaysOnce
  <2>7. answered'[j] = {letters'[j][i] : i \in 1..Len(letters'[j])} \ {Open}
    BY <1>2, <2>4 DEF ReplaysOnce
  <2>8. ASSUME NEW i \in Jobs, i # j
        PROVE  /\ \A h, k \in 1..Len(letters'[i]) :
                    letters'[i][h] = letters'[i][k] /\ letters'[i][h] # Open => h = k
               /\ answered'[i] = {letters'[i][h] : h \in 1..Len(letters'[i])} \ {Open}
    <3>1. letters'[i] = letters[i] /\ answered'[i] = answered[i]
      BY <1>2, <2>5, <2>8
    <3> QED
      BY <3>1 DEF ReplaysOnce
  <2> QED
    BY <2>6, <2>7, <2>8 DEF ReplaysOnce
<1>3. ASSUME NEW j \in Jobs, NEW r \in Requests, Replay(j, r) PROVE ReplaysOnce'
  <2> DEFINE n == Len(letters[j])
  <2>1. /\ letters' = [letters EXCEPT ![j] = [letters[j] EXCEPT ![n] = r]]
        /\ answered' = [answered EXCEPT ![j] = answered[j] \union {r}]
        /\ letters[j] # <<>> /\ letters[j][n] = Open /\ r \notin answered[j]
    BY <1>3 DEF Replay, Newest
  <2>2. n \in 1..n
    BY <1>t, <2>1, EmptySeq
  <2>3. /\ Len(letters'[j]) = n
        /\ \A i \in 1..n : letters'[j][i] = IF i = n THEN r ELSE letters[j][i]
    BY <1>t, <2>1, <2>2, ExceptSeq
  <2> HIDE DEF n
  <2>4. \A i \in 1..n : letters[j][i] # r
    BY <1>t, <2>1 DEF ReplaysOnce, n
  <2>5. \A i, k \in 1..n : letters'[j][i] = letters'[j][k] /\ letters'[j][i] # Open => i = k
    BY <2>3, <2>4 DEF ReplaysOnce, n
  <2>6. answered'[j] = {letters'[j][i] : i \in 1..n} \ {Open}
    <3>1. answered[j] = {letters[j][i] : i \in 1..n} \ {Open}
      BY DEF ReplaysOnce, n
    <3>2. answered'[j] = answered[j] \union {r}
      BY <1>t, <2>1
    <3>3. {letters'[j][i] : i \in 1..n} \ {Open} = ({letters[j][i] : i \in 1..n} \ {Open}) \union {r}
      BY <1>t, <2>1, <2>2, <2>3
    <3> QED
      BY <3>1, <3>2, <3>3
  <2>7. \A i \in Jobs : i # j => letters'[i] = letters[i] /\ answered'[i] = answered[i]
    BY <1>t, <2>1
  <2>8. Len(letters'[j]) = n
    BY <2>3
  <2>9. ASSUME NEW i \in Jobs, i # j
        PROVE  /\ \A h, k \in 1..Len(letters'[i]) :
                    letters'[i][h] = letters'[i][k] /\ letters'[i][h] # Open => h = k
               /\ answered'[i] = {letters'[i][h] : h \in 1..Len(letters'[i])} \ {Open}
    <3>1. letters'[i] = letters[i] /\ answered'[i] = answered[i]
      BY <2>7, <2>9
    <3> QED
      BY <3>1 DEF ReplaysOnce
  <2> QED
    BY <2>5, <2>6, <2>8, <2>9 DEF ReplaysOnce
<1>4. Quiet \/ (\E j \in Jobs : Marks(j) \/ Enqueue(j) \/ BecomeDue(j)) => UNCHANGED <<letters, answered>>
  BY DEF Quiet, tables, Marks, Enqueue, BecomeDue
<1>5. ASSUME NEW j \in Jobs, NEW terminal \in BOOLEAN, Fails(j, terminal) PROVE ReplaysOnce'
  BY <1>1, <1>2, <1>5 DEF Fails, Retry, Bury
<1> QED
  BY <1>1, <1>3, <1>4, <1>5, TableStep

(* A request replays a job once, and each dead letter is replayed once. *)
THEOREM ReplaysOnceHolds == Spec => []ReplaysOnce
<1>1. Init => ReplaysOnce
  BY DEF Init, ReplaysOnce
<1> QED
  BY <1>1, TypeInit, TypeNext, ReplaysOnceNext, PTL DEF Spec
----------------------------------------------------------------------------
(* RunsWithinBudget.  The executor's claims - its snapshot and the job it is *)
(* about to start - may be stale: the job may have been failed, succeeded or *)
(* replayed since.  Whatever happened, a claimed job still has a run left.   *)

Claimed == batch \union (IF pc.executor = "starting" THEN {cur.executor} ELSE {})

Spare(j) == runs[j] <= job[j].attempts /\ runs[j] < MaxAttempts[j]

StartsOnce == pc.executor = "starting" => cur.executor \notin batch

BudgetInv ==
  /\ \A j \in Jobs : runs[j] <= job[j].attempts + 1 /\ runs[j] <= MaxAttempts[j]
  /\ \A j \in Jobs : job[j].status \in Pending =>
       runs[j] <= job[j].attempts /\ job[j].attempts < MaxAttempts[j]
  /\ \A j \in Jobs : j \in Claimed => Spare(j)
  /\ \A j \in Jobs : job[j].status = "ABSENT" => runs[j] = 0

(* Only Poll adds to the claims, and a job is claimed once. *)
LEMMA ClaimStep ==
    ASSUME TypeOK, StartsOnce, [Next]_vars
    PROVE  StartsOnce' /\ (Start \/ Poll \/ Claimed' \subseteq Claimed)
<1> DEFINE Goal == StartsOnce' /\ (Start \/ Poll \/ Claimed' \subseteq Claimed)
<1>t. pc \in [executor : ExecutorSteps, loop : LoopSteps]
      /\ cur \in [executor : Jobs \union {NoJob}, loop : Jobs \union {NoJob}]
  BY DEF TypeOK
<1> USE DEF Claimed, StartsOnce, tables, threads, history, Goto, Drop, LoopFrame
<1>1. CASE Pick
  BY <1>t, <1>1 DEF Pick
<1>2. CASE RoundOver
  BY <1>t, <1>2 DEF RoundOver
<1>3. CASE HandlerReturns
  BY <1>t, <1>3 DEF HandlerReturns
<1>4. CASE HandlerRaises
  BY <1>t, <1>4 DEF HandlerRaises
<1>5. CASE HandlerChecks
  BY <1>t, <1>5 DEF HandlerChecks
<1>6. CASE HandlerMarksRunning
  BY <1>t, <1>6 DEF HandlerMarksRunning
<1>7. CASE HandlerReportsSuccess
  BY <1>t, <1>7 DEF HandlerReportsSuccess
<1>8. CASE HandlerReportsFailure
  BY <1>t, <1>8 DEF HandlerReportsFailure
<1>9. CASE Settle
  BY <1>t, <1>9 DEF Settle
<1>10. CASE Succeed
  BY <1>t, <1>10 DEF Succeed
<1>11. CASE Catch
  BY <1>t, <1>11 DEF Catch
<1>12. CASE Fail
  BY <1>t, <1>12 DEF Fail
<1>13. CASE FailBury
  BY <1>t, <1>13 DEF FailBury
<1>14. CASE TriggerMarksRunning
  BY <1>t, <1>14 DEF TriggerMarksRunning
<1>15. CASE TriggerSucceeds
  BY <1>t, <1>15 DEF TriggerSucceeds
<1>16. CASE TriggerFails
  BY <1>t, <1>16 DEF TriggerFails
<1>17. CASE TriggerBury
  BY <1>t, <1>17 DEF TriggerBury
<1>18. ASSUME NEW j \in Jobs, Enqueue(j) PROVE Goal
  BY <1>t, <1>18 DEF Enqueue
<1>19. ASSUME NEW j \in Jobs, TriggerChecks(j) PROVE Goal
  BY <1>t, <1>19 DEF TriggerChecks
<1>20. ASSUME NEW j \in Jobs, BecomeDue(j) PROVE Goal
  BY <1>t, <1>20 DEF BecomeDue
<1>21. ASSUME NEW j \in Jobs, NEW r \in Requests, Replay(j, r) PROVE Goal
  BY <1>t, <1>21 DEF Replay
<1>22. CASE WriteRefusedCaught
  BY <1>t, <1>22 DEF WriteRefusedCaught
<1>23. CASE WriteRefusedUncaught
  BY <1>t, <1>23 DEF WriteRefusedUncaught
<1>24. CASE WriteRefusedInTrigger
  BY <1>t, <1>24 DEF WriteRefusedInTrigger
<1>25. CASE Crash
  BY <1>t, <1>25 DEF Crash
<1>r. ASSUME NEW j \in Jobs, TriggerRepeats(j) PROVE Goal
  BY <1>t, <1>r DEF TriggerRepeats
<1>26. CASE UNCHANGED vars
  BY <1>26 DEF vars
<1>s. CASE Start
  BY <1>t, <1>s DEF Start
<1>p. CASE Poll
  BY <1>t, <1>p DEF Poll
<1> QED
  BY <1>r, <1>s, <1>p, <1>1, <1>2, <1>3, <1>4, <1>5, <1>6, <1>7, <1>8, <1>9, <1>10, <1>11, <1>12, <1>13, <1>14, <1>15, <1>16, <1>17, <1>18, <1>19, <1>20, <1>21, <1>22, <1>23, <1>24, <1>25, <1>26 DEF Next, Executor, Trigger

LEMMA BudgetNext == TypeOK /\ StartsOnce /\ BudgetInv /\ [Next]_vars => BudgetInv' /\ StartsOnce'
<1> SUFFICES ASSUME TypeOK, StartsOnce, BudgetInv, [Next]_vars PROVE BudgetInv'
  BY ClaimStep
<1>t. /\ job \in [Jobs -> JobRow] /\ runs \in [Jobs -> Nat]
      /\ MaxAttempts \in [Jobs -> Nat \ {0}] /\ NoJob \notin Jobs
      /\ \A j \in Jobs : job[j].attempts \in Nat
  BY JobsAssumption DEF TypeOK, JobRow
<1>1. CASE Start
  <2> DEFINE j == cur.executor
  <2>1. /\ j \in Jobs /\ j \in Claimed
        /\ job' = [job EXCEPT ![j].status = "RUNNING"]
        /\ runs' = [runs EXCEPT ![j] = @ + 1]
        /\ Claimed' \subseteq batch
    BY <1>1 DEF Start, TypeOK, Claimed, MarkRunning, Goto
  <2>2. Spare(j)
    BY <2>1 DEF BudgetInv
  <2>3. j \notin batch
    BY <1>1 DEF Start, StartsOnce
  <2> HIDE DEF j
  <2>4. /\ runs'[j] = runs[j] + 1 /\ job'[j].status = "RUNNING"
        /\ job'[j].attempts = job[j].attempts
        /\ \A i \in Jobs : i # j => job'[i] = job[i] /\ runs'[i] = runs[i]
    BY <1>t, <2>1 DEF JobRow
  <2>5. \A i \in Jobs : i \in Claimed' => i # j /\ i \in Claimed
    BY <2>1, <2>3 DEF Claimed
  <2>6. runs[j] + 1 <= job[j].attempts + 1 /\ runs[j] + 1 <= MaxAttempts[j]
    BY <1>t, <2>1, <2>2 DEF Spare
  <2> QED
    BY <1>t, <2>4, <2>5, <2>6 DEF BudgetInv, Spare, Pending
<1>2. CASE Poll
  <2>1. UNCHANGED <<job, runs>> /\ Claimed' \subseteq Claimed \union Due
    BY <1>2 DEF Poll, tables, history, Claimed, Goto, TypeOK
  <2>2. \A j \in Due : job[j].status \in Pending
    BY DEF Due
  <2> QED
    BY <1>t, <2>1, <2>2 DEF BudgetInv, Spare
<1>3. ASSUME Claimed' \subseteq Claimed, ~Start PROVE BudgetInv'
  <2>1. CASE Quiet
    BY <1>3, <2>1 DEF Quiet, tables, BudgetInv, Spare
  <2>2. ASSUME NEW j \in Jobs, Marks(j) PROVE BudgetInv'
    BY <1>t, <1>3, <2>2 DEF Marks, MarkRunning, MarkSucceeded, Pending, BudgetInv, Spare, JobRow
  <2>3. ASSUME NEW j \in Jobs, Enqueue(j) PROVE BudgetInv'
    <3>1. /\ runs[j] = 0 /\ runs' = runs
          /\ job'[j].status = "QUEUED" /\ job'[j].attempts = 0
          /\ \A i \in Jobs : i # j => job'[i] = job[i]
      BY <1>t, <2>3 DEF Enqueue, history, BudgetInv
    <3> QED
      BY <1>t, <1>3, <3>1 DEF BudgetInv, Spare
  <2>4. ASSUME NEW j \in Jobs, BecomeDue(j) PROVE BudgetInv'
    BY <1>t, <1>3, <2>4 DEF BecomeDue, history, BudgetInv, Spare, JobRow
  <2>5. ASSUME NEW j \in Jobs, NEW terminal \in BOOLEAN, Fails(j, terminal) PROVE BudgetInv'
    <3> DEFINE n == NextAttempt(j, terminal)
    <3>1. n \in Nat /\ (n = MaxAttempts[j] \/ n = job[j].attempts + 1)
      BY <1>t DEF NextAttempt
    <3> HIDE DEF n
    <3>2. runs' = runs
      BY <2>5 DEF Fails
    <3>3. CASE job' = job
      BY <1>3, <3>2, <3>3 DEF BudgetInv, Spare
    <3>4. CASE job' = [job EXCEPT ![j].status = "RETRYING", ![j].due = FALSE, ![j].attempts = n]
               /\ n < MaxAttempts[j]
      BY <1>t, <1>3, <3>1, <3>2, <3>4 DEF BudgetInv, Spare, Pending, JobRow
    <3>5. CASE job' = [job EXCEPT ![j].status = "DEAD_LETTERED", ![j].attempts = n]
      BY <1>t, <1>3, <3>1, <3>2, <3>5 DEF BudgetInv, Spare, Pending, JobRow
    <3> QED
      BY <2>5, <3>3, <3>4, <3>5 DEF Fails, Retry, WriteLetter, Bury, n
  <2>6. ASSUME NEW j \in Jobs, NEW r \in Requests, Replay(j, r) PROVE BudgetInv'
    <3>1. /\ job' = [job EXCEPT ![j].status = "QUEUED", ![j].attempts = 0, ![j].due = TRUE]
          /\ runs' = [runs EXCEPT ![j] = 0]
      BY <2>6 DEF Replay
    <3> QED
      BY <1>t, <1>3, <3>1 DEF BudgetInv, Spare, JobRow
  <2> QED
    BY <2>1, <2>2, <2>3, <2>4, <2>5, <2>6, TableStep
<1> QED
  BY <1>1, <1>2, <1>3, ClaimStep

(* The handler never runs more often than max_attempts between requeueings. *)
THEOREM RunsWithinBudgetHolds == Spec => []RunsWithinBudget
<1>1. Init => BudgetInv /\ StartsOnce
  BY JobsAssumption DEF Init, BudgetInv, StartsOnce, Claimed, Spare, Pending
<1>2. TypeOK /\ BudgetInv => RunsWithinBudget
  BY JobsAssumption DEF TypeOK, BudgetInv, RunsWithinBudget, Due
<1> QED
  BY <1>1, <1>2, TypeInit, TypeNext, BudgetNext, PTL DEF Spec
----------------------------------------------------------------------------
(* Jobs nobody but the executor reports on.  Its snapshot stays true of them *)
(* until it comes to the job, and such a job in its hands stays RUNNING.     *)

InHand == {"handling", "settling", "succeeding", "failing", "burying"}

AloneOf(i) ==
  /\ cur.loop # i
  /\ i \in batch => job[i].status \in Pending
  /\ cur.executor = i =>
       /\ pc.executor \notin {"marking", "reported", "selfBurying"}
       /\ pc.executor = "starting" => job[i].status \in Pending
       /\ pc.executor = "raised" => job[i].status \in Pending \union {"RUNNING"}
       /\ pc.executor \in InHand => job[i].status = "RUNNING"
  /\ burying = i => pc.executor = "burying" /\ cur.executor = i
  /\ i \in lost => job[i].status = "RUNNING" /\ cur.executor # i

OneBurier ==
  /\ pc.executor \in {"burying", "selfBurying"} => burying # NoJob /\ pc.loop # "burying"
  /\ pc.loop = "burying" => burying # NoJob

AloneInv == StartsOnce /\ OneBurier /\ \A i \in Jobs \ Reported : AloneOf(i)

(* What failing a job does to the other jobs, and to its own status. *)
LEMMA FailEffect ==
    ASSUME NEW i \in Jobs, NEW j \in Jobs, NEW terminal, job \in [Jobs -> JobRow]
    PROVE  /\ FailIsNoOp(j) \/ WriteLetter(j, terminal) => job' = job
           /\ Retry(j, terminal) => job'[i].status = IF i = j THEN "RETRYING" ELSE job[i].status
           /\ Bury(j, terminal) => job'[i].status = IF i = j THEN "DEAD_LETTERED" ELSE job[i].status
           /\ i # j /\ (Retry(j, terminal) \/ Bury(j, terminal)) => job'[i] = job[i]
           /\ FailIsNoOp(j) \/ Retry(j, terminal) => burying' = burying
           /\ WriteLetter(j, terminal) => burying' = j
           /\ Bury(j, terminal) => burying = j /\ burying' = NoJob
<1> DEFINE n == NextAttempt(j, terminal)
<1>1. Retry(j, terminal) =>
        job' = [job EXCEPT ![j].status = "RETRYING", ![j].due = FALSE, ![j].attempts = n]
  BY DEF Retry
<1>2. Bury(j, terminal) => job' = [job EXCEPT ![j].status = "DEAD_LETTERED", ![j].attempts = n]
  BY DEF Bury
<1>3. /\ FailIsNoOp(j) => job' = job /\ burying' = burying
      /\ WriteLetter(j, terminal) => job' = job /\ burying' = j
      /\ Retry(j, terminal) => burying' = burying
      /\ Bury(j, terminal) => burying = j /\ burying' = NoJob
  BY DEF FailIsNoOp, WriteLetter, Retry, Bury
<1> HIDE DEF n
<1> QED
  BY <1>1, <1>2, <1>3 DEF JobRow

(* _write_lock is held by the thread between mark_failed's two commits. *)
LEMMA OneBurierNext ==
    ASSUME TypeOK, OneBurier, [Next]_vars
    PROVE  OneBurier'
<1>t. /\ pc \in [executor : ExecutorSteps, loop : LoopSteps] /\ NoJob \notin Jobs
      /\ cur \in [executor : Jobs \union {NoJob}, loop : Jobs \union {NoJob}]
      /\ cur.executor = NoJob <=> pc.executor \in {"polling", "picking", "dead"}
      /\ cur.loop = NoJob <=> pc.loop = "idle"
  BY JobsAssumption DEF TypeOK
<1> USE DEF OneBurier, tables, threads, history, Goto, LoopFrame, Unlocked, WriteRefused
<1>1. ASSUME Poll PROVE OneBurier'
  BY <1>t, <1>1 DEF Poll
<1>2. ASSUME Pick PROVE OneBurier'
  BY <1>t, <1>2 DEF Pick
<1>3. ASSUME RoundOver PROVE OneBurier'
  BY <1>t, <1>3 DEF RoundOver
<1>4. ASSUME Start PROVE OneBurier'
  BY <1>t, <1>4 DEF Start
<1>5. ASSUME HandlerReturns PROVE OneBurier'
  BY <1>t, <1>5 DEF HandlerReturns
<1>6. ASSUME HandlerRaises PROVE OneBurier'
  BY <1>t, <1>6 DEF HandlerRaises
<1>7. ASSUME HandlerChecks PROVE OneBurier'
  BY <1>t, <1>7 DEF HandlerChecks
<1>8. ASSUME HandlerMarksRunning PROVE OneBurier'
  BY <1>t, <1>8 DEF HandlerMarksRunning
<1>9. ASSUME HandlerReportsSuccess PROVE OneBurier'
  BY <1>t, <1>9 DEF HandlerReportsSuccess
<1>10. ASSUME HandlerReportsFailure PROVE OneBurier'
  BY <1>t, <1>10 DEF HandlerReportsFailure, FailIsNoOp, Retry, WriteLetter
<1>11. ASSUME Settle PROVE OneBurier'
  BY <1>t, <1>11 DEF Settle
<1>12. ASSUME Succeed PROVE OneBurier'
  BY <1>t, <1>12 DEF Succeed
<1>13. ASSUME Catch PROVE OneBurier'
  BY <1>t, <1>13 DEF Catch
<1>14. ASSUME Fail PROVE OneBurier'
  BY <1>t, <1>14 DEF Fail, FailIsNoOp, Retry, WriteLetter
<1>15. ASSUME FailBury PROVE OneBurier'
  BY <1>t, <1>15 DEF FailBury, Bury
<1>16. ASSUME TriggerMarksRunning PROVE OneBurier'
  BY <1>t, <1>16 DEF TriggerMarksRunning
<1>17. ASSUME TriggerSucceeds PROVE OneBurier'
  BY <1>t, <1>17 DEF TriggerSucceeds
<1>18. ASSUME TriggerFails PROVE OneBurier'
  BY <1>t, <1>18 DEF TriggerFails, FailIsNoOp, Retry, WriteLetter
<1>19. ASSUME TriggerBury PROVE OneBurier'
  BY <1>t, <1>19 DEF TriggerBury, Bury
<1>20. ASSUME NEW j \in Jobs, Enqueue(j) PROVE OneBurier'
  BY <1>t, <1>20 DEF Enqueue
<1>21. ASSUME NEW j \in Jobs, TriggerChecks(j) PROVE OneBurier'
  BY <1>t, <1>21 DEF TriggerChecks
<1>22. ASSUME NEW j \in Jobs, BecomeDue(j) PROVE OneBurier'
  BY <1>t, <1>22 DEF BecomeDue
<1>23. ASSUME NEW j \in Jobs, NEW r \in Requests, Replay(j, r) PROVE OneBurier'
  BY <1>t, <1>23 DEF Replay
<1>24. ASSUME WriteRefusedCaught PROVE OneBurier'
  BY <1>t, <1>24 DEF WriteRefusedCaught
<1>25. ASSUME WriteRefusedUncaught PROVE OneBurier'
  BY <1>t, <1>25 DEF WriteRefusedUncaught
<1>26. ASSUME WriteRefusedInTrigger PROVE OneBurier'
  BY <1>t, <1>26 DEF WriteRefusedInTrigger
<1>27. ASSUME Crash PROVE OneBurier'
  BY <1>t, <1>27 DEF Crash
<1>r. ASSUME NEW j \in Jobs, TriggerRepeats(j) PROVE OneBurier'
  BY <1>t, <1>r DEF TriggerRepeats
<1>28. ASSUME UNCHANGED vars PROVE OneBurier'
  BY <1>t, <1>28 DEF vars
<1> QED
  BY <1>r, <1>1, <1>2, <1>3, <1>4, <1>5, <1>6, <1>7, <1>8, <1>9, <1>10, <1>11, <1>12,
     <1>13, <1>14, <1>15, <1>16, <1>17, <1>18, <1>19, <1>20, <1>21, <1>22,
     <1>23, <1>24, <1>25, <1>26, <1>27, <1>28
     DEF Next, Executor, Trigger

LEMMA AloneNext ==
    ASSUME NEW i \in Jobs \ Reported, TypeOK, StartsOnce, AloneOf(i), [Next]_vars
    PROVE  AloneOf(i)'
<1>t. /\ job \in [Jobs -> JobRow] /\ batch \in SUBSET Jobs /\ lost \in SUBSET Jobs
      /\ pc \in [executor : ExecutorSteps, loop : LoopSteps]
      /\ cur \in [executor : Jobs \union {NoJob}, loop : Jobs \union {NoJob}]
      /\ cur.executor = NoJob <=> pc.executor \in {"polling", "picking", "dead"}
      /\ cur.loop = NoJob <=> pc.loop = "idle"
      /\ NoJob \notin Jobs /\ burying \in Jobs \union {NoJob} /\ fatal \in BOOLEAN
  BY JobsAssumption DEF TypeOK, JobRow
<1> USE DEF AloneOf, InHand, StartsOnce, tables, threads, history, Goto, Drop, LoopFrame,
      MarkRunning, MarkSucceeded, Pending, Unlocked, JobRow, WriteRefused, Due
<1>1. ASSUME Poll PROVE AloneOf(i)'
  BY <1>t, <1>1 DEF Poll
<1>2. ASSUME Pick PROVE AloneOf(i)'
  BY <1>t, <1>2 DEF Pick
<1>3. ASSUME RoundOver PROVE AloneOf(i)'
  BY <1>t, <1>3 DEF RoundOver
<1>4. ASSUME Start PROVE AloneOf(i)'
  BY <1>t, <1>4 DEF Start
<1>5. ASSUME HandlerReturns PROVE AloneOf(i)'
  BY <1>t, <1>5 DEF HandlerReturns
<1>6. ASSUME HandlerRaises PROVE AloneOf(i)'
  BY <1>t, <1>6 DEF HandlerRaises
<1>7. ASSUME HandlerChecks PROVE AloneOf(i)'
  BY <1>t, <1>7 DEF HandlerChecks
<1>8. ASSUME HandlerMarksRunning PROVE AloneOf(i)'
  BY <1>t, <1>8 DEF HandlerMarksRunning
<1>9. ASSUME HandlerReportsSuccess PROVE AloneOf(i)'
  BY <1>t, <1>9 DEF HandlerReportsSuccess
<1>10. ASSUME HandlerReportsFailure PROVE AloneOf(i)'
  <2>1. /\ cur.executor \in Jobs /\ cur.executor # i /\ burying = NoJob
        /\ UNCHANGED <<batch, lost, cur>> /\ pc'.loop = pc.loop
    BY <1>t, <1>10 DEF HandlerReportsFailure
  <2>2. \/ FailIsNoOp(cur.executor)
        \/ Retry(cur.executor, FALSE)
        \/ WriteLetter(cur.executor, FALSE)
    BY <1>10 DEF HandlerReportsFailure
  <2> QED
    BY <1>t, <2>1, <2>2, FailEffect
<1>11. ASSUME Settle PROVE AloneOf(i)'
  BY <1>t, <1>11 DEF Settle
<1>12. ASSUME Succeed PROVE AloneOf(i)'
  BY <1>t, <1>12 DEF Succeed
<1>13. ASSUME Catch PROVE AloneOf(i)'
  BY <1>t, <1>13 DEF Catch
<1>14. ASSUME Fail PROVE AloneOf(i)'
  <2>1. /\ cur.executor \in Jobs /\ burying = NoJob
        /\ UNCHANGED <<batch, lost>>
    BY <1>t, <1>14 DEF Fail
  <2>2. \/ FailIsNoOp(cur.executor) /\ pc' = [pc EXCEPT !["executor"] = "picking"]
           /\ cur' = [cur EXCEPT !["executor"] = NoJob]
        \/ Retry(cur.executor, fatal) /\ pc' = [pc EXCEPT !["executor"] = "picking"]
           /\ cur' = [cur EXCEPT !["executor"] = NoJob]
        \/ WriteLetter(cur.executor, fatal) /\ pc' = [pc EXCEPT !["executor"] = "burying"]
           /\ cur' = cur
    BY <1>14 DEF Fail
  <2>3. pc.executor = "failing"
    BY <1>14 DEF Fail
  <2>4. CASE cur.executor # i
    BY <1>t, <2>1, <2>2, <2>3, <2>4, FailEffect
  <2>5. CASE cur.executor = i
    <3>1. job[i].status = "RUNNING" /\ i \notin lost /\ i \notin batch
      BY <1>t, <2>3, <2>5
    <3> QED
      BY <1>t, <2>1, <2>2, <2>5, <3>1, FailEffect
  <2> QED
    BY <2>4, <2>5
<1>15. ASSUME FailBury PROVE AloneOf(i)'
  <2>1. \/ /\ Bury(cur.executor, fatal) /\ pc' = [pc EXCEPT !["executor"] = "picking"]
           /\ cur' = [cur EXCEPT !["executor"] = NoJob]
        \/ /\ Bury(cur.executor, FALSE) /\ pc' = [pc EXCEPT !["executor"] = "raised"]
           /\ cur' = cur /\ pc.executor = "selfBurying"
    BY <1>15 DEF FailBury
  <2>2. cur.executor \in Jobs /\ UNCHANGED <<batch, lost>>
    BY <1>t, <1>15 DEF FailBury
  <2>3. CASE cur.executor # i
    <3>1. Bury(cur.executor, fatal) => job'[i] = job[i] /\ burying = cur.executor /\ burying' = NoJob
      BY <1>t, <2>2, <2>3, FailEffect
    <3>2. Bury(cur.executor, FALSE) => job'[i] = job[i] /\ burying = cur.executor /\ burying' = NoJob
      BY <1>t, <2>2, <2>3, FailEffect
    <3> QED
      BY <1>t, <2>1, <2>2, <2>3, <3>1, <3>2
  <2>4. CASE cur.executor = i
    <3>1. job[i].status = "RUNNING" /\ i \notin lost /\ i \notin batch /\ pc.executor = "burying"
      BY <1>t, <2>4, <1>15 DEF FailBury
    <3> QED
      BY <1>t, <2>1, <2>2, <2>4, <3>1, FailEffect
  <2> QED
    BY <2>3, <2>4
<1>16. ASSUME TriggerMarksRunning PROVE AloneOf(i)'
  BY <1>t, <1>16 DEF TriggerMarksRunning
<1>17. ASSUME TriggerSucceeds PROVE AloneOf(i)'
  BY <1>t, <1>17 DEF TriggerSucceeds
<1>18. ASSUME TriggerFails PROVE AloneOf(i)'
  <2>1. /\ cur.loop \in Jobs /\ cur.loop # i /\ burying = NoJob
        /\ UNCHANGED <<batch, lost>> /\ pc'.executor = pc.executor /\ cur'.executor = cur.executor
        /\ cur'.loop \in {cur.loop, NoJob}
    BY <1>t, <1>18 DEF TriggerFails
  <2>2. \/ FailIsNoOp(cur.loop)
        \/ Retry(cur.loop, FALSE)
        \/ WriteLetter(cur.loop, FALSE)
    BY <1>18 DEF TriggerFails
  <2>3. Retry(cur.loop, FALSE) => job'[i] = job[i] /\ burying' = burying
    BY <1>t, <2>1, FailEffect
  <2>4. /\ FailIsNoOp(cur.loop) => job' = job /\ burying' = burying
        /\ WriteLetter(cur.loop, FALSE) => job' = job /\ burying' = cur.loop
    BY DEF FailIsNoOp, WriteLetter
  <2>5. job'[i] = job[i] /\ burying' # i
    BY <1>t, <2>1, <2>2, <2>3, <2>4
  <2> QED
    BY <1>t, <2>1, <2>5
<1>19. ASSUME TriggerBury PROVE AloneOf(i)'
  <2>1. /\ cur.loop \in Jobs /\ cur.loop # i /\ Bury(cur.loop, FALSE)
        /\ UNCHANGED <<batch, lost>> /\ pc'.executor = pc.executor /\ cur'.executor = cur.executor
        /\ cur'.loop = NoJob
    BY <1>t, <1>19 DEF TriggerBury, Bury
  <2>2. job'[i] = job[i] /\ burying' = NoJob
    BY <1>t, <2>1, FailEffect
  <2> QED
    BY <1>t, <2>1, <2>2
<1>20. ASSUME NEW j \in Jobs, Enqueue(j) PROVE AloneOf(i)'
  BY <1>t, <1>20 DEF Enqueue
<1>21. ASSUME NEW j \in Jobs, TriggerChecks(j) PROVE AloneOf(i)'
  BY <1>t, <1>21 DEF TriggerChecks
<1>22. ASSUME NEW j \in Jobs, BecomeDue(j) PROVE AloneOf(i)'
  BY <1>t, <1>22 DEF BecomeDue
<1>23. ASSUME NEW j \in Jobs, NEW r \in Requests, Replay(j, r) PROVE AloneOf(i)'
  BY <1>t, <1>23 DEF Replay
<1>24. ASSUME WriteRefusedCaught PROVE AloneOf(i)'
  BY <1>t, <1>24 DEF WriteRefusedCaught
<1>25. ASSUME WriteRefusedUncaught PROVE AloneOf(i)'
  BY <1>t, <1>25 DEF WriteRefusedUncaught
<1>26. ASSUME WriteRefusedInTrigger PROVE AloneOf(i)'
  BY <1>t, <1>26 DEF WriteRefusedInTrigger
<1>27. ASSUME Crash PROVE AloneOf(i)'
  BY <1>t, <1>27 DEF Crash
<1>r. ASSUME NEW j \in Jobs, TriggerRepeats(j) PROVE AloneOf(i)'
  BY <1>t, <1>r DEF TriggerRepeats
<1>28. ASSUME UNCHANGED vars PROVE AloneOf(i)'
  BY <1>t, <1>28 DEF vars
<1> QED
  BY <1>r, <1>1, <1>2, <1>3, <1>4, <1>5, <1>6, <1>7, <1>8, <1>9, <1>10, <1>11, <1>12,
     <1>13, <1>14, <1>15, <1>16, <1>17, <1>18, <1>19, <1>20, <1>21, <1>22,
     <1>23, <1>24, <1>25, <1>26, <1>27, <1>28
     DEF Next, Executor, Trigger

LEMMA AloneInvNext == TypeOK /\ AloneInv /\ [Next]_vars => AloneInv'
BY AloneNext, OneBurierNext, ClaimStep DEF AloneInv

LEMMA AloneInit == Init => AloneInv
BY JobsAssumption DEF Init, AloneInv, AloneOf, OneBurier, StartsOnce, InHand

(* A settled job that changes is a dead-lettered one being replayed. *)
LEMMA SettledStep ==
    ASSUME NEW i \in Jobs \ Reported, TypeOK, AloneOf(i), [Next]_vars,
           job[i].status \in Settled, job'[i] # job[i]
    PROVE  job[i].status = "DEAD_LETTERED" /\ answered'[i] # answered[i]
<1> DEFINE Goal == job[i].status = "DEAD_LETTERED" /\ answered'[i] # answered[i]
<1>t. /\ job \in [Jobs -> JobRow] /\ answered \in [Jobs -> SUBSET Requests]
      /\ cur \in [executor : Jobs \union {NoJob}, loop : Jobs \union {NoJob}]
      /\ cur.executor = NoJob <=> pc.executor \in {"polling", "picking", "dead"}
      /\ cur.loop = NoJob <=> pc.loop = "idle" /\ fatal \in BOOLEAN
      /\ cur.loop # i
      /\ cur.executor = i => pc.executor \notin InHand \union {"starting", "raised", "marking", "reported", "selfBurying"}
  BY JobsAssumption DEF TypeOK, JobRow, AloneOf, Settled, Pending, InHand
<1> USE DEF InHand, Settled, tables, threads, history,
      MarkRunning, MarkSucceeded, Pending, JobRow, WriteRefused
<1>1. ASSUME Poll PROVE Goal
  BY <1>t, <1>1 DEF Poll
<1>2. ASSUME Pick PROVE Goal
  BY <1>t, <1>2 DEF Pick
<1>3. ASSUME RoundOver PROVE Goal
  BY <1>t, <1>3 DEF RoundOver
<1>4. ASSUME Start PROVE Goal
  BY <1>t, <1>4 DEF Start
<1>5. ASSUME HandlerReturns PROVE Goal
  BY <1>t, <1>5 DEF HandlerReturns
<1>6. ASSUME HandlerRaises PROVE Goal
  BY <1>t, <1>6 DEF HandlerRaises
<1>7. ASSUME HandlerChecks PROVE Goal
  BY <1>t, <1>7 DEF HandlerChecks
<1>8. ASSUME HandlerMarksRunning PROVE Goal
  BY <1>t, <1>8 DEF HandlerMarksRunning
<1>9. ASSUME HandlerReportsSuccess PROVE Goal
  BY <1>t, <1>9 DEF HandlerReportsSuccess
<1>10. ASSUME HandlerReportsFailure PROVE Goal
  BY <1>t, <1>10, FailEffect DEF HandlerReportsFailure
<1>11. ASSUME Settle PROVE Goal
  BY <1>t, <1>11 DEF Settle
<1>12. ASSUME Succeed PROVE Goal
  BY <1>t, <1>12 DEF Succeed
<1>13. ASSUME Catch PROVE Goal
  BY <1>t, <1>13 DEF Catch
<1>14. ASSUME Fail PROVE Goal
  <2>1. cur.executor \in Jobs /\ cur.executor # i
    BY <1>t, <1>14 DEF Fail
  <2>2. FailIsNoOp(cur.executor) \/ Retry(cur.executor, fatal) \/ WriteLetter(cur.executor, fatal)
    BY <1>14 DEF Fail
  <2>3. Retry(cur.executor, fatal) => job'[i] = job[i]
    BY <1>t, <2>1, FailEffect
  <2>4. FailIsNoOp(cur.executor) \/ WriteLetter(cur.executor, fatal) => job' = job
    BY DEF FailIsNoOp, WriteLetter
  <2> QED
    BY <2>2, <2>3, <2>4
<1>15. ASSUME FailBury PROVE Goal
  <2>1. cur.executor \in Jobs /\ cur.executor # i
    BY <1>t, <1>15 DEF FailBury
  <2>2. Bury(cur.executor, fatal) \/ Bury(cur.executor, FALSE)
    BY <1>15 DEF FailBury
  <2>3. Bury(cur.executor, fatal) => job'[i] = job[i]
    BY <1>t, <2>1, FailEffect
  <2>4. Bury(cur.executor, FALSE) => job'[i] = job[i]
    BY <1>t, <2>1, FailEffect
  <2> QED
    BY <2>2, <2>3, <2>4
<1>16. ASSUME TriggerMarksRunning PROVE Goal
  BY <1>t, <1>16 DEF TriggerMarksRunning
<1>17. ASSUME TriggerSucceeds PROVE Goal
  BY <1>t, <1>17 DEF TriggerSucceeds
<1>18. ASSUME TriggerFails PROVE Goal
  BY <1>t, <1>18, FailEffect DEF TriggerFails
<1>19. ASSUME TriggerBury PROVE Goal
  BY <1>t, <1>19, FailEffect DEF TriggerBury
<1>20. ASSUME NEW j \in Jobs, Enqueue(j) PROVE Goal
  BY <1>t, <1>20 DEF Enqueue
<1>21. ASSUME NEW j \in Jobs, TriggerChecks(j) PROVE Goal
  BY <1>t, <1>21 DEF TriggerChecks
<1>22. ASSUME NEW j \in Jobs, BecomeDue(j) PROVE Goal
  BY <1>t, <1>22 DEF BecomeDue
<1>23. ASSUME NEW j \in Jobs, NEW r \in Requests, Replay(j, r) PROVE Goal
  BY <1>t, <1>23 DEF Replay
<1>24. ASSUME WriteRefusedCaught PROVE Goal
  BY <1>t, <1>24 DEF WriteRefusedCaught
<1>25. ASSUME WriteRefusedUncaught PROVE Goal
  BY <1>t, <1>25 DEF WriteRefusedUncaught
<1>26. ASSUME WriteRefusedInTrigger PROVE Goal
  BY <1>t, <1>26 DEF WriteRefusedInTrigger
<1>27. ASSUME Crash PROVE Goal
  BY <1>t, <1>27 DEF Crash
<1>r. ASSUME NEW j \in Jobs, TriggerRepeats(j) PROVE Goal
  BY <1>t, <1>r DEF TriggerRepeats
<1>28. ASSUME UNCHANGED vars PROVE Goal
  BY <1>t, <1>28 DEF vars
<1> QED
  BY <1>r, <1>1, <1>2, <1>3, <1>4, <1>5, <1>6, <1>7, <1>8, <1>9, <1>10, <1>11, <1>12,
     <1>13, <1>14, <1>15, <1>16, <1>17, <1>18, <1>19, <1>20, <1>21, <1>22,
     <1>23, <1>24, <1>25, <1>26, <1>27, <1>28
     DEF Next, Executor, Trigger

(* Settled jobs that only the executor reports on change by a replay only. *)
THEOREM SettledForGoodHolds == Spec => SettledForGood
<1>1. TypeOK /\ AloneInv /\ [Next]_vars =>
        [\A j \in Jobs \ Reported : job[j].status \in Settled /\ job'[j] # job[j] =>
           job[j].status = "DEAD_LETTERED" /\ answered'[j] # answered[j]]_vars
  BY SettledStep DEF AloneInv
<1> QED
  BY <1>1, AloneInvNext, AloneInit, TypeInit, TypeNext, PTL DEF Spec, SettledForGood

(* Nothing is forgotten of the jobs that were cut off, and a letter whose    *)
(* second commit never comes is of a job cut off.                            *)
LEMMA LostGrows ==
    ASSUME NEW i \in Jobs \ Reported, TypeOK, OneBurier, AloneOf(i), [Next]_vars
    PROVE  /\ i \in lost => i \in lost'
           /\ burying = i /\ burying' # i => i \in lost' \/ job'[i].status = "DEAD_LETTERED"
<1> DEFINE Goal == /\ i \in lost => i \in lost'
                   /\ burying = i /\ burying' # i =>
                        i \in lost' \/ job'[i].status = "DEAD_LETTERED"
<1>t. /\ burying \in Jobs \union {NoJob} /\ fatal \in BOOLEAN /\ NoJob \notin Jobs
      /\ job \in [Jobs -> JobRow]
      /\ burying = i => /\ pc.executor = "burying" /\ cur.executor = i
                       /\ pc.loop # "burying" /\ job[i].status = "RUNNING"
      /\ cur.loop # i
      /\ cur.executor = NoJob <=> pc.executor \in {"polling", "picking", "dead"}
      /\ cur.loop = NoJob <=> pc.loop = "idle"
      /\ cur.executor \in Jobs \union {NoJob} /\ cur.loop \in Jobs \union {NoJob}
  BY JobsAssumption DEF TypeOK, AloneOf, InHand, OneBurier, JobRow
<1> USE DEF history, tables, Unlocked
<1>1. ASSUME Poll PROVE Goal
  BY <1>t, <1>1 DEF Poll
<1>2. ASSUME Pick PROVE Goal
  BY <1>t, <1>2 DEF Pick
<1>3. ASSUME RoundOver PROVE Goal
  BY <1>t, <1>3 DEF RoundOver
<1>4. ASSUME Start PROVE Goal
  BY <1>t, <1>4 DEF Start
<1>5. ASSUME HandlerReturns PROVE Goal
  BY <1>t, <1>5 DEF HandlerReturns
<1>6. ASSUME HandlerRaises PROVE Goal
  BY <1>t, <1>6 DEF HandlerRaises
<1>7. ASSUME HandlerChecks PROVE Goal
  BY <1>t, <1>7 DEF HandlerChecks
<1>8. ASSUME HandlerMarksRunning PROVE Goal
  BY <1>t, <1>8 DEF HandlerMarksRunning
<1>9. ASSUME HandlerReportsSuccess PROVE Goal
  BY <1>t, <1>9 DEF HandlerReportsSuccess
<1>10. ASSUME HandlerReportsFailure PROVE Goal
  BY <1>t, <1>10, FailEffect DEF HandlerReportsFailure
<1>11. ASSUME Settle PROVE Goal
  BY <1>t, <1>11 DEF Settle
<1>12. ASSUME Succeed PROVE Goal
  BY <1>t, <1>12 DEF Succeed
<1>13. ASSUME Catch PROVE Goal
  BY <1>t, <1>13 DEF Catch
<1>14. ASSUME Fail PROVE Goal
  BY <1>t, <1>14, FailEffect DEF Fail
<1>15. ASSUME FailBury PROVE Goal
  BY <1>t, <1>15, FailEffect DEF FailBury
<1>16. ASSUME TriggerMarksRunning PROVE Goal
  BY <1>t, <1>16 DEF TriggerMarksRunning
<1>17. ASSUME TriggerSucceeds PROVE Goal
  BY <1>t, <1>17 DEF TriggerSucceeds
<1>18. ASSUME TriggerFails PROVE Goal
  BY <1>t, <1>18, FailEffect DEF TriggerFails
<1>19. ASSUME TriggerBury PROVE Goal
  BY <1>t, <1>19, FailEffect DEF TriggerBury
<1>20. ASSUME NEW j \in Jobs, Enqueue(j) PROVE Goal
  BY <1>t, <1>20 DEF Enqueue
<1>21. ASSUME NEW j \in Jobs, TriggerChecks(j) PROVE Goal
  BY <1>t, <1>21 DEF TriggerChecks
<1>22. ASSUME NEW j \in Jobs, BecomeDue(j) PROVE Goal
  BY <1>t, <1>22 DEF BecomeDue
<1>23. ASSUME NEW j \in Jobs, NEW r \in Requests, Replay(j, r) PROVE Goal
  BY <1>t, <1>23 DEF Replay
<1>24. ASSUME WriteRefusedCaught PROVE Goal
  BY <1>t, <1>24 DEF WriteRefusedCaught, WriteRefused
<1>25. ASSUME WriteRefusedUncaught PROVE Goal
  BY <1>t, <1>25 DEF WriteRefusedUncaught, WriteRefused
<1>26. ASSUME WriteRefusedInTrigger PROVE Goal
  BY <1>t, <1>26 DEF WriteRefusedInTrigger, WriteRefused
<1>27. ASSUME Crash PROVE Goal
  BY <1>t, <1>27 DEF Crash
<1>r. ASSUME NEW j \in Jobs, TriggerRepeats(j) PROVE Goal
  BY <1>t, <1>r DEF TriggerRepeats
<1>28. ASSUME UNCHANGED vars PROVE Goal
  BY <1>t, <1>28 DEF vars
<1> QED
  BY <1>r, <1>1, <1>2, <1>3, <1>4, <1>5, <1>6, <1>7, <1>8, <1>9, <1>10, <1>11, <1>12,
     <1>13, <1>14, <1>15, <1>16, <1>17, <1>18, <1>19, <1>20, <1>21, <1>22,
     <1>23, <1>24, <1>25, <1>26, <1>27, <1>28
     DEF Next, Executor, Trigger
----------------------------------------------------------------------------
(* OpenLettersAreOfTheDead: before a letter is written, no older one is open.*)

IsOpen(j) == \E k \in 1..Len(letters[j]) : letters[j][k] = Open

OpenOf(i) ==
  /\ IsOpen(i) => job[i].status = "DEAD_LETTERED" \/ burying = i \/ i \in lost
  /\ \A k \in 1..Len(letters[i]) : letters[i][k] = Open => k = Len(letters[i])

OpenInv == \A i \in Jobs \ Reported : OpenOf(i)

LEMMA OpenNext ==
    ASSUME NEW i \in Jobs \ Reported, TypeOK, StartsOnce, OneBurier, AloneOf(i), OpenOf(i), [Next]_vars
    PROVE  OpenOf(i)'
<1>a. AloneOf(i)'
  BY AloneNext
<1>c. /\ i \in lost => i \in lost'
      /\ burying = i /\ burying' # i => i \in lost' \/ job'[i].status = "DEAD_LETTERED"
  BY LostGrows
<1>d. answered' = answered /\ job[i].status = "DEAD_LETTERED" => job'[i].status = "DEAD_LETTERED"
  BY SettledStep DEF Settled
<1>t. /\ job \in [Jobs -> JobRow] /\ letters \in [Jobs -> Seq(Requests \union {Open})]
      /\ Open \notin Requests /\ NoJob \notin Jobs /\ burying \in Jobs \union {NoJob}
  BY JobsAssumption DEF TypeOK, JobRow
<1>1. ASSUME letters'[i] = letters[i], answered' = answered PROVE OpenOf(i)'
  BY <1>1, <1>c, <1>d DEF OpenOf, IsOpen
<1>2. CASE Quiet
  BY <1>1, <1>2 DEF Quiet, tables
<1>3. ASSUME NEW j \in Jobs, Marks(j) \/ Enqueue(j) \/ BecomeDue(j) PROVE OpenOf(i)'
  BY <1>1, <1>3 DEF Marks, Enqueue, BecomeDue
<1>4. ASSUME NEW j \in Jobs, NEW terminal \in BOOLEAN, Fails(j, terminal) PROVE OpenOf(i)'
  <2>1. CASE Retry(j, terminal) \/ Bury(j, terminal)
    BY <1>1, <1>4, <2>1 DEF Fails, Retry, Bury
  <2>2. CASE WriteLetter(j, terminal) /\ j # i
    BY <1>1, <1>4, <1>t, <2>2 DEF Fails, WriteLetter
  <2>3. CASE WriteLetter(i, terminal) /\ Unlocked /\ j = i
    <3>1. /\ letters' = [letters EXCEPT ![i] = Append(letters[i], Open)]
          /\ burying' = i /\ burying = NoJob /\ job' = job
          /\ job[i].status # "DEAD_LETTERED"
      BY <2>3 DEF WriteLetter, Unlocked
    <3>2. i \notin lost
      BY <1>a, <1>c, <1>t, <3>1 DEF AloneOf
    <3>3. ~IsOpen(i)
      BY <1>t, <3>1, <3>2 DEF OpenOf
    <3> DEFINE n == Len(letters[i])
    <3>4. /\ n \in Nat /\ Len(letters'[i]) = n + 1
          /\ \A k \in 1..n : letters'[i][k] = letters[i][k]
      BY <1>t, <3>1, AppendProperties, LenProperties
    <3>5. \A k \in 1..Len(letters'[i]) : letters'[i][k] = Open => k = Len(letters'[i])
      BY <3>3, <3>4 DEF IsOpen
    <3> QED
      BY <3>1, <3>5 DEF OpenOf
  <2> QED
    BY <1>4, <2>1, <2>2, <2>3 DEF Fails
<1>5. ASSUME NEW j \in Jobs, NEW r \in Requests, Replay(j, r) PROVE OpenOf(i)'
  <2>1. CASE j # i
    <3>1. letters'[i] = letters[i] /\ job'[i] = job[i]
      BY <1>t, <1>5, <2>1 DEF Replay
    <3> QED
      BY <1>c, <3>1 DEF OpenOf, IsOpen
  <2>2. CASE j = i
    <3> DEFINE n == Len(letters[i])
    <3>1. /\ letters' = [letters EXCEPT ![i] = [letters[i] EXCEPT ![n] = r]]
          /\ letters[i] # <<>>
      BY <1>5, <2>2 DEF Replay
    <3>2. n \in 1..n
      BY <1>t, <3>1, EmptySeq
    <3>3. /\ Len(letters'[i]) = n
          /\ \A k \in 1..n : letters'[i][k] = IF k = n THEN r ELSE letters[i][k]
      BY <1>t, <3>1, <3>2, ExceptSeq
    <3>4. \A k \in 1..Len(letters'[i]) : letters'[i][k] # Open
      BY <1>t, <3>3 DEF OpenOf
    <3> QED
      BY <3>4 DEF OpenOf, IsOpen
  <2> QED
    BY <2>1, <2>2
<1> QED
  BY <1>2, <1>3, <1>4, <1>5, TableStep

(* An open dead letter of a job only the executor reports on is of a         *)
(* dead-lettered job, unless its thread was cut off between the two commits. *)
THEOREM OpenLettersAreOfTheDeadHolds == Spec => []OpenLettersAreOfTheDead
<1>1. Init => OpenInv
  BY DEF Init, OpenInv, OpenOf, IsOpen
<1>2. TypeOK /\ AloneInv /\ OpenInv /\ [Next]_vars => OpenInv'
  BY OpenNext DEF AloneInv, OpenInv
<1>3. OpenInv => OpenLettersAreOfTheDead
  BY DEF OpenInv, OpenOf, IsOpen, OpenLettersAreOfTheDead
<1> QED
  BY <1>1, <1>2, <1>3, AloneInvNext, AloneInit, TypeInit, TypeNext, PTL DEF Spec
=============================================================================

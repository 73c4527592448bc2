------------------------- MODULE JobuExecutionProofs -------------------------
(***************************************************************************)
(* Type correctness of Jobu, and that the memory of the scheduler and of   *)
(* the executors tells the same story as the durable rows, for every value *)
(* of the constants.                                                       *)
(*                                                                         *)
(* None of the three properties is inductive alone.  A successor is a      *)
(* snapshot of the row of the ended run's job, so type correctness needs   *)
(* that every run names a job (RowsHaveOwners); a completion writes to the *)
(* run its correlation names, so it needs that the run is running          *)
(* (MemoryMatchesRows); and a restart starts from an empty memory, so      *)
(* ownership needs that recovery left nothing running.                     *)
(***************************************************************************)
EXTENDS Jobu, TLAPS

\* Every existing run names a job.
RowsHaveOwners ==
    \A r \in Runs : runs[r].state # "absent" => runs[r].job \in Jobs

\* The two row facts of the store, apart from the process state.
StoreInv == StoreType /\ RowsHaveOwners

-----------------------------------------------------------------------------
(* The shared table operations keep their tables well typed.               *)

\* A new schedule-owned run is a well-typed row.
LEMMA ScheduledRunType ==
    ASSUME NEW row \in JobRow, NEW j \in Jobs, NEW due \in BOOLEAN
    PROVE  ScheduledRun(row, j, due) \in RunRow
BY DEF ScheduledRun, JobRow, RunRow, RunStates, LiveStates

\* A new manual run is a well-typed row.
LEMMA ManualRunType ==
    ASSUME NEW row \in JobRow, NEW j \in Jobs
    PROVE  ManualRun(row, j) \in RunRow
BY DEF ManualRun, JobRow, RunRow, RunStates, LiveStates

\* Completing a queue suspension keeps the queue table well typed.
LEMMA DrainQueueType ==
    ASSUME NEW qs \in [Queues -> QueueRow], NEW rs, NEW q
    PROVE  DrainQueue(qs, rs, q) \in [Queues -> QueueRow]
BY DEF DrainQueue, QueueRow, QueueStates

\* Completing a job suspension keeps the job table well typed.
LEMMA DrainJobType ==
    ASSUME NEW js \in [Jobs -> JobRow], NEW rs, NEW j
    PROVE  DrainJob(js, rs, j) \in [Jobs -> JobRow]
BY DEF DrainJob, JobRow, JobStates

\* Finishing a one-time job keeps the job table well typed.
LEMMA FinishJobType ==
    ASSUME NEW js \in [Jobs -> JobRow], NEW rs, NEW r,
           rs[r].state \in TerminalRunStates
    PROVE  FinishJob(js, rs, r) \in [Jobs -> JobRow]
<1> DEFINE st == TerminalJobState(rs[r].state)
<1>1. st \in JobStates
  BY DEF TerminalJobState, JobStates, TerminalJobStates, TerminalRunStates
<1>2. \A j : [js EXCEPT ![j].state = st] \in [Jobs -> JobRow]
  BY <1>1 DEF JobRow
<1> QED BY <1>2 DEF FinishJob

\* A history that got one more attempt is one longer, so not empty.
LEMMA AppendLength ==
    ASSUME NEW S, NEW h \in Seq(S), NEW e \in S
    PROVE  Len(Append(h, e)) = Len(h) + 1 /\ Append(h, e) # << >>
<1>1. Len(Append(h, e)) = Len(h) + 1 /\ Len(h) \in Nat OBVIOUS
<1>2. Len(<< >>) = 0 OBVIOUS
<1> QED BY <1>1, <1>2

\* Closing the latest attempt keeps the history well typed.
LEMMA FinishAttemptType ==
    ASSUME StoreType, NEW r \in Runs, NEW outcome \in TerminalRunStates,
           attempts[r] # << >>, FinishAttempt(r, outcome)
    PROVE  /\ attempts' \in [Runs -> Seq(AttemptStates)]
           /\ Len(attempts'[r]) = Len(attempts[r])
           /\ \A x \in Runs : x # r => attempts'[x] = attempts[x]
<1>1. attempts[r] \in Seq(AttemptStates) BY DEF StoreType
<1>2. outcome \in AttemptStates BY DEF AttemptStates
<1>3. [attempts[r] EXCEPT ![Len(attempts[r])] = outcome] \in Seq(AttemptStates)
  BY <1>1, <1>2
<1>4. Len([attempts[r] EXCEPT ![Len(attempts[r])] = outcome]) = Len(attempts[r])
  BY <1>1, <1>2
<1> QED BY <1>3, <1>4 DEF StoreType, FinishAttempt

-----------------------------------------------------------------------------
(* The runs table after a run ends, and what EndRun and RetryRun write.    *)

\* The table EndRun writes: r is terminal, s is its successor if it has one,
\* and no other row changes.
EndRunRows(r, outcome, s) ==
    /\ runs' \in [Runs -> RunRow]
    /\ runs'[r] = [runs[r] EXCEPT !.state = outcome]
    /\ NeedsSuccessor(r) =>
           /\ s \in Runs /\ s # r
           /\ runs[s].state = "absent"
           /\ runs'[s] = ScheduledRun(jobs[runs[r].job], runs[r].job, FALSE)
    /\ \A x \in Runs : x # r /\ (NeedsSuccessor(r) => x # s) => runs'[x] = runs[x]

\* EndRun writes exactly those rows.
LEMMA EndRunWrites ==
    ASSUME StoreInv, NEW r \in Runs, NEW outcome \in TerminalRunStates,
           NEW s \in SuccessorIds(r), runs[r].state \in LiveStates,
           EndRun(r, outcome, s)
    PROVE  EndRunRows(r, outcome, s)
<1> DEFINE j == runs[r].job
           ended == [runs EXCEPT ![r].state = outcome]
<1>1. runs \in [Runs -> RunRow] /\ jobs \in [Jobs -> JobRow] /\ j \in Jobs
  BY DEF StoreInv, StoreType, RowsHaveOwners, LiveStates
<1>2. /\ ended \in [Runs -> RunRow]
      /\ ended[r] = [runs[r] EXCEPT !.state = outcome]
      /\ \A x \in Runs : x # r => ended[x] = runs[x]
  BY <1>1 DEF RunRow, RunStates
<1>3. ScheduledRun(jobs[j], j, FALSE) \in RunRow
  BY <1>1, ScheduledRunType
<1>4. CASE NeedsSuccessor(r)
  <2>1. s \in Runs /\ runs[s].state = "absent"
    BY <1>4 DEF SuccessorIds, AbsentRuns
  <2>2. s # r
    BY <2>1 DEF LiveStates
  <2>3. runs' = [ended EXCEPT ![s] = ScheduledRun(jobs[j], j, FALSE)]
    BY <1>4 DEF EndRun
  <2> HIDE DEF ended, j
  <2>4. runs' \in [Runs -> RunRow] BY <1>2, <1>3, <2>1, <2>3
  <2>5. runs'[s] = ScheduledRun(jobs[j], j, FALSE) BY <1>2, <2>1, <2>3
  <2>6. \A x \in Runs : x # s => runs'[x] = ended[x] BY <1>2, <2>1, <2>3
  <2> QED BY <1>2, <1>4, <2>1, <2>2, <2>4, <2>5, <2>6 DEF j, EndRunRows
<1>5. CASE ~NeedsSuccessor(r)
  BY <1>2, <1>5 DEF EndRun, EndRunRows
<1> QED BY <1>4, <1>5

\* Ending a run keeps the store well typed.
LEMMA EndRunType ==
    ASSUME StoreInv, NEW r \in Runs, NEW outcome \in TerminalRunStates,
           NEW s \in SuccessorIds(r), runs[r].state \in LiveStates,
           EndRun(r, outcome, s), attempts' \in [Runs -> Seq(AttemptStates)]
    PROVE  StoreInv'
<1> DEFINE j == runs[r].job
<1>12. EndRunRows(r, outcome, s) BY EndRunWrites
<1>0. /\ runs' \in [Runs -> RunRow]
      /\ runs'[r] = [runs[r] EXCEPT !.state = outcome]
      /\ NeedsSuccessor(r) => runs'[s] = ScheduledRun(jobs[j], j, FALSE)
      /\ \A x \in Runs : x # r /\ (NeedsSuccessor(r) => x # s) => runs'[x] = runs[x]
  BY <1>12 DEF EndRunRows
<1>1. runs[r] \in RunRow /\ runs[r].state # "absent"
  BY DEF StoreInv, StoreType, LiveStates
<1>9. runs'[r].state = outcome /\ runs'[r].job = j
  BY <1>0, <1>1 DEF RunRow
<1>10. j \in Jobs
  BY <1>1 DEF StoreInv, RowsHaveOwners
<1>11. NeedsSuccessor(r) => runs'[s].job = j
  BY <1>0 DEF ScheduledRun
<1>2. RowsHaveOwners'
  BY <1>0, <1>9, <1>10, <1>11 DEF StoreInv, RowsHaveOwners
<1>3. /\ queues' = DrainQueue(queues, runs', runs[r].queue)
      /\ jobs' = DrainJob(FinishJob(jobs, runs', r), runs', runs[r].job)
  BY DEF EndRun
<1>4. queues' \in [Queues -> QueueRow]
  BY <1>3, DrainQueueType DEF StoreInv, StoreType
<1>5. FinishJob(jobs, runs', r) \in [Jobs -> JobRow]
  BY <1>9, FinishJobType DEF StoreInv, StoreType
<1>6. jobs' \in [Jobs -> JobRow]
  BY <1>3, <1>5, DrainJobType
<1> QED BY <1>0, <1>2, <1>4, <1>6 DEF StoreInv, StoreType

\* Sending a run to its next attempt keeps the store well typed.
LEMMA RetryRunType ==
    ASSUME StoreInv, NEW r \in Runs, NEW due \in BOOLEAN,
           runs[r].state \in LiveStates,
           RetryRun(r, due), attempts' \in [Runs -> Seq(AttemptStates)]
    PROVE  StoreInv'
<1>1. runs' = [runs EXCEPT ![r].state = "retry_wait", ![r].due = due]
  BY DEF RetryRun
<1>4. runs \in [Runs -> RunRow] /\ runs[r].state # "absent"
  BY DEF StoreInv, StoreType, LiveStates
<1>5. "retry_wait" \in RunStates BY DEF RunStates, LiveStates
<1>6. runs' \in [Runs -> RunRow] BY <1>1, <1>4, <1>5 DEF RunRow
<1>7. \A x \in Runs : runs'[x].job = runs[x].job
  BY <1>1, <1>4 DEF RunRow
<1>8. \A x \in Runs : x # r => runs'[x] = runs[x] BY <1>1, <1>4
<1>2. RowsHaveOwners'
  BY <1>4, <1>7, <1>8 DEF StoreInv, RowsHaveOwners
<1>3. /\ queues' = DrainQueue(queues, runs', runs[r].queue)
      /\ jobs' = DrainJob(jobs, runs', runs[r].job)
  BY <1>1 DEF RetryRun
<1> QED BY <1>2, <1>3, <1>6, DrainQueueType, DrainJobType DEF StoreInv, StoreType

-----------------------------------------------------------------------------
(* One lemma per group of handlers.                                        *)

\* Cancelling pending runs keeps the run table well typed and its owners.
LEMMA CancelPendingType ==
    ASSUME StoreInv, NEW S, runs' = CancelPending(S)
    PROVE  runs' \in [Runs -> RunRow] /\ RowsHaveOwners'
<1>1. runs \in [Runs -> RunRow] BY DEF StoreInv, StoreType
<1>2. "cancelled" \in RunStates BY DEF RunStates, TerminalRunStates
<1>3. \A x \in Runs : [runs[x] EXCEPT !.state = "cancelled"] \in RunRow
  BY <1>1, <1>2 DEF RunRow
<1>4. runs' \in [Runs -> RunRow]
  BY <1>1, <1>3 DEF CancelPending
<1>5. \A x \in Runs : runs'[x].job = runs[x].job
  BY <1>1 DEF CancelPending, RunRow
<1>6. \A x \in Runs : runs'[x].state # "absent" => runs[x].state # "absent"
  BY <1>1 DEF CancelPending
<1> QED BY <1>4, <1>5, <1>6 DEF StoreInv, RowsHaveOwners

\* Queue requests keep the store well typed.
LEMMA QueueRequestType ==
    ASSUME StoreInv, NEW q \in Queues, QueueRequest(q)
    PROVE  StoreInv'
<1> USE DEF StoreInv, StoreType
<1>1. ASSUME NEW limit \in 1..MaxLimit, NEW retry \in BOOLEAN, CreateQueue(q, limit, retry)
      PROVE  StoreInv'
  BY <1>1 DEF CreateQueue, QueueRow, QueueStates, RowsHaveOwners
<1>2. ASSUME NEW limit \in 1..MaxLimit, NEW retry \in BOOLEAN, UpdateQueue(q, limit, retry)
      PROVE  StoreInv'
  BY <1>2 DEF UpdateQueue, QueueRow, RowsHaveOwners
<1>3. CASE SuspendQueue(q)
  <2>1. [queues EXCEPT ![q].state = "suspending"] \in [Queues -> QueueRow]
    BY DEF QueueRow, QueueStates
  <2>2. queues' \in [Queues -> QueueRow]
    BY <1>3, <2>1, DrainQueueType DEF SuspendQueue
  <2> QED BY <1>3, <2>2 DEF SuspendQueue, RowsHaveOwners
<1>4. CASE ResumeQueue(q)
  BY <1>4 DEF ResumeQueue, QueueRow, QueueStates, RowsHaveOwners
<1>5. CASE DeleteQueue(q)
  <2>1. runs' \in [Runs -> RunRow] /\ RowsHaveOwners'
    BY <1>5, CancelPendingType DEF DeleteQueue
  <2>2. queues' \in [Queues -> QueueRow]
    BY <1>5 DEF DeleteQueue, QueueRow, QueueStates
  <2>3. \A x \in Jobs : [jobs[x] EXCEPT !.state = "deleted"] \in JobRow
    BY DEF JobRow, JobStates
  <2>4. jobs' \in [Jobs -> JobRow]
    BY <1>5, <2>3 DEF DeleteQueue
  <2> QED BY <1>5, <2>1, <2>2, <2>4 DEF DeleteQueue
<1> QED BY <1>1, <1>2, <1>3, <1>4, <1>5 DEF QueueRequest

\* Job requests keep the store well typed.
LEMMA JobRequestType ==
    ASSUME StoreInv, NEW j \in Jobs, JobRequest(j)
    PROVE  StoreInv'
<1>0. /\ queues \in [Queues -> QueueRow] /\ jobs \in [Jobs -> JobRow]
      /\ runs \in [Runs -> RunRow] /\ attempts \in [Runs -> Seq(AttemptStates)]
  BY DEF StoreInv, StoreType
<1>1. ASSUME NEW q \in Queues, NEW recurring \in BOOLEAN, NEW due \in BOOLEAN, NEW r \in Runs,
             CreateJob(j, q, recurring, due, r)
      PROVE  StoreInv'
  <2> DEFINE row == [state |-> "active", queue |-> q, recurring |-> recurring, def |-> 0]
  <2>1. row \in JobRow BY StoreAssumption DEF JobRow, JobStates
  <2>2. ScheduledRun(row, j, due) \in RunRow /\ ScheduledRun(row, j, due).job = j
    BY <2>1, ScheduledRunType DEF ScheduledRun
  <2>3. /\ jobs' = [jobs EXCEPT ![j] = row]
        /\ runs' = [runs EXCEPT ![r] = ScheduledRun(row, j, due)]
        /\ queues' = queues /\ attempts' = attempts
    BY <1>1 DEF CreateJob
  <2> HIDE DEF row
  <2> QED BY <1>0, <2>1, <2>2, <2>3 DEF StoreInv, StoreType, RowsHaveOwners
<1>2. ASSUME NEW recurring \in BOOLEAN, NEW due \in BOOLEAN, UpdateJob(j, recurring, due)
      PROVE  StoreInv'
  <2>1. jobs[j].def + 1 \in 0..MaxDef
    BY <1>0, <1>2, StoreAssumption DEF UpdateJob, JobRow
  <2>2. jobs' \in [Jobs -> JobRow]
    BY <1>0, <1>2, <2>1 DEF UpdateJob, JobRow
  <2>3. runs' = Refreshed(j, recurring, due) /\ queues' = queues /\ attempts' = attempts
    BY <1>2 DEF UpdateJob
  <2>4. \A x \in Runs : [runs[x] EXCEPT !.def = jobs[j].def + 1, !.due = due /\ ~recurring] \in RunRow
    BY <1>0, <2>1 DEF RunRow
  <2>5. runs' \in [Runs -> RunRow]
    BY <1>0, <2>3, <2>4 DEF Refreshed
  <2>6. \A x \in Runs : runs'[x].job = runs[x].job /\ runs'[x].state = runs[x].state
    BY <1>0, <2>3 DEF Refreshed, RunRow
  <2> QED BY <1>0, <2>2, <2>3, <2>5, <2>6 DEF StoreInv, StoreType, RowsHaveOwners
<1>3. CASE SuspendJob(j)
  <2>1. [jobs EXCEPT ![j].state = "suspending"] \in [Jobs -> JobRow]
    BY <1>0 DEF JobRow, JobStates
  <2>2. jobs' \in [Jobs -> JobRow]
    BY <1>3, <2>1, DrainJobType DEF SuspendJob
  <2> QED BY <1>0, <1>3, <2>2 DEF SuspendJob, RowsHaveOwners, StoreInv, StoreType
<1>4. CASE ResumeJob(j)
  BY <1>0, <1>4 DEF ResumeJob, JobRow, JobStates, RowsHaveOwners, StoreInv, StoreType
<1>5. ASSUME NEW q \in Queues, MoveJob(j, q)
      PROVE  StoreInv'
  <2>1. runs' = Moved(j, q) /\ queues' = queues /\ attempts' = attempts
    BY <1>5 DEF MoveJob
  <2>2. jobs' \in [Jobs -> JobRow]
    BY <1>0, <1>5 DEF MoveJob, JobRow
  <2>3. runs' \in [Runs -> RunRow]
    BY <1>0, <2>1 DEF Moved, RunRow
  <2>4. \A x \in Runs : runs'[x].job = runs[x].job /\ runs'[x].state = runs[x].state
    BY <1>0, <2>1 DEF Moved, RunRow
  <2> QED BY <1>0, <2>1, <2>2, <2>3, <2>4 DEF StoreInv, StoreType, RowsHaveOwners
<1>6. CASE DeleteJob(j)
  <2>1. runs' \in [Runs -> RunRow] /\ RowsHaveOwners'
    BY <1>6, CancelPendingType DEF DeleteJob
  <2>2. jobs' \in [Jobs -> JobRow]
    BY <1>0, <1>6 DEF DeleteJob, JobRow, JobStates
  <2> QED BY <1>0, <1>6, <2>1, <2>2 DEF DeleteJob, StoreInv, StoreType
<1>7. ASSUME NEW r \in Runs, RunNow(j, r)
      PROVE  StoreInv'
  <2>1. ManualRun(jobs[j], j) \in RunRow /\ ManualRun(jobs[j], j).job = j
    BY <1>0, ManualRunType DEF ManualRun
  <2>2. /\ runs' = [runs EXCEPT ![r] = ManualRun(jobs[j], j)]
        /\ queues' = queues /\ jobs' = jobs /\ attempts' = attempts
    BY <1>7 DEF RunNow
  <2> QED BY <1>0, <2>1, <2>2 DEF StoreInv, StoreType, RowsHaveOwners
<1> QED BY <1>1, <1>2, <1>3, <1>4, <1>5, <1>6, <1>7 DEF JobRequest

\* Retention keeps the store well typed.
LEMMA RetentionStepType ==
    ASSUME StoreInv, RetentionStep
    PROVE  StoreInv'
<1>0. /\ queues \in [Queues -> QueueRow] /\ jobs \in [Jobs -> JobRow]
      /\ runs \in [Runs -> RunRow] /\ attempts \in [Runs -> Seq(AttemptStates)]
  BY DEF StoreInv, StoreType
<1>1. /\ NoRunRow \in RunRow /\ NoRunRow.state = "absent"
      /\ NoJobRow \in JobRow /\ NoQueueRow \in QueueRow
  BY StoreAssumption DEF NoRunRow, NoJobRow, NoQueueRow, RunRow, JobRow, QueueRow,
                         RunStates, JobStates, QueueStates
<1>2. ASSUME NEW r \in Runs, PurgeRun(r) PROVE StoreInv'
  BY <1>0, <1>1, <1>2 DEF PurgeRun, StoreInv, StoreType, RowsHaveOwners
<1>3. ASSUME NEW j \in Jobs, PurgeJob(j) PROVE StoreInv'
  BY <1>0, <1>1, <1>3 DEF PurgeJob, StoreInv, StoreType, RowsHaveOwners
<1>4. ASSUME NEW q \in Queues, PurgeQueue(q) PROVE StoreInv'
  BY <1>0, <1>1, <1>4 DEF PurgeQueue, StoreInv, StoreType, RowsHaveOwners
<1> QED BY <1>2, <1>3, <1>4 DEF RetentionStep

\* The clock keeps the store well typed.
LEMMA BecomeDueType ==
    ASSUME StoreInv, NEW r \in Runs, BecomeDue(r)
    PROVE  StoreInv'
<1>1. runs \in [Runs -> RunRow] BY DEF StoreInv, StoreType
<1>2. runs' \in [Runs -> RunRow]
  BY <1>1 DEF BecomeDue, RunRow
<1>3. \A x \in Runs : runs'[x].job = runs[x].job /\ runs'[x].state = runs[x].state
  BY <1>1 DEF BecomeDue, RunRow
<1> QED BY <1>2, <1>3 DEF BecomeDue, StoreInv, StoreType, RowsHaveOwners

\* The admission of a run keeps the store and the memory well typed.
LEMMA DispatchType ==
    ASSUME StoreInv, MemoryType, NEW r \in Runs, Dispatch(r)
    PROVE  StoreInv' /\ MemoryType'
<1>1. runs \in [Runs -> RunRow] /\ attempts \in [Runs -> Seq(AttemptStates)]
  BY DEF StoreInv, StoreType
<1>2. "running" \in RunStates /\ "running" \in AttemptStates
  BY DEF RunStates, LiveStates, AttemptStates
<1>3. runs' \in [Runs -> RunRow]
  BY <1>1, <1>2 DEF Dispatch, RunRow
<1>4. \A x \in Runs : runs'[x].job = runs[x].job
  BY <1>1 DEF Dispatch, RunRow
<1>5. \A x \in Runs : runs'[x].state # "absent" => runs[x].state # "absent"
  BY <1>1 DEF Dispatch
<1>6. Append(attempts[r], "running") \in Seq(AttemptStates)
  BY <1>1, <1>2
<1>7. attempts' \in [Runs -> Seq(AttemptStates)]
  BY <1>1, <1>6 DEF Dispatch
<1>8. MemoryType'
  BY DEF Dispatch, MemoryType
<1> QED BY <1>3, <1>4, <1>5, <1>7, <1>8 DEF Dispatch, StoreInv, StoreType, RowsHaveOwners

-----------------------------------------------------------------------------
(* The inductive invariant.                                                *)

\* What the correlations of the scheduler and of the executors say of the rows.
MemoryMatchesRows ==
    \A r \in Runs :
        /\ launching = r => runs[r].state = "running" /\ active[r] = 0
        /\ active[r] # 0 => runs[r].state = "running" /\ active[r] = Len(attempts[r])
        /\ r \in cancelling => active[r] # 0
        /\ runs[r].state = "running" => attempts[r] # << >>

\* The executors hold the latest attempt of active runs, and nothing else.
ExecutorsMatchMemory ==
    \A e \in executing : e[2] # 0 /\ active[e[1]] = e[2]

\* Recovery runs alone, on an empty memory, and visits only running runs.
RecoveryIsAlone ==
    /\ daemon \in {"down", "recovering"} => MemoryCleared
    /\ phase = "runs" => /\ daemon = "recovering"
                         /\ \A r \in pending : r \in Runs /\ runs[r].state = "running"

ExecutionInv ==
    /\ TypeOK
    /\ RowsHaveOwners
    /\ MemoryMatchesRows
    /\ ExecutorsMatchMemory
    /\ RecoveryIsAlone
    /\ RunningIsOwned

-----------------------------------------------------------------------------
(* Handlers that touch only the store leave running runs alone.            *)

SameRunning ==
    \A r \in Runs :
        /\ runs'[r].state = "running" <=> runs[r].state = "running"
        /\ runs[r].state = "running" => attempts'[r] = attempts[r]

\* A new row in an unused id is no running run.
LEMMA NewRowSameRunning ==
    ASSUME StoreInv, NEW r \in Runs, NEW row, runs[r].state = "absent",
           row.state = "scheduled", runs' = [runs EXCEPT ![r] = row], attempts' = attempts
    PROVE  SameRunning
BY DEF StoreInv, StoreType, SameRunning

\* No management request starts, stops or rewrites a running run.
LEMMA RequestSameRunning ==
    ASSUME StoreInv,
           \/ \E q \in Queues : QueueRequest(q)
           \/ \E j \in Jobs : JobRequest(j)
    PROVE  SameRunning
<1>0. runs \in [Runs -> RunRow] BY DEF StoreInv, StoreType
<1>1. ASSUME runs' = runs, attempts' = attempts PROVE SameRunning
  BY <1>1 DEF SameRunning
<1>2. ASSUME NEW S, runs' = CancelPending(S), attempts' = attempts PROVE SameRunning
  BY <1>0, <1>2 DEF SameRunning, CancelPending, RunRow
<1>3. ASSUME NEW q \in Queues, QueueRequest(q) PROVE SameRunning
  <2>1. runs' = runs \/ runs' = CancelPending({r \in Runs : runs[r].queue = q})
    BY <1>3 DEF QueueRequest, CreateQueue, UpdateQueue, SuspendQueue, ResumeQueue, DeleteQueue
  <2>2. attempts' = attempts
    BY <1>3 DEF QueueRequest, CreateQueue, UpdateQueue, SuspendQueue, ResumeQueue, DeleteQueue
  <2> QED BY <1>1, <1>2, <2>1, <2>2
<1>4. ASSUME NEW j \in Jobs, JobRequest(j) PROVE SameRunning
  <2>1. ASSUME NEW q \in Queues, NEW recurring \in BOOLEAN, NEW due \in BOOLEAN, NEW r \in Runs,
               CreateJob(j, q, recurring, due, r)
        PROVE  SameRunning
    <3> DEFINE row == [state |-> "active", queue |-> q, recurring |-> recurring, def |-> 0]
    <3>1. ScheduledRun(row, j, due).state = "scheduled" BY DEF ScheduledRun
    <3> QED BY <2>1, <3>1, NewRowSameRunning DEF CreateJob
  <2>2. ASSUME NEW recurring, NEW due, UpdateJob(j, recurring, due) PROVE SameRunning
    BY <1>0, <2>2 DEF UpdateJob, Refreshed, SameRunning, RunRow
  <2>3. CASE SuspendJob(j) \/ ResumeJob(j)
    BY <1>1, <2>3 DEF SuspendJob, ResumeJob
  <2>4. ASSUME NEW q \in Queues, MoveJob(j, q) PROVE SameRunning
    BY <1>0, <2>4 DEF MoveJob, Moved, SameRunning, RunRow
  <2>5. CASE DeleteJob(j)
    BY <1>2, <2>5 DEF DeleteJob
  <2>6. ASSUME NEW r \in Runs, RunNow(j, r) PROVE SameRunning
    <3>1. ManualRun(jobs[j], j).state = "scheduled" BY DEF ManualRun
    <3> QED BY <2>6, <3>1, NewRowSameRunning DEF RunNow
  <2> QED BY <1>4, <2>1, <2>2, <2>3, <2>4, <2>5, <2>6 DEF JobRequest
<1> QED BY <1>3, <1>4

\* Retention removes no running run.
LEMMA RetentionSameRunning ==
    ASSUME StoreInv, RetentionStep
    PROVE  SameRunning
<1>1. ASSUME NEW r \in Runs, PurgeRun(r) PROVE SameRunning
  <2>1. runs[r].state # "running" /\ NoRunRow.state # "running"
    BY <1>1 DEF PurgeRun, TerminalRunStates, NoRunRow
  <2> QED BY <1>1, <2>1 DEF PurgeRun, SameRunning, StoreInv, StoreType
<1> QED BY <1>1 DEF RetentionStep, PurgeJob, PurgeQueue, SameRunning

\* A step that leaves the running runs, the memory and the process alone
\* preserves the invariant.
LEMMA SameRunningInv ==
    ASSUME ExecutionInv, StoreInv', SameRunning, UNCHANGED <<memory, process>>
    PROVE  ExecutionInv'
<1> USE DEF ExecutionInv
<1>1. TypeOK' /\ RowsHaveOwners'
  BY DEF TypeOK, StoreInv, MemoryType, RecoveryType, memory, process
<1>2. MemoryMatchesRows'
  BY DEF MemoryMatchesRows, SameRunning, memory
<1>3. ExecutorsMatchMemory'
  BY DEF ExecutorsMatchMemory, memory
<1>4. RecoveryIsAlone'
  BY DEF RecoveryIsAlone, MemoryCleared, SameRunning, memory, process
<1>5. RunningIsOwned'
  BY DEF RunningIsOwned, SameRunning, memory, process
<1> QED BY <1>1, <1>2, <1>3, <1>4, <1>5

-----------------------------------------------------------------------------
(* Steps that end a run, or its current attempt.                           *)

\* r stops running, and nothing else starts, stops or is rewritten.
OnlyEnds(r) ==
    /\ runs'[r].state # "running"
    /\ \A x \in Runs : x # r =>
           /\ runs'[x].state = "running" <=> runs[x].state = "running"
           /\ attempts'[x] = attempts[x]

\* Ending a run stops that run alone.
LEMMA EndRunOnlyEnds ==
    ASSUME StoreInv, NEW r \in Runs, NEW outcome \in TerminalRunStates,
           NEW s \in SuccessorIds(r), runs[r].state \in LiveStates,
           EndRun(r, outcome, s),
           attempts' \in [Runs -> Seq(AttemptStates)],
           \A x \in Runs : x # r => attempts'[x] = attempts[x]
    PROVE  StoreInv' /\ OnlyEnds(r)
<1>1. EndRunRows(r, outcome, s) BY EndRunWrites
<1>2. runs \in [Runs -> RunRow] BY DEF StoreInv, StoreType
<1>3. outcome # "running" BY DEF TerminalRunStates
<1>4. runs'[r].state # "running" BY <1>1, <1>2, <1>3 DEF EndRunRows, RunRow
<1>5. ASSUME NEW x \in Runs, x # r
      PROVE  runs'[x].state = "running" <=> runs[x].state = "running"
  <2>1. CASE NeedsSuccessor(r) /\ x = s
    BY <1>1, <2>1 DEF EndRunRows, ScheduledRun
  <2>2. CASE ~(NeedsSuccessor(r) /\ x = s)
    BY <1>1, <1>5, <2>2 DEF EndRunRows
  <2> QED BY <2>1, <2>2
<1>6. StoreInv' BY EndRunType
<1> QED BY <1>4, <1>5, <1>6 DEF OnlyEnds

\* Sending a run to its next attempt stops that run alone.
LEMMA RetryRunOnlyEnds ==
    ASSUME StoreInv, NEW r \in Runs, NEW due \in BOOLEAN,
           runs[r].state \in LiveStates, RetryRun(r, due),
           attempts' \in [Runs -> Seq(AttemptStates)],
           \A x \in Runs : x # r => attempts'[x] = attempts[x]
    PROVE  StoreInv' /\ OnlyEnds(r)
<1>1. runs' = [runs EXCEPT ![r].state = "retry_wait", ![r].due = due]
  BY DEF RetryRun
<1>2. runs \in [Runs -> RunRow] BY DEF StoreInv, StoreType
<1>3. runs'[r].state = "retry_wait" BY <1>1, <1>2 DEF RunRow
<1>4. \A x \in Runs : x # r => runs'[x] = runs[x] BY <1>1, <1>2
<1>5. StoreInv' BY RetryRunType
<1> QED BY <1>3, <1>4, <1>5 DEF OnlyEnds

\* Dispatch commits the running state and records the launch.
LEMMA DispatchInv ==
    ASSUME ExecutionInv, daemon = "serving", NEW r \in Runs, Dispatch(r), UNCHANGED process
    PROVE  ExecutionInv'
<1> USE DEF ExecutionInv
<1>0. StoreInv /\ MemoryType BY DEF TypeOK, StoreInv
<1>1. StoreInv' /\ MemoryType' BY <1>0, DispatchType
<1>2. TypeOK' /\ RowsHaveOwners'
  BY <1>1 DEF TypeOK, StoreInv, RecoveryType, process
<1>3. /\ runs[r].state # "running"
      /\ runs'[r].state = "running"
      /\ attempts'[r] # << >>
      /\ \A x \in Runs : x # r => runs'[x] = runs[x] /\ attempts'[x] = attempts[x]
  <2>1. runs \in [Runs -> RunRow] /\ attempts \in [Runs -> Seq(AttemptStates)]
    BY <1>0 DEF StoreInv, StoreType
  <2>2. /\ runs[r].state \in {"scheduled", "retry_wait"}
        /\ runs' = [runs EXCEPT ![r].state = "running"]
        /\ attempts' = [attempts EXCEPT ![r] = Append(@, "running")]
    BY DEF Dispatch
  <2>3. "running" \in AttemptStates BY DEF AttemptStates
  <2>4. attempts[r] \in Seq(AttemptStates) /\ attempts'[r] = Append(attempts[r], "running")
    BY <2>1, <2>2
  <2>5. attempts'[r] # << >> BY <2>3, <2>4, AppendLength
  <2> QED BY <2>1, <2>2, <2>5 DEF RunRow
<1>4. active[r] = 0 BY <1>3 DEF MemoryMatchesRows
<1>5. /\ launching = None /\ launching' = r
      /\ active' = active /\ cancelling' = cancelling /\ executing' = executing
  BY DEF Dispatch
<1>6. MemoryMatchesRows'
  BY <1>3, <1>4, <1>5 DEF MemoryMatchesRows
<1>7. ExecutorsMatchMemory' BY <1>5 DEF ExecutorsMatchMemory
<1>8. RecoveryIsAlone'
  BY DEF RecoveryIsAlone, process
<1>9. RunningIsOwned'
  BY <1>3, <1>5, StoreAssumption DEF RunningIsOwned, process
<1> QED BY <1>2, <1>6, <1>7, <1>8, <1>9

\* The executor takes the attempt over.
LEMMA StartAcceptedInv ==
    ASSUME ExecutionInv, daemon = "serving", NEW r \in Runs, StartAccepted(r), UNCHANGED process
    PROVE  ExecutionInv'
<1> USE DEF ExecutionInv
<1> DEFINE n == Len(attempts[r])
<1>1. attempts[r] \in Seq(AttemptStates) /\ active \in [Runs -> Nat]
  BY DEF TypeOK, StoreType, MemoryType
<1>2. /\ runs[r].state = "running" /\ active[r] = 0 /\ attempts[r] # << >>
  BY DEF StartAccepted, MemoryMatchesRows
<1>3. n \in Nat /\ n # 0 BY <1>1, <1>2
<1>4. /\ runs' = runs /\ attempts' = attempts /\ queues' = queues /\ jobs' = jobs
      /\ launching' = None /\ cancelling' = cancelling
      /\ active' = [active EXCEPT ![r] = n]
      /\ executing' = executing \cup {<<r, n>>}
  BY DEF StartAccepted
<1> HIDE DEF n
<1>5. active'[r] = n /\ \A x \in Runs : x # r => active'[x] = active[x]
  BY <1>1, <1>4
<1>6. TypeOK' /\ RowsHaveOwners'
  BY <1>1, <1>3, <1>4 DEF TypeOK, StoreType, MemoryType, RecoveryType, RowsHaveOwners, process
<1>7. MemoryMatchesRows'
  BY <1>2, <1>3, <1>4, <1>5, StoreAssumption DEF MemoryMatchesRows, n
<1>8. ExecutorsMatchMemory'
  <2>1. ASSUME NEW e \in executing' PROVE e[2] # 0 /\ active'[e[1]] = e[2]
    <3>1. CASE e = <<r, n>> BY <1>3, <1>5, <3>1
    <3>2. CASE e \in executing
      <4>1. e[1] \in Runs BY <3>2 DEF TypeOK, MemoryType
      <4>2. e[2] # 0 /\ active[e[1]] = e[2] BY <3>2 DEF ExecutorsMatchMemory
      <4>3. e[1] # r BY <1>2, <4>2
      <4> QED BY <1>5, <4>1, <4>2, <4>3
    <3> QED BY <1>4, <2>1, <3>1, <3>2
  <2> QED BY <2>1 DEF ExecutorsMatchMemory
<1>9. RecoveryIsAlone' BY DEF RecoveryIsAlone, process
<1>10. RunningIsOwned'
  BY <1>4 DEF RunningIsOwned, StartAccepted, process, n
<1> QED BY <1>6, <1>7, <1>8, <1>9, <1>10

\* What the end of a run of the scheduler leaves of the invariant: r is
\* forgotten by the launch, the scheduler and the executors.
LEMMA ForgottenInv ==
    ASSUME ExecutionInv, daemon = "serving", StoreInv', UNCHANGED process,
           NEW r \in Runs, OnlyEnds(r),
           launching' = None, launching \in {r, None},
           active' = [active EXCEPT ![r] = 0],
           cancelling' = cancelling \ {r},
           executing' = {e \in executing : e[1] # r}
    PROVE  ExecutionInv'
<1> USE DEF ExecutionInv
<1>1. active \in [Runs -> Nat] /\ cancelling \subseteq Runs /\ executing \subseteq Runs \X Nat
  BY DEF TypeOK, MemoryType
<1>2. active'[r] = 0 /\ \A x \in Runs : x # r => active'[x] = active[x]
  BY <1>1
<1>3. MemoryType'
  BY <1>1 DEF MemoryType
<1>4. TypeOK' /\ RowsHaveOwners'
  BY <1>3 DEF TypeOK, StoreInv, RecoveryType, process
<1>5. MemoryMatchesRows'
  BY <1>2, StoreAssumption DEF MemoryMatchesRows, OnlyEnds
<1>6. ExecutorsMatchMemory'
  BY <1>1, <1>2 DEF ExecutorsMatchMemory
<1>7. RecoveryIsAlone' BY DEF RecoveryIsAlone, process
<1>8. RunningIsOwned'
  <2>1. SUFFICES ASSUME NEW x \in Runs, runs'[x].state = "running"
                 PROVE  <<x, Len(attempts'[x])>> \in executing'
    BY DEF RunningIsOwned
  <2>2. x # r /\ runs[x].state = "running" /\ attempts'[x] = attempts[x]
    BY <2>1 DEF OnlyEnds
  <2>3. <<x, Len(attempts[x])>> \in executing
    BY <2>2, StoreAssumption DEF RunningIsOwned
  <2> QED BY <2>2, <2>3
<1> QED BY <1>4, <1>5, <1>6, <1>7, <1>8

\* Running runs are live, and the parts of the invariant their end relies on.
LEMMA RunningFacts ==
    ASSUME ExecutionInv, NEW r \in Runs, runs[r].state = "running"
    PROVE  StoreInv /\ StoreType /\ runs[r].state \in LiveStates /\ attempts[r] # << >>
BY DEF ExecutionInv, TypeOK, StoreInv, LiveStates, MemoryMatchesRows

\* A refused start ends the run before any executor knew it.
LEMMA StartRefusedInv ==
    ASSUME ExecutionInv, daemon = "serving", NEW r \in Runs, NEW s \in SuccessorIds(r),
           StartRefused(r, s), UNCHANGED process
    PROVE  ExecutionInv'
<1>1. launching = r /\ launching' = None /\ FinishAttempt(r, "failed") /\ EndRun(r, "failed", s)
      /\ active' = active /\ cancelling' = cancelling /\ executing' = executing
  BY DEF StartRefused
<1>2. runs[r].state = "running" /\ active[r] = 0 /\ r \notin cancelling
  BY <1>1 DEF ExecutionInv, MemoryMatchesRows
<1>3. StoreInv /\ StoreType /\ runs[r].state \in LiveStates /\ attempts[r] # << >>
  BY <1>2, RunningFacts
<1>4. "failed" \in TerminalRunStates BY DEF TerminalRunStates
<1>5. /\ attempts' \in [Runs -> Seq(AttemptStates)]
      /\ \A x \in Runs : x # r => attempts'[x] = attempts[x]
  BY <1>1, <1>3, <1>4, FinishAttemptType
<1>6. StoreInv' /\ OnlyEnds(r)
  BY <1>1, <1>3, <1>4, <1>5, EndRunOnlyEnds
<1>7. active \in [Runs -> Nat] BY DEF ExecutionInv, TypeOK, MemoryType
<1>8. active' = [active EXCEPT ![r] = 0] BY <1>1, <1>2, <1>7
<1>9. cancelling' = cancelling \ {r} BY <1>1, <1>2
<1>10. executing' = {e \in executing : e[1] # r}
  BY <1>1, <1>2 DEF ExecutionInv, ExecutorsMatchMemory
<1> QED BY <1>1, <1>6, <1>8, <1>9, <1>10, ForgottenInv

\* A completion ends the attempt that the executor reported, and no other.
LEMMA CompleteInv ==
    ASSUME ExecutionInv, daemon = "serving", NEW r \in Runs,
           NEW outcome \in {"succeeded", "failed", "cancelled"},
           NEW retryable \in BOOLEAN, NEW due \in BOOLEAN, NEW s \in SuccessorIds(r),
           Complete(r, active[r], outcome, retryable, due, s), UNCHANGED process
    PROVE  ExecutionInv'
<1> DEFINE n == active[r]
           effective == EffectiveOutcome(r, outcome)
<1>1. /\ launching = None /\ launching' = None
      /\ <<r, n>> \in executing /\ executing' = executing \ {<<r, n>>}
      /\ FinishAttempt(r, effective)
      /\ RetryRun(r, due) \/ EndRun(r, effective, s)
      /\ active' = [active EXCEPT ![r] = 0] /\ cancelling' = cancelling \ {r}
  BY DEF Complete, ForgetActive
<1>2. effective \in TerminalRunStates
  BY DEF EffectiveOutcome, TerminalRunStates
<1>3. executing \subseteq Runs \X Nat
  BY DEF ExecutionInv, TypeOK, MemoryType
<1>4. \A e \in executing : active[e[1]] = e[2] /\ e[2] # 0
  BY DEF ExecutionInv, ExecutorsMatchMemory
<1>5. n # 0 BY <1>1, <1>4
<1>6. runs[r].state = "running" BY <1>5 DEF ExecutionInv, MemoryMatchesRows
<1>7. StoreInv /\ StoreType /\ runs[r].state \in LiveStates /\ attempts[r] # << >>
  BY <1>6, RunningFacts
<1> HIDE DEF effective
<1>8. /\ attempts' \in [Runs -> Seq(AttemptStates)]
      /\ \A x \in Runs : x # r => attempts'[x] = attempts[x]
  BY <1>1, <1>2, <1>7, FinishAttemptType
<1>9. StoreInv' /\ OnlyEnds(r)
  BY <1>1, <1>2, <1>7, <1>8, EndRunOnlyEnds, RetryRunOnlyEnds
<1>10. executing' = {e \in executing : e[1] # r}
  <2>1. ASSUME NEW e \in executing PROVE e # <<r, n>> <=> e[1] # r
    BY <1>3, <1>4, <2>1
  <2> QED BY <1>1, <2>1
<1> QED BY <1>1, <1>9, <1>10, ForgottenInv

\* Cancellation: a running run is marked, a pending run ends.
LEMMA CancelInv ==
    ASSUME ExecutionInv, daemon = "serving", NEW r \in Runs, CancelRequest(r), UNCHANGED process
    PROVE  ExecutionInv'
<1>1. CASE RequestCancel(r)
  <2>1. /\ queues' = queues /\ jobs' = jobs /\ runs' = runs /\ attempts' = attempts
        /\ active' = active /\ launching' = launching /\ executing' = executing
        /\ cancelling' = cancelling \cup {r}
    BY <1>1 DEF RequestCancel, store
  <2>2. active[r] # 0
    <3>1. attempts[r] \in Seq(AttemptStates) /\ attempts[r] # << >>
      BY <1>1 DEF RequestCancel, ExecutionInv, TypeOK, StoreType, MemoryMatchesRows
    <3> QED BY <1>1, <3>1 DEF RequestCancel
  <2>3. TypeOK' /\ RowsHaveOwners'
    BY <2>1 DEF ExecutionInv, TypeOK, StoreType, MemoryType, RecoveryType, RowsHaveOwners, process
  <2>4. MemoryMatchesRows' /\ ExecutorsMatchMemory'
    BY <2>1, <2>2 DEF ExecutionInv, MemoryMatchesRows, ExecutorsMatchMemory
  <2>5. RecoveryIsAlone'
    BY DEF ExecutionInv, RecoveryIsAlone, process
  <2>6. RunningIsOwned'
    BY <2>1 DEF ExecutionInv, RunningIsOwned, process
  <2> QED BY <2>3, <2>4, <2>5, <2>6 DEF ExecutionInv
<1>2. ASSUME NEW s \in SuccessorIds(r), CancelPendingRun(r, s)
      PROVE  ExecutionInv'
  <2>1. /\ runs[r].state \in {"scheduled", "retry_wait"} /\ EndRun(r, "cancelled", s)
        /\ attempts' = attempts /\ UNCHANGED memory
    BY <1>2 DEF CancelPendingRun
  <2>2. StoreInv /\ attempts \in [Runs -> Seq(AttemptStates)]
    BY DEF ExecutionInv, TypeOK, StoreInv, StoreType
  <2>3. "cancelled" \in TerminalRunStates /\ runs[r].state \in LiveStates
    BY <2>1 DEF TerminalRunStates, LiveStates
  <2>4. StoreInv' /\ OnlyEnds(r)
    BY <2>1, <2>2, <2>3, EndRunOnlyEnds
  <2>5. SameRunning
    BY <2>1, <2>4 DEF SameRunning, OnlyEnds
  <2> QED BY <2>1, <2>4, <2>5, SameRunningInv
<1> QED BY <1>1, <1>2 DEF CancelRequest

-----------------------------------------------------------------------------
(* Recovery and the process.                                               *)

\* A recovery step that stops at most the run r it visits preserves the
\* invariant: nothing is in memory, and the cursor no longer holds r.
LEMMA RecoveryFrame ==
    ASSUME ExecutionInv, daemon = "recovering", UNCHANGED <<memory, daemon>>, StoreInv',
           phase' \in Phases, pending' \subseteq Queues \cup Jobs \cup Runs,
           \A x \in Runs : runs'[x].state = "running" =>
               runs[x].state = "running" /\ attempts'[x] = attempts[x],
           phase' = "runs" => \A x \in pending' : x \in Runs /\ runs'[x].state = "running"
    PROVE  ExecutionInv'
<1> USE DEF ExecutionInv
<1>1. TypeOK' /\ RowsHaveOwners'
  BY DEF TypeOK, StoreInv, MemoryType, RecoveryType, memory
<1>2. /\ MemoryCleared /\ MemoryCleared'
  BY DEF RecoveryIsAlone, MemoryCleared, memory
<1>3. MemoryMatchesRows'
  BY <1>2, StoreAssumption DEF MemoryMatchesRows, MemoryCleared
<1>4. ExecutorsMatchMemory' BY <1>2 DEF ExecutorsMatchMemory, MemoryCleared
<1>5. RecoveryIsAlone' BY <1>2 DEF RecoveryIsAlone
<1>6. RunningIsOwned' BY DEF RunningIsOwned
<1> QED BY <1>1, <1>3, <1>4, <1>5, <1>6

\* Recovery's units preserve the invariant.
LEMMA RecoveryStepInv ==
    ASSUME ExecutionInv, RecoveryStep
    PROVE  ExecutionInv'
<1>0. /\ daemon = "recovering" /\ UNCHANGED <<memory, daemon>>
      /\ StoreInv /\ StoreType
      /\ phase \in Phases /\ pending \subseteq Queues \cup Jobs \cup Runs
      /\ phase = "runs" => \A x \in pending : x \in Runs /\ runs[x].state = "running"
  BY DEF RecoveryStep, ExecutionInv, TypeOK, StoreInv, RecoveryType, RecoveryIsAlone
<1>1. ASSUME UNCHANGED store, phase' \in Phases, pending' \subseteq Queues \cup Jobs \cup Runs,
             phase' = "runs" => \A x \in pending' : x \in Runs /\ runs[x].state = "running"
      PROVE  ExecutionInv'
  <2>1. StoreInv' BY <1>0, <1>1 DEF StoreInv, StoreType, RowsHaveOwners, store
  <2> QED BY <1>0, <1>1, <2>1, RecoveryFrame DEF store
<1>2. CASE Validate
  BY <1>1, <1>2 DEF Validate, Phases
<1>3. ASSUME NEW r \in Runs, NEW due \in BOOLEAN, NEW s \in SuccessorIds(r), RecoverRun(r, due, s)
      PROVE  ExecutionInv'
  <2>1. /\ phase = "runs" /\ phase' = phase /\ r \in pending /\ pending' = pending \ {r}
        /\ FinishAttempt(r, "interrupted")
        /\ RetryRun(r, due) \/ EndRun(r, "interrupted", s)
    BY <1>3 DEF RecoverRun
  <2>2. runs[r].state = "running" BY <1>0, <2>1
  <2>3. runs[r].state \in LiveStates /\ attempts[r] # << >> BY <2>2, RunningFacts
  <2>4. "interrupted" \in TerminalRunStates BY DEF TerminalRunStates
  <2>5. /\ attempts' \in [Runs -> Seq(AttemptStates)]
        /\ \A x \in Runs : x # r => attempts'[x] = attempts[x]
    BY <1>0, <2>1, <2>3, <2>4, FinishAttemptType
  <2>6. StoreInv' /\ OnlyEnds(r)
    BY <1>0, <2>1, <2>3, <2>4, <2>5, EndRunOnlyEnds, RetryRunOnlyEnds
  <2> QED BY <1>0, <2>1, <2>6, RecoveryFrame DEF OnlyEnds
<1>4. CASE RunsRecovered
  BY <1>1, <1>4 DEF RunsRecovered, Phases
<1>5. ASSUME NEW j \in Jobs, NEW s, s \in IF MissingSuccessor(j) THEN AbsentRuns ELSE {None},
             RecoverJob(j, s)
      PROVE  ExecutionInv'
  <2>1. /\ phase = "jobs" /\ phase' = "jobs" /\ pending' = pending \ {j}
        /\ queues' = queues /\ attempts' = attempts /\ jobs' = DrainJob(jobs, runs, j)
    BY <1>5 DEF RecoverJob
  <2>2. jobs' \in [Jobs -> JobRow] BY <1>0, <2>1, DrainJobType DEF StoreType
  <2>3. /\ runs' \in [Runs -> RunRow]
        /\ RowsHaveOwners'
        /\ \A x \in Runs : runs'[x].state = "running" => runs[x].state = "running"
    <3> DEFINE row == ScheduledRun(jobs[j], j, FALSE)
    <3>1. row \in RunRow /\ row.job = j /\ row.state = "scheduled"
      BY <1>0, ScheduledRunType DEF StoreType, ScheduledRun
    <3>2. runs' = runs \/ (s \in Runs /\ runs' = [runs EXCEPT ![s] = row])
      BY <1>5 DEF RecoverJob, AbsentRuns
    <3> HIDE DEF row
    <3> QED BY <1>0, <3>1, <3>2 DEF StoreType, StoreInv, RowsHaveOwners
  <2>4. StoreInv' BY <1>0, <2>1, <2>2, <2>3 DEF StoreInv, StoreType
  <2> QED BY <1>0, <2>1, <2>3, <2>4, RecoveryFrame
<1>6. CASE JobsRecovered
  BY <1>1, <1>6 DEF JobsRecovered, Phases
<1>7. ASSUME NEW q \in Queues, RecoverQueue(q)
      PROVE  ExecutionInv'
  <2>1. /\ phase' = "queues" /\ pending' = pending \ {q}
        /\ jobs' = jobs /\ runs' = runs /\ attempts' = attempts
        /\ queues' = DrainQueue(queues, runs, q)
    BY <1>7 DEF RecoverQueue
  <2>2. StoreInv'
    BY <1>0, <2>1, DrainQueueType DEF StoreInv, StoreType, RowsHaveOwners
  <2>3. "queues" \in Phases BY DEF Phases
  <2> QED BY <1>0, <2>1, <2>2, <2>3, RecoveryFrame
<1>8. CASE QueuesRecovered
  BY <1>0, <1>1, <1>8 DEF QueuesRecovered, Phases
<1> QED BY <1>2, <1>3, <1>4, <1>5, <1>6, <1>7, <1>8 DEF RecoveryStep

\* Starting, serving, stopping and dying preserve the invariant.
LEMMA ProcessInv ==
    ASSUME ExecutionInv, Start \/ Serve \/ Stop \/ Crash
    PROVE  ExecutionInv'
<1> USE DEF ExecutionInv
<1>0. UNCHANGED store BY DEF Start, Serve, Stop, Crash, store
<1>1. StoreType' /\ RowsHaveOwners'
  BY <1>0 DEF TypeOK, StoreType, RowsHaveOwners, store
<1>2. CASE Start \/ Serve \/ Stop
  <2>1. UNCHANGED memory BY <1>2 DEF Start, Serve, Stop, memory
  <2>2. TypeOK'
    BY <1>1, <1>2, <2>1 DEF Start, Serve, Stop, TypeOK, MemoryType, RecoveryType, Phases, memory
  <2>3. MemoryMatchesRows' /\ ExecutorsMatchMemory'
    BY <1>0, <2>1 DEF MemoryMatchesRows, ExecutorsMatchMemory, memory, store
  <2>4. RecoveryIsAlone'
    BY <1>2, <2>1 DEF Start, Serve, Stop, RecoveryIsAlone, MemoryCleared, memory
  <2>5. RunningIsOwned'
    BY <1>0, <1>2, <2>1 DEF Start, Serve, Stop, RunningIsOwned, StoreRepaired, memory, store
  <2> QED BY <1>1, <2>2, <2>3, <2>4, <2>5
<1>3. CASE Crash
  <2>1. MemoryCleared' /\ daemon' = "down" /\ phase' = "idle" /\ pending' = {}
    BY <1>3 DEF Crash, ClearMemory, MemoryCleared
  <2>2. MemoryType' BY <2>1 DEF MemoryCleared, MemoryType
  <2>3. TypeOK' BY <1>1, <2>1, <2>2 DEF TypeOK, RecoveryType, Phases
  <2>4. MemoryMatchesRows'
    BY <1>0, <2>1, StoreAssumption DEF MemoryMatchesRows, MemoryCleared, store
  <2>5. ExecutorsMatchMemory' BY <2>1 DEF ExecutorsMatchMemory, MemoryCleared
  <2>6. RecoveryIsAlone' /\ RunningIsOwned'
    BY <2>1 DEF RecoveryIsAlone, RunningIsOwned
  <2> QED BY <1>1, <2>3, <2>4, <2>5, <2>6
<1> QED BY <1>2, <1>3

\* A dropped completion leaves the rows alone.
LEMMA DropCompletionInv ==
    ASSUME ExecutionInv, NEW r \in Runs, DropCompletion(r)
    PROVE  ExecutionInv'
<1> USE DEF ExecutionInv
<1>1. /\ UNCHANGED <<store, active, cancelling, launching, process>>
      /\ executing' \subseteq executing /\ daemon = "stopping"
  BY DEF DropCompletion
<1>2. TypeOK' /\ RowsHaveOwners'
  BY <1>1 DEF TypeOK, StoreType, MemoryType, RecoveryType, RowsHaveOwners, store, process
<1>3. MemoryMatchesRows' /\ ExecutorsMatchMemory'
  BY <1>1 DEF MemoryMatchesRows, ExecutorsMatchMemory, store
<1>4. RecoveryIsAlone' /\ RunningIsOwned'
  BY <1>1 DEF RecoveryIsAlone, RunningIsOwned, process
<1> QED BY <1>2, <1>3, <1>4

-----------------------------------------------------------------------------
(* The theorems.                                                           *)

\* The invariant holds initially.
LEMMA InitInv == Init => ExecutionInv
<1> SUFFICES ASSUME Init PROVE ExecutionInv OBVIOUS
<1>1. /\ NoRunRow \in RunRow /\ NoRunRow.state = "absent"
      /\ NoJobRow \in JobRow /\ NoQueueRow \in QueueRow
  BY StoreAssumption DEF NoRunRow, NoJobRow, NoQueueRow, RunRow, JobRow, QueueRow,
                         RunStates, JobStates, QueueStates
<1>2. StoreType BY <1>1 DEF Init, StoreInit, StoreType
<1>3. MemoryType /\ RecoveryType BY DEF Init, MemoryCleared, MemoryType, RecoveryType, Phases
<1>4. \A r \in Runs : runs[r].state = "absent" BY <1>1 DEF Init, StoreInit
<1>5. MemoryMatchesRows /\ RowsHaveOwners
  BY <1>4, StoreAssumption DEF Init, MemoryCleared, MemoryMatchesRows, RowsHaveOwners
<1>6. ExecutorsMatchMemory /\ RecoveryIsAlone /\ RunningIsOwned
  BY DEF Init, MemoryCleared, ExecutorsMatchMemory, RecoveryIsAlone, RunningIsOwned
<1>7. TypeOK BY <1>2, <1>3 DEF Init, TypeOK
<1> QED BY <1>5, <1>6, <1>7 DEF ExecutionInv

\* Every step of the daemon preserves the invariant.
LEMMA NextInv == ExecutionInv /\ [Next]_vars => ExecutionInv'
<1> SUFFICES ASSUME ExecutionInv, [Next]_vars PROVE ExecutionInv' OBVIOUS
<1>0. StoreInv BY DEF ExecutionInv, TypeOK, StoreInv
<1>1. CASE StoreStep
  <2>1. StoreInv' /\ SameRunning
    BY <1>0, <1>1, QueueRequestType, JobRequestType, RetentionStepType,
       RequestSameRunning, RetentionSameRunning DEF StoreStep
  <2> QED BY <1>1, <2>1, SameRunningInv DEF StoreStep
<1>2. ASSUME NEW r \in Runs, BecomeDue(r) PROVE ExecutionInv'
  <2>1. StoreInv' BY <1>0, <1>2, BecomeDueType
  <2>2. SameRunning
    BY <1>0, <1>2 DEF BecomeDue, SameRunning, StoreInv, StoreType, RunRow
  <2> QED BY <1>2, <2>1, <2>2, SameRunningInv DEF BecomeDue
<1>3. CASE SchedulerStep
  <2>1. daemon = "serving" /\ UNCHANGED process BY <1>3 DEF SchedulerStep
  <2>2. PICK r \in Runs : DispatchStep(r) \/ Launch(r) \/ Completion(r) \/ CancelRequest(r)
    BY <1>3 DEF SchedulerStep
  <2>3. CASE DispatchStep(r) BY <2>1, <2>3, DispatchInv DEF DispatchStep
  <2>4. CASE Launch(r) BY <2>1, <2>4, StartAcceptedInv, StartRefusedInv DEF Launch
  <2>5. CASE Completion(r) BY <2>1, <2>5, CompleteInv DEF Completion
  <2>6. CASE CancelRequest(r) BY <2>1, <2>6, CancelInv
  <2> QED BY <2>2, <2>3, <2>4, <2>5, <2>6
<1>4. CASE RecoveryStep BY <1>4, RecoveryStepInv
<1>5. CASE Start \/ Serve \/ Stop \/ Crash BY <1>5, ProcessInv
<1>6. ASSUME NEW r \in Runs, DropCompletion(r) PROVE ExecutionInv'
  BY <1>6, DropCompletionInv
<1>7. CASE UNCHANGED vars
  <2>1. StoreInv' BY <1>0, <1>7 DEF StoreInv, StoreType, RowsHaveOwners, vars, store
  <2>2. SameRunning BY <1>7 DEF SameRunning, vars, store
  <2> QED BY <1>7, <2>1, <2>2, SameRunningInv DEF vars
<1> QED BY <1>1, <1>2, <1>3, <1>4, <1>5, <1>6, <1>7 DEF Next

\* The inductive invariant holds in every reachable state.
THEOREM ExecutionInvariance == Spec => []ExecutionInv
BY InitInv, NextInv, PTL DEF Spec

\* Every variable of the daemon keeps its type, for any number of queues,
\* jobs, runs, attempts and limits.
THEOREM TypeCorrectness == Spec => []TypeOK
<1>1. ExecutionInv => TypeOK BY DEF ExecutionInv
<1> QED BY <1>1, ExecutionInvariance, PTL

\* While the scheduler serves, no run is stranded as running: each one belongs
\* to the dispatch in progress or to an attempt an executor holds.
THEOREM RunningOwnership == Spec => []RunningIsOwned
<1>1. ExecutionInv => RunningIsOwned BY DEF ExecutionInv
<1> QED BY <1>1, ExecutionInvariance, PTL

\* An executor holds only attempts whose running state is durable, under the
\* number of the newest attempt row: dispatch_selected commits before the
\* executor is called, and no completion, cancellation or purge gets ahead.
THEOREM DurableExecution == Spec => []ExecutionIsDurable
<1>1. ExecutionInv => ExecutionIsDurable
  <2> SUFFICES ASSUME ExecutionInv, NEW e \in executing
               PROVE  /\ active[e[1]] = e[2]
                      /\ runs[e[1]].state = "running"
                      /\ Len(attempts[e[1]]) = e[2]
    BY DEF ExecutionIsDurable
  <2>1. e[1] \in Runs BY DEF ExecutionInv, TypeOK, MemoryType
  <2>2. e[2] # 0 /\ active[e[1]] = e[2]
    BY DEF ExecutionInv, ExecutorsMatchMemory
  <2> QED BY <2>1, <2>2 DEF ExecutionInv, MemoryMatchesRows
<1> QED BY <1>1, ExecutionInvariance, PTL

\* Store, scheduler and executor agree on what runs, whatever crashes, refusals
\* and cancellations come between the commit and the start of an attempt.
THEOREM MatchingExecution == Spec => []ExecutionMatchesStore
<1>1. RunningIsOwned /\ ExecutionIsDurable => ExecutionMatchesStore BY DEF ExecutionMatchesStore
<1> QED BY <1>1, RunningOwnership, DurableExecution, PTL

=============================================================================

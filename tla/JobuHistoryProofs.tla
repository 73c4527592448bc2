-------------------------- MODULE JobuHistoryProofs --------------------------
(***************************************************************************)
(* Retry accounting, accepted cancellations and the immutability of        *)
(* history, for every value of the constants.                              *)
(***************************************************************************)
EXTENDS JobuExecutionProofs

\* No run has more attempts than its policy allows, and one that can be
\* dispatched has room for another: a planned run has none yet, and a retry is
\* only granted below the limit.
AttemptsInv ==
    \A r \in Runs :
        /\ Len(attempts[r]) <= MaxAttempts
        /\ runs[r].state \in {"absent", "scheduled"} => attempts[r] = << >>
        /\ runs[r].state = "retry_wait" => Len(attempts[r]) < MaxAttempts

-----------------------------------------------------------------------------
(* What one step may do to one run.                                        *)

\* Steps that create, keep, refresh, move, cancel or purge rows, but leave
\* every history they do not purge.
HistoryKept ==
    \A r \in Runs :
        \/ runs'[r].state = runs[r].state /\ attempts'[r] = attempts[r]
        \/ /\ runs[r].state = "absent" /\ runs'[r].state = "scheduled"
           /\ attempts'[r] = attempts[r]
        \/ /\ runs[r].state \in LiveStates /\ runs'[r].state \in TerminalRunStates
           /\ Len(attempts'[r]) = Len(attempts[r])
        \/ runs'[r].state = "absent" /\ attempts'[r] = << >>

\* Such steps keep the accounting.
LEMMA HistoryKeptAttempts ==
    ASSUME AttemptsInv, HistoryKept
    PROVE  AttemptsInv'
<1> SUFFICES ASSUME NEW r \in Runs
             PROVE  /\ Len(attempts'[r]) <= MaxAttempts
                    /\ runs'[r].state \in {"absent", "scheduled"} => attempts'[r] = << >>
                    /\ runs'[r].state = "retry_wait" => Len(attempts'[r]) < MaxAttempts
  BY DEF AttemptsInv
<1>1. Len(<< >>) = 0 /\ MaxAttempts \in Nat \ {0} BY StoreAssumption
<1>2. \A t \in TerminalRunStates : t \notin {"absent", "scheduled", "retry_wait"}
  BY DEF TerminalRunStates
<1> QED BY <1>1, <1>2 DEF HistoryKept, AttemptsInv

\* A table whose rows keep their states, with finished rows untouched.
LEMMA SameStates ==
    ASSUME attempts' = attempts,
           \A r \in Runs : runs'[r].state = runs[r].state,
           \A r \in Runs : runs[r].state \notin LiveStates => runs'[r] = runs[r]
    PROVE  HistoryKept /\ FinishedRunsKept
BY DEF HistoryKept, FinishedRunsKept, TerminalRunStates, LiveStates

\* A new row in an unused id.
LEMMA NewRow ==
    ASSUME StoreInv, attempts' = attempts, NEW r \in Runs, runs[r].state = "absent",
           NEW row, row.state = "scheduled", runs' = [runs EXCEPT ![r] = row]
    PROVE  HistoryKept /\ FinishedRunsKept
<1>1. runs'[r] = row /\ \A x \in Runs : x # r => runs'[x] = runs[x]
  BY DEF StoreInv, StoreType
<1> QED BY <1>1 DEF HistoryKept, FinishedRunsKept, TerminalRunStates

\* Cancelling pending runs ends live rows and touches no other.
LEMMA CancelPendingHistory ==
    ASSUME StoreInv, NEW S, runs' = CancelPending(S), attempts' = attempts
    PROVE  HistoryKept /\ FinishedRunsKept
<1>1. runs \in [Runs -> RunRow] BY DEF StoreInv, StoreType
<1>2. ASSUME NEW x \in Runs
      PROVE  \/ runs'[x] = runs[x]
             \/ runs[x].state \in {"scheduled", "retry_wait"} /\ runs'[x].state = "cancelled"
  BY <1>1 DEF CancelPending, RunRow
<1> QED BY <1>2 DEF HistoryKept, FinishedRunsKept, LiveStates, TerminalRunStates

\* Requests and retention keep history.
LEMMA StoreStepHistory ==
    ASSUME StoreInv, StoreStep
    PROVE  HistoryKept /\ FinishedRunsKept
<1>0. runs \in [Runs -> RunRow] /\ attempts \in [Runs -> Seq(AttemptStates)]
  BY DEF StoreInv, StoreType
<1>1. ASSUME runs' = runs, attempts' = attempts PROVE HistoryKept /\ FinishedRunsKept
  BY <1>1, SameStates
<1>2. ASSUME NEW q \in Queues, QueueRequest(q) PROVE HistoryKept /\ FinishedRunsKept
  <2>1. attempts' = attempts /\ (runs' = runs \/ runs' = CancelPending({r \in Runs : runs[r].queue = q}))
    BY <1>2 DEF QueueRequest, CreateQueue, UpdateQueue, SuspendQueue, ResumeQueue, DeleteQueue
  <2> QED BY <1>1, <2>1, CancelPendingHistory
<1>3. ASSUME NEW j \in Jobs, JobRequest(j) PROVE HistoryKept /\ FinishedRunsKept
  <2>1. ASSUME NEW q \in Queues, NEW recurring \in BOOLEAN, NEW due \in BOOLEAN, NEW r \in Runs,
               CreateJob(j, q, recurring, due, r)
        PROVE  HistoryKept /\ FinishedRunsKept
    <3> DEFINE row == ScheduledRun([state |-> "active", queue |-> q, recurring |-> recurring,
                                    def |-> 0], j, due)
    <3>1. row.state = "scheduled" BY DEF ScheduledRun
    <3>2. runs[r].state = "absent" /\ runs' = [runs EXCEPT ![r] = row] /\ attempts' = attempts
      BY <2>1 DEF CreateJob
    <3> HIDE DEF row
    <3> QED BY <3>1, <3>2, NewRow
  <2>2. ASSUME NEW recurring, NEW due, UpdateJob(j, recurring, due)
        PROVE  HistoryKept /\ FinishedRunsKept
    <3>1. /\ \A x \in Runs : runs'[x].state = runs[x].state
          /\ \A x \in Runs : runs[x].state \notin LiveStates => runs'[x] = runs[x]
      BY <1>0, <2>2 DEF UpdateJob, Refreshed, RunRow, LiveStates
    <3> QED BY <2>2, <3>1, SameStates DEF UpdateJob
  <2>3. CASE SuspendJob(j) \/ ResumeJob(j)
    BY <1>1, <2>3 DEF SuspendJob, ResumeJob
  <2>4. ASSUME NEW q \in Queues, MoveJob(j, q) PROVE HistoryKept /\ FinishedRunsKept
    <3>1. /\ \A x \in Runs : runs'[x].state = runs[x].state
          /\ \A x \in Runs : runs[x].state \notin LiveStates => runs'[x] = runs[x]
      BY <1>0, <2>4 DEF MoveJob, Moved, RunRow, LiveRuns
    <3> QED BY <2>4, <3>1, SameStates DEF MoveJob
  <2>5. CASE DeleteJob(j)
    BY <2>5, CancelPendingHistory DEF DeleteJob
  <2>6. ASSUME NEW r \in Runs, RunNow(j, r) PROVE HistoryKept /\ FinishedRunsKept
    <3>1. ManualRun(jobs[j], j).state = "scheduled" BY DEF ManualRun
    <3> QED BY <2>6, <3>1, NewRow DEF RunNow
  <2> QED BY <1>3, <2>1, <2>2, <2>3, <2>4, <2>5, <2>6 DEF JobRequest
<1>4. ASSUME NEW r \in Runs, PurgeRun(r) PROVE HistoryKept /\ FinishedRunsKept
  <2>1. NoRunRow.state = "absent" BY DEF NoRunRow
  <2>2. /\ runs'[r] = NoRunRow /\ attempts'[r] = << >>
        /\ \A x \in Runs : x # r => runs'[x] = runs[x] /\ attempts'[x] = attempts[x]
    BY <1>0, <1>4 DEF PurgeRun
  <2> QED BY <2>1, <2>2 DEF HistoryKept, FinishedRunsKept
<1>5. CASE RetentionStep
  BY <1>1, <1>4, <1>5 DEF RetentionStep, PurgeJob, PurgeQueue
<1> QED BY <1>2, <1>3, <1>5 DEF StoreStep

\* Ending a live run, with its last attempt closed or none running.
LEMMA EndRunHistory ==
    ASSUME StoreInv, NEW r \in Runs, NEW outcome \in TerminalRunStates,
           NEW s \in SuccessorIds(r), runs[r].state \in LiveStates, EndRun(r, outcome, s),
           Len(attempts'[r]) = Len(attempts[r]),
           \A x \in Runs : x # r => attempts'[x] = attempts[x]
    PROVE  HistoryKept /\ FinishedRunsKept
<1>1. EndRunRows(r, outcome, s) BY EndRunWrites
<1>2. runs[r] \in RunRow /\ runs[r].state \notin TerminalRunStates
  BY DEF StoreInv, StoreType, LiveStates, TerminalRunStates
<1>3. runs'[r].state = outcome BY <1>1, <1>2 DEF EndRunRows, RunRow
<1>4. ASSUME NEW x \in Runs, x # r
      PROVE  \/ runs'[x] = runs[x]
             \/ runs[x].state = "absent" /\ runs'[x].state = "scheduled"
  BY <1>1, <1>4 DEF EndRunRows, ScheduledRun
<1> QED BY <1>2, <1>3, <1>4 DEF HistoryKept, FinishedRunsKept, TerminalRunStates

\* Sending a run that has attempts left to its next attempt.
LEMMA RetryRunHistory ==
    ASSUME StoreInv, AttemptsInv, NEW r \in Runs, NEW due \in BOOLEAN,
           runs[r].state \in LiveStates, RetryRun(r, due), Len(attempts[r]) < MaxAttempts,
           Len(attempts'[r]) = Len(attempts[r]),
           \A x \in Runs : x # r => attempts'[x] = attempts[x]
    PROVE  AttemptsInv' /\ FinishedRunsKept
<1>1. runs' = [runs EXCEPT ![r].state = "retry_wait", ![r].due = due]
  BY DEF RetryRun
<1>2. runs \in [Runs -> RunRow] BY DEF StoreInv, StoreType
<1>3. runs'[r].state = "retry_wait" BY <1>1, <1>2 DEF RunRow
<1>4. \A x \in Runs : x # r => runs'[x] = runs[x] BY <1>1, <1>2
<1>5. FinishedRunsKept
  BY <1>4 DEF FinishedRunsKept, LiveStates, TerminalRunStates
<1>6. AttemptsInv'
  <2>1. ASSUME NEW x \in Runs
        PROVE  /\ Len(attempts'[x]) <= MaxAttempts
               /\ runs'[x].state \in {"absent", "scheduled"} => attempts'[x] = << >>
               /\ runs'[x].state = "retry_wait" => Len(attempts'[x]) < MaxAttempts
    <3>1. CASE x = r BY <1>3, <3>1 DEF AttemptsInv
    <3>2. CASE x # r BY <1>4, <3>2 DEF AttemptsInv
    <3> QED BY <3>1, <3>2
  <2> QED BY <2>1 DEF AttemptsInv
<1> QED BY <1>5, <1>6

-----------------------------------------------------------------------------
(* Every step.                                                             *)

\* What every step of the daemon keeps.
StepKeeps == AttemptsInv' /\ FinishedRunsKept /\ CancelledRunsEnd

\* A run whose cancellation was accepted is running.
LEMMA CancellingIsRunning ==
    ASSUME ExecutionInv, NEW r \in cancelling
    PROVE  r \in Runs /\ active[r] # 0 /\ runs[r].state = "running"
<1>1. r \in Runs BY DEF ExecutionInv, TypeOK, MemoryType
<1> QED BY <1>1 DEF ExecutionInv, MemoryMatchesRows

\* Steps that leave running runs alone keep all three.
LEMMA SameRunningKeeps ==
    ASSUME ExecutionInv, AttemptsInv, HistoryKept, FinishedRunsKept, SameRunning
    PROVE  StepKeeps
<1>1. CancelledRunsEnd BY CancellingIsRunning DEF CancelledRunsEnd, SameRunning
<1> QED BY <1>1, HistoryKeptAttempts DEF StepKeeps

\* The end of a run that was not cancelled keeps accepted cancellations open.
LEMMA OnlyEndsCancelled ==
    ASSUME ExecutionInv, NEW r \in Runs, OnlyEnds(r),
           r \in cancelling => runs'[r].state = "cancelled"
    PROVE  CancelledRunsEnd
BY CancellingIsRunning DEF CancelledRunsEnd, OnlyEnds

\* Closing the last attempt of a running run and ending or retrying the run.
LEMMA FinishKeeps ==
    ASSUME ExecutionInv, AttemptsInv, NEW r \in Runs, runs[r].state = "running",
           NEW outcome \in TerminalRunStates, NEW due \in BOOLEAN, NEW s \in SuccessorIds(r),
           FinishAttempt(r, outcome),
           \/ EndRun(r, outcome, s)
           \/ RetryRun(r, due) /\ Len(attempts[r]) < MaxAttempts /\ outcome # "cancelled",
           r \in cancelling => outcome = "cancelled"
    PROVE  StepKeeps
<1>1. StoreInv /\ StoreType /\ runs[r].state \in LiveStates /\ attempts[r] # << >>
  BY RunningFacts
<1>2. /\ attempts' \in [Runs -> Seq(AttemptStates)]
      /\ Len(attempts'[r]) = Len(attempts[r])
      /\ \A x \in Runs : x # r => attempts'[x] = attempts[x]
  BY <1>1, FinishAttemptType
<1>3. CASE EndRun(r, outcome, s)
  <2>1. HistoryKept /\ FinishedRunsKept BY <1>1, <1>2, <1>3, EndRunHistory
  <2>2. AttemptsInv' BY <2>1, HistoryKeptAttempts
  <2>3. OnlyEnds(r) BY <1>1, <1>2, <1>3, EndRunOnlyEnds
  <2>4. EndRunRows(r, outcome, s) BY <1>1, <1>3, EndRunWrites
  <2>5. runs'[r].state = outcome
    BY <1>1, <2>4 DEF EndRunRows, StoreType, RunRow
  <2>6. CancelledRunsEnd BY <2>3, <2>5, OnlyEndsCancelled
  <2> QED BY <2>1, <2>2, <2>6 DEF StepKeeps
<1>4. CASE RetryRun(r, due) /\ Len(attempts[r]) < MaxAttempts /\ outcome # "cancelled"
  <2>1. AttemptsInv' /\ FinishedRunsKept BY <1>1, <1>2, <1>4, RetryRunHistory
  <2>2. OnlyEnds(r) BY <1>1, <1>2, <1>4, RetryRunOnlyEnds
  <2>3. CancelledRunsEnd BY <1>4, <2>2, OnlyEndsCancelled
  <2> QED BY <2>1, <2>3 DEF StepKeeps
<1> QED BY <1>3, <1>4

\* Admission adds one attempt to a run that has room for it.
LEMMA DispatchKeeps ==
    ASSUME ExecutionInv, AttemptsInv, NEW r \in Runs, Dispatch(r)
    PROVE  StepKeeps
<1>1. runs \in [Runs -> RunRow] /\ attempts \in [Runs -> Seq(AttemptStates)]
  BY DEF ExecutionInv, TypeOK, StoreType
<1>2. /\ runs[r].state \in {"scheduled", "retry_wait"}
      /\ runs'[r].state = "running"
      /\ attempts'[r] = Append(attempts[r], "running")
      /\ \A x \in Runs : x # r => runs'[x] = runs[x] /\ attempts'[x] = attempts[x]
  BY <1>1 DEF Dispatch, RunRow
<1>3. Len(attempts'[r]) = Len(attempts[r]) + 1
  <2>1. attempts[r] \in Seq(AttemptStates) /\ "running" \in AttemptStates
    BY <1>1 DEF AttemptStates
  <2> QED BY <1>2, <2>1, AppendLength
<1>4. Len(attempts[r]) \in Nat /\ Len(attempts[r]) < MaxAttempts
  BY <1>1, <1>2, StoreAssumption DEF AttemptsInv
<1>5. AttemptsInv'
  <2>1. ASSUME NEW x \in Runs
        PROVE  /\ Len(attempts'[x]) <= MaxAttempts
               /\ runs'[x].state \in {"absent", "scheduled"} => attempts'[x] = << >>
               /\ runs'[x].state = "retry_wait" => Len(attempts'[x]) < MaxAttempts
    <3>1. CASE x = r BY <1>2, <1>3, <1>4, <3>1, StoreAssumption
    <3>2. CASE x # r BY <1>2, <3>2 DEF AttemptsInv
    <3> QED BY <3>1, <3>2
  <2> QED BY <2>1 DEF AttemptsInv
<1>6. FinishedRunsKept BY <1>2 DEF FinishedRunsKept, TerminalRunStates
<1>7. CancelledRunsEnd
  BY <1>2, CancellingIsRunning DEF CancelledRunsEnd
<1> QED BY <1>5, <1>6, <1>7 DEF StepKeeps

\* A step that leaves the runs and their attempts alone keeps everything.
LEMMA SameRunsKeep ==
    ASSUME ExecutionInv, AttemptsInv, runs' = runs, attempts' = attempts
    PROVE  StepKeeps
<1>1. HistoryKept /\ FinishedRunsKept BY SameStates
<1>2. SameRunning BY DEF SameRunning
<1> QED BY <1>1, <1>2, SameRunningKeeps

\* Every step of the daemon keeps the accounting, history and cancellations.
LEMMA NextKeeps ==
    ASSUME ExecutionInv, AttemptsInv, [Next]_vars
    PROVE  StepKeeps
<1>0. /\ StoreInv
      /\ runs \in [Runs -> RunRow]
  BY DEF ExecutionInv, TypeOK, StoreInv, StoreType
<1>1. CASE StoreStep
  <2>1. SameRunning
    BY <1>0, <1>1, RequestSameRunning, RetentionSameRunning DEF StoreStep
  <2> QED BY <1>0, <1>1, <2>1, StoreStepHistory, SameRunningKeeps
<1>2. ASSUME NEW r \in Runs, BecomeDue(r) PROVE StepKeeps
  <2>1. /\ \A x \in Runs : runs'[x].state = runs[x].state
        /\ \A x \in Runs : runs[x].state \notin LiveStates => runs'[x] = runs[x]
        /\ attempts' = attempts
    BY <1>0, <1>2 DEF BecomeDue, RunRow, LiveStates
  <2>2. HistoryKept /\ FinishedRunsKept BY <2>1, SameStates
  <2>3. SameRunning BY <2>1 DEF SameRunning
  <2> QED BY <2>2, <2>3, SameRunningKeeps
<1>3. ASSUME NEW r \in Runs, Launch(r) PROVE StepKeeps
  <2>1. CASE StartAccepted(r) BY <2>1, SameRunsKeep DEF StartAccepted
  <2>2. ASSUME NEW s \in SuccessorIds(r), StartRefused(r, s) PROVE StepKeeps
    <3>1. runs[r].state = "running" /\ r \notin cancelling
      BY <2>2 DEF StartRefused, ExecutionInv, MemoryMatchesRows
    <3>2. "failed" \in TerminalRunStates BY DEF TerminalRunStates
    <3> QED BY <2>2, <3>1, <3>2, FinishKeeps DEF StartRefused
  <2> QED BY <1>3, <2>1, <2>2 DEF Launch
<1>4. ASSUME NEW r \in Runs, Completion(r) PROVE StepKeeps
  <2>1. PICK outcome \in {"succeeded", "failed", "cancelled"}, retryable \in BOOLEAN,
             due \in BOOLEAN, s \in SuccessorIds(r) :
             Complete(r, active[r], outcome, retryable, due, s)
    BY <1>4 DEF Completion
  <2> DEFINE effective == EffectiveOutcome(r, outcome)
  <2>2. effective \in TerminalRunStates /\ (r \in cancelling => effective = "cancelled")
    BY DEF EffectiveOutcome, TerminalRunStates
  <2>3. <<r, active[r]>> \in executing BY <2>1 DEF Complete
  <2>4. active[r] # 0 BY <2>3 DEF ExecutionInv, ExecutorsMatchMemory
  <2>5. runs[r].state = "running" BY <2>4 DEF ExecutionInv, MemoryMatchesRows
  <2>6. /\ FinishAttempt(r, effective)
        /\ \/ EndRun(r, effective, s)
           \/ RetryRun(r, due) /\ Len(attempts[r]) < MaxAttempts /\ effective # "cancelled"
    BY <2>1 DEF Complete, WillRetry
  <2> HIDE DEF effective
  <2> QED BY <2>2, <2>5, <2>6, FinishKeeps
<1>5. ASSUME NEW r \in Runs, CancelRequest(r) PROVE StepKeeps
  <2>1. CASE RequestCancel(r) BY <2>1, SameRunsKeep DEF RequestCancel, store
  <2>2. ASSUME NEW s \in SuccessorIds(r), CancelPendingRun(r, s) PROVE StepKeeps
    <3>1. /\ runs[r].state \in {"scheduled", "retry_wait"} /\ EndRun(r, "cancelled", s)
          /\ attempts' = attempts
      BY <2>2 DEF CancelPendingRun
    <3>2. runs[r].state \in LiveStates /\ "cancelled" \in TerminalRunStates
      BY <3>1 DEF LiveStates, TerminalRunStates
    <3>3. HistoryKept /\ FinishedRunsKept BY <1>0, <3>1, <3>2, EndRunHistory
    <3>4. attempts \in [Runs -> Seq(AttemptStates)] BY <1>0 DEF StoreInv, StoreType
    <3>5. OnlyEnds(r) BY <1>0, <3>1, <3>2, <3>4, EndRunOnlyEnds
    <3>6. SameRunning BY <3>1, <3>5 DEF SameRunning, OnlyEnds
    <3> QED BY <3>3, <3>6, SameRunningKeeps
  <2> QED BY <1>5, <2>1, <2>2 DEF CancelRequest
<1>6. CASE SchedulerStep
  BY <1>3, <1>4, <1>5, <1>6, DispatchKeeps DEF SchedulerStep, DispatchStep
<1>7. CASE RecoveryStep
  <2>1. ASSUME NEW r \in Runs, NEW due \in BOOLEAN, NEW s \in SuccessorIds(r), RecoverRun(r, due, s)
        PROVE  StepKeeps
    <3>1. daemon = "recovering" BY <1>7 DEF RecoveryStep
    <3>2. runs[r].state = "running" /\ r \notin cancelling
      BY <2>1, <3>1 DEF RecoverRun, ExecutionInv, RecoveryIsAlone, MemoryCleared
    <3>3. "interrupted" \in TerminalRunStates BY DEF TerminalRunStates
    <3>4. /\ FinishAttempt(r, "interrupted")
          /\ \/ EndRun(r, "interrupted", s)
             \/ RetryRun(r, due) /\ Len(attempts[r]) < MaxAttempts
      BY <2>1 DEF RecoverRun, RetryInterrupted
    <3> QED BY <3>2, <3>3, <3>4, FinishKeeps
  <2>2. ASSUME NEW j \in Jobs, NEW s, RecoverJob(j, s) PROVE StepKeeps
    <3>1. CASE ~MissingSuccessor(j)
      BY <2>2, <3>1, SameRunsKeep DEF RecoverJob
    <3>2. CASE MissingSuccessor(j)
      <4> DEFINE row == ScheduledRun(jobs[j], j, FALSE)
      <4>1. row.state = "scheduled" BY DEF ScheduledRun
      <4>2. /\ s \in Runs /\ runs[s].state = "absent" /\ attempts' = attempts
            /\ runs' = [runs EXCEPT ![s] = row]
        BY <2>2, <3>2 DEF RecoverJob, AbsentRuns
      <4> HIDE DEF row
      <4>3. HistoryKept /\ FinishedRunsKept BY <1>0, <4>1, <4>2, NewRow
      <4>4. SameRunning BY <1>0, <4>1, <4>2, NewRowSameRunning
      <4> QED BY <4>3, <4>4, SameRunningKeeps
    <3> QED BY <3>1, <3>2
  <2>3. CASE Validate \/ RunsRecovered \/ JobsRecovered \/ QueuesRecovered
    BY <2>3, SameRunsKeep DEF Validate, RunsRecovered, JobsRecovered, QueuesRecovered, store
  <2>4. ASSUME NEW q \in Queues, RecoverQueue(q) PROVE StepKeeps
    BY <2>4, SameRunsKeep DEF RecoverQueue
  <2> QED BY <1>7, <2>1, <2>2, <2>3, <2>4 DEF RecoveryStep
<1>8. CASE Start \/ Serve \/ Stop \/ Crash
  BY <1>8, SameRunsKeep DEF Start, Serve, Stop, Crash, store
<1>9. ASSUME NEW r \in Runs, DropCompletion(r) PROVE StepKeeps
  BY <1>9, SameRunsKeep DEF DropCompletion, store
<1>10. CASE UNCHANGED vars
  BY <1>10, SameRunsKeep DEF vars, store
<1> QED BY <1>1, <1>2, <1>6, <1>7, <1>8, <1>9, <1>10 DEF Next

-----------------------------------------------------------------------------
(* The theorems.                                                           *)

\* The accounting holds in every reachable state.
THEOREM AttemptsInvariance == Spec => []AttemptsInv
<1>1. Init => AttemptsInv
  BY StoreAssumption DEF Init, StoreInit, AttemptsInv, NoRunRow
<1>2. ExecutionInv /\ AttemptsInv /\ [Next]_vars => AttemptsInv'
  BY NextKeeps DEF StepKeeps
<1> QED BY <1>1, <1>2, ExecutionInvariance, PTL DEF Spec

\* No run is ever attempted more often than retry.max_attempts, whatever mix
\* of failures, crashes, recoveries and restarts it goes through.
THEOREM BoundedAttempts == Spec => []AttemptsWithinLimit
<1>1. AttemptsInv => AttemptsWithinLimit BY DEF AttemptsInv, AttemptsWithinLimit
<1> QED BY <1>1, AttemptsInvariance, PTL

\* A finished run is never reopened or rewritten: retention removes it whole,
\* and nothing else touches it.
THEOREM ImmutableHistory == Spec => HistoryIsImmutable
<1>1. ExecutionInv /\ AttemptsInv /\ [Next]_vars => [FinishedRunsKept]_vars
  BY NextKeeps DEF StepKeeps
<1> QED BY <1>1, ExecutionInvariance, AttemptsInvariance, PTL DEF Spec, HistoryIsImmutable

\* The completion of a run whose cancellation was accepted records cancelled.
THEOREM HonouredCancellation == Spec => CancellationIsHonoured
<1>1. ExecutionInv /\ AttemptsInv /\ [Next]_vars => [CancelledRunsEnd]_vars
  BY NextKeeps DEF StepKeeps
<1> QED BY <1>1, ExecutionInvariance, AttemptsInvariance, PTL DEF Spec, CancellationIsHonoured

=============================================================================

------------------------- MODULE JobuSuspensionProofs -------------------------
(***************************************************************************)
(* Suspension waits for exactly the running work, for every value of the   *)
(* constants, as long as no client moves a job.  Shown together with what  *)
(* every transaction keeps true of the rows: they refer to rows that exist *)
(* (ReferencesHold), the attempts of a run tell the same story as its      *)
(* state (HistoriesMatch), and an open job has a live run (OpenHasRun).    *)
(*                                                                         *)
(* Each step of the daemon has one of a few effects on the store           *)
(* (NextEffect), and each effect keeps these facts.                        *)
(*                                                                         *)
(* move_job_impl is left out because it does not look at running work: it  *)
(* can carry a running manual run into a suspended queue, and a crash then *)
(* leaves a store that the next start refuses.                             *)
(***************************************************************************)
EXTENDS JobuHistoryProofs, JobuLifecycleProofs

\* No client of the instance moves a job.
WithoutMoves == "job.move" \notin Requests

\* Rows refer to rows that exist, and what is in a deleted queue is deleted.
ReferencesHold ==
    /\ \A r \in Runs : runs[r].state # "absent" =>
           /\ runs[r].queue \in Queues
           /\ jobs[runs[r].job].state # "absent"
           /\ queues[runs[r].queue].state # "absent"
    /\ \A j \in Jobs : jobs[j].state # "absent" =>
           /\ jobs[j].queue \in Queues
           /\ queues[jobs[j].queue].state # "absent"
           /\ queues[jobs[j].queue].state = "deleted" => jobs[j].state = "deleted"

\* The attempts of every run fit its state.
HistoriesMatch == \A r \in Runs : runs[r].state # "absent" => ValidHistory(r)

\* An open job has a live run.
OpenHasRun ==
    \A j \in Jobs : jobs[j].state \in Open =>
        \E r \in Runs : runs[r].job = j /\ runs[r].state \in LiveStates

StoreFacts ==
    /\ ReferencesHold
    /\ HistoriesMatch
    /\ OpenHasRun
    /\ SuspensionIsExact

-----------------------------------------------------------------------------
(* What one step of the daemon may do to the store.                        *)

\* The latest attempt of a running run is closed, and the run ends or waits
\* for its next attempt.
Finishes(r, outcome) ==
    /\ runs[r].state = "running"
    /\ FinishAttempt(r, outcome)
    /\ \/ \E s \in SuccessorIds(r) : EndRun(r, outcome, s)
       \/ outcome \in {"failed", "interrupted"} /\ \E due \in BOOLEAN : RetryRun(r, due)

\* A run that is not running is cancelled.
Cancels(r) ==
    /\ runs[r].state \in {"scheduled", "retry_wait"}
    /\ attempts' = attempts
    /\ \E s \in SuccessorIds(r) : EndRun(r, "cancelled", s)

\* Only suspensions complete.
Drains ==
    /\ runs' = runs /\ attempts' = attempts
    /\ \/ queues' = queues /\ \E j \in Jobs : jobs' = DrainJob(jobs, runs, j)
       \/ jobs' = jobs /\ \E q \in Queues : queues' = DrainQueue(queues, runs, q)

StoreEffect ==
    \/ UNCHANGED store
    \/ StoreStep
    \/ \E r \in Runs : BecomeDue(r) \/ Dispatch(r) \/ Cancels(r)
    \/ \E r \in Runs, outcome \in TerminalRunStates : Finishes(r, outcome)
    \/ Drains

\* Every step has one of those effects.
LEMMA NextEffect ==
    ASSUME ExecutionInv, LifecycleInv, [Next]_vars
    PROVE  StoreEffect
<1> USE DEF StoreEffect
<1>1. ASSUME NEW r \in Runs, Launch(r) PROVE StoreEffect
  <2>1. CASE StartAccepted(r) BY <2>1 DEF StartAccepted, store
  <2>2. ASSUME NEW s \in SuccessorIds(r), StartRefused(r, s) PROVE StoreEffect
    <3>1. runs[r].state = "running"
      BY <2>2 DEF StartRefused, ExecutionInv, MemoryMatchesRows
    <3>2. Finishes(r, "failed") BY <2>2, <3>1 DEF StartRefused, Finishes
    <3> QED BY <3>2 DEF TerminalRunStates
  <2> QED BY <1>1, <2>1, <2>2 DEF Launch
<1>2. ASSUME NEW r \in Runs, Completion(r) PROVE StoreEffect
  <2>1. PICK outcome \in {"succeeded", "failed", "cancelled"}, retryable \in BOOLEAN,
             due \in BOOLEAN, s \in SuccessorIds(r) :
             Complete(r, active[r], outcome, retryable, due, s)
    BY <1>2 DEF Completion
  <2> DEFINE effective == EffectiveOutcome(r, outcome)
  <2>2. effective \in TerminalRunStates BY DEF EffectiveOutcome, TerminalRunStates
  <2>3. <<r, active[r]>> \in executing BY <2>1 DEF Complete
  <2>4. active[r] # 0 BY <2>3 DEF ExecutionInv, ExecutorsMatchMemory
  <2>5. runs[r].state = "running" BY <2>4 DEF ExecutionInv, MemoryMatchesRows
  <2>6. /\ FinishAttempt(r, effective)
        /\ EndRun(r, effective, s) \/ (RetryRun(r, due) /\ effective = "failed")
    BY <2>1 DEF Complete, WillRetry
  <2> HIDE DEF effective
  <2>7. Finishes(r, effective) BY <2>5, <2>6 DEF Finishes
  <2> QED BY <2>2, <2>7
<1>3. ASSUME NEW r \in Runs, CancelRequest(r) PROVE StoreEffect
  BY <1>3 DEF CancelRequest, RequestCancel, CancelPendingRun, Cancels, store
<1>4. CASE SchedulerStep
  BY <1>1, <1>2, <1>3, <1>4 DEF SchedulerStep, DispatchStep
<1>5. CASE RecoveryStep
  <2>1. ASSUME NEW r \in Runs, NEW due \in BOOLEAN, NEW s \in SuccessorIds(r), RecoverRun(r, due, s)
        PROVE  StoreEffect
    <3>1. runs[r].state = "running" BY <2>1 DEF RecoverRun, ExecutionInv, RecoveryIsAlone
    <3>2. Finishes(r, "interrupted") BY <2>1, <3>1 DEF RecoverRun, Finishes
    <3> QED BY <3>2 DEF TerminalRunStates
  <2>2. ASSUME NEW j \in Jobs, NEW s, RecoverJob(j, s) PROVE StoreEffect
    <3>1. ~MissingSuccessor(j)
      BY DEF MissingSuccessor, ScheduleOwned, LiveRuns, LifecycleInv, AbsentIsPlain,
             RecurringHasRun, Gone
    <3> QED BY <2>2, <3>1 DEF RecoverJob, Drains
  <2>3. ASSUME NEW q \in Queues, RecoverQueue(q) PROVE StoreEffect
    BY <2>3 DEF RecoverQueue, Drains
  <2>4. CASE Validate \/ RunsRecovered \/ JobsRecovered \/ QueuesRecovered
    BY <2>4 DEF Validate, RunsRecovered, JobsRecovered, QueuesRecovered
  <2> QED BY <1>5, <2>1, <2>2, <2>3, <2>4 DEF RecoveryStep
<1>6. CASE Start \/ Serve \/ Stop \/ Crash
  BY <1>6 DEF Start, Serve, Stop, Crash
<1>7. ASSUME NEW r \in Runs, DropCompletion(r) PROVE StoreEffect
  BY <1>7 DEF DropCompletion
<1>8. CASE UNCHANGED vars BY <1>8 DEF vars
<1> QED BY <1>4, <1>5, <1>6, <1>7, <1>8 DEF Next

-----------------------------------------------------------------------------
(* Suspension.                                                             *)

\* The running runs are the same ones, in the same job and queue.
RunningKept ==
    \A x \in Runs :
        /\ runs'[x].state = "running" <=> runs[x].state = "running"
        /\ runs[x].state = "running" =>
               /\ runs'[x].job = runs[x].job /\ runs'[x].queue = runs[x].queue
               /\ runs'[x].manual = runs[x].manual

\* A queue row written as suspension wants it, over the running work.
QueueFits(state, running) ==
    /\ state = "suspending" => running # {}
    /\ state \in {"suspended", "deleted"} => running = {}

JobFits(state, running) ==
    /\ state = "suspending" => running # {}
    /\ state = "suspended" => \A r \in running : runs[r].manual

\* Suspension stays exact when running work stays where it is and every state
\* that changes fits it.
LEMMA KeptSuspension ==
    ASSUME SuspensionIsExact, RunningKept,
           \A q \in Queues : \/ queues'[q].state = queues[q].state
                             \/ QueueFits(queues'[q].state, RunningInQueue(runs, q)),
           \A j \in Jobs : \/ jobs'[j].state = jobs[j].state
                           \/ JobFits(jobs'[j].state, RunningInJob(runs, j))
    PROVE  SuspensionIsExact'
<1>1. \A q : RunningInQueue(runs', q) = RunningInQueue(runs, q)
  BY DEF RunningInQueue, RunningKept
<1>2. \A j : RunningInJob(runs', j) = RunningInJob(runs, j)
  BY DEF RunningInJob, RunningKept
<1>3. \A j : \A r \in RunningInJob(runs, j) : runs'[r].manual = runs[r].manual
  BY DEF RunningInJob, RunningKept
<1>4. QueueSuspensionIsExact'
  BY <1>1 DEF SuspensionIsExact, QueueSuspensionIsExact, QueueFits
<1>5. JobSuspensionIsExact'
  BY <1>2, <1>3 DEF SuspensionIsExact, JobSuspensionIsExact, JobFits
<1> QED BY <1>4, <1>5 DEF SuspensionIsExact

\* What draining a queue writes.
LEMMA DrainQueueWrites ==
    ASSUME NEW qs \in [Queues -> QueueRow], NEW rs, NEW q \in Queues
    PROVE  /\ \A x \in Queues : x # q => DrainQueue(qs, rs, q)[x] = qs[x]
           /\ DrainQueue(qs, rs, q)[q].state =
                  IF qs[q].state = "suspending" /\ RunningInQueue(rs, q) = {}
                  THEN "suspended" ELSE qs[q].state
BY DEF DrainQueue, QueueRow

\* What draining a job writes.
LEMMA DrainJobWrites ==
    ASSUME NEW js \in [Jobs -> JobRow], NEW rs, NEW j \in Jobs
    PROVE  /\ \A x \in Jobs : x # j => DrainJob(js, rs, j)[x] = js[x]
           /\ DrainJob(js, rs, j)[j].queue = js[j].queue
           /\ DrainJob(js, rs, j)[j].state =
                  IF js[j].state = "suspending" /\ RunningInJob(rs, j) = {}
                  THEN "suspended" ELSE js[j].state
BY DEF DrainJob, JobRow

\* r is not running any more, the other running runs are where they were, and
\* no row but a new planned one appears.
OnlyStops(r) ==
    /\ runs'[r].state # "running"
    /\ \A x \in Runs : x # r =>
           /\ runs'[x].state = "running" <=> runs[x].state = "running"
           /\ runs[x].state = "running" =>
                  /\ runs'[x].job = runs[x].job /\ runs'[x].queue = runs[x].queue
                  /\ runs'[x].manual = runs[x].manual

\* The owners of r complete their suspensions or, for its job, finish.
OwnersDrain(r) ==
    /\ \A q \in Queues : queues'[q].state =
           IF q = runs[r].queue /\ queues[q].state = "suspending" /\ RunningInQueue(runs', q) = {}
           THEN "suspended" ELSE queues[q].state
    /\ \A j \in Jobs :
           \/ jobs'[j].state =
                  IF j = runs[r].job /\ jobs[j].state = "suspending" /\ RunningInJob(runs', j) = {}
                  THEN "suspended" ELSE jobs[j].state
           \/ j = runs[r].job /\ jobs'[j].state \in TerminalJobStates

\* Suspension stays exact when a run stops.
LEMMA StoppedSuspension ==
    ASSUME SuspensionIsExact, NEW r \in Runs, OnlyStops(r), OwnersDrain(r)
    PROVE  SuspensionIsExact'
<1>1. ASSUME NEW q \in Queues
      PROVE  QueueFits(queues'[q].state, RunningInQueue(runs', q))
  <2>1. RunningInQueue(runs', q) \subseteq RunningInQueue(runs, q)
    BY DEF RunningInQueue, OnlyStops
  <2>2. q # runs[r].queue => RunningInQueue(runs', q) = RunningInQueue(runs, q)
    BY DEF RunningInQueue, OnlyStops
  <2>3. QueueFits(queues[q].state, RunningInQueue(runs, q))
    BY DEF QueueFits, SuspensionIsExact, QueueSuspensionIsExact
  <2> QED BY <2>1, <2>2, <2>3 DEF OwnersDrain, QueueFits
<1>2. ASSUME NEW j \in Jobs
      PROVE  /\ jobs'[j].state = "suspending" => RunningInJob(runs', j) # {}
             /\ jobs'[j].state = "suspended" => \A x \in RunningInJob(runs', j) : runs'[x].manual
  <2>1. RunningInJob(runs', j) \subseteq RunningInJob(runs, j)
    BY DEF RunningInJob, OnlyStops
  <2>2. j # runs[r].job => RunningInJob(runs', j) = RunningInJob(runs, j)
    BY DEF RunningInJob, OnlyStops
  <2>3. \A x \in RunningInJob(runs', j) : runs'[x].manual = runs[x].manual
    BY DEF RunningInJob, OnlyStops
  <2>4. /\ jobs[j].state = "suspending" => RunningInJob(runs, j) # {}
        /\ jobs[j].state = "suspended" => \A x \in RunningInJob(runs, j) : runs[x].manual
    BY DEF SuspensionIsExact, JobSuspensionIsExact
  <2>5. "suspending" \notin TerminalJobStates /\ "suspended" \notin TerminalJobStates
    BY DEF TerminalJobStates
  <2>6. CASE jobs'[j].state \in TerminalJobStates BY <2>5, <2>6
  <2>7. CASE jobs'[j].state =
                 IF j = runs[r].job /\ jobs[j].state = "suspending" /\ RunningInJob(runs', j) = {}
                 THEN "suspended" ELSE jobs[j].state
    BY <2>1, <2>2, <2>3, <2>4, <2>7
  <2> QED BY <2>6, <2>7 DEF OwnersDrain
<1> QED BY <1>1, <1>2 DEF SuspensionIsExact, QueueSuspensionIsExact, JobSuspensionIsExact, QueueFits

-----------------------------------------------------------------------------
(* References.                                                             *)

\* Owners keep existing, where they are.
OwnersStay ==
    /\ \A q \in Queues : /\ queues'[q].state = "absent" => queues[q].state = "absent"
                         /\ queues'[q].state = "deleted" => queues[q].state = "deleted"
    /\ \A j \in Jobs :
           /\ jobs'[j].state = "absent" <=> jobs[j].state = "absent"
           /\ jobs[j].state # "absent" => jobs'[j].queue = jobs[j].queue
           /\ jobs[j].state = "deleted" => jobs'[j].state = "deleted"

\* A run stays with its owners, or is a new one of an existing job.
RunsRefer ==
    \A r \in Runs : runs'[r].state # "absent" =>
        \/ /\ runs[r].state # "absent"
           /\ runs'[r].job = runs[r].job /\ runs'[r].queue = runs[r].queue
        \/ /\ runs'[r].job \in Jobs /\ jobs[runs'[r].job].state # "absent"
           /\ runs'[r].queue = jobs[runs'[r].job].queue

\* References survive such steps.
LEMMA KeptReferences ==
    ASSUME StoreInv, ReferencesHold, OwnersStay, RunsRefer
    PROVE  ReferencesHold'
<1>1. ASSUME NEW r \in Runs, runs'[r].state # "absent"
      PROVE  /\ runs'[r].queue \in Queues
             /\ jobs'[runs'[r].job].state # "absent"
             /\ queues'[runs'[r].queue].state # "absent"
  <2>1. CASE runs[r].state # "absent" /\ runs'[r].job = runs[r].job /\ runs'[r].queue = runs[r].queue
    <3>1. runs[r].job \in Jobs BY <2>1 DEF StoreInv, RowsHaveOwners
    <3> QED BY <2>1, <3>1 DEF ReferencesHold, OwnersStay
  <2>2. CASE /\ runs'[r].job \in Jobs /\ jobs[runs'[r].job].state # "absent"
             /\ runs'[r].queue = jobs[runs'[r].job].queue
    BY <2>2 DEF ReferencesHold, OwnersStay
  <2> QED BY <1>1, <2>1, <2>2 DEF RunsRefer
<1>2. ASSUME NEW j \in Jobs, jobs'[j].state # "absent"
      PROVE  /\ jobs'[j].queue \in Queues
             /\ queues'[jobs'[j].queue].state # "absent"
             /\ queues'[jobs'[j].queue].state = "deleted" => jobs'[j].state = "deleted"
  BY <1>2 DEF ReferencesHold, OwnersStay
<1> QED BY <1>1, <1>2 DEF ReferencesHold

-----------------------------------------------------------------------------
(* Histories.                                                              *)

\* A planned run starts without attempts.
LEMMA EmptyHistory == HistoryFits(<< >>, "scheduled")
BY DEF HistoryFits

\* A pending run takes another attempt.
LEMMA AppendedHistory ==
    ASSUME NEW h \in Seq(AttemptStates), NEW s \in {"scheduled", "retry_wait"}, HistoryFits(h, s)
    PROVE  HistoryFits(Append(h, "running"), "running")
<1> DEFINE g == Append(h, "running")
<1>1. /\ Len(h) \in Nat /\ Len(g) = Len(h) + 1 /\ g[Len(h) + 1] = "running"
      /\ \A i \in 1..Len(h) : g[i] = h[i]
  <2>1. "running" \in AttemptStates BY DEF AttemptStates
  <2> QED BY <2>1
<1>2. g # << >> BY AppendLength DEF AttemptStates
<1>3. \A i \in 1..Len(h) : h[i] \in {"failed", "interrupted"}
  <2>1. CASE h = << >> BY <2>1
  <2>2. CASE h # << >>
    <3>1. Last(h) \in {"failed", "interrupted"} BY <2>2 DEF HistoryFits
    <3>2. \A i \in 1..Len(h) - 1 : h[i] \in {"failed", "interrupted"} BY DEF HistoryFits
    <3> QED BY <1>1, <3>1, <3>2 DEF Last
  <2> QED BY <2>1, <2>2
<1> HIDE DEF g
<1>4. \A i \in 1..Len(g) - 1 : g[i] \in {"failed", "interrupted"} BY <1>1, <1>3
<1>5. Last(g) = "running" BY <1>1 DEF Last
<1> QED BY <1>2, <1>4, <1>5 DEF HistoryFits, g

\* The latest attempt of a running run ends; the run ends with it or waits.
LEMMA FinishedHistory ==
    ASSUME NEW h \in Seq(AttemptStates), NEW outcome \in TerminalRunStates,
           HistoryFits(h, "running")
    PROVE  LET g == [h EXCEPT ![Len(h)] = outcome] IN
           /\ HistoryFits(g, outcome)
           /\ outcome \in {"failed", "interrupted"} => HistoryFits(g, "retry_wait")
<1> DEFINE g == [h EXCEPT ![Len(h)] = outcome]
<1>1. h # << >> /\ \A i \in 1..Len(h) - 1 : h[i] \in {"failed", "interrupted"}
  BY DEF HistoryFits
<1>2. Len(h) \in Nat \ {0} BY <1>1
<1>3. /\ Len(g) = Len(h) /\ g[Len(g)] = outcome
      /\ \A i \in 1..Len(h) - 1 : g[i] = h[i]
  BY <1>2
<1>4. g # << >> BY <1>2, <1>3
<1> HIDE DEF g
<1>5. \A i \in 1..Len(g) - 1 : g[i] \in {"failed", "interrupted"} BY <1>1, <1>2, <1>3
<1>6. Last(g) = outcome BY <1>3 DEF Last
<1>7. HistoryFits(g, outcome)
  BY <1>4, <1>5, <1>6 DEF HistoryFits, TerminalRunStates
<1>8. outcome \in {"failed", "interrupted"} => HistoryFits(g, "retry_wait")
  BY <1>4, <1>5, <1>6 DEF HistoryFits
<1> QED BY <1>7, <1>8 DEF g

\* A pending run is cancelled without a new attempt.
LEMMA CancelledHistory ==
    ASSUME NEW h, NEW s \in {"scheduled", "retry_wait"}, HistoryFits(h, s)
    PROVE  HistoryFits(h, "cancelled")
BY DEF HistoryFits

\* Steps that leave the histories of the rows alone: a row keeps its state, is
\* new and planned, is cancelled while pending, or is gone.
AttemptsStay ==
    \A r \in Runs : runs'[r].state # "absent" =>
        /\ attempts'[r] = attempts[r]
        /\ \/ runs'[r].state = runs[r].state
           \/ runs[r].state = "absent" /\ runs'[r].state = "scheduled"
           \/ runs[r].state \in {"scheduled", "retry_wait"} /\ runs'[r].state = "cancelled"

\* They keep the histories fitting.
LEMMA KeptHistories ==
    ASSUME AttemptsInv, HistoriesMatch, AttemptsStay
    PROVE  HistoriesMatch'
<1> SUFFICES ASSUME NEW r \in Runs, runs'[r].state # "absent"
             PROVE  HistoryFits(attempts'[r], runs'[r].state)
  BY DEF HistoriesMatch, ValidHistory
<1>1. attempts'[r] = attempts[r] BY DEF AttemptsStay
<1>2. runs[r].state # "absent" => HistoryFits(attempts[r], runs[r].state)
  BY DEF HistoriesMatch, ValidHistory
<1>3. CASE runs'[r].state = runs[r].state BY <1>1, <1>2, <1>3
<1>4. CASE runs[r].state = "absent" /\ runs'[r].state = "scheduled"
  BY <1>1, <1>4, EmptyHistory DEF AttemptsInv
<1>5. CASE runs[r].state \in {"scheduled", "retry_wait"} /\ runs'[r].state = "cancelled"
  BY <1>1, <1>2, <1>5, CancelledHistory
<1> QED BY <1>3, <1>4, <1>5 DEF AttemptsStay

-----------------------------------------------------------------------------
(* Requests and retention.                                                 *)

\* No job opens, and an open job keeps its live runs.
OpenStay ==
    /\ \A j \in Jobs : jobs'[j].state \in Open => jobs[j].state \in Open
    /\ \A r \in Runs : runs[r].state \in LiveStates /\ jobs'[runs[r].job].state \in Open =>
           runs'[r].state \in LiveStates /\ runs'[r].job = runs[r].job

\* The states a step writes fit the running work.
StatesFit ==
    /\ \A q \in Queues : \/ queues'[q].state = queues[q].state
                         \/ QueueFits(queues'[q].state, RunningInQueue(runs, q))
    /\ \A j \in Jobs : \/ jobs'[j].state = jobs[j].state
                       \/ JobFits(jobs'[j].state, RunningInJob(runs, j))

\* An open job still has a live run.
LEMMA KeptOpen ==
    ASSUME OpenHasRun, OpenStay
    PROVE  OpenHasRun'
<1> SUFFICES ASSUME NEW j \in Jobs, jobs'[j].state \in Open
             PROVE  \E r \in Runs : runs'[r].job = j /\ runs'[r].state \in LiveStates
  BY DEF OpenHasRun
<1>1. PICK r \in Runs : runs[r].job = j /\ runs[r].state \in LiveStates
  BY DEF OpenHasRun, OpenStay
<1> QED BY <1>1 DEF OpenStay

\* The runs table is left alone.
LEMMA SameRunsStay ==
    ASSUME runs' = runs, attempts' = attempts
    PROVE  /\ RunsRefer /\ AttemptsStay /\ RunningKept
           /\ (\A j \in Jobs : jobs'[j].state \in Open => jobs[j].state \in Open) => OpenStay
BY DEF RunsRefer, AttemptsStay, RunningKept, OpenStay

\* Everything a step has to keep.
LEMMA KeptFacts ==
    ASSUME StoreInv, AttemptsInv, StoreFacts, RunsRefer, OwnersStay, AttemptsStay,
           RunningKept, OpenStay, StatesFit
    PROVE  StoreFacts'
<1>1. ReferencesHold' BY KeptReferences DEF StoreFacts
<1>2. HistoriesMatch' BY KeptHistories DEF StoreFacts
<1>3. OpenHasRun' BY KeptOpen DEF StoreFacts
<1>4. SuspensionIsExact' BY KeptSuspension DEF StoreFacts, StatesFit
<1> QED BY <1>1, <1>2, <1>3, <1>4 DEF StoreFacts

\* Creating, updating, suspending and resuming a queue.
LEMMA QueueRequestFacts ==
    ASSUME StoreInv, AttemptsInv, StoreFacts, NEW q \in Queues, QueueRequest(q), ~DeleteQueue(q)
    PROVE  StoreFacts'
<1>1. jobs' = jobs /\ runs' = runs /\ attempts' = attempts
  BY DEF QueueRequest, CreateQueue, UpdateQueue, SuspendQueue, ResumeQueue
<1>2. queues \in [Queues -> QueueRow] BY DEF StoreInv, StoreType
<1> DEFINE Written ==
             /\ \A x \in Queues : x # q => queues'[x] = queues[x]
             /\ \/ queues'[q].state = queues[q].state
                \/ queues'[q].state = "active"
                \/ queues'[q].state = "suspending" /\ RunningInQueue(runs, q) # {}
                \/ queues'[q].state = "suspended" /\ RunningInQueue(runs, q) = {}
<1>3. Written
  <2>1. ASSUME NEW limit \in 1..MaxLimit, NEW retry \in BOOLEAN,
               CreateQueue(q, limit, retry) \/ UpdateQueue(q, limit, retry)
        PROVE  Written
    BY <1>2, <2>1 DEF CreateQueue, UpdateQueue, QueueRow
  <2>2. CASE ResumeQueue(q) BY <1>2, <2>2 DEF ResumeQueue, QueueRow
  <2>3. CASE SuspendQueue(q)
    <3> DEFINE qs == [queues EXCEPT ![q].state = "suspending"]
    <3>1. qs \in [Queues -> QueueRow] BY <1>2 DEF QueueRow, QueueStates
    <3>2. qs[q].state = "suspending" /\ \A x \in Queues : x # q => qs[x] = queues[x]
      BY <1>2 DEF QueueRow
    <3>3. queues' = DrainQueue(qs, runs, q) BY <2>3 DEF SuspendQueue
    <3> HIDE DEF qs
    <3> QED BY <3>1, <3>2, <3>3, DrainQueueWrites
  <2> QED BY <2>1, <2>2, <2>3 DEF QueueRequest
<1>4. OwnersStay /\ StatesFit
  BY <1>1, <1>3 DEF OwnersStay, StatesFit, QueueFits
<1> QED BY <1>1, <1>4, SameRunsStay, KeptFacts

\* Suspending and resuming a job.
LEMMA SuspendFacts ==
    ASSUME StoreInv, AttemptsInv, StoreFacts, NEW j \in Jobs, SuspendJob(j) \/ ResumeJob(j)
    PROVE  StoreFacts'
<1>1. queues' = queues /\ runs' = runs /\ attempts' = attempts /\ jobs[j].state \in Open
  BY DEF SuspendJob, ResumeJob, Open
<1>2. jobs \in [Jobs -> JobRow] BY DEF StoreInv, StoreType
<1>3. /\ \A x \in Jobs : x # j => jobs'[x] = jobs[x]
      /\ jobs'[j].queue = jobs[j].queue
      /\ \/ jobs'[j].state = "active"
         \/ jobs'[j].state = "suspending" /\ RunningInJob(runs, j) # {}
         \/ jobs'[j].state = "suspended" /\ RunningInJob(runs, j) = {}
  <2>1. CASE ResumeJob(j) BY <1>2, <2>1 DEF ResumeJob, JobRow
  <2>2. CASE SuspendJob(j)
    <3> DEFINE js == [jobs EXCEPT ![j].state = "suspending"]
    <3>1. js \in [Jobs -> JobRow] BY <1>2 DEF JobRow, JobStates
    <3>2. /\ js[j].state = "suspending" /\ js[j].queue = jobs[j].queue
          /\ \A x \in Jobs : x # j => js[x] = jobs[x]
      BY <1>2 DEF JobRow
    <3>3. jobs' = DrainJob(js, runs, j) BY <2>2 DEF SuspendJob
    <3> HIDE DEF js
    <3> QED BY <3>1, <3>2, <3>3, DrainJobWrites
  <2> QED BY <2>1, <2>2
<1>4. OwnersStay /\ StatesFit
  BY <1>1, <1>3 DEF OwnersStay, StatesFit, JobFits, Open
<1>5. \A x \in Jobs : jobs'[x].state \in Open => jobs[x].state \in Open
  BY <1>1, <1>3
<1> QED BY <1>1, <1>4, <1>5, SameRunsStay, KeptFacts

\* Updating a job.
LEMMA UpdateFacts ==
    ASSUME StoreInv, AttemptsInv, StoreFacts, NEW j \in Jobs, NEW recurring \in BOOLEAN,
           NEW due \in BOOLEAN, UpdateJob(j, recurring, due)
    PROVE  StoreFacts'
<1>1. jobs \in [Jobs -> JobRow] /\ runs \in [Runs -> RunRow] BY DEF StoreInv, StoreType
<1>2. \A x \in Jobs : jobs'[x].state = jobs[x].state /\ jobs'[x].queue = jobs[x].queue
  BY <1>1 DEF UpdateJob, JobRow
<1>3. \A x \in Runs : /\ runs'[x].state = runs[x].state /\ runs'[x].job = runs[x].job
                      /\ runs'[x].queue = runs[x].queue /\ runs'[x].manual = runs[x].manual
  BY <1>1 DEF UpdateJob, Refreshed, RunRow
<1>4. queues' = queues /\ attempts' = attempts BY DEF UpdateJob
<1>5. RunsRefer /\ OwnersStay BY <1>2, <1>3, <1>4 DEF RunsRefer, OwnersStay
<1>6. AttemptsStay /\ RunningKept BY <1>3, <1>4 DEF AttemptsStay, RunningKept
<1>7. OpenStay
  BY <1>2, <1>3 DEF OpenStay
<1>8. StatesFit BY <1>2, <1>4 DEF StatesFit
<1> QED BY <1>5, <1>6, <1>7, <1>8, KeptFacts

\* Run Now.
LEMMA RunNowFacts ==
    ASSUME StoreInv, AttemptsInv, StoreFacts, NEW j \in Jobs, NEW r \in Runs, RunNow(j, r)
    PROVE  StoreFacts'
<1> DEFINE row == ManualRun(jobs[j], j)
<1>1. runs \in [Runs -> RunRow] BY DEF StoreInv, StoreType
<1>2. row.state = "scheduled" /\ row.job = j /\ row.queue = jobs[j].queue BY DEF ManualRun
<1>3. /\ runs[r].state = "absent" /\ runs' = [runs EXCEPT ![r] = row]
      /\ queues' = queues /\ jobs' = jobs /\ attempts' = attempts /\ jobs[j].state # "absent"
  BY DEF RunNow
<1> HIDE DEF row
<1>4. runs'[r] = row /\ \A x \in Runs : x # r => runs'[x] = runs[x] BY <1>1, <1>3
<1>5. RunsRefer /\ OwnersStay BY <1>2, <1>3, <1>4 DEF RunsRefer, OwnersStay
<1>6. AttemptsStay /\ RunningKept BY <1>2, <1>3, <1>4 DEF AttemptsStay, RunningKept
<1>7. OpenStay /\ StatesFit BY <1>3, <1>4 DEF OpenStay, StatesFit, LiveStates
<1> QED BY <1>5, <1>6, <1>7, KeptFacts

\* Creating a job with its first run.
LEMMA CreateJobFacts ==
    ASSUME StoreInv, AttemptsInv, StoreFacts, NEW j \in Jobs, NEW q \in Queues,
           NEW recurring \in BOOLEAN, NEW due \in BOOLEAN, NEW r \in Runs,
           CreateJob(j, q, recurring, due, r)
    PROVE  StoreFacts'
<1> DEFINE row == [state |-> "active", queue |-> q, recurring |-> recurring, def |-> 0]
           new == ScheduledRun(row, j, due)
<1>1. jobs \in [Jobs -> JobRow] /\ runs \in [Runs -> RunRow] BY DEF StoreInv, StoreType
<1>2. /\ jobs[j].state = "absent" /\ runs[r].state = "absent"
      /\ queues[q].state \in {"active", "suspended"}
      /\ jobs' = [jobs EXCEPT ![j] = row] /\ runs' = [runs EXCEPT ![r] = new]
      /\ queues' = queues /\ attempts' = attempts
  BY DEF CreateJob
<1>3. /\ row.state = "active" /\ row.queue = q
      /\ new.state = "scheduled" /\ new.job = j /\ new.queue = q
  BY DEF ScheduledRun
<1> HIDE DEF row, new
<1>4. /\ jobs'[j] = row /\ \A x \in Jobs : x # j => jobs'[x] = jobs[x]
      /\ runs'[r] = new /\ \A x \in Runs : x # r => runs'[x] = runs[x]
  BY <1>1, <1>2
<1>5. ReferencesHold'
  <2>1. ASSUME NEW x \in Runs, runs'[x].state # "absent"
        PROVE  /\ runs'[x].queue \in Queues
               /\ jobs'[runs'[x].job].state # "absent"
               /\ queues'[runs'[x].queue].state # "absent"
    <3>1. CASE x = r BY <1>2, <1>3, <1>4, <3>1
    <3>2. CASE x # r
      <4>1. runs'[x] = runs[x] /\ runs[x].job \in Jobs
        BY <1>4, <2>1, <3>2 DEF StoreInv, RowsHaveOwners
      <4>2. jobs[runs[x].job].state # "absent" /\ runs[x].job # j
        BY <1>2, <2>1, <4>1 DEF StoreFacts, ReferencesHold
      <4> QED BY <1>2, <1>4, <2>1, <4>1, <4>2 DEF StoreFacts, ReferencesHold
    <3> QED BY <3>1, <3>2
  <2>2. ASSUME NEW x \in Jobs, jobs'[x].state # "absent"
        PROVE  /\ jobs'[x].queue \in Queues
               /\ queues'[jobs'[x].queue].state # "absent"
               /\ queues'[jobs'[x].queue].state = "deleted" => jobs'[x].state = "deleted"
    <3>1. CASE x = j BY <1>2, <1>3, <1>4, <3>1
    <3>2. CASE x # j BY <1>2, <1>4, <2>2, <3>2 DEF StoreFacts, ReferencesHold
    <3> QED BY <3>1, <3>2
  <2> QED BY <2>1, <2>2 DEF ReferencesHold
<1>6. HistoriesMatch'
  <2>1. AttemptsStay BY <1>2, <1>3, <1>4 DEF AttemptsStay
  <2> QED BY <2>1, KeptHistories DEF StoreFacts
<1>7. OpenHasRun'
  <2>1. ASSUME NEW x \in Jobs, jobs'[x].state \in Open
        PROVE  \E y \in Runs : runs'[y].job = x /\ runs'[y].state \in LiveStates
    <3>1. CASE x = j BY <1>3, <1>4, <3>1 DEF LiveStates
    <3>2. CASE x # j
      <4>1. PICK y \in Runs : runs[y].job = x /\ runs[y].state \in LiveStates
        BY <1>4, <2>1, <3>2 DEF StoreFacts, OpenHasRun
      <4>2. y # r BY <1>2, <4>1 DEF LiveStates
      <4> QED BY <1>4, <4>1, <4>2
    <3> QED BY <3>1, <3>2
  <2> QED BY <2>1 DEF OpenHasRun
<1>8. SuspensionIsExact'
  <2>1. RunningKept BY <1>2, <1>3, <1>4 DEF RunningKept
  <2>2. JobFits(jobs'[j].state, RunningInJob(runs, j)) BY <1>3, <1>4 DEF JobFits
  <2>3. StatesFit BY <1>2, <1>4, <2>2 DEF StatesFit
  <2> QED BY <2>1, <2>3, KeptSuspension DEF StoreFacts, StatesFit
<1> QED BY <1>5, <1>6, <1>7, <1>8 DEF StoreFacts

\* Cancelled pending runs keep their owners, their attempts and the running work.
LEMMA CancelPendingStay ==
    ASSUME StoreInv, NEW S, runs' = CancelPending(S), attempts' = attempts
    PROVE  /\ RunsRefer /\ AttemptsStay /\ RunningKept
           /\ \A x \in Runs : x \notin S => runs'[x] = runs[x]
<1>1. runs \in [Runs -> RunRow] BY DEF StoreInv, StoreType
<1>2. \A x \in Runs :
          \/ runs'[x] = runs[x]
          \/ /\ runs[x].state \in {"scheduled", "retry_wait"} /\ runs'[x].state = "cancelled"
             /\ runs'[x].job = runs[x].job /\ runs'[x].queue = runs[x].queue
  BY <1>1 DEF CancelPending, RunRow
<1>3. \A x \in Runs : x \notin S => runs'[x] = runs[x]
  BY <1>1 DEF CancelPending
<1> QED BY <1>2, <1>3 DEF RunsRefer, AttemptsStay, RunningKept

\* Deleting a job.
LEMMA DeleteJobFacts ==
    ASSUME StoreInv, AttemptsInv, StoreFacts, NEW j \in Jobs, DeleteJob(j)
    PROVE  StoreFacts'
<1>1. jobs \in [Jobs -> JobRow] /\ queues' = queues BY DEF StoreInv, StoreType, DeleteJob
<1>2. /\ jobs[j].state \notin {"absent", "deleted"} /\ jobs'[j].state = "deleted"
      /\ jobs'[j].queue = jobs[j].queue
      /\ \A x \in Jobs : x # j => jobs'[x] = jobs[x]
  BY <1>1 DEF DeleteJob, JobRow, TerminalJobStates
<1>3. /\ RunsRefer /\ AttemptsStay /\ RunningKept
      /\ \A x \in Runs : runs[x].job # j => runs'[x] = runs[x]
  BY CancelPendingStay DEF DeleteJob
<1>4. OwnersStay BY <1>1, <1>2 DEF OwnersStay
<1>5. OpenStay BY <1>2, <1>3 DEF OpenStay, Open
<1>6. StatesFit BY <1>1, <1>2 DEF StatesFit, JobFits
<1> QED BY <1>3, <1>4, <1>5, <1>6, KeptFacts

\* Deleting a queue and the jobs in it.
LEMMA DeleteQueueFacts ==
    ASSUME StoreInv, LifecycleInv, AttemptsInv, StoreFacts, NEW q \in Queues, DeleteQueue(q)
    PROVE  StoreFacts'
<1>1. jobs \in [Jobs -> JobRow] /\ queues \in [Queues -> QueueRow] BY DEF StoreInv, StoreType
<1>2. /\ RunningInQueue(runs, q) = {} /\ queues[q].state = "suspended"
      /\ queues'[q].state = "deleted"
      /\ \A x \in Queues : x # q => queues'[x] = queues[x]
  BY <1>1 DEF DeleteQueue, QueueRow
<1>3. \A x \in Jobs : /\ jobs'[x].queue = jobs[x].queue
                      /\ jobs[x].queue = q => jobs'[x].state = "deleted"
                      /\ jobs[x].queue # q => jobs'[x] = jobs[x]
  BY <1>1 DEF DeleteQueue, JobRow
<1>4. /\ RunsRefer /\ AttemptsStay /\ RunningKept
      /\ \A x \in Runs : runs[x].queue # q => runs'[x] = runs[x]
  BY CancelPendingStay DEF DeleteQueue
<1>6. ReferencesHold'
  <2>1. ASSUME NEW x \in Runs, runs'[x].state # "absent"
        PROVE  /\ runs'[x].queue \in Queues
               /\ jobs'[runs'[x].job].state # "absent"
               /\ queues'[runs'[x].queue].state # "absent"
    <3>1. /\ runs'[x].job \in Jobs /\ jobs[runs'[x].job].state # "absent"
          /\ runs'[x].queue \in Queues /\ queues[runs'[x].queue].state # "absent"
      BY <2>1, <1>4 DEF RunsRefer, StoreInv, RowsHaveOwners, StoreFacts, ReferencesHold
    <3> QED BY <1>2, <1>3, <3>1
  <2>2. ASSUME NEW x \in Jobs, jobs'[x].state # "absent"
        PROVE  /\ jobs'[x].queue \in Queues
               /\ queues'[jobs'[x].queue].state # "absent"
               /\ queues'[jobs'[x].queue].state = "deleted" => jobs'[x].state = "deleted"
    <3>1. CASE jobs[x].queue = q BY <1>2, <1>3, <3>1
    <3>2. CASE jobs[x].queue # q BY <1>2, <1>3, <2>2, <3>2 DEF StoreFacts, ReferencesHold
    <3> QED BY <3>1, <3>2
  <2> QED BY <2>1, <2>2 DEF ReferencesHold
<1>7. HistoriesMatch' BY <1>4, KeptHistories DEF StoreFacts
<1>8. OpenHasRun'
  <2>1. \A x \in Jobs : jobs'[x].state \in Open => jobs'[x] = jobs[x] /\ jobs[x].queue # q
    BY <1>3 DEF Open
  <2>2. \A x \in Runs : runs[x].state \in LiveStates =>
            runs[x].job \in Jobs /\ runs[x].queue = jobs[runs[x].job].queue
    BY DEF StoreInv, RowsHaveOwners, LifecycleInv, LiveRunsOwned, LiveStates
  <2>3. OpenStay BY <1>4, <2>1, <2>2 DEF OpenStay
  <2> QED BY <2>3, KeptOpen DEF StoreFacts
<1>9. SuspensionIsExact'
  <2>1. QueueFits(queues'[q].state, RunningInQueue(runs, q)) BY <1>2 DEF QueueFits
  <2>2. \A x \in Jobs : jobs'[x].state = "deleted" => JobFits(jobs'[x].state, RunningInJob(runs, x))
    BY DEF JobFits
  <2>3. StatesFit BY <1>2, <1>3, <2>1, <2>2 DEF StatesFit
  <2> QED BY <1>4, <2>3, KeptSuspension DEF StoreFacts, StatesFit
<1> QED BY <1>6, <1>7, <1>8, <1>9 DEF StoreFacts

\* Purging a run, a job or a queue.
LEMMA RetentionFacts ==
    ASSUME StoreInv, AttemptsInv, StoreFacts, RetentionStep
    PROVE  StoreFacts'
<1>0. /\ jobs \in [Jobs -> JobRow] /\ queues \in [Queues -> QueueRow]
      /\ runs \in [Runs -> RunRow] /\ attempts \in [Runs -> Seq(AttemptStates)]
  BY DEF StoreInv, StoreType
<1>1. ASSUME NEW r \in Runs, PurgeRun(r) PROVE StoreFacts'
  <2>1. /\ runs'[r].state = "absent"
        /\ runs[r].state \notin LiveStates
        /\ \A x \in Runs : x # r => runs'[x] = runs[x] /\ attempts'[x] = attempts[x]
        /\ queues' = queues /\ jobs' = jobs
    BY <1>0, <1>1 DEF PurgeRun, NoRunRow, TerminalRunStates, LiveStates
  <2>2. RunsRefer /\ OwnersStay BY <2>1 DEF RunsRefer, OwnersStay
  <2>3. AttemptsStay /\ RunningKept BY <2>1 DEF AttemptsStay, RunningKept, LiveStates
  <2>4. OpenStay /\ StatesFit BY <2>1 DEF OpenStay, StatesFit
  <2> QED BY <2>2, <2>3, <2>4, KeptFacts
<1>2. ASSUME NEW j \in Jobs, PurgeJob(j) PROVE StoreFacts'
  <2>1. /\ \A r \in Runs : runs[r].job # j
        /\ jobs'[j].state = "absent" /\ \A x \in Jobs : x # j => jobs'[x] = jobs[x]
        /\ queues' = queues /\ runs' = runs /\ attempts' = attempts
    BY <1>0, <1>2 DEF PurgeJob, NoJobRow
  <2>2. ReferencesHold'
    <3>1. ASSUME NEW x \in Runs, runs'[x].state # "absent"
          PROVE  jobs'[runs'[x].job].state # "absent"
      <4>1. runs[x].job \in Jobs /\ runs[x].job # j
        BY <2>1, <3>1 DEF StoreInv, RowsHaveOwners
      <4> QED BY <2>1, <3>1, <4>1 DEF StoreFacts, ReferencesHold
    <3> QED BY <2>1, <3>1 DEF StoreFacts, ReferencesHold
  <2>3. /\ RunsRefer /\ AttemptsStay /\ RunningKept /\ OpenStay
    BY <2>1, SameRunsStay DEF Open
  <2>4. HistoriesMatch' /\ OpenHasRun' BY <2>3, KeptHistories, KeptOpen DEF StoreFacts
  <2>5. StatesFit BY <2>1 DEF StatesFit, JobFits
  <2>6. SuspensionIsExact' BY <2>3, <2>5, KeptSuspension DEF StoreFacts, StatesFit
  <2> QED BY <2>2, <2>4, <2>6 DEF StoreFacts
<1>3. ASSUME NEW q \in Queues, PurgeQueue(q) PROVE StoreFacts'
  <2>1. /\ \A r \in Runs : runs[r].queue # q
        /\ \A j \in Jobs : jobs[j].queue # q
        /\ queues'[q].state = "absent" /\ \A x \in Queues : x # q => queues'[x] = queues[x]
        /\ jobs' = jobs /\ runs' = runs /\ attempts' = attempts
    BY <1>0, <1>3 DEF PurgeQueue, NoQueueRow
  <2>2. ReferencesHold' BY <2>1 DEF StoreFacts, ReferencesHold
  <2>3. /\ RunsRefer /\ AttemptsStay /\ RunningKept /\ OpenStay
    BY <2>1, SameRunsStay
  <2>4. HistoriesMatch' /\ OpenHasRun' BY <2>3, KeptHistories, KeptOpen DEF StoreFacts
  <2>5. StatesFit BY <2>1 DEF StatesFit, QueueFits
  <2>6. SuspensionIsExact' BY <2>3, <2>5, KeptSuspension DEF StoreFacts, StatesFit
  <2> QED BY <2>2, <2>4, <2>6 DEF StoreFacts
<1> QED BY <1>1, <1>2, <1>3 DEF RetentionStep

\* Every request but a move, and retention.
LEMMA StoreStepFacts ==
    ASSUME WithoutMoves, StoreInv, LifecycleInv, AttemptsInv, StoreFacts, StoreStep
    PROVE  StoreFacts'
<1>1. ASSUME NEW q \in Queues, QueueRequest(q) PROVE StoreFacts'
  BY <1>1, QueueRequestFacts, DeleteQueueFacts
<1>2. ASSUME NEW j \in Jobs, JobRequest(j) PROVE StoreFacts'
  BY <1>2, CreateJobFacts, UpdateFacts, SuspendFacts, DeleteJobFacts, RunNowFacts
     DEF JobRequest, WithoutMoves
<1> QED BY <1>1, <1>2, RetentionFacts DEF StoreStep

-----------------------------------------------------------------------------
(* The scheduler and recovery.                                             *)

\* What the jobs look like after a run of theirs ended or went to wait.
JobsAfter(r) ==
    /\ \A x \in Jobs : x # runs[r].job => jobs'[x] = jobs[x]
    /\ jobs'[runs[r].job].queue = jobs[runs[r].job].queue
    /\ jobs'[runs[r].job].state \in Open \cup TerminalJobStates

\* The draining part that EndRun and RetryRun share.
LEMMA DrainedOwners ==
    ASSUME StoreInv, NEW r \in Runs, runs[r].job \in Jobs, runs[r].queue \in Queues,
           jobs[runs[r].job].state \in Open,
           NEW js \in [Jobs -> JobRow],
           \A x \in Jobs : x # runs[r].job => js[x] = jobs[x],
           js[runs[r].job].queue = jobs[runs[r].job].queue,
           js[runs[r].job].state \in {jobs[runs[r].job].state} \cup TerminalJobStates,
           queues' = DrainQueue(queues, runs', runs[r].queue),
           jobs' = DrainJob(js, runs', runs[r].job)
    PROVE  OwnersDrain(r) /\ JobsAfter(r)
<1>1. queues \in [Queues -> QueueRow] BY DEF StoreInv, StoreType
<1>2. \A q \in Queues : queues'[q].state =
          IF q = runs[r].queue /\ queues[q].state = "suspending" /\ RunningInQueue(runs', q) = {}
          THEN "suspended" ELSE queues[q].state
  BY <1>1 DEF DrainQueue, QueueRow
<1> DEFINE j == runs[r].job
<1>3. /\ \A x \in Jobs : x # j => jobs'[x] = js[x]
      /\ jobs'[j].queue = js[j].queue
      /\ jobs'[j].state = IF js[j].state = "suspending" /\ RunningInJob(runs', j) = {}
                          THEN "suspended" ELSE js[j].state
  BY DEF DrainJob, JobRow
<1>4. "suspending" \notin TerminalJobStates BY DEF TerminalJobStates
<1>5. ASSUME NEW x \in Jobs
      PROVE  \/ jobs'[x].state =
                    IF x = j /\ jobs[x].state = "suspending" /\ RunningInJob(runs', x) = {}
                    THEN "suspended" ELSE jobs[x].state
             \/ x = j /\ jobs'[x].state \in TerminalJobStates
  <2>1. CASE x # j BY <1>3, <2>1
  <2>2. CASE x = j BY <1>3, <1>4, <2>2
  <2> QED BY <2>1, <2>2
<1>6. OwnersDrain(r) BY <1>2, <1>5 DEF OwnersDrain
<1>7. JobsAfter(r) BY <1>3 DEF JobsAfter, Open
<1> QED BY <1>6, <1>7

\* Where a live run's owners stand.
LEMMA LiveOwners ==
    ASSUME StoreInv, LifecycleInv, StoreFacts, NEW r \in Runs, runs[r].state \in LiveStates
    PROVE  /\ runs[r].job \in Jobs /\ runs[r].queue \in Queues
           /\ jobs[runs[r].job].state \in Open
           /\ runs[r].queue = jobs[runs[r].job].queue
BY DEF StoreInv, RowsHaveOwners, LifecycleInv, LiveRunsOwned, StoreFacts, ReferencesHold, LiveStates

\* A run that ends stops, its owners drain, and the only new row is planned.
LEMMA EndRunEffect ==
    ASSUME StoreInv, LifecycleInv, StoreFacts, NEW r \in Runs, NEW outcome \in TerminalRunStates,
           NEW s \in SuccessorIds(r), runs[r].state \in LiveStates, EndRun(r, outcome, s)
    PROVE  /\ OnlyStops(r) /\ OwnersDrain(r) /\ JobsAfter(r) /\ RunsRefer
           /\ runs'[r].state = outcome
           /\ \A x \in Runs : x # r =>
                  runs'[x] = runs[x] \/ (runs[x].state = "absent" /\ runs'[x].state = "scheduled")
<1> DEFINE j == runs[r].job
           js == FinishJob(jobs, runs', r)
<1>1. /\ jobs \in [Jobs -> JobRow] /\ runs[r] \in RunRow /\ j \in Jobs /\ runs[r].queue \in Queues
      /\ jobs[j].state \in Open /\ runs[r].state # "absent"
  BY LiveOwners DEF StoreInv, StoreType, LiveStates
<1>2. EndRunRows(r, outcome, s) BY EndRunWrites
<1>3. /\ runs'[r].state = outcome /\ runs'[r].job = j /\ runs'[r].queue = runs[r].queue
  BY <1>1, <1>2 DEF EndRunRows, RunRow
<1>4. ASSUME NEW x \in Runs, x # r
      PROVE  \/ runs'[x] = runs[x]
             \/ /\ runs[x].state = "absent" /\ runs'[x].state = "scheduled"
                /\ runs'[x].job = j /\ runs'[x].queue = jobs[j].queue
  BY <1>2, <1>4 DEF EndRunRows, ScheduledRun
<1>5. OnlyStops(r) BY <1>3, <1>4 DEF OnlyStops, TerminalRunStates
<1>6. RunsRefer
  <2>1. jobs[j].state # "absent" BY <1>1 DEF Open
  <2> QED BY <1>1, <1>3, <1>4, <2>1 DEF RunsRefer
<1>7. /\ js \in [Jobs -> JobRow]
      /\ \A x \in Jobs : x # j => js[x] = jobs[x]
      /\ js[j].queue = jobs[j].queue
      /\ js[j].state \in {jobs[j].state} \cup TerminalJobStates
  <2>1. TerminalJobState(outcome) \in TerminalJobStates
    BY DEF TerminalJobState, TerminalJobStates, TerminalRunStates
  <2>2. js = jobs \/ js = [jobs EXCEPT ![j].state = TerminalJobState(outcome)]
    BY <1>3 DEF FinishJob
  <2> HIDE DEF js
  <2> QED BY <1>1, <2>1, <2>2 DEF JobRow, JobStates
<1>8. /\ queues' = DrainQueue(queues, runs', runs[r].queue)
      /\ jobs' = DrainJob(js, runs', j)
  BY DEF EndRun
<1> HIDE DEF js
<1>9. OwnersDrain(r) /\ JobsAfter(r) BY <1>1, <1>7, <1>8, DrainedOwners
<1> QED BY <1>3, <1>4, <1>5, <1>6, <1>9

\* So does a run that goes to wait.
LEMMA RetryRunEffect ==
    ASSUME StoreInv, LifecycleInv, StoreFacts, NEW r \in Runs, NEW due \in BOOLEAN,
           runs[r].state \in LiveStates, RetryRun(r, due)
    PROVE  /\ OnlyStops(r) /\ OwnersDrain(r) /\ JobsAfter(r) /\ RunsRefer
           /\ runs'[r].state = "retry_wait" /\ runs'[r].job = runs[r].job
           /\ \A x \in Runs : x # r => runs'[x] = runs[x]
           /\ jobs'[runs[r].job].state \in Open
<1> DEFINE j == runs[r].job
<1>1. /\ jobs \in [Jobs -> JobRow] /\ runs \in [Runs -> RunRow] /\ j \in Jobs
      /\ runs[r].queue \in Queues /\ jobs[j].state \in Open /\ runs[r].state # "absent"
  BY LiveOwners DEF StoreInv, StoreType, LiveStates
<1>2. /\ runs' = [runs EXCEPT ![r].state = "retry_wait", ![r].due = due]
      /\ queues' = DrainQueue(queues, runs', runs[r].queue)
      /\ jobs' = DrainJob(jobs, runs', j)
  BY DEF RetryRun
<1>3. /\ runs'[r].state = "retry_wait" /\ runs'[r].job = j /\ runs'[r].queue = runs[r].queue
      /\ \A x \in Runs : x # r => runs'[x] = runs[x]
  BY <1>1, <1>2 DEF RunRow
<1>4. OnlyStops(r) /\ RunsRefer BY <1>1, <1>3 DEF OnlyStops, RunsRefer
<1>5. OwnersDrain(r) /\ JobsAfter(r) BY <1>1, <1>2, DrainedOwners
<1>6. jobs'[j].state \in Open BY <1>1, <1>2, DrainJobWrites DEF Open
<1> QED BY <1>3, <1>4, <1>5, <1>6

\* A stopping run keeps references and suspension.
LEMMA StoppedFacts ==
    ASSUME StoreInv, StoreFacts, NEW r \in Runs, OnlyStops(r), OwnersDrain(r), JobsAfter(r), RunsRefer,
           runs[r].job \in Jobs, jobs[runs[r].job].state \in Open
    PROVE  ReferencesHold' /\ SuspensionIsExact'
<1>1. OwnersStay
  BY DEF OwnersStay, OwnersDrain, JobsAfter, Open, TerminalJobStates
<1>2. ReferencesHold' BY <1>1, KeptReferences DEF StoreFacts
<1> QED BY <1>2, StoppedSuspension DEF StoreFacts

\* After a run ended, the open jobs still have live runs: a recurring one its
\* successor, a one-time one another run, or it has finished.
LEMMA EndRunOpen ==
    ASSUME StoreInv, LifecycleInv, StoreFacts, NEW r \in Runs, NEW outcome \in TerminalRunStates,
           NEW s \in SuccessorIds(r), runs[r].state \in LiveStates, EndRun(r, outcome, s)
    PROVE  OpenHasRun'
<1> DEFINE j == runs[r].job
<1>1. /\ JobsAfter(r) /\ j \in Jobs /\ jobs[j].state \in Open
      /\ \A x \in Runs : x # r => runs'[x] = runs[x] \/ runs[x].state = "absent"
  BY EndRunEffect, LiveOwners
<1>2. SUFFICES ASSUME NEW x \in Jobs, jobs'[x].state \in Open
               PROVE  \E y \in Runs : runs'[y].job = x /\ runs'[y].state \in LiveStates
  BY DEF OpenHasRun
<1>3. CASE x # j
  <2>1. jobs[x].state \in Open BY <1>1, <1>2, <1>3 DEF JobsAfter
  <2>2. PICK y \in Runs : runs[y].job = x /\ runs[y].state \in LiveStates
    BY <2>1 DEF StoreFacts, OpenHasRun
  <2>3. runs'[y] = runs[y] BY <1>1, <1>3, <2>2 DEF LiveStates
  <2> QED BY <2>2, <2>3
<1>4. CASE x = j /\ jobs[j].recurring
  <2>1. LifecycleInv' BY EndRunInv
  <2>2. EndRunJobs BY EndRunJobsHold
  <2>3. jobs'[j].recurring /\ jobs'[j].state \notin Gone
    BY <1>1, <1>2, <1>4, <2>2 DEF EndRunJobs, Open, Gone
  <2> QED BY <1>1, <1>4, <2>1, <2>3 DEF LifecycleInv, RecurringHasRun
<1>5. CASE x = j /\ ~jobs[j].recurring
  <2> DEFINE js == FinishJob(jobs, runs', r)
  <2>1. EndRunRows(r, outcome, s) BY EndRunWrites
  <2>2. runs[r] \in RunRow /\ jobs \in [Jobs -> JobRow] BY DEF StoreInv, StoreType
  <2>3. runs'[r].job = j /\ runs'[r].state = outcome
    BY <2>1, <2>2 DEF EndRunRows, RunRow
  <2>4. LiveRuns(runs', j) # {}
    <3> SUFFICES ASSUME LiveRuns(runs', j) = {} PROVE FALSE OBVIOUS
    <3>1. js = [jobs EXCEPT ![j].state = TerminalJobState(outcome)]
      BY <1>1, <1>5, <2>3 DEF FinishJob, Open, TerminalJobStates
    <3>2. TerminalJobState(outcome) \in TerminalJobStates
      BY DEF TerminalJobState, TerminalJobStates, TerminalRunStates
    <3>3. js \in [Jobs -> JobRow] /\ js[j].state = TerminalJobState(outcome)
      BY <1>1, <2>2, <3>1, <3>2 DEF JobRow, JobStates
    <3>4. jobs' = DrainJob(js, runs', j) BY DEF EndRun
    <3> HIDE DEF js
    <3>5. jobs'[j].state \in TerminalJobStates
      BY <1>1, <3>2, <3>3, <3>4 DEF DrainJob, TerminalJobStates
    <3> QED BY <1>2, <1>5, <3>5 DEF Open, TerminalJobStates
  <2> QED BY <1>5, <2>4 DEF LiveRuns
<1> QED BY <1>3, <1>4, <1>5

\* Closing the latest attempt of a running run.
LEMMA FinishesFacts ==
    ASSUME ExecutionInv, LifecycleInv, AttemptsInv, StoreFacts, NEW r \in Runs,
           NEW outcome \in TerminalRunStates, Finishes(r, outcome)
    PROVE  StoreFacts'
<1>1. /\ StoreInv /\ runs[r].state \in LiveStates /\ runs[r].state = "running"
      /\ FinishAttempt(r, outcome) /\ attempts \in [Runs -> Seq(AttemptStates)]
  BY DEF ExecutionInv, TypeOK, StoreInv, StoreType, Finishes, LiveStates
<1>2. runs[r].job \in Jobs /\ jobs[runs[r].job].state \in Open BY <1>1, LiveOwners
<1>3. /\ attempts'[r] = [attempts[r] EXCEPT ![Len(attempts[r])] = outcome]
      /\ \A x \in Runs : x # r => attempts'[x] = attempts[x]
  BY <1>1 DEF FinishAttempt
<1>4. HistoryFits(attempts[r], "running") /\ attempts[r] \in Seq(AttemptStates)
  BY <1>1 DEF StoreFacts, HistoriesMatch, ValidHistory
<1>5. /\ HistoryFits(attempts'[r], outcome)
      /\ outcome \in {"failed", "interrupted"} => HistoryFits(attempts'[r], "retry_wait")
  BY <1>3, <1>4, FinishedHistory
<1>6. ASSUME HistoryFits(attempts'[r], runs'[r].state),
             \A x \in Runs : x # r =>
                 runs'[x] = runs[x] \/ (runs[x].state = "absent" /\ runs'[x].state = "scheduled")
      PROVE  HistoriesMatch'
  <2> SUFFICES ASSUME NEW x \in Runs, runs'[x].state # "absent"
               PROVE  HistoryFits(attempts'[x], runs'[x].state)
    BY DEF HistoriesMatch, ValidHistory
  <2>1. CASE x = r BY <1>6, <2>1
  <2>2. CASE x # r /\ runs'[x] = runs[x]
    BY <1>3, <2>2 DEF StoreFacts, HistoriesMatch, ValidHistory
  <2>3. CASE x # r /\ runs[x].state = "absent" /\ runs'[x].state = "scheduled"
    BY <1>3, <2>3, EmptyHistory DEF AttemptsInv
  <2> QED BY <1>6, <2>1, <2>2, <2>3
<1>7. ASSUME NEW s \in SuccessorIds(r), EndRun(r, outcome, s) PROVE StoreFacts'
  <2>1. /\ OnlyStops(r) /\ OwnersDrain(r) /\ JobsAfter(r) /\ RunsRefer
        /\ runs'[r].state = outcome
        /\ \A x \in Runs : x # r =>
               runs'[x] = runs[x] \/ (runs[x].state = "absent" /\ runs'[x].state = "scheduled")
    BY <1>1, <1>7, EndRunEffect
  <2>2. ReferencesHold' /\ SuspensionIsExact' BY <1>1, <1>2, <2>1, StoppedFacts
  <2>3. OpenHasRun' BY <1>1, <1>7, EndRunOpen
  <2>4. HistoriesMatch' BY <1>5, <1>6, <2>1
  <2> QED BY <2>2, <2>3, <2>4 DEF StoreFacts
<1>8. ASSUME outcome \in {"failed", "interrupted"}, NEW due \in BOOLEAN, RetryRun(r, due)
      PROVE  StoreFacts'
  <2>1. /\ OnlyStops(r) /\ OwnersDrain(r) /\ JobsAfter(r) /\ RunsRefer
        /\ runs'[r].state = "retry_wait" /\ runs'[r].job = runs[r].job
        /\ \A x \in Runs : x # r => runs'[x] = runs[x]
    BY <1>1, <1>8, RetryRunEffect
  <2>2. ReferencesHold' /\ SuspensionIsExact' BY <1>1, <1>2, <2>1, StoppedFacts
  <2>3. OpenStay
    BY <1>2, <2>1 DEF OpenStay, JobsAfter, LiveStates
  <2>4. OpenHasRun' BY <2>3, KeptOpen DEF StoreFacts
  <2>5. HistoriesMatch' BY <1>5, <1>6, <1>8, <2>1
  <2> QED BY <2>2, <2>4, <2>5 DEF StoreFacts
<1> QED BY <1>7, <1>8 DEF Finishes

\* Cancelling a pending run.
LEMMA CancelsFacts ==
    ASSUME StoreInv, LifecycleInv, AttemptsInv, StoreFacts, NEW r \in Runs, Cancels(r)
    PROVE  StoreFacts'
<1>1. PICK s \in SuccessorIds(r) : EndRun(r, "cancelled", s) BY DEF Cancels
<1>2. /\ runs[r].state \in LiveStates /\ runs[r].state \in {"scheduled", "retry_wait"}
      /\ "cancelled" \in TerminalRunStates /\ attempts' = attempts
  BY DEF Cancels, LiveStates, TerminalRunStates
<1>3. runs[r].job \in Jobs /\ jobs[runs[r].job].state \in Open BY <1>2, LiveOwners
<1>4. /\ OnlyStops(r) /\ OwnersDrain(r) /\ JobsAfter(r) /\ RunsRefer
      /\ runs'[r].state = "cancelled"
      /\ \A x \in Runs : x # r =>
             runs'[x] = runs[x] \/ (runs[x].state = "absent" /\ runs'[x].state = "scheduled")
  BY <1>1, <1>2, EndRunEffect
<1>5. ReferencesHold' /\ SuspensionIsExact' BY <1>3, <1>4, StoppedFacts
<1>6. OpenHasRun' BY <1>1, <1>2, EndRunOpen
<1>7. AttemptsStay BY <1>2, <1>4 DEF AttemptsStay
<1>8. HistoriesMatch' BY <1>7, KeptHistories DEF StoreFacts
<1> QED BY <1>5, <1>6, <1>8 DEF StoreFacts

\* Admitting a run: its queue is active, and a suspended job admits only
\* manual work.
LEMMA DispatchFacts ==
    ASSUME StoreInv, LifecycleInv, AttemptsInv, StoreFacts, NEW r \in Runs, Dispatch(r)
    PROVE  StoreFacts'
<1>1. runs \in [Runs -> RunRow] /\ attempts \in [Runs -> Seq(AttemptStates)]
  BY DEF StoreInv, StoreType
<1>2. /\ runs[r].state \in {"scheduled", "retry_wait"} /\ runs[r].state \in LiveStates
      /\ queues' = queues /\ jobs' = jobs
      /\ queues[runs[r].queue].state = "active"
      /\ runs[r].manual \/ jobs[runs[r].job].state = "active"
      /\ attempts' = [attempts EXCEPT ![r] = Append(@, "running")]
      /\ runs' = [runs EXCEPT ![r].state = "running"]
  BY DEF Dispatch, EligibleOwners, LiveStates
<1>3. /\ runs'[r].state = "running" /\ runs'[r].job = runs[r].job
      /\ runs'[r].queue = runs[r].queue /\ runs'[r].manual = runs[r].manual
      /\ attempts'[r] = Append(attempts[r], "running")
      /\ \A x \in Runs : x # r => runs'[x] = runs[x] /\ attempts'[x] = attempts[x]
  BY <1>1, <1>2 DEF RunRow
<1>4. ReferencesHold'
  <2>1. RunsRefer /\ OwnersStay BY <1>2, <1>3 DEF RunsRefer, OwnersStay
  <2> QED BY <2>1, KeptReferences DEF StoreFacts
<1>5. HistoriesMatch'
  <2>1. HistoryFits(attempts'[r], "running")
    <3>1. runs[r].state # "absent" /\ attempts[r] \in Seq(AttemptStates) BY <1>1, <1>2
    <3>2. HistoryFits(attempts[r], runs[r].state)
      BY <3>1 DEF StoreFacts, HistoriesMatch, ValidHistory
    <3> QED BY <1>2, <1>3, <3>1, <3>2, AppendedHistory
  <2> QED BY <1>3, <2>1 DEF StoreFacts, HistoriesMatch, ValidHistory
<1>6. OpenHasRun'
  <2>1. OpenStay BY <1>2, <1>3 DEF OpenStay, LiveStates
  <2> QED BY <2>1, KeptOpen DEF StoreFacts
<1>7. QueueSuspensionIsExact'
  <2>1. ASSUME NEW q \in Queues
        PROVE  QueueFits(queues'[q].state, RunningInQueue(runs', q))
    <3>1. QueueFits(queues[q].state, RunningInQueue(runs, q))
      BY DEF QueueFits, StoreFacts, SuspensionIsExact, QueueSuspensionIsExact
    <3>2. CASE q = runs[r].queue BY <1>2, <3>2 DEF QueueFits
    <3>3. CASE q # runs[r].queue
      <4>1. RunningInQueue(runs', q) = RunningInQueue(runs, q)
        BY <1>2, <1>3, <3>3 DEF RunningInQueue
      <4> QED BY <1>2, <3>1, <4>1
    <3> QED BY <3>2, <3>3
  <2> QED BY <2>1 DEF QueueFits, QueueSuspensionIsExact
<1>8. JobSuspensionIsExact'
  <2>1. ASSUME NEW j \in Jobs
        PROVE  /\ jobs[j].state = "suspending" => RunningInJob(runs', j) # {}
               /\ jobs[j].state = "suspended" => \A x \in RunningInJob(runs', j) : runs'[x].manual
    <3>1. /\ jobs[j].state = "suspending" => RunningInJob(runs, j) # {}
          /\ jobs[j].state = "suspended" => \A x \in RunningInJob(runs, j) : runs[x].manual
      BY DEF StoreFacts, SuspensionIsExact, JobSuspensionIsExact
    <3>2. RunningInJob(runs, j) \subseteq RunningInJob(runs', j)
      BY <1>2, <1>3 DEF RunningInJob
    <3>3. ASSUME jobs[j].state = "suspended", NEW x \in RunningInJob(runs', j)
          PROVE  runs'[x].manual
      <4>1. x \in Runs /\ runs'[x].job = j /\ runs'[x].state = "running"
        BY <3>3 DEF RunningInJob
      <4>2. CASE x = r BY <1>2, <1>3, <3>3, <4>1, <4>2
      <4>3. CASE x # r BY <1>3, <3>1, <3>3, <4>1, <4>3 DEF RunningInJob
      <4> QED BY <4>2, <4>3
    <3> QED BY <3>1, <3>2, <3>3
  <2> QED BY <1>2, <2>1 DEF JobSuspensionIsExact
<1> QED BY <1>4, <1>5, <1>6, <1>7, <1>8 DEF StoreFacts, SuspensionIsExact

\* Time, and suspensions that complete by themselves.
LEMMA QuietFacts ==
    ASSUME StoreInv, AttemptsInv, StoreFacts,
           (\E r \in Runs : BecomeDue(r)) \/ Drains \/ UNCHANGED store
    PROVE  StoreFacts'
<1>0. /\ jobs \in [Jobs -> JobRow] /\ queues \in [Queues -> QueueRow] /\ runs \in [Runs -> RunRow]
  BY DEF StoreInv, StoreType
<1>1. ASSUME NEW r \in Runs, BecomeDue(r) PROVE StoreFacts'
  <2>1. /\ \A x \in Runs : /\ runs'[x].state = runs[x].state /\ runs'[x].job = runs[x].job
                            /\ runs'[x].queue = runs[x].queue /\ runs'[x].manual = runs[x].manual
        /\ queues' = queues /\ jobs' = jobs /\ attempts' = attempts
    BY <1>0, <1>1 DEF BecomeDue, RunRow
  <2>2. RunsRefer /\ OwnersStay BY <2>1 DEF RunsRefer, OwnersStay
  <2>3. AttemptsStay /\ RunningKept BY <2>1 DEF AttemptsStay, RunningKept
  <2>4. OpenStay /\ StatesFit BY <2>1 DEF OpenStay, StatesFit
  <2> QED BY <2>2, <2>3, <2>4, KeptFacts
<1>2. CASE Drains
  <2>1. runs' = runs /\ attempts' = attempts BY <1>2 DEF Drains
  <2>2. ASSUME queues' = queues, NEW j \in Jobs, jobs' = DrainJob(jobs, runs, j) PROVE StoreFacts'
    <3>1. /\ \A x \in Jobs : x # j => jobs'[x] = jobs[x]
          /\ jobs'[j].queue = jobs[j].queue
          /\ \/ jobs'[j].state = jobs[j].state
             \/ /\ jobs[j].state = "suspending" /\ jobs'[j].state = "suspended"
                /\ RunningInJob(runs, j) = {}
      BY <1>0, <2>2, DrainJobWrites
    <3>2. OwnersStay /\ StatesFit BY <2>2, <3>1 DEF OwnersStay, StatesFit, JobFits
    <3>3. \A x \in Jobs : jobs'[x].state \in Open => jobs[x].state \in Open
      BY <3>1 DEF Open
    <3> QED BY <2>1, <3>2, <3>3, SameRunsStay, KeptFacts
  <2>3. ASSUME jobs' = jobs, NEW q \in Queues, queues' = DrainQueue(queues, runs, q) PROVE StoreFacts'
    <3>1. /\ \A x \in Queues : x # q => queues'[x] = queues[x]
          /\ \/ queues'[q].state = queues[q].state
             \/ queues'[q].state = "suspended" /\ RunningInQueue(runs, q) = {}
      BY <1>0, <2>3 DEF DrainQueue, QueueRow
    <3>2. OwnersStay /\ StatesFit BY <2>3, <3>1 DEF OwnersStay, StatesFit, QueueFits
    <3> QED BY <2>1, <2>3, <3>2, SameRunsStay, KeptFacts
  <2> QED BY <1>2, <2>2, <2>3 DEF Drains
<1>3. CASE UNCHANGED store
  <2>1. queues' = queues /\ jobs' = jobs /\ runs' = runs /\ attempts' = attempts
    BY <1>3 DEF store
  <2>2. OwnersStay /\ StatesFit BY <2>1 DEF OwnersStay, StatesFit
  <2> QED BY <2>1, <2>2, SameRunsStay, KeptFacts
<1> QED BY <1>1, <1>2, <1>3

\* Every step keeps the facts about the store.
LEMMA NextFacts ==
    ASSUME WithoutMoves, ExecutionInv, LifecycleInv, AttemptsInv, StoreFacts, [Next]_vars
    PROVE  StoreFacts'
<1>1. StoreInv BY DEF ExecutionInv, TypeOK, StoreInv
<1>2. StoreEffect BY NextEffect
<1> QED BY <1>1, <1>2, StoreStepFacts, QuietFacts, DispatchFacts, CancelsFacts, FinishesFacts
        DEF StoreEffect

-----------------------------------------------------------------------------
(* The theorems.                                                           *)

\* Without moves, the facts about the store hold in every reachable state.
THEOREM StoreInvariance ==
    ASSUME WithoutMoves
    PROVE  Spec => []StoreFacts
<1>1. Init => StoreFacts
  <2> SUFFICES ASSUME Init PROVE StoreFacts OBVIOUS
  <2>1. /\ \A r \in Runs : runs[r].state = "absent"
        /\ \A j \in Jobs : jobs[j].state = "absent"
        /\ \A q \in Queues : queues[q].state = "absent"
    BY DEF Init, StoreInit, NoRunRow, NoJobRow, NoQueueRow
  <2> QED BY <2>1 DEF StoreFacts, ReferencesHold, HistoriesMatch, OpenHasRun, SuspensionIsExact,
                      QueueSuspensionIsExact, JobSuspensionIsExact, Open
<1>2. ExecutionInv /\ LifecycleInv /\ AttemptsInv /\ StoreFacts /\ [Next]_vars => StoreFacts'
  BY NextFacts
<1> QED BY <1>1, <1>2, ExecutionInvariance, LifecycleInvariance, AttemptsInvariance, PTL DEF Spec

\* A suspending queue or job has running work, a suspended one has none but
\* the manual work a suspended job may run.
THEOREM ExactSuspension ==
    ASSUME WithoutMoves
    PROVE  Spec => []SuspensionIsExact
<1>1. StoreFacts => SuspensionIsExact BY DEF StoreFacts
<1> QED BY <1>1, StoreInvariance, PTL

=============================================================================

------------------------------ MODULE JobuStore ------------------------------
(***************************************************************************)
(* The durable state of JobU: the rows of jobu_queues, jobu_jobs,          *)
(* jobu_runs and jobu_attempts, and the pure table operations that the     *)
(* scheduler, the management service, startup recovery and retention       *)
(* share.  Every SQLite transaction of the program is one atomic step      *)
(* here: the operators below are what the code does between the BEGIN and  *)
(* the COMMIT.                                                             *)
(*                                                                         *)
(* A row that does not exist has state "absent", so that the sets of ids   *)
(* stand for the UUIDs still available.  Time is abstracted to one bit per *)
(* run: due says that runnable_at <= now.                                  *)
(***************************************************************************)
EXTENDS Integers, FiniteSets, Sequences

CONSTANTS
    Queues, Jobs, Runs,  \* ids available to rows (bounds on the tables)
    None,                \* no id
    MaxAttempts,         \* retry.max_attempts of every job
    MaxLimit,            \* bound on queue concurrency limits
    MaxDef,              \* bound on definition updates of one job
    Blocking,            \* the jobs whose retry.mode is blocking
    JobType,             \* the runner type of each job
    TypeLimit            \* global concurrency per runner type

Types == {"cli", "http"}

ASSUME StoreAssumption ==
    /\ None \notin Queues \cup Jobs \cup Runs
    /\ MaxAttempts \in Nat \ {0}
    /\ MaxLimit \in Nat \ {0}
    /\ MaxDef \in Nat
    /\ Blocking \subseteq Jobs
    /\ JobType \in [Jobs -> Types]
    /\ TypeLimit \in [Types -> Nat \ {0}]

VARIABLES queues, jobs, runs, attempts

store == <<queues, jobs, runs, attempts>>

-----------------------------------------------------------------------------
(* Row types.                                                              *)

LiveStates == {"scheduled", "running", "retry_wait"}
TerminalRunStates == {"succeeded", "failed", "interrupted", "cancelled"}
RunStates == {"absent"} \cup LiveStates \cup TerminalRunStates
TerminalJobStates == {"succeeded", "failed", "cancelled"}
JobStates == {"absent", "active", "suspending", "suspended", "deleted"} \cup TerminalJobStates
QueueStates == {"absent", "active", "suspending", "suspended", "deleted"}
AttemptStates == {"running"} \cup TerminalRunStates

QueueRow == [state : QueueStates, limit : 1..MaxLimit, retryInterrupted : BOOLEAN]
JobRow == [state : JobStates, queue : Queues \cup {None}, recurring : BOOLEAN, def : 0..MaxDef]
RunRow == [state : RunStates, job : Jobs \cup {None}, queue : Queues \cup {None},
           manual : BOOLEAN, due : BOOLEAN, def : 0..MaxDef]

NoQueueRow == [state |-> "absent", limit |-> 1, retryInterrupted |-> FALSE]
NoJobRow == [state |-> "absent", queue |-> None, recurring |-> FALSE, def |-> 0]
NoRunRow == [state |-> "absent", job |-> None, queue |-> None,
             manual |-> FALSE, due |-> FALSE, def |-> 0]

StoreType ==
    /\ queues \in [Queues -> QueueRow]
    /\ jobs \in [Jobs -> JobRow]
    /\ runs \in [Runs -> RunRow]
    /\ attempts \in [Runs -> Seq(AttemptStates)]

StoreInit ==
    /\ queues = [q \in Queues |-> NoQueueRow]
    /\ jobs = [j \in Jobs |-> NoJobRow]
    /\ runs = [r \in Runs |-> NoRunRow]
    /\ attempts = [r \in Runs |-> << >>]

-----------------------------------------------------------------------------
(* Reads.  Each takes the tables it reads, so that a transaction can read  *)
(* its own earlier writes.                                                 *)

\* read_nonterminal_runs: the live runs of a job.
LiveRuns(rs, j) == {r \in Runs : rs[r].job = j /\ rs[r].state \in LiveStates}

\* find_schedule_owned: the live schedule-owned run, at most one.
ScheduleOwned(rs, j) == {r \in LiveRuns(rs, j) : ~rs[r].manual}

\* has_non_terminal_manual_run: the barrier that a live manual run raises.
ManualBarrier(rs, j) == \E r \in LiveRuns(rs, j) : rs[r].manual

\* count_running_for_queue and count_running_for_job.
RunningInQueue(rs, q) == {r \in Runs : rs[r].queue = q /\ rs[r].state = "running"}
RunningInJob(rs, j) == {r \in Runs : rs[r].job = j /\ rs[r].state = "running"}

\* The running runs that use a slot of a runner type.
RunningOfType(rs, t) ==
    {r \in Runs : rs[r].state = "running" /\ JobType[rs[r].job] = t}

AbsentRuns == {r \in Runs : runs[r].state = "absent"}

-----------------------------------------------------------------------------
(* Writes shared by several transactions.                                  *)

\* insert_recurring_run / insert_schedule_owned: a snapshot of the definition.
ScheduledRun(row, j, due) ==
    [state |-> "scheduled", job |-> j, queue |-> row.queue, manual |-> FALSE,
     due |-> due, def |-> row.def]

\* run_now_impl: a manual snapshot, due at once.
ManualRun(row, j) ==
    [state |-> "scheduled", job |-> j, queue |-> row.queue, manual |-> TRUE,
     due |-> TRUE, def |-> row.def]

DrainQueueAlways(qs, rs, q) ==
    [qs EXCEPT ![q].state = IF @ = "suspending" THEN "suspended" ELSE @]

DrainQueueNever(qs, rs, q) == qs

\* complete_drained_queue_suspension.
DrainQueue(qs, rs, q) ==
    [qs EXCEPT ![q].state = IF @ = "suspending" /\ RunningInQueue(rs, q) = {}
                            THEN "suspended" ELSE @]

DrainJobNever(js, rs, j) == js

\* complete_drained_job_suspension.
DrainJob(js, rs, j) ==
    [js EXCEPT ![j].state = IF @ = "suspending" /\ RunningInJob(rs, j) = {}
                            THEN "suspended" ELSE @]

TerminalJobStateOfRun(s) == s

\* terminal_job_state: what the last run of a one-time job makes of the job.
TerminalJobState(s) == IF s = "interrupted" THEN "failed" ELSE s

FinishJobEarly(js, rs, r) ==
    LET j == rs[r].job IN
    IF js[j].recurring \/ js[j].state \in TerminalJobStates \cup {"deleted"}
    THEN js
    ELSE [js EXCEPT ![j].state = TerminalJobState(rs[r].state)]

\* finish_after_terminal_run: a one-time definition ends with its last live run.
FinishJob(js, rs, r) ==
    LET j == rs[r].job IN
    IF \/ js[j].recurring
       \/ js[j].state \in TerminalJobStates \cup {"deleted"}
       \/ LiveRuns(rs, j) # {}
    THEN js
    ELSE [js EXCEPT ![j].state = TerminalJobState(rs[r].state)]

NeedsSuccessorIfActive(r) ==
    LET j == runs[r].job IN
    runs[r].state \in LiveStates /\ ~runs[r].manual /\ jobs[j].recurring /\ jobs[j].state = "active"

\* insert_recurring_successor: which terminal run leaves a successor behind.
NeedsSuccessor(r) ==
    LET j == runs[r].job IN
    runs[r].state \in LiveStates /\ ~runs[r].manual /\ jobs[j].recurring /\ jobs[j].state # "deleted"

\* The ids the successor of run r may get; r itself stands for "no successor".
SuccessorIds(r) == IF NeedsSuccessor(r) THEN AbsentRuns ELSE {r}

\* The terminal part of a completion, a pending cancellation or a recovery
\* unit: the run ends, its successor is planned in the future, a one-time job
\* finishes, and suspensions that were waiting for this run complete.
EndRun(r, outcome, s) ==
    LET j == runs[r].job
        ended == [runs EXCEPT ![r].state = outcome]
        after == IF NeedsSuccessor(r)
                 THEN [ended EXCEPT ![s] = ScheduledRun(jobs[j], j, FALSE)]
                 ELSE ended
    IN /\ runs' = after
       /\ queues' = DrainQueue(queues, after, runs[r].queue)
       /\ jobs' = DrainJob(FinishJob(jobs, after, r), after, j)

\* The retry part of a completion or a recovery unit.
RetryRun(r, due) ==
    LET after == [runs EXCEPT ![r].state = "retry_wait", ![r].due = due]
    IN /\ runs' = after
       /\ queues' = DrainQueue(queues, after, runs[r].queue)
       /\ jobs' = DrainJob(jobs, after, runs[r].job)

\* complete_attempt / interrupt_attempt: the outcome of the latest attempt.
FinishAttempt(r, outcome) ==
    attempts' = [attempts EXCEPT ![r] = [@ EXCEPT ![Len(@)] = outcome]]

=============================================================================

------------------------------ MODULE Management ------------------------------
(***************************************************************************)
(* ManagementService: the mutations a client may request over RPC, one     *)
(* action per method, each a single transaction on the store.  A request   *)
(* that a guard refuses changes nothing, so refusals are not steps.        *)
(* Revisions are abstracted: a request carrying a stale expected_revision  *)
(* is one of the refused ones.                                             *)
(***************************************************************************)
EXTENDS JobuStore

\* create_queue_impl.
CreateQueue(q, limit, retryInterrupted) ==
    /\ queues[q].state = "absent"
    /\ queues' = [queues EXCEPT ![q] =
           [state |-> "active", limit |-> limit, retryInterrupted |-> retryInterrupted]]
    /\ UNCHANGED <<jobs, runs, attempts>>

\* update_queue_impl: operational policy may change in every state but deleted.
UpdateQueue(q, limit, retryInterrupted) ==
    /\ queues[q].state \notin {"absent", "deleted"}
    /\ queues' = [queues EXCEPT ![q].limit = limit, ![q].retryInterrupted = retryInterrupted]
    /\ UNCHANGED <<jobs, runs, attempts>>

\* suspend_queue_impl: close the gate, then complete at once when nothing runs.
SuspendQueue(q) ==
    /\ queues[q].state \in {"active", "suspending"}
    /\ queues' = DrainQueue([queues EXCEPT ![q].state = "suspending"], runs, q)
    /\ UNCHANGED <<jobs, runs, attempts>>

\* resume_queue_impl.
ResumeQueue(q) ==
    /\ queues[q].state \in {"suspending", "suspended"}
    /\ queues' = [queues EXCEPT ![q].state = "active"]
    /\ UNCHANGED <<jobs, runs, attempts>>

CancelFinished(S) ==
    [r \in Runs |-> IF r \in S /\ runs[r].state \notin {"absent", "running"}
                    THEN [runs[r] EXCEPT !.state = "cancelled"] ELSE runs[r]]

\* cancel_pending: pending runs are cancelled without a new attempt.
CancelPending(S) ==
    [r \in Runs |-> IF r \in S /\ runs[r].state \in {"scheduled", "retry_wait"}
                    THEN [runs[r] EXCEPT !.state = "cancelled"] ELSE runs[r]]

\* delete_queue_impl: tombstones the queue and every job in it.
DeleteQueue(q) ==
    /\ queues[q].state = "suspended"
    /\ RunningInQueue(runs, q) = {}
    /\ queues' = [queues EXCEPT ![q].state = "deleted"]
    /\ jobs' = [j \in Jobs |-> IF jobs[j].queue = q /\ jobs[j].state # "deleted"
                               THEN [jobs[j] EXCEPT !.state = "deleted"] ELSE jobs[j]]
    /\ runs' = CancelPending({r \in Runs : runs[r].queue = q})
    /\ UNCHANGED attempts

\* create_job_impl: the definition and its first schedule-owned run.  A cron
\* occurrence is strictly in the future; a one-time job may be due already.
CreateJob(j, q, recurring, due, r) ==
    /\ jobs[j].state = "absent"
    /\ queues[q].state \in {"active", "suspended"}
    /\ runs[r].state = "absent"
    /\ recurring => ~due
    /\ LET row == [state |-> "active", queue |-> q, recurring |-> recurring, def |-> 0]
       IN /\ jobs' = [jobs EXCEPT ![j] = row]
          /\ runs' = [runs EXCEPT ![r] = ScheduledRun(row, j, due)]
    /\ UNCHANGED <<queues, attempts>>

\* run_now_impl: the job is idle and its planned run is still in the future.
RunNowAllowed(j) ==
    /\ \E r \in ScheduleOwned(runs, j) : runs[r].state = "scheduled" /\ ~runs[r].due
    /\ \A r \in LiveRuns(runs, j) : runs[r].state \notin {"running", "retry_wait"}
    /\ ~ManualBarrier(runs, j)

\* run_now_impl: job suspension does not matter, only deletion and completion do.
RunNow(j, r) ==
    /\ jobs[j].state \in {"active", "suspending", "suspended"}
    /\ queues[jobs[j].queue].state # "deleted"
    /\ RunNowAllowed(j)
    /\ runs[r].state = "absent"
    /\ runs' = [runs EXCEPT ![r] = ManualRun(jobs[j], j)]
    /\ UNCHANGED <<queues, jobs, attempts>>

\* has_started_for_job: some retained attempt of the job was started.
HasStarted(j) == \E r \in Runs : runs[r].job = j /\ attempts[r] # << >>

RefreshNothing(j, recurring, due) == runs

\* refresh_unstarted_schedule_owned: an untouched planned run takes the new
\* definition and planned time, any other run keeps its snapshot.
Refreshed(j, recurring, due) ==
    [r \in Runs |-> IF r \in ScheduleOwned(runs, j) /\ runs[r].state = "scheduled"
                    THEN [runs[r] EXCEPT !.def = jobs[j].def + 1, !.due = due /\ ~recurring]
                    ELSE runs[r]]

\* update_job_impl: recurring is the schedule kind after the update.
UpdateJob(j, recurring, due) ==
    /\ jobs[j].state \in {"active", "suspended"}
    /\ jobs[j].def < MaxDef
    /\ jobs[j].recurring \/ ~HasStarted(j)
    /\ \E r \in ScheduleOwned(runs, j) :
           IF runs[r].state = "scheduled" THEN attempts[r] = << >>
                                          ELSE jobs[j].recurring /\ recurring
    /\ jobs' = [jobs EXCEPT ![j].recurring = recurring, ![j].def = @ + 1]
    /\ runs' = Refreshed(j, recurring, due)
    /\ UNCHANGED <<queues, attempts>>

\* suspend_job_impl.
SuspendJob(j) ==
    /\ jobs[j].state \in {"active", "suspending"}
    /\ jobs' = DrainJob([jobs EXCEPT ![j].state = "suspending"], runs, j)
    /\ UNCHANGED <<queues, runs, attempts>>

\* resume_job_impl.
ResumeJob(j) ==
    /\ jobs[j].state \in {"suspending", "suspended"}
    /\ jobs' = [jobs EXCEPT ![j].state = "active"]
    /\ UNCHANGED <<queues, runs, attempts>>

MovedPending(j, q) ==
    [r \in Runs |-> IF r \in LiveRuns(runs, j) /\ runs[r].state # "retry_wait"
                    THEN [runs[r] EXCEPT !.queue = q] ELSE runs[r]]

\* move_non_terminal: every live run follows the job, a running one included.
Moved(j, q) ==
    [r \in Runs |-> IF r \in LiveRuns(runs, j)
                    THEN [runs[r] EXCEPT !.queue = q] ELSE runs[r]]

\* move_job_impl: the job must be suspended; running work is not looked at.
MoveJob(j, q) ==
    /\ jobs[j].state = "suspended"
    /\ q # jobs[j].queue
    /\ queues[q].state \in {"active", "suspended"}
    /\ jobs' = [jobs EXCEPT ![j].queue = q]
    /\ runs' = Moved(j, q)
    /\ UNCHANGED <<queues, attempts>>

\* delete_job_impl.
DeleteJob(j) ==
    /\ jobs[j].state \in {"suspended"} \cup TerminalJobStates
    /\ RunningInJob(runs, j) = {}
    /\ jobs' = [jobs EXCEPT ![j].state = "deleted"]
    /\ runs' = CancelPending({r \in Runs : runs[r].job = j})
    /\ UNCHANGED <<queues, attempts>>

=============================================================================

------------------------------- MODULE Scheduler -------------------------------
(***************************************************************************)
(* SchedulerCore and dispatch_selected: admission of due runs, the hand    *)
(* over to an executor, completions and cancellation.                      *)
(*                                                                         *)
(* active and cancelling are SchedulerCore's _active_attempts and          *)
(* _cancellation_requests.  launching is the run whose running state is    *)
(* committed but which no executor has been asked to start yet: the one    *)
(* point inside a cycle where a crash matters.  executing is the executor's*)
(* own state: the attempts it accepted and has not completed.              *)
(*                                                                         *)
(* Which of several admissible runs a cycle takes first is the business of *)
(* the fairness policy and is left open here.                              *)
(***************************************************************************)
EXTENDS JobuStore

VARIABLES active, cancelling, launching, executing

memory == <<active, cancelling, launching, executing>>

MemoryType ==
    /\ active \in [Runs -> Nat]
    /\ cancelling \subseteq Runs
    /\ launching \in Runs \cup {None}
    /\ executing \subseteq Runs \X Nat

\* SchedulerCore::reset, and what a new process starts with.
MemoryCleared ==
    /\ active = [r \in Runs |-> 0]
    /\ cancelling = {}
    /\ launching = None
    /\ executing = {}

ClearMemory ==
    /\ active' = [r \in Runs |-> 0]
    /\ cancelling' = {}
    /\ launching' = None
    /\ executing' = {}

-----------------------------------------------------------------------------
(* Admission.                                                              *)

EligibleIgnoringBarrier(r) ==
    LET job == jobs[runs[r].job].state IN
    /\ queues[runs[r].queue].state = "active"
    /\ IF runs[r].manual THEN job \in {"active", "suspending", "suspended"}
                         ELSE job = "active"

EligibleWhileJobSuspended(r) ==
    /\ queues[runs[r].queue].state = "active"
    /\ jobs[runs[r].job].state \in {"active", "suspending", "suspended"}
    /\ runs[r].manual \/ ~ManualBarrier(runs, runs[r].job)

\* eligible_owners.
EligibleOwners(r) ==
    LET job == jobs[runs[r].job].state IN
    /\ queues[runs[r].queue].state = "active"
    /\ IF runs[r].manual THEN job \in {"active", "suspending", "suspended"}
                         ELSE job = "active" /\ ~ManualBarrier(runs, runs[r].job)

\* capacity_usage: does the run use a slot of its queue?
OccupiesQueue(r) ==
    \/ runs[r].state = "running"
    \/ /\ runs[r].state = "retry_wait"
       /\ runs[r].job \in Blocking
       /\ jobs[runs[r].job].state = "active" \/ runs[r].manual
       /\ queues[runs[r].queue].state = "active"

QueueSlots(q) == {r \in Runs : runs[r].queue = q /\ OccupiesQueue(r)}

QueueHasCapacityOffByOne(r) ==
    \/ OccupiesQueue(r)
    \/ Cardinality(QueueSlots(runs[r].queue)) <= queues[runs[r].queue].limit

\* queue_has_dispatch_capacity: a blocking retry reuses the slot it kept.
QueueHasCapacity(r) ==
    \/ OccupiesQueue(r)
    \/ Cardinality(QueueSlots(runs[r].queue)) < queues[runs[r].queue].limit

TypeHasCapacityUnchecked(r) == TRUE

\* dispatch_visit: running_for(type) below the global limit of the type.
TypeHasCapacity(r) ==
    LET t == JobType[runs[r].job]
    IN  Cardinality(RunningOfType(runs, t)) < TypeLimit[t]

\* dispatch_selected, up to its commit: the attempt row and the running state
\* become durable together, and only then may an executor be called.
Dispatch(r) ==
    /\ launching = None
    /\ runs[r].state \in {"scheduled", "retry_wait"}
    /\ runs[r].due
    /\ EligibleOwners(r)
    /\ TypeHasCapacity(r)
    /\ QueueHasCapacity(r)
    /\ attempts' = [attempts EXCEPT ![r] = Append(@, "running")]
    /\ runs' = [runs EXCEPT ![r].state = "running"]
    /\ launching' = r
    /\ UNCHANGED <<queues, jobs, active, cancelling, executing>>

StartAcceptedEarlier(r) ==
    /\ launching = r
    /\ launching' = None
    /\ active' = [active EXCEPT ![r] = Len(attempts[r]) - 1]
    /\ executing' = executing \cup {<<r, Len(attempts[r]) - 1>>}
    /\ UNCHANGED <<queues, jobs, runs, attempts, cancelling>>

\* executor.start accepts: try_dispatch records the active correlation.
StartAccepted(r) ==
    /\ launching = r
    /\ launching' = None
    /\ active' = [active EXCEPT ![r] = Len(attempts[r])]
    /\ executing' = executing \cup {<<r, Len(attempts[r])>>}
    /\ UNCHANGED <<queues, jobs, runs, attempts, cancelling>>

StartRefusedForgotten(r, s) ==
    /\ launching = r
    /\ launching' = None
    /\ UNCHANGED <<store, active, cancelling, executing>>

\* The payload could not be prepared or executor.start refused: the cycle
\* completes the attempt at once, as a failure that is never retried.
StartRefused(r, s) ==
    /\ launching = r
    /\ launching' = None
    /\ FinishAttempt(r, "failed")
    /\ EndRun(r, "failed", s)
    /\ UNCHANGED <<active, cancelling, executing>>

-----------------------------------------------------------------------------
(* Completion.                                                             *)

EffectiveAsReported(r, outcome) == outcome

\* process_completion: an accepted cancellation decides the outcome.
EffectiveOutcome(r, outcome) == IF r \in cancelling THEN "cancelled" ELSE outcome

WillRetryUnlimited(r, outcome, retryable) == outcome = "failed" /\ retryable

\* retry_policy: a retryable failure of an attempt that is not the last.
WillRetry(r, outcome, retryable) ==
    /\ outcome = "failed"
    /\ retryable
    /\ jobs[runs[r].job].state # "deleted"
    /\ queues[runs[r].queue].state # "deleted"
    /\ Len(attempts[r]) < MaxAttempts

\* The erasures at the end of process_completion.
ForgetActive(r) ==
    /\ active' = [active EXCEPT ![r] = 0]
    /\ cancelling' = cancelling \ {r}

\* process_completion: the executor reports attempt n of run r, once.
Complete(r, n, outcome, retryable, due, s) ==
    LET effective == EffectiveOutcome(r, outcome) IN
    /\ launching = None
    /\ <<r, n>> \in executing
    /\ active[r] = n
    /\ executing' = executing \ {<<r, n>>}
    /\ FinishAttempt(r, effective)
    /\ IF WillRetry(r, effective, retryable)
       THEN RetryRun(r, due)
       ELSE EndRun(r, effective, s)
    /\ ForgetActive(r)
    /\ UNCHANGED launching

-----------------------------------------------------------------------------
(* Cancellation.                                                           *)

\* cancel_run_impl on a running run: the executor accepted the request; the
\* run stays running until its completion.
RequestCancel(r) ==
    /\ launching = None
    /\ runs[r].state = "running"
    /\ active[r] = Len(attempts[r])
    /\ cancelling' = cancelling \cup {r}
    /\ UNCHANGED <<store, active, launching, executing>>

\* cancel_run_impl on a pending run.
CancelPendingRun(r, s) ==
    /\ launching = None
    /\ runs[r].state \in {"scheduled", "retry_wait"}
    /\ EndRun(r, "cancelled", s)
    /\ UNCHANGED <<attempts, memory>>

=============================================================================

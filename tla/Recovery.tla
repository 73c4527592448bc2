------------------------------- MODULE Recovery -------------------------------
(***************************************************************************)
(* Startup recovery: the validation of every durable row, and the repair   *)
(* units that make a database left by a crash fit for the scheduler.  Each *)
(* unit is a transaction of its own; a crash or a stop request between two *)
(* units keeps the ones already committed.                                 *)
(*                                                                         *)
(* phase is where Recovery::run stands; pending is what its page cursor    *)
(* has still to visit in that phase.                                       *)
(***************************************************************************)
EXTENDS JobuStore

VARIABLES phase, pending

Phases == {"idle", "validate", "runs", "jobs", "queues", "final", "refused"}

RecoveryType ==
    /\ phase \in Phases
    /\ pending \subseteq Queues \cup Jobs \cup Runs

-----------------------------------------------------------------------------
(* Validation.                                                             *)

Last(s) == s[Len(s)]

\* valid_nonterminal_run_relationship.
ValidRelationship(row, scheduled, manual) ==
    /\ scheduled <= 1 /\ manual <= 1
    /\ row.state \in TerminalJobStates => ~row.recurring /\ scheduled = 0 /\ manual = 0
    /\ (row.state \notin TerminalJobStates \cup {"deleted"} /\ manual = 1 /\ scheduled = 0)
           => ~row.recurring

\* validate_barriers, read_nonterminal_runs and validate_job_lifecycle.
ValidJob(j) ==
    LET live == LiveRuns(runs, j)
        scheduled == Cardinality(ScheduleOwned(runs, j))
        row == jobs[j]
    IN /\ row.queue \in Queues
       /\ queues[row.queue].state # "absent"
       /\ queues[row.queue].state = "deleted" => row.state = "deleted"
       /\ \A r \in live : runs[r].queue = row.queue
       /\ ValidRelationship(row, scheduled, Cardinality(live) - scheduled)
       /\ (~row.recurring /\ row.state \notin TerminalJobStates \cup {"deleted"})
              => live # {}

\* find_run: a live run belongs to its job's queue, under owners that can
\* still own it.
ValidOwnership(r) ==
    LET row == runs[r] IN
    /\ row.queue = jobs[row.job].queue
    /\ jobs[row.job].state # "deleted"
    /\ queues[row.queue].state # "deleted"
    /\ row.state = "running" =>
           /\ queues[row.queue].state # "suspended"
           /\ ~row.manual => jobs[row.job].state # "suspended"

\* find_run and history: the attempts of a run tell the same story as its state.
HistoryFits(h, s) ==
    LET retried == {"failed", "interrupted"}
    IN /\ \A i \in 1..Len(h) - 1 : h[i] \in retried
       /\ CASE s = "scheduled" -> h = << >>
            [] s = "running" -> h # << >> /\ Last(h) = "running"
            [] s = "retry_wait" -> h # << >> /\ Last(h) \in retried
            [] s = "cancelled" -> h # << >> => Last(h) \in retried \cup {"cancelled"}
            [] OTHER -> h # << >> /\ Last(h) = s
ValidHistory(r) == HistoryFits(attempts[r], runs[r].state)

\* find_run.
ValidRun(r) ==
    /\ runs[r].job \in Jobs /\ runs[r].queue \in Queues
    /\ jobs[runs[r].job].state # "absent"
    /\ queues[runs[r].queue].state # "absent"
    /\ runs[r].state \in LiveStates => ValidOwnership(r)
    /\ ValidHistory(r)

\* Recovery::validate(false).
StoreValid ==
    /\ \A r \in Runs : runs[r].state # "absent" => ValidRun(r)
    /\ \A j \in Jobs : jobs[j].state # "absent" => ValidJob(j)

\* Recovery::validate(true): nothing is left to repair.
StoreRepaired ==
    /\ StoreValid
    /\ \A r \in Runs : runs[r].state # "running"
    /\ \A j \in Jobs : /\ jobs[j].state # "suspending"
                       /\ (jobs[j].recurring /\ jobs[j].state # "deleted")
                              => ScheduleOwned(runs, j) # {}
    /\ \A q \in Queues : queues[q].state # "suspending"

-----------------------------------------------------------------------------
(* The steps of Recovery::run.                                             *)

\* Initial validation, before the first write.
Validate ==
    /\ phase = "validate"
    /\ phase' = IF StoreValid THEN "runs" ELSE "refused"
    /\ pending' = IF StoreValid THEN {r \in Runs : runs[r].state = "running"} ELSE {}
    /\ UNCHANGED store

\* find_retry_decision: the queue's recovery policy, with attempts left.
RetryInterrupted(r) ==
    /\ queues[runs[r].queue].retryInterrupted
    /\ jobs[runs[r].job].state # "deleted"
    /\ queues[runs[r].queue].state # "deleted"
    /\ Len(attempts[r]) < MaxAttempts

\* recover_run: the interrupted attempt is closed and its run ends or retries.
RecoverRun(r, due, s) ==
    /\ phase = "runs"
    /\ r \in pending
    /\ FinishAttempt(r, "interrupted")
    /\ IF RetryInterrupted(r) THEN RetryRun(r, due) ELSE EndRun(r, "interrupted", s)
    /\ pending' = pending \ {r}
    /\ UNCHANGED phase

RunsRecovered ==
    /\ phase = "runs"
    /\ pending = {}
    /\ phase' = "jobs"
    /\ pending' = {j \in Jobs : jobs[j].state # "absent"}
    /\ UNCHANGED store

\* repair_missing_successor applies to this job.
MissingSuccessor(j) ==
    /\ jobs[j].recurring
    /\ jobs[j].state # "deleted"
    /\ ScheduleOwned(runs, j) = {}

\* recover_job: repair the recurrence, then complete the job's suspension.
RecoverJob(j, s) ==
    /\ phase = "jobs"
    /\ j \in pending
    /\ MissingSuccessor(j) => s \in AbsentRuns
    /\ runs' = IF MissingSuccessor(j)
               THEN [runs EXCEPT ![s] = ScheduledRun(jobs[j], j, FALSE)] ELSE runs
    /\ jobs' = DrainJob(jobs, runs, j)
    /\ pending' = pending \ {j}
    /\ UNCHANGED <<queues, attempts, phase>>

JobsRecovered ==
    /\ phase = "jobs"
    /\ pending = {}
    /\ phase' = "queues"
    /\ pending' = {q \in Queues : queues[q].state = "suspending"}
    /\ UNCHANGED store

\* The queue units: a suspending queue with no running work becomes suspended.
RecoverQueue(q) ==
    /\ phase = "queues"
    /\ q \in pending
    /\ queues' = DrainQueue(queues, runs, q)
    /\ pending' = pending \ {q}
    /\ UNCHANGED <<jobs, runs, attempts, phase>>

QueuesRecovered ==
    /\ phase = "queues"
    /\ pending = {}
    /\ phase' = "final"
    /\ UNCHANGED <<store, pending>>

=============================================================================

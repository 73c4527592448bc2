------------------------------- MODULE Retention -------------------------------
(***************************************************************************)
(* RetentionService: physical deletion of terminal history and of the      *)
(* tombstones nothing refers to any more.  A batch is one transaction; it  *)
(* is taken here one row at a time, because a larger batch is a sequence   *)
(* of such steps with nothing in between.  The age of a row and the replay *)
(* records that pin an owner only delay a purge and are left out.          *)
(***************************************************************************)
EXTENDS JobuStore

\* purge_queue_history / delete_selected_terminal: a run goes with its attempts.
PurgeRun(r) ==
    /\ runs[r].state \in TerminalRunStates
    /\ runs' = [runs EXCEPT ![r] = NoRunRow]
    /\ attempts' = [attempts EXCEPT ![r] = << >>]
    /\ UNCHANGED <<queues, jobs>>

\* purge_owner_page, DeletedJob: no run, live or terminal, refers to the job.
PurgeJob(j) ==
    /\ jobs[j].state = "deleted"
    /\ \A r \in Runs : runs[r].job # j
    /\ jobs' = [jobs EXCEPT ![j] = NoJobRow]
    /\ UNCHANGED <<queues, runs, attempts>>

\* purge_owner_page, DeletedQueue: no job and no run refers to the queue.
PurgeQueue(q) ==
    /\ queues[q].state = "deleted"
    /\ \A j \in Jobs : jobs[j].queue # q
    /\ \A r \in Runs : runs[r].queue # q
    /\ queues' = [queues EXCEPT ![q] = NoQueueRow]
    /\ UNCHANGED <<jobs, runs, attempts>>

=============================================================================
